----------------------------- MODULE MCProcessLock -----------------------------
(* ProcessLock with the processes as model values.                         *)
EXTENDS ProcessLock, TLC

(* Processes differ only by name, so safety runs need one of each renaming. *)
ProcSymmetry == Permutations(Procs)
===============================================================================
