------------------------------ MODULE MCTracing ------------------------------
(* Tracing for model checking: the tasks, the spans and the runs are       *)
(* each alike.                                                             *)
EXTENDS Tracing, TLC

Symmetry == Permutations(Tasks) \union Permutations(Spans) \union Permutations(Runs)
=============================================================================
