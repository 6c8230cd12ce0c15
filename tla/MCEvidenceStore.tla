---------------------------- MODULE MCEvidenceStore ----------------------------
(* Workers, stores and payloads are interchangeable. *)
EXTENDS EvidenceStore, TLC

Symmetric == Permutations(Workers) \union Permutations(Stores) \union Permutations(Payloads)
=============================================================================
