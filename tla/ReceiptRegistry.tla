---------------------------- MODULE ReceiptRegistry ----------------------------
(***************************************************************************)
(* What a witness promises: it keeps a registry with at most one receipt   *)
(* for each checkpoint (an agent and a sequence number), and a receipt     *)
(* stays in it unaltered until the whole registry, once full, is set       *)
(* aside.  Only damage to the disk takes receipts out otherwise.           *)
(***************************************************************************)
EXTENDS FiniteSets, Naturals

CONSTANT Capacity

VARIABLES registry,  \* the receipts that count
          damage     \* how often the disk has lost some

Checkpoint(r) == <<r.agent, r.seq>>

Init ==
  /\ \A r, s \in registry : Checkpoint(r) = Checkpoint(s) => r = s
  /\ damage = 0

Issue ==
  /\ \E r \in registry' \ registry :
       /\ registry' = registry \union {r}
       /\ \A old \in registry : Checkpoint(old) # Checkpoint(r)
  /\ UNCHANGED damage

SetAside ==
  /\ Cardinality(registry) = Capacity
  /\ registry' = {}
  /\ UNCHANGED damage

Damage ==
  /\ damage' = damage + 1
  /\ registry' \subseteq registry

Next == Issue \/ SetAside \/ Damage

Spec == Init /\ [][Next]_<<registry, damage>>
=============================================================================
