------------------------------- MODULE AuditLog -------------------------------
(***************************************************************************)
(* What a chain promises its readers.  The readable records form a log     *)
(* that grows one linked record at a time; fsync makes a prefix durable; a *)
(* crash may cut the log back, but never into that prefix; nothing else    *)
(* removes or alters a record.                                             *)
(***************************************************************************)
EXTENDS ChainFile

CONSTANT MayStartOver  \* a BOOT record may begin a second chain in the log

VARIABLES log,      \* the readable records
          durable,  \* how many of them survive any crash
          crashes   \* crashes so far

Init == log = <<>> /\ durable = 0 /\ crashes = 0

Joins(rec) ==
  \/ rec.prev = LastHash(log)
  \/ MayStartOver /\ rec.type = "BOOT" /\ rec.prev = ZeroHash

(* A record joins the log only with the hash of the one before it, unless  *)
(* it starts a chain over.                                                 *)
Extend ==
  /\ Len(log') = Len(log) + 1
  /\ SubSeq(log', 1, Len(log)) = log
  /\ Joins(log'[Len(log')])
  /\ durable' \in durable .. Len(log')
  /\ UNCHANGED crashes

Sync ==
  /\ durable' \in durable .. Len(log)
  /\ UNCHANGED <<log, crashes>>

Crash ==
  /\ crashes' = crashes + 1
  /\ \E n \in durable .. Len(log) : log' = SubSeq(log, 1, n)
  /\ UNCHANGED durable

Next == Extend \/ Sync \/ Crash

Spec == Init /\ [][Next]_<<log, durable, crashes>>
=============================================================================
