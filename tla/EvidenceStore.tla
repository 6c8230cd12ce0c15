----------------------------- MODULE EvidenceStore -----------------------------
(***************************************************************************)
(* EvidenceStore of ahp/core/evidence.py: payloads kept under their hash   *)
(* in a directory that several threads, and several recorders with a store *)
(* of their own, write and clean up at the same time.  store runs outside  *)
(* the recorder's lock, and nothing else guards the directory: every file  *)
(* operation is a step.  All files have the same size, so a total is a     *)
(* number of files.  The increments of the counters are taken as atomic.   *)
(***************************************************************************)
EXTENDS Integers, FiniteSets

CONSTANTS Workers,          \* the threads that call store
          Stores, Payloads,
          MaxFiles,         \* max_size_bytes, in files
          MaxAge,           \* max_age_seconds
          CleanupInterval,  \* cleanup_interval
          MaxTime,          \* bound: the clock
          MaxCalls,         \* bound: calls of store
          MaxTrouble        \* bound: kills, power losses, failing operations

(* The names mkstemp makes: fresh, as a thread holds one at a time and a   *)
(* kill, which leaves it behind, is trouble.  No hash looks like one.      *)
TempNames == [thread: Workers, trouble: 0 .. MaxTrouble]

ASSUME EvidenceAssumption ==
  /\ IsFiniteSet(Workers) /\ IsFiniteSet(Payloads)
  /\ TempNames \intersect Payloads = {}
  /\ {MaxFiles, MaxAge} \subseteq Nat
  /\ CleanupInterval \in Nat \ {0}
  /\ {MaxTime, MaxCalls, MaxTrouble} \subseteq Nat

VARIABLES
  storeOf,   \* the store each thread uses; never changes
  dir,       \* the directory: name to mtime, and whether the content is whole
  now,       \* the clock
  doing,     \* where each thread is in store
  local,     \* its local variables there: the payload and temp file of store; of
             \* cleanup what it listed and has not looked at, what it found too young
             \* to expire, the limits of time and size, and the files it removed
  count,     \* _file_count of each store
  since,     \* _stores_since_cleanup of each store
  calls,     \* calls of store so far
  trouble,   \* kills, power losses and failing operations so far
  returned,  \* history: payloads whose store has returned
  evicted,   \* history: payloads a cleanup removed
  upsets     \* history: what threads have done to each other's files, and faults

storeVars   == <<count, since>>
historyVars == <<returned, evicted, upsets>>
evidenceVars == <<storeOf, dir, now, doing, local, storeVars, calls, trouble, historyVars>>

NoLocals == [payload |-> 0, temp |-> 0, listed |-> {}, surviving |-> {}, cutoff |-> 0,
             total |-> 0, removed |-> 0]

Temp(t) == [thread |-> t, trouble |-> trouble]
IsTemp(name) == name \notin Payloads

(* Every variable has its type; a thread past mkstemp knows its temp file. *)
EvidenceTypeOK ==
  /\ storeOf \in [Workers -> Stores]
  /\ dir \in [DOMAIN dir -> [mtime: 0 .. now, whole: BOOLEAN]]
  /\ DOMAIN dir \subseteq Payloads \union TempNames
  /\ now \in Nat
  /\ doing \in [Workers -> {"idle", "store", "rename", "expire", "shrink", "dead"}]
  /\ \A t \in Workers :
       /\ doing[t] = "rename" => local[t].temp \in DOMAIN dir \/ "temp removed" \in upsets
       /\ local[t].removed \in 0 .. Cardinality(Payloads \union TempNames)
  /\ since \in [Stores -> 0 .. MaxCalls] /\ count \in [Stores -> Int]
  /\ calls \in 0 .. MaxCalls /\ trouble \in 0 .. MaxTrouble
  /\ returned \subseteq Payloads /\ evicted \subseteq Payloads

(* Stores are made on an empty directory, or on one with old evidence.     *)
EvidenceInit ==
  /\ storeOf \in [Workers -> Stores]
  /\ \E old \in SUBSET Payloads :
       /\ Cardinality(old) <= MaxFiles
       /\ dir = [p \in old |-> [mtime |-> 0, whole |-> TRUE]]
       /\ count = [s \in Stores |-> Cardinality(old)]
  /\ now = MaxAge
  /\ doing = [t \in Workers |-> "idle"] /\ local = [t \in Workers |-> NoLocals]
  /\ since = [s \in Stores |-> 0]
  /\ calls = 0 /\ trouble = 0 /\ returned = {} /\ evicted = {} /\ upsets = {}

Trouble(what) ==
  /\ trouble < MaxTrouble
  /\ trouble' = trouble + 1
  /\ upsets' = upsets \union {what}

Proceed(t, label, locals) ==
  /\ doing' = [doing EXCEPT ![t] = label]
  /\ local' = [local EXCEPT ![t] = locals]

(* store returns the hash, or raises. *)
StoreReturns(t) ==
  /\ Proceed(t, "idle", NoLocals)
  /\ returned' = returned \union {local[t].payload}
StoreRaises(t) == Proceed(t, "idle", NoLocals) /\ UNCHANGED returned

Without(n) == [x \in DOMAIN dir \ {n} |-> dir[x]]
With(n, file) == [x \in DOMAIN dir \union {n} |-> IF x = n THEN file ELSE dir[x]]

-----------------------------------------------------------------------------
(* store                                                                   *)

CallStore(t) ==
  /\ doing[t] = "idle" /\ calls < MaxCalls
  /\ calls' = calls + 1
  /\ \E p \in Payloads : Proceed(t, "store", [NoLocals EXCEPT !.payload = p])
  /\ UNCHANGED <<storeOf, dir, now, storeVars, trouble, historyVars>>

(* Content that is there is not written again, and not made younger.       *)
(* Otherwise a temp file is made and written, perhaps short, as what write *)
(* returns is not looked at, or the call raises.                           *)
Store(t) ==
  /\ doing[t] = "store"
  /\ \/ /\ local[t].payload \in DOMAIN dir
        /\ StoreReturns(t)
        /\ UNCHANGED <<dir, upsets, trouble>>
     \/ /\ local[t].payload \notin DOMAIN dir
        /\ Proceed(t, "rename", [local[t] EXCEPT !.temp = Temp(t)])
        /\ \/ /\ dir' = With(Temp(t), [mtime |-> now, whole |-> TRUE])
              /\ UNCHANGED <<upsets, trouble>>
           \/ /\ Trouble("short write")
              /\ dir' = With(Temp(t), [mtime |-> now, whole |-> FALSE])
        /\ UNCHANGED returned
     \/ /\ local[t].payload \notin DOMAIN dir
        /\ Trouble("write failed")
        /\ StoreRaises(t)
        /\ UNCHANGED dir
  /\ UNCHANGED <<storeOf, now, storeVars, calls, evicted>>

(* cleanup lists the directory and the age of each file, once.             *)
BeginCleanup(t) ==
  Proceed(t, "expire",
       [local[t] EXCEPT !.listed = {[name |-> n, mtime |-> dir'[n].mtime] : n \in DOMAIN dir'},
                        !.cutoff = now - MaxAge])

(* A cleanup has yet to look at the name, and to remove it if there are    *)
(* too many.                                                               *)
Lists(u, name) == \E f \in local[u].listed \union local[u].surviving : f.name = name

(* The rename that gives the content its name, then a cleanup if one is    *)
(* due.                                                                    *)
Renamed(t) ==
  /\ local[t].temp \in DOMAIN dir
  /\ dir' = [x \in (DOMAIN dir \ {local[t].temp}) \union {local[t].payload} |->
               IF x = local[t].payload THEN dir[local[t].temp] ELSE dir[x]]
  /\ count' = [count EXCEPT ![storeOf[t]] = @ + 1]
  /\ since' = [since EXCEPT ![storeOf[t]] = @ + 1]
  /\ upsets' = upsets
       \union (IF local[t].payload \in DOMAIN dir THEN {"stored twice"} ELSE {})
       \union (IF \E u \in Workers : Lists(u, local[t].temp) THEN {"listed renamed"} ELSE {})
  /\ IF since'[storeOf[t]] >= CleanupInterval
     THEN BeginCleanup(t) /\ UNCHANGED returned
     ELSE StoreReturns(t)

TempMissing(t) == local[t].temp \notin DOMAIN dir /\ UNCHANGED <<dir, storeVars, upsets>>

RenameMissingIgnored(t) ==
  /\ doing[t] = "rename"
  /\ Renamed(t) \/ (TempMissing(t) /\ StoreReturns(t))
  /\ UNCHANGED <<storeOf, now, calls, trouble, evicted>>

(* If the temp file is gone store raises, and the caller's action is not   *)
(* recorded.                                                               *)
Rename(t) ==
  /\ doing[t] = "rename"
  /\ Renamed(t) \/ (TempMissing(t) /\ StoreRaises(t))
  /\ UNCHANGED <<storeOf, now, calls, trouble, evicted>>

-----------------------------------------------------------------------------
(* cleanup                                                                 *)

Cleaning(t) == doing[t] \in {"expire", "shrink"}

(* One unlink: the file goes, or the call fails because another cleanup    *)
(* was faster, or for a reason of the system's.                            *)
Unlinks(t, name) ==
  /\ name \in DOMAIN dir
  /\ dir' = Without(name)
  /\ evicted' = evicted \union ({name} \intersect Payloads)
  /\ upsets' = upsets
       \union (IF IsTemp(name) THEN {"temp removed"} ELSE {})
       \union (IF \E u \in Workers \ {t} : Cleaning(u) THEN {"cleanups met"} ELSE {})
  /\ UNCHANGED trouble

UnlinkFails(name) ==
  /\ \/ name \notin DOMAIN dir /\ UNCHANGED <<trouble, upsets>>
     \/ name \in DOMAIN dir /\ Trouble("unlink failed")
  /\ UNCHANGED <<dir, evicted>>

CleanupOnly == UNCHANGED <<storeOf, now, storeVars, calls, returned>>

(* Files past their time go, in the order of the listing; one that cannot  *)
(* be removed counts as surviving.                                         *)
Expire(t) ==
  /\ doing[t] = "expire"
  /\ \E f \in local[t].listed :
       LET seen == [local[t] EXCEPT !.listed = @ \ {f}]
           kept == [seen EXCEPT !.surviving = @ \union {f}]
       IN  \/ /\ f.mtime < seen.cutoff
              /\ Unlinks(t, f.name)
              /\ Proceed(t, "expire", [seen EXCEPT !.removed = @ + 1])
           \/ /\ f.mtime < seen.cutoff
              /\ UnlinkFails(f.name)
              /\ Proceed(t, "expire", kept)
           \/ /\ f.mtime >= seen.cutoff
              /\ Proceed(t, "expire", kept)
              /\ UNCHANGED <<dir, evicted, upsets, trouble>>
  /\ CleanupOnly

Sum(t) ==
  /\ doing[t] = "expire" /\ local[t].listed = {}
  /\ Proceed(t, "shrink", [local[t] EXCEPT !.total = Cardinality(local[t].surviving)])
  /\ CleanupOnly /\ UNCHANGED <<dir, evicted, upsets, trouble>>

ShrinkYoungestFirst(t) ==
  /\ doing[t] = "shrink" /\ local[t].total > MaxFiles
  /\ \E f \in local[t].surviving :
       /\ \A g \in local[t].surviving : f.mtime >= g.mtime
       /\ Unlinks(t, f.name)
       /\ Proceed(t, "shrink", [local[t] EXCEPT !.surviving = @ \ {f}, !.total = @ - 1,
                                             !.removed = @ + 1])
  /\ CleanupOnly

(* While the total is above the limit the oldest file goes; an unlink that *)
(* fails leaves the total as it is.                                        *)
Shrink(t) ==
  /\ doing[t] = "shrink" /\ local[t].total > MaxFiles
  /\ \E f \in local[t].surviving :
       LET seen == [local[t] EXCEPT !.surviving = @ \ {f}]
       IN  /\ \A g \in local[t].surviving : f.mtime <= g.mtime
           /\ \/ /\ Unlinks(t, f.name)
                 /\ Proceed(t, "shrink", [seen EXCEPT !.total = @ - 1, !.removed = @ + 1])
              \/ UnlinkFails(f.name) /\ Proceed(t, "shrink", seen)
  /\ CleanupOnly

(* The cached count is lowered, and store returns. *)
Finish(t) ==
  /\ doing[t] = "shrink"
  /\ local[t].total <= MaxFiles \/ local[t].surviving = {}
  /\ count' = [count EXCEPT ![storeOf[t]] = @ - local[t].removed]
  /\ since' = [since EXCEPT ![storeOf[t]] = 0]
  /\ StoreReturns(t)
  /\ UNCHANGED <<storeOf, dir, now, calls, trouble, evicted, upsets>>

-----------------------------------------------------------------------------
Tick ==
  /\ now < MaxTime /\ now' = now + 1
  /\ UNCHANGED <<storeOf, dir, doing, local, storeVars, calls, trouble, historyVars>>

Stop(stopped) ==
  /\ \E t \in stopped : doing[t] # "dead"
  /\ doing' = [t \in Workers |-> IF t \in stopped THEN "dead" ELSE doing[t]]
  /\ local' = [t \in Workers |-> IF t \in stopped THEN NoLocals ELSE local[t]]
  /\ UNCHANGED <<storeOf, now, storeVars, calls, returned, evicted>>

UsersOf(s) == {t \in Workers : storeOf[t] = s}

(* A process dies, with every thread of its store. *)
Kill(s) ==
  /\ Trouble("killed")
  /\ Stop(UsersOf(s))
  /\ UNCHANGED dir

(* Nothing is synced: after a power loss a file may have its name and not  *)
(* its content.                                                            *)
PowerLoss ==
  /\ Trouble("power lost")
  /\ Stop(Workers)
  /\ \E lost \in SUBSET DOMAIN dir :
       dir' = [n \in DOMAIN dir |-> [dir[n] EXCEPT !.whole = @ /\ n \notin lost]]

(* __init__ counts whatever is in the directory, temp files too. *)
Restart(s) ==
  /\ \E t \in UsersOf(s) : doing[t] = "dead"
  /\ doing' = [t \in Workers |-> IF storeOf[t] = s THEN "idle" ELSE doing[t]]
  /\ count' = [count EXCEPT ![s] = Cardinality(DOMAIN dir)]
  /\ since' = [since EXCEPT ![s] = 0]
  /\ UNCHANGED <<storeOf, dir, now, local, calls, trouble, historyVars>>

EvidenceNext ==
  \/ \E t \in Workers :
       CallStore(t) \/ Store(t) \/ Rename(t) \/ Expire(t) \/ Sum(t) \/ Shrink(t) \/ Finish(t)
  \/ \E s \in Stores : Kill(s) \/ Restart(s)
  \/ PowerLoss \/ Tick

EvidenceSpec == EvidenceInit /\ [][EvidenceNext]_evidenceVars

-----------------------------------------------------------------------------
(* retrieve and verify.                                                    *)
Verify(p) == p \in DOMAIN dir /\ dir[p].whole

(* Once store has returned, the payload can be retrieved and verified      *)
(* until a cleanup removes it, however many threads store and clean up;    *)
(* only a short write or a power loss gives a name to less than the        *)
(* content.                                                                *)
ReturnedEvidenceKept ==
  \A p \in returned :
    Verify(p) \/ p \in evicted \/ upsets \intersect {"short write", "power lost"} # {}

Interference == {"stored twice", "temp removed", "cleanups met", "killed", "power lost"}

(* The cached count is the number of files, when everyone is done, for one *)
(* store whose threads did not store the same payload or clean up at the   *)
(* same time and were never killed.                                        *)
CountMatches ==
  \A s \in Stores :
    (/\ \A t \in Workers : doing[t] = "idle" /\ storeOf[t] = s
     /\ upsets \intersect Interference = {})
    => count[s] = Cardinality(DOMAIN dir)

(* The store: well formed, it keeps what it returned, and its count is right. *)
StoreInv == EvidenceTypeOK /\ ReturnedEvidenceKept /\ CountMatches

(* A cleanup that runs alone leaves no more files than the limit, if it    *)
(* could remove what it wanted to, and it stops at the limit: for the sake *)
(* of size a file goes only when there are more than the limit, and an     *)
(* older one only before a younger one.  Alone means that no store renamed *)
(* a temp file that was listed: its content then outlives younger files.   *)
EvictsOldestWhenOver ==
  [][\A t \in Workers :
       (/\ doing[t] = "shrink" /\ local'[t].removed > local[t].removed
        /\ upsets' \intersect (Interference \union {"listed renamed", "unlink failed"}) = {})
       => /\ Cardinality(DOMAIN dir) > MaxFiles
          /\ \A n \in DOMAIN dir \ DOMAIN dir', m \in DOMAIN dir' : dir[n].mtime <= dir[m].mtime
    ]_evidenceVars

(* store fails only if a file operation of its own fails.                  *)
StoreOutlivesCleanup == "temp removed" \notin upsets
=============================================================================
