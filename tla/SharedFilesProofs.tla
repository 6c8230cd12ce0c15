-------------------------- MODULE SharedFilesProofs --------------------------
(***************************************************************************)
(* Theorems about the files that several processes share: ProcessLock, for *)
(* any set of processes and any bounds, and EvidenceStore, for any threads *)
(* on any stores on one directory, any payloads, limits and troubles.      *)
(***************************************************************************)
EXTENDS ProcessLock, EvidenceStore, ChainFileProofs, FunctionTheorems

-----------------------------------------------------------------------------
(* ProcessLock: types.                                                     *)

(* The initial state has the types. *)
LEMMA TypeInit ==
  ASSUME Init PROVE TypeOK
<1>1. file \in Seq(Frame)
  BY EmptySeq DEF Init
<1>2. inodes \in 0 .. MaxInodes
  BY LockAssumption DEF Init
<1>3. /\ scanned \in [Procs -> Nat]
      /\ head \in [Procs -> [hash: Nat, seq: Nat]]
      /\ nextId \in Nat \ {0} /\ written \subseteq Nat
  BY DEF Init, ZeroHash
<1> QED BY <1>1, <1>2, <1>3 DEF Init, TypeOK, Label

(* Every step of every process keeps the types. *)
LEMMA TypeStep ==
  ASSUME TypeOK, [Next]_vars PROVE TypeOK'
<1> USE LockAssumption DEF TypeOK, Goto, Label
<1>1. CASE UNCHANGED vars
  BY <1>1 DEF vars
<1>2. ASSUME NEW p \in Procs, Scan(p) PROVE TypeOK'
  <2>1. Readable(file) \in Seq(Frame) /\ Len(Readable(file)) \in Nat
    BY ReadableType, ReadableLenType, LenProperties
  <2>2. LastHash(Readable(file)) \in Nat /\ LastSeq(Readable(file)) \in Nat
    BY <2>1, LastType
  <2> QED BY <1>2, <2>1, <2>2 DEF Scan
<1>3. ASSUME NEW p \in Procs, Stat(p) PROVE TypeOK'
  BY <1>3 DEF Stat
<1>4. ASSUME NEW p \in Procs, Truncate(p) PROVE TypeOK'
  <2>1. file' \in Seq(Frame)
    <3>1. CASE scanned[p] <= Len(file)
      BY <1>4, <3>1, SubSeqProperties, LenProperties DEF Truncate
    <3>2. CASE ~(scanned[p] <= Len(file))
      <4>1. Torn \in Frame
        BY DEF Frame
      <4> QED BY <1>4, <3>2, <4>1, AppendProperties DEF Truncate
    <3> QED BY <3>1, <3>2
  <2> QED BY <1>4, <2>1 DEF Truncate
<1>5. ASSUME NEW p \in Procs, OpenLock(p) PROVE TypeOK'
  <2>1. CASE lockPath = NoInode
    <3>1. inodes + 1 \in Inodes /\ inodes + 1 \in 0 .. MaxInodes
      BY <1>5, <2>1 DEF OpenLock, Inodes
    <3> QED BY <1>5, <2>1, <3>1 DEF OpenLock
  <2>2. CASE lockPath # NoInode
    BY <1>5, <2>2 DEF OpenLock
  <2> QED BY <2>1, <2>2
<1>6. ASSUME NEW p \in Procs, Flock(p) PROVE TypeOK'
  BY <1>6 DEF Flock
<1>7. ASSUME NEW p \in Procs, WriteHeader(p) PROVE TypeOK'
  BY <1>7, EmptySeq DEF WriteHeader
<1>8. ASSUME NEW p \in Procs, WriteRecord(p) PROVE TypeOK'
  <2> DEFINE rec == [id |-> nextId, type |-> "ACTION", seq |-> head[p].seq + 1,
                     prev |-> head[p].hash, ts |-> 0, body |-> NoBody]
  <2>1. rec \in Frame
    BY DEF Frame, Record, RecordType, Body, NoBody
  <2>2. Append(file, rec) \in Seq(Frame)
    BY <2>1, AppendProperties
  <2> QED BY <1>8, <2>2 DEF WriteRecord
<1>9. ASSUME NEW p \in Procs, Unlock(p) PROVE TypeOK'
  BY <1>9 DEF Unlock
<1>10. ASSUME NEW p \in Procs, Unlink(p) PROVE TypeOK'
  BY <1>10 DEF Unlink
<1>11. ASSUME NEW p \in Procs, Die(p) PROVE TypeOK'
  BY <1>11 DEF Die
<1> QED
  BY <1>1, <1>2, <1>3, <1>4, <1>5, <1>6, <1>7, <1>8, <1>9, <1>10, <1>11 DEF Next, Starting

-----------------------------------------------------------------------------
(* Who holds the lock.                                                     *)

(* Whoever is live holds the lock file it has open, and nobody else holds  *)
(* one; and until one is unlinked, all that is open is what the path names.*)
LockAgrees ==
  /\ \A p \in Procs : pc[p] \in {"flock", "header", "live"} => opened[p] # NoInode
  /\ \A p \in Live : holder[opened[p]] = p
  /\ \A i \in Inodes : holder[i] # NoProc => holder[i] \in Live /\ opened[holder[i]] = i
  /\ ~unlinked => \A p \in Procs : opened[p] # NoInode => opened[p] = lockPath

(* Before any process starts, nothing is locked and nothing is open. *)
LEMMA LockAgreesInit ==
  ASSUME Init PROVE LockAgrees
BY DEF Init, LockAgrees, Live

(* Every step keeps processes, open lock files and flock holders in agreement. *)
LEMMA LockAgreesStep ==
  ASSUME TypeOK, LockAgrees, [Next]_vars PROVE LockAgrees'
<1> USE LockAssumption DEF TypeOK, LockAgrees, Goto, Live, NoInode
<1>1. CASE UNCHANGED vars
  BY <1>1 DEF vars
<1>2. ASSUME NEW p \in Procs, Scan(p) PROVE LockAgrees'
  BY <1>2 DEF Scan
<1>3. ASSUME NEW p \in Procs, Stat(p) PROVE LockAgrees'
  BY <1>3 DEF Stat
<1>4. ASSUME NEW p \in Procs, Truncate(p) PROVE LockAgrees'
  BY <1>4 DEF Truncate
<1>5. ASSUME NEW p \in Procs, OpenLock(p) PROVE LockAgrees'
  <2>1. CASE lockPath = NoInode
    <3>1. inodes + 1 # NoInode
      BY DEF TypeOK
    <3>2. ~unlinked => \A q \in Procs : opened[q] = NoInode
      BY <2>1
    <3> QED BY <1>5, <2>1, <3>1, <3>2 DEF OpenLock
  <2>2. CASE lockPath # NoInode
    <3>1. /\ pc[p] = "openLock" /\ pc' = [pc EXCEPT ![p] = "flock"]
          /\ opened' = [opened EXCEPT ![p] = lockPath]
          /\ UNCHANGED <<holder, lockPath, unlinked>>
      BY <1>5, <2>2 DEF OpenLock
    <3> QED BY <2>2, <3>1
  <2> QED BY <2>1, <2>2
<1>6. ASSUME NEW p \in Procs, Flock(p) PROVE LockAgrees'
  <2>1. opened[p] \in Inodes /\ UNCHANGED <<lockPath, unlinked>> /\ pc[p] = "flock"
    BY <1>6 DEF Flock
  <2>2. CASE holder[opened[p]] = NoProc
    <3>1. /\ pc'[p] \in {"header", "live"} /\ \A q \in Procs \ {p} : pc'[q] = pc[q]
          /\ holder' = [holder EXCEPT ![opened[p]] = p] /\ UNCHANGED opened
      BY <1>6, <2>2 DEF Flock
    <3>2. \A q \in Live : q # p /\ opened[q] # opened[p]
      BY <2>1, <2>2
    <3>3. \A q \in Procs : pc'[q] \in {"flock", "header", "live"} => opened[q] # NoInode
      BY <2>1, <3>1
    <3>4. \A q \in Live' : holder'[opened[q]] = q
      BY <2>1, <3>1, <3>2
    <3>5. \A i \in Inodes : holder'[i] # NoProc => holder'[i] \in Live' /\ opened[holder'[i]] = i
      <4> TAKE i \in Inodes
      <4>1. CASE i = opened[p]
        BY <2>1, <3>1, <4>1
      <4>2. CASE i # opened[p]
        <5>1. holder'[i] = holder[i]
          BY <3>1, <4>2
        <5>2. holder[i] # NoProc => holder[i] \in Live /\ holder[i] # p /\ opened[holder[i]] = i
          BY <2>1
        <5>3. holder[i] \in Live => holder[i] \in Live'
          BY <2>1, <3>1
        <5> QED BY <5>1, <5>2, <5>3
      <4> QED BY <4>1, <4>2
    <3> QED BY <2>1, <3>1, <3>3, <3>4, <3>5
  <2>3. CASE holder[opened[p]] # NoProc
    <3>1. /\ pc' = [pc EXCEPT ![p] = "idle"]
          /\ opened' = [opened EXCEPT ![p] = NoInode] /\ UNCHANGED holder
      BY <1>6, <2>3 DEF Flock
    <3> QED BY <2>1, <3>1
  <2> QED BY <2>2, <2>3
<1>7. ASSUME NEW p \in Procs, WriteHeader(p) PROVE LockAgrees'
  BY <1>7 DEF WriteHeader
<1>8. ASSUME NEW p \in Procs, WriteRecord(p) PROVE LockAgrees'
  BY <1>8 DEF WriteRecord
<1>9. ASSUME NEW p \in Procs, Unlock(p) PROVE LockAgrees'
  BY <1>9 DEF Unlock
<1>10. ASSUME NEW p \in Procs, Unlink(p) PROVE LockAgrees'
  <2>1. ~unlinked' => \A q \in Procs : opened[q] = NoInode
    BY <1>10 DEF Unlink
  <2>2. \A q \in Procs : pc[q] = pc'[q] \/ (pc[q] = "unlink" /\ pc'[q] = "idle")
    BY <1>10 DEF Unlink
  <2> QED BY <1>10, <2>1, <2>2 DEF Unlink
<1>11. ASSUME NEW p \in Procs, Die(p) PROVE LockAgrees'
  BY <1>11 DEF Die
<1> QED
  BY <1>1, <1>2, <1>3, <1>4, <1>5, <1>6, <1>7, <1>8, <1>9, <1>10, <1>11 DEF Next, Starting

(* The agreement leaves room for one live writer. *)
LEMMA OneWriter ==
  ASSUME TypeOK, LockAgrees PROVE OneWriterUnlessUnlinked
<1> SUFFICES ASSUME ~unlinked PROVE Cardinality(Live) <= 1
  BY DEF OneWriterUnlessUnlinked
<1>1. \A p, q \in Live : p = q
  BY DEF LockAgrees, Live
<1>2. CASE Live = {}
  BY <1>2, FS_EmptySet
<1>3. CASE Live # {}
  <2>1. PICK p \in Live : TRUE
    BY <1>3
  <2>2. Live = {p}
    BY <1>1, <2>1
  <2>3. Cardinality({p}) = 1
    BY FS_Singleton
  <2> QED BY <2>2, <2>3
<1> QED BY <1>2, <1>3

(* Close and crash leave at most one writer, for any number of processes,  *)
(* until a lock file somebody has open is unlinked (chain.py:110-151).     *)
THEOREM LockHolds == Spec => []LockInv
<1>1. Init => TypeOK /\ LockAgrees
  BY TypeInit, LockAgreesInit
<1>2. TypeOK /\ LockAgrees /\ [Next]_vars => TypeOK' /\ LockAgrees'
  BY TypeStep, LockAgreesStep
<1>3. TypeOK /\ LockAgrees => LockInv
  BY OneWriter DEF LockInv
<1> QED BY <1>1, <1>2, <1>3, PTL DEF Spec

(* A process that is refused is refused by a live writer, never by what a  *)
(* crashed or closed one left behind, also after unlinks (chain.py:110).   *)
THEOREM RefusalsAreRight == Spec => RefusedByLiveWriter
<1>1. Init => TypeOK /\ LockAgrees
  BY TypeInit, LockAgreesInit
<1>2. TypeOK /\ LockAgrees /\ [Next]_vars => TypeOK' /\ LockAgrees'
  BY TypeStep, LockAgreesStep
<1>3. TypeOK /\ LockAgrees =>
        \A p \in Procs :
          pc[p] = "flock" /\ pc'[p] = "idle" /\ holder[opened[p]] # NoProc
            => holder[opened[p]] \in Live
  BY DEF TypeOK, LockAgrees, NoInode
<1>4. TypeOK /\ LockAgrees /\ [Next]_vars =>
        [\A p \in Procs :
           pc[p] = "flock" /\ pc'[p] = "idle" /\ holder[opened[p]] # NoProc
             => holder[opened[p]] \in Live]_vars
  BY <1>3
<1> QED BY <1>1, <1>2, <1>4, PTL DEF Spec, RefusedByLiveWriter

-----------------------------------------------------------------------------
(* Recorders that follow one another.                                      *)

Ids(fs) == {fs[i].id : i \in 1 .. Len(fs)}

(* Until two recorders overlap, one process at a time is at work, nothing  *)
(* of the file is lost or damaged, and what the process has read, or has   *)
(* as its head, is the file's end; it makes a header only for a new file.  *)
Follows ==
  ~overlapped =>
    /\ \A p, q \in Procs : pc[p] # "idle" /\ pc[q] # "idle" => p = q
    /\ Verifies(file, FALSE)
    /\ written = Ids(file)
    /\ ~exists => file = <<>>
    /\ \A p \in Procs :
         /\ pc[p] # "truncate"
         /\ pc[p] = "stat" => scanned[p] = Len(file)
         /\ pc[p] = "header" => ~exists
         /\ pc[p] = "live" => exists
         /\ pc[p] \in {"stat", "openLock", "flock", "header", "live"} =>
              head[p].hash = LastHash(file) /\ head[p].seq = LastSeq(file)

(* A path with no chain file yet can be followed. *)
LEMMA FollowsInit ==
  ASSUME Init PROVE Follows
<1>1. Len(<<>>) = 0
  BY EmptySeq
<1>2. Verifies(<<>>, FALSE) /\ Ids(<<>>) = {}
  BY <1>1 DEF Verifies, Damaged, Ids
<1> QED BY <1>2 DEF Init, Follows

(* Every step keeps the next recorder where the last one stopped. *)
LEMMA FollowsStep ==
  ASSUME TypeOK, Follows, [Next]_vars PROVE Follows'
<1> SUFFICES ASSUME ~overlapped' PROVE Follows'
  BY DEF Follows
<1> USE DEF Goto
<1>pc. pc \in [Procs -> Label] /\ file \in Seq(Frame)
  BY DEF TypeOK
<1>1. CASE UNCHANGED vars
  BY <1>1 DEF vars, Follows
<1>2. ASSUME NEW p \in Procs, Scan(p) PROVE Follows'
  <2>1. ~overlapped /\ \A q \in Procs : pc[q] = "idle"
    BY <1>2 DEF Scan
  <2>2. Readable(file) = file
    BY <1>pc, <2>1, ReadableType DEF Follows, Verifies
  <2>3. /\ pc' = [pc EXCEPT ![p] = IF exists THEN "stat" ELSE "openLock"]
        /\ scanned'[p] = Len(file)
        /\ head'[p].hash = LastHash(file) /\ head'[p].seq = LastSeq(file)
        /\ UNCHANGED <<exists, file, written>>
    BY <1>2, <2>2 DEF Scan, TypeOK
  <2>4. \A q \in Procs : q # p => pc'[q] = "idle"
    BY <1>pc, <2>1, <2>3
  <2>5. pc'[p] \in {"stat", "openLock"}
    BY <1>pc, <2>3
  <2> QED BY <2>1, <2>3, <2>4, <2>5 DEF Follows
<1>3. ASSUME NEW p \in Procs, Stat(p) PROVE Follows'
  <2>1. ~overlapped /\ pc[p] = "stat" /\ scanned[p] = Len(file) /\ Len(file) \in Nat
    BY <1>3, <1>pc, LenProperties DEF Stat, Follows
  <2>2. /\ pc' = [pc EXCEPT ![p] = "openLock"]
        /\ UNCHANGED <<exists, file, scanned, head, written>>
    <3>1. ~(Len(file) > scanned[p])
      BY <2>1
    <3>2. pc' = [pc EXCEPT ![p] = IF Len(file) > scanned[p] THEN "truncate" ELSE "openLock"]
      BY <1>3 DEF Stat
    <3>3. UNCHANGED <<exists, file, scanned, head, written>>
      BY <1>3 DEF Stat
    <3> QED BY <3>1, <3>2, <3>3
  <2> QED BY <1>pc, <2>1, <2>2 DEF Follows
<1>4. ASSUME NEW p \in Procs, Truncate(p) PROVE Follows'
  BY <1>4 DEF Truncate, Follows
<1>5. ASSUME NEW p \in Procs, OpenLock(p) PROVE Follows'
  <2>1. /\ pc[p] = "openLock" /\ pc' = [pc EXCEPT ![p] = "flock"] /\ ~overlapped
        /\ UNCHANGED <<exists, file, scanned, head, written>>
    BY <1>5 DEF OpenLock
  <2> QED BY <1>pc, <2>1 DEF Follows
<1>6. ASSUME NEW p \in Procs, Flock(p) PROVE Follows'
  <2>1. /\ pc[p] = "flock" /\ ~overlapped
        /\ pc' = [pc EXCEPT ![p] = IF exists THEN "live" ELSE "header"]
           \/ pc' = [pc EXCEPT ![p] = "idle"]
        /\ UNCHANGED <<exists, file, scanned, head, written>>
    BY <1>6 DEF Flock
  <2> QED BY <1>pc, <2>1 DEF Follows
<1>7. ASSUME NEW p \in Procs, WriteHeader(p) PROVE Follows'
  <2>1. /\ pc[p] = "header" /\ ~overlapped
        /\ pc' = [pc EXCEPT ![p] = "live"] /\ exists' = TRUE /\ file' = <<>>
        /\ UNCHANGED <<scanned, head, written>>
    BY <1>7 DEF WriteHeader
  <2>2. file' = file
    BY <2>1 DEF Follows
  <2> QED BY <1>pc, <2>1, <2>2 DEF Follows
<1>8. ASSUME NEW p \in Procs, WriteRecord(p) PROVE Follows'
  <2> DEFINE rec == [id |-> nextId, type |-> "ACTION", seq |-> head[p].seq + 1,
                     prev |-> head[p].hash, ts |-> 0, body |-> NoBody]
  <2>1. /\ pc[p] = "live" /\ ~overlapped /\ file' = Append(file, rec)
        /\ head' = [head EXCEPT ![p] = [hash |-> nextId, seq |-> @.seq + 1]]
        /\ written' = written \union {nextId}
        /\ UNCHANGED <<pc, exists, scanned>>
    BY <1>8 DEF WriteRecord
  <2>2. rec \in Record /\ rec \in Frame
    BY DEF TypeOK, Frame, Record, RecordType, Body, NoBody
  <2>3. head[p].hash = LastHash(file) /\ head[p].seq = LastSeq(file)
    BY <2>1 DEF Follows
  <2>4. Verifies(file', FALSE)
    <3>1. rec.type = "ACTION" /\ rec.prev = LastHash(file) /\ rec.seq = LastSeq(file) + 1
      BY <2>3
    <3>2. Continues(file, rec)
      BY <3>1 DEF Continues
    <3> QED BY <1>pc, <2>1, <2>2, <3>2, AppendVerifies DEF Follows
  <2> HIDE DEF rec
  <2>5. /\ Len(file) \in Nat /\ Len(file') = Len(file) + 1 /\ file'[Len(file) + 1] = rec
        /\ \A i \in 1 .. Len(file) : file'[i] = file[i]
    BY <1>pc, <2>1, <2>2, LenProperties, AppendProperties
  <2>6. rec.id = nextId /\ rec.seq = head[p].seq + 1
    BY DEF rec
  <2>7. Ids(file') = Ids(file) \union {nextId}
    BY <2>5, <2>6 DEF Ids
  <2>8. LastHash(file') = nextId /\ LastSeq(file') = head[p].seq + 1
    <3>1. file' # <<>>
      BY <2>5, EmptySeq
    <3> QED BY <2>5, <2>6, <3>1 DEF LastHash, LastSeq, Hash
  <2>9. head'[p].hash = nextId /\ head'[p].seq = head[p].seq + 1
    BY <2>1 DEF TypeOK
  <2>10. \A q \in Procs : q # p => pc'[q] = "idle"
    BY <2>1 DEF Follows
  <2> QED BY <2>1, <2>4, <2>7, <2>8, <2>9, <2>10 DEF Follows
<1>9. ASSUME NEW p \in Procs, Unlock(p) PROVE Follows'
  BY <1>9, <1>pc DEF Unlock, Follows
<1>10. ASSUME NEW p \in Procs, Unlink(p) PROVE Follows'
  BY <1>10, <1>pc DEF Unlink, Follows
<1>11. ASSUME NEW p \in Procs, Die(p) PROVE Follows'
  BY <1>11, <1>pc DEF Die, Follows
<1> QED
  BY <1>1, <1>2, <1>3, <1>4, <1>5, <1>6, <1>7, <1>8, <1>9, <1>10, <1>11 DEF Next, Starting

(* Recorders that follow one another on a path, however each of them ends, *)
(* make one chain with every record in it (recorder.py:121, chain.py:50).  *)
THEOREM SuccessionHolds == Spec => []SuccessionKeepsChain
<1>1. Init => TypeOK /\ Follows
  BY TypeInit, FollowsInit
<1>2. TypeOK /\ Follows /\ [Next]_vars => TypeOK' /\ Follows'
  BY TypeStep, FollowsStep
<1>3. Follows => SuccessionKeepsChain
  BY DEF Follows, SuccessionKeepsChain, Ids
<1> QED BY <1>1, <1>2, <1>3, PTL DEF Spec

-----------------------------------------------------------------------------
(* EvidenceStore: the inductive invariant.                                 *)

(* What files of the evidence directory are called: the digest of a        *)
(* payload, or a temp name.                                                *)
Names == Payloads \union TempNames

(* A file as a cleanup listed it.                                          *)
FileSeen == [name: Names, mtime: Nat]

(* The local variables of each thread are what its place in store needs;   *)
(* what a cleanup removed and what it still has to look at are no more     *)
(* than there are names.                                                   *)
LocalsFit(t) ==
  /\ local[t] \in [payload: {local[t].payload}, temp: {local[t].temp},
                   listed: SUBSET FileSeen, surviving: SUBSET FileSeen,
                   cutoff: Int, total: Int, removed: Nat]
  /\ IsFiniteSet(local[t].listed) /\ IsFiniteSet(local[t].surviving)
  /\ local[t].removed + Cardinality(local[t].listed) + Cardinality(local[t].surviving)
       <= Cardinality(Names)
  /\ ~Cleaning(t) => /\ local[t].listed = {} /\ local[t].surviving = {}
                     /\ local[t].removed = 0
  /\ doing[t] \in {"store", "rename"} \/ Cleaning(t) => local[t].payload \in Payloads
  /\ doing[t] = "rename" => local[t].temp \in TempNames /\ local[t].temp.thread = t
  /\ doing[t] = "shrink" => local[t].listed = {}

(* ... of each thread there is.                                            *)
LocalsInv ==
  /\ local = [t \in Workers |-> local[t]]
  /\ \A t \in Workers : LocalsFit(t)

(* The threads that are storing a payload and have not come to the         *)
(* cleanup.                                                                *)
InStore == {t \in Workers : doing[t] \in {"store", "rename"}}

(* Every store since the last cleanup was a call, and so is one in store.  *)
SinceInv == \A s \in Stores : since[s] + Cardinality(InStore) <= calls

(* A temp file is in the directory because its thread is about to rename   *)
(* it, or because of some trouble since.                                   *)
TempsInv ==
  \A n \in TempNames : n \in DOMAIN dir =>
    /\ n.trouble <= trouble
    /\ n.trouble = trouble => doing[n.thread] = "rename" /\ local[n.thread].temp = n

(* A payload that is on disk, or was removed by a cleanup.                 *)
Safe(p) == p \in DOMAIN dir \/ p \in evicted

(* What was returned, or will be by a cleaning thread, is in the directory *)
(* or was evicted, and whole unless something keeps content from a file.   *)
KeptInv ==
  /\ upsets \intersect {"short write", "power lost"} = {} => \A n \in DOMAIN dir : dir[n].whole
  /\ \A p \in returned : Safe(p)
  /\ \A t \in Workers : Cleaning(t) => Safe(local[t].payload)

(* The threads of a store die together. *)
DeathsInv ==
  /\ \A t \in Workers : doing[t] = "dead" => upsets \intersect {"killed", "power lost"} # {}
  /\ \A t, u \in Workers : storeOf[t] = storeOf[u] /\ doing[t] = "dead" => doing[u] = "dead"

(* The threads with a temp file of their own.                              *)
Renaming == {t \in Workers : doing[t] = "rename"}

(* owed: what cleanups removed and have not taken off the count. *)
Owed(owed) ==
  /\ \A t \in Workers : local[t].removed \in {0, owed}
  /\ owed # 0 => \E t \in Workers : local[t].removed = owed

(* Until two cleanups meet one thread at a time has removals to take off;  *)
(* and while nothing interferes, the one store on the directory counts its *)
(* files, with what is owed, and without the temp files.                   *)
CountInv ==
  /\ "cleanups met" \notin upsets =>
       \A t, u \in Workers : local[t].removed # 0 /\ local[u].removed # 0 => t = u
  /\ \A s \in Stores :
       (\A t \in Workers : storeOf[t] = s) /\ upsets \intersect Interference = {} =>
         \E owed \in 0 .. Cardinality(Names) :
            /\ count[s] = Cardinality(DOMAIN dir) - Cardinality(Renaming) + owed
            /\ Owed(owed)

(* What can put a listing out of date.                                     *)
Upset == Interference \union {"listed renamed", "unlink failed"}

(* The files a cleaning thread has yet to decide about.                    *)
ToSee(t) == local[t].listed \union local[t].surviving

(* They are in the directory as they were listed, each once, and nothing   *)
(* in the directory that is not among them is older.                       *)
ListingAgrees(t) ==
  /\ \A f \in ToSee(t) : f.name \in DOMAIN dir /\ dir[f.name].mtime = f.mtime
  /\ \A f, g \in ToSee(t) : f.name = g.name => f = g
  /\ local[t].listed \intersect local[t].surviving = {}
  /\ \A n \in DOMAIN dir : ~Lists(t, n) => \A f \in ToSee(t) : f.mtime <= dir[n].mtime
  /\ doing[t] = "shrink" => local[t].total = Cardinality(local[t].surviving)

(* ... for every cleaning thread, unless something has put listings out of *)
(* date.                                                                   *)
ListingInv ==
  upsets \intersect Upset = {} => \A t \in Workers : Cleaning(t) => ListingAgrees(t)

(* The inductive invariant: types, locals, counters, temp files, what is   *)
(* kept, deaths, counts and listings.                                      *)
EvidenceInv ==
  /\ EvidenceTypeOK /\ LocalsInv /\ SinceInv /\ TempsInv /\ KeptInv /\ DeathsInv
  /\ CountInv /\ ListingInv

-----------------------------------------------------------------------------
(* Names, and sets of files.                                               *)

(* There are finitely many names. *)
LEMMA NamesFinite ==
  IsFiniteSet(Names) /\ Cardinality(Names) \in Nat
<1> USE EvidenceAssumption
<1>1. IsFiniteSet(Workers \X (0 .. MaxTrouble))
  <2>1. MaxTrouble \in Int /\ 0 \in Int
    OBVIOUS
  <2> QED BY <2>1, FS_Product, FS_Interval
<1>2. IsFiniteSet(TempNames)
  <2> DEFINE pair == [n \in TempNames |-> <<n.thread, n.trouble>>]
  <2>1. pair \in [TempNames -> Workers \X (0 .. MaxTrouble)]
    BY DEF TempNames
  <2>2. \A m, n \in TempNames : pair[m] = pair[n] => m = n
    BY DEF TempNames
  <2>3. pair \in Injection(TempNames, Workers \X (0 .. MaxTrouble))
    BY <2>1, <2>2 DEF Injection, IsInjective
  <2> QED BY <2>3, <1>1, FS_Injection
<1>3. IsFiniteSet(Names)
  BY <1>2, FS_Union DEF Names
<1> QED BY <1>3, FS_CardinalityType

(* The directory has finitely many files. *)
LEMMA DirFinite ==
  ASSUME EvidenceTypeOK PROVE IsFiniteSet(DOMAIN dir) /\ Cardinality(DOMAIN dir) \in Nat
BY NamesFinite, FS_Subset, FS_CardinalityType DEF EvidenceTypeOK, Names

(* The listing of a directory has as many entries as the directory. *)
LEMMA ListingSize ==
  ASSUME NEW d, IsFiniteSet(DOMAIN d)
  PROVE  LET L == {[name |-> n, mtime |-> d[n].mtime] : n \in DOMAIN d}
         IN  IsFiniteSet(L) /\ Cardinality(L) \in Nat /\ Cardinality(L) <= Cardinality(DOMAIN d)
<1> DEFINE L == {[name |-> n, mtime |-> d[n].mtime] : n \in DOMAIN d}
           names == [f \in L |-> f.name]
<1>1. names \in Injection(L, DOMAIN d)
  BY DEF Injection, IsInjective
<1> QED BY <1>1, FS_Injection, FS_CardinalityType

(* The limits are numbers. *)
LEMMA LimitsTyped ==
  MaxAge \in Nat /\ MaxFiles \in Nat /\ MaxTrouble \in Nat
<1> USE EvidenceAssumption
<1> QED OBVIOUS

(* A temp file has no hash for a name. *)
LEMMA TempsAreNot ==
  \A n \in TempNames : n \notin Payloads
BY EvidenceAssumption

-----------------------------------------------------------------------------
(* The local variables.                                                    *)

(* A thread that goes on changes its own place and variables only. *)
LEMMA Proceeds ==
  ASSUME EvidenceTypeOK, LocalsInv, NEW t \in Workers, NEW label, NEW locals,
         Proceed(t, label, locals)
  PROVE  /\ doing'[t] = label /\ local'[t] = locals
         /\ \A u \in Workers : u # t => doing'[u] = doing[u] /\ local'[u] = local[u]
         /\ local' = [u \in Workers |-> local'[u]]
BY DEF EvidenceTypeOK, LocalsInv, Proceed

(* ... so the others' still fit. *)
LEMMA OthersFit ==
  ASSUME EvidenceTypeOK, LocalsInv, NEW t \in Workers, NEW label, NEW locals,
         Proceed(t, label, locals), LocalsFit(t)'
  PROVE  LocalsInv'
<1>1. \A u \in Workers : u # t => LocalsFit(u)'
  BY Proceeds DEF LocalsInv, LocalsFit, Cleaning
<1> QED BY <1>1, Proceeds DEF LocalsInv

(* Nothing is listed by a thread that is not in a cleanup. *)
Unlisting ==
  [payload: Payloads \union {0}, temp: TempNames \union {0}, listed: {{}}, surviving: {{}},
   cutoff: Int, total: Int, removed: {0}]

(* A thread that has nothing listed when it leaves a cleanup, or is in     *)
(* none, has locals that fit.                                              *)
LEMMA NothingListed ==
  ASSUME NEW t \in Workers, ~Cleaning(t)', local'[t] \in Unlisting,
         doing'[t] \in {"store", "rename"} => local'[t].payload \in Payloads,
         doing'[t] = "rename" => local'[t].temp \in TempNames /\ local'[t].temp.thread = t
  PROVE  LocalsFit(t)'
<1>1. /\ local'[t].listed = {} /\ local'[t].surviving = {} /\ local'[t].removed = 0
      /\ local'[t] \in [payload: {local'[t].payload}, temp: {local'[t].temp},
                   listed: SUBSET FileSeen, surviving: SUBSET FileSeen,
                   cutoff: Int, total: Int, removed: Nat]
  BY DEF Unlisting
<1>2. IsFiniteSet({}) /\ Cardinality({}) = 0
  BY FS_EmptySet
<1>3. doing'[t] # "shrink"
  BY DEF Cleaning
<1>4. local'[t].removed + Cardinality(local'[t].listed) + Cardinality(local'[t].surviving)
        <= Cardinality(Names)
  BY <1>1, <1>2, NamesFinite
<1> QED BY <1>1, <1>2, <1>3, <1>4 DEF LocalsFit

(* Without a cleanup, a thread has its payload and its temp file only.     *)
LEMMA NoLocalsFit ==
  ASSUME NEW t \in Workers, doing'[t] \in {"idle", "dead"}, local'[t] = NoLocals
  PROVE  LocalsFit(t)'
<1>1. NoLocals \in Unlisting
  BY DEF NoLocals, Unlisting
<1> QED BY <1>1, NothingListed DEF Cleaning

-----------------------------------------------------------------------------
(* The directory.                                                          *)

(* The directory is a finite map from names to files, none younger than    *)
(* the clock.                                                              *)
DirOK ==
  /\ dir \in [DOMAIN dir -> [mtime: 0 .. now, whole: BOOLEAN]]
  /\ DOMAIN dir \subseteq Names
  /\ now \in Nat

(* A rename takes the temp file away and puts its file under the payload's *)
(* name, whatever was there.                                               *)
LEMMA RenameMoves ==
  ASSUME DirOK, NEW t \in Workers, Renamed(t)
  PROVE  /\ local[t].temp \in DOMAIN dir
         /\ DOMAIN dir' = (DOMAIN dir \ {local[t].temp}) \union {local[t].payload}
         /\ dir'[local[t].payload] = dir[local[t].temp]
         /\ \A n \in DOMAIN dir' : n # local[t].payload => n \in DOMAIN dir /\ dir'[n] = dir[n]
BY DEF Renamed

(* Every step leaves a directory of well-formed files. *)
LEMMA DirNext ==
  ASSUME EvidenceTypeOK, LocalsInv, [EvidenceNext]_evidenceVars PROVE DirOK'
<1> USE DEF DirOK
<1>0. DirOK
  BY DEF EvidenceTypeOK, Names
<1>1. ASSUME NEW t \in Workers, CallStore(t) PROVE DirOK'
  BY <1>0, <1>1 DEF CallStore
<1>2. ASSUME NEW t \in Workers, Store(t) PROVE DirOK'
  <2>1. UNCHANGED now
    BY <1>2 DEF Store
  <2>2. Temp(t) \in Names
    BY DEF Temp, TempNames, Names, EvidenceTypeOK
  <2>3. CASE UNCHANGED dir
    BY <1>0, <2>1, <2>3
  <2>4. ASSUME NEW whole \in BOOLEAN, dir' = With(Temp(t), [mtime |-> now, whole |-> whole])
        PROVE DirOK'
    <3> DEFINE made == [mtime |-> now, whole |-> whole]
    <3>1. made \in [mtime: 0 .. now, whole: BOOLEAN]
      BY <1>0
    <3> HIDE DEF made
    <3>2. dir' = [x \in DOMAIN dir \union {Temp(t)} |-> IF x = Temp(t) THEN made ELSE dir[x]]
      BY <2>4 DEF With, made
    <3> QED BY <1>0, <2>1, <2>2, <3>1, <3>2
  <2> QED BY <1>2, <2>3, <2>4 DEF Store
<1>3. ASSUME NEW t \in Workers, Rename(t) PROVE DirOK'
  <2>1. UNCHANGED now /\ doing[t] = "rename"
    BY <1>3 DEF Rename
  <2>2. CASE Renamed(t)
    <3>1. local[t].payload \in Names
      BY <2>1 DEF LocalsInv, LocalsFit, Names
    <3>2. dir' = [x \in DOMAIN dir' |-> dir'[x]]
      BY <2>2 DEF Renamed
    <3>3. \A n \in DOMAIN dir' : dir'[n] \in [mtime: 0 .. now, whole: BOOLEAN]
      BY <1>0, <2>2, RenameMoves
    <3>4. DOMAIN dir' \subseteq Names
      BY <1>0, <2>2, <3>1, RenameMoves
    <3> QED BY <1>0, <2>1, <3>2, <3>3, <3>4
  <2>3. CASE TempMissing(t)
    BY <1>0, <2>1, <2>3 DEF TempMissing
  <2> QED BY <1>3, <2>2, <2>3 DEF Rename
<1>4. ASSUME NEW n, dir' = Without(n), UNCHANGED now PROVE DirOK'
  BY <1>0, <1>4 DEF Without
<1>5. ASSUME NEW t \in Workers, Expire(t) PROVE DirOK'
  <2>1. UNCHANGED now /\ (UNCHANGED dir \/ \E n : dir' = Without(n))
    BY <1>5 DEF Expire, Unlinks, UnlinkFails, CleanupOnly
  <2> QED BY <1>0, <1>4, <2>1
<1>6. ASSUME NEW t \in Workers, Shrink(t) PROVE DirOK'
  <2>1. UNCHANGED now /\ (UNCHANGED dir \/ \E n : dir' = Without(n))
    BY <1>6 DEF Shrink, Unlinks, UnlinkFails, CleanupOnly
  <2> QED BY <1>0, <1>4, <2>1
<1>7. ASSUME NEW t \in Workers, Sum(t) \/ Finish(t) PROVE DirOK'
  BY <1>0, <1>7 DEF Sum, Finish, CleanupOnly
<1>8. CASE PowerLoss
  <2>1. PICK lost \in SUBSET DOMAIN dir :
          dir' = [n \in DOMAIN dir |-> [dir[n] EXCEPT !.whole = @ /\ n \notin lost]]
    BY <1>8 DEF PowerLoss
  <2>2. \A n \in DOMAIN dir : [dir[n] EXCEPT !.whole = @ /\ n \notin lost]
                               \in [mtime: 0 .. now, whole: BOOLEAN]
    BY <1>0
  <2>3. UNCHANGED now
    BY <1>8 DEF PowerLoss, Stop
  <2> QED BY <1>0, <2>1, <2>2, <2>3
<1>9. ASSUME NEW s \in Stores, Kill(s) \/ Restart(s) PROVE DirOK'
  BY <1>0, <1>9 DEF Kill, Restart, Stop
<1>10. CASE Tick
  <2>1. now' = now + 1 /\ UNCHANGED dir
    BY <1>10 DEF Tick
  <2>2. dir \in [DOMAIN dir -> [mtime: 0 .. now + 1, whole: BOOLEAN]]
    BY <1>0
  <2> QED BY <1>0, <2>1, <2>2
<1>11. CASE UNCHANGED evidenceVars
  BY <1>0, <1>11 DEF evidenceVars
<1> QED
  BY <1>1, <1>2, <1>3, <1>5, <1>6, <1>7, <1>8, <1>9, <1>10, <1>11 DEF EvidenceNext

-----------------------------------------------------------------------------
(* What a cleanup does to its thread's variables.                          *)

(* A cleanup leaves the payload and the temp name of its call alone.       *)
SameCall(t) == local'[t].payload = local[t].payload /\ local'[t].temp = local[t].temp

(* The locals of a thread are a record of the right kind.                  *)
LocalTyped(t) ==
  local[t] \in [payload: {local[t].payload}, temp: {local[t].temp},
                listed: SUBSET FileSeen, surviving: SUBSET FileSeen,
                cutoff: Int, total: Int, removed: Nat]

(* The file a thread looked at was removed, or nothing was. *)
Removes(t, f) ==
  /\ Unlinks(t, f.name)
  /\ local'[t].removed = local[t].removed + 1

(* The file stays: it could not be removed, or was not to be.              *)
Leaves(t, f) ==
  /\ UnlinkFails(f.name) \/ UNCHANGED <<dir, evicted, upsets, trouble>>
  /\ local'[t].removed = local[t].removed

(* Expire takes one file off what is listed: it goes, or survives. *)
LEMMA ExpireEffect ==
  ASSUME EvidenceTypeOK, LocalsInv, NEW t \in Workers, Expire(t)
  PROVE  /\ doing[t] = "expire" /\ doing'[t] = "expire"
         /\ SameCall(t) /\ LocalTyped(t)' /\ CleanupOnly
         /\ \E f \in local[t].listed :
              /\ local'[t].listed = local[t].listed \ {f}
              /\ \/ Removes(t, f) /\ local'[t].surviving = local[t].surviving
                 \/ Leaves(t, f) /\ local'[t].surviving = local[t].surviving \union {f}
<1>1. doing[t] = "expire" /\ CleanupOnly
  BY DEF Expire
<1>2. LocalTyped(t)
  BY DEF LocalsInv, LocalsFit, LocalTyped
<1>3. PICK f \in local[t].listed :
        LET seen == [local[t] EXCEPT !.listed = @ \ {f}]
            kept == [seen EXCEPT !.surviving = @ \union {f}]
        IN  \/ /\ f.mtime < seen.cutoff
               /\ Unlinks(t, f.name)
               /\ Proceed(t, "expire", [seen EXCEPT !.removed = @ + 1])
            \/ /\ f.mtime < seen.cutoff
               /\ UnlinkFails(f.name)
               /\ Proceed(t, "expire", kept)
            \/ /\ f.mtime >= seen.cutoff
               /\ Proceed(t, "expire", kept)
               /\ UNCHANGED <<dir, evicted, upsets, trouble>>
  BY DEF Expire
<1> DEFINE seen == [local[t] EXCEPT !.listed = @ \ {f}]
           kept == [seen EXCEPT !.surviving = @ \union {f}]
           gone == [seen EXCEPT !.removed = @ + 1]
<1>4. f \in FileSeen
  BY <1>2 DEF LocalTyped
<1>41. /\ seen \in [payload: {local[t].payload}, temp: {local[t].temp},
                   listed: SUBSET FileSeen, surviving: SUBSET FileSeen,
                   cutoff: Int, total: Int, removed: Nat]
       /\ seen.listed = local[t].listed \ {f} /\ seen.surviving = local[t].surviving
       /\ seen.removed = local[t].removed
  BY <1>2, <1>4 DEF LocalTyped
<1>42. \/ Unlinks(t, f.name) /\ Proceed(t, "expire", gone)
       \/ /\ Proceed(t, "expire", kept)
          /\ UnlinkFails(f.name) \/ UNCHANGED <<dir, evicted, upsets, trouble>>
  BY <1>3
<1> HIDE DEF seen
<1>5. /\ kept \in [payload: {local[t].payload}, temp: {local[t].temp},
                   listed: SUBSET FileSeen, surviving: SUBSET FileSeen,
                   cutoff: Int, total: Int, removed: Nat]
      /\ kept.listed = local[t].listed \ {f} /\ kept.surviving = local[t].surviving \union {f}
      /\ kept.removed = local[t].removed
  BY <1>4, <1>41
<1>6. /\ gone \in [payload: {local[t].payload}, temp: {local[t].temp},
                   listed: SUBSET FileSeen, surviving: SUBSET FileSeen,
                   cutoff: Int, total: Int, removed: Nat]
      /\ gone.listed = local[t].listed \ {f} /\ gone.surviving = local[t].surviving
      /\ gone.removed = local[t].removed + 1
  BY <1>4, <1>41
<1> HIDE DEF kept, gone
<1>8. CASE Unlinks(t, f.name) /\ Proceed(t, "expire", gone)
  <2>1. doing'[t] = "expire" /\ local'[t] = gone
    BY <1>8, Proceeds
  <2> QED BY <1>1, <1>6, <1>8, <2>1 DEF SameCall, LocalTyped, Removes
<1>9. CASE /\ Proceed(t, "expire", kept)
           /\ UnlinkFails(f.name) \/ UNCHANGED <<dir, evicted, upsets, trouble>>
  <2>1. doing'[t] = "expire" /\ local'[t] = kept
    BY <1>9, Proceeds
  <2> QED BY <1>1, <1>5, <1>9, <2>1 DEF SameCall, LocalTyped, Leaves
<1> QED BY <1>42, <1>8, <1>9

(* Shrink takes the oldest of what survives, and lowers the total if it    *)
(* goes.                                                                   *)
LEMMA ShrinkEffect ==
  ASSUME EvidenceTypeOK, LocalsInv, NEW t \in Workers, Shrink(t)
  PROVE  /\ doing[t] = "shrink" /\ doing'[t] = "shrink" /\ local[t].total > MaxFiles
         /\ SameCall(t) /\ LocalTyped(t)' /\ CleanupOnly
         /\ local'[t].listed = local[t].listed
         /\ \E f \in local[t].surviving :
              /\ \A g \in local[t].surviving : f.mtime <= g.mtime
              /\ local'[t].surviving = local[t].surviving \ {f}
              /\ \/ Removes(t, f) /\ local'[t].total = local[t].total - 1
                 \/ /\ UnlinkFails(f.name) /\ local'[t].total = local[t].total
                    /\ local'[t].removed = local[t].removed
<1>1. doing[t] = "shrink" /\ local[t].total > MaxFiles /\ CleanupOnly
  BY DEF Shrink
<1>2. LocalTyped(t)
  BY DEF LocalsInv, LocalsFit, LocalTyped
<1>3. PICK f \in local[t].surviving :
        LET seen == [local[t] EXCEPT !.surviving = @ \ {f}]
        IN  /\ \A g \in local[t].surviving : f.mtime <= g.mtime
            /\ \/ /\ Unlinks(t, f.name)
                  /\ Proceed(t, "shrink", [seen EXCEPT !.total = @ - 1, !.removed = @ + 1])
               \/ UnlinkFails(f.name) /\ Proceed(t, "shrink", seen)
  BY DEF Shrink
<1> DEFINE seen == [local[t] EXCEPT !.surviving = @ \ {f}]
           gone == [seen EXCEPT !.total = @ - 1, !.removed = @ + 1]
<1>4. /\ seen \in [payload: {local[t].payload}, temp: {local[t].temp},
                   listed: SUBSET FileSeen, surviving: SUBSET FileSeen,
                   cutoff: Int, total: Int, removed: Nat]
      /\ seen.listed = local[t].listed /\ seen.surviving = local[t].surviving \ {f}
      /\ seen.removed = local[t].removed /\ seen.total = local[t].total
  BY <1>2 DEF LocalTyped
<1>41. \/ Unlinks(t, f.name) /\ Proceed(t, "shrink", gone)
       \/ UnlinkFails(f.name) /\ Proceed(t, "shrink", seen)
  BY <1>3
<1> HIDE DEF seen
<1>5. /\ gone \in [payload: {local[t].payload}, temp: {local[t].temp},
                   listed: SUBSET FileSeen, surviving: SUBSET FileSeen,
                   cutoff: Int, total: Int, removed: Nat]
      /\ gone.listed = local[t].listed /\ gone.surviving = local[t].surviving \ {f}
      /\ gone.removed = local[t].removed + 1 /\ gone.total = local[t].total - 1
  <2>1. gone.removed = seen.removed + 1 /\ gone.total = seen.total - 1
    BY <1>4
  <2>2. gone.total \in Int /\ gone.removed \in Nat
    BY <1>4, <2>1
  <2> QED BY <1>4, <2>1, <2>2
<1>7. \A g \in local[t].surviving : f.mtime <= g.mtime
  BY <1>3
<1> HIDE DEF gone
<1>8. CASE Unlinks(t, f.name) /\ Proceed(t, "shrink", gone)
  <2>1. doing'[t] = "shrink" /\ local'[t] = gone
    BY <1>8, Proceeds
  <2> QED BY <1>1, <1>5, <1>7, <1>8, <2>1 DEF SameCall, LocalTyped, Removes
<1>9. CASE UnlinkFails(f.name) /\ Proceed(t, "shrink", seen)
  <2>1. doing'[t] = "shrink" /\ local'[t] = seen
    BY <1>9, Proceeds
  <2> QED BY <1>1, <1>4, <1>7, <1>9, <2>1 DEF SameCall, LocalTyped
<1> QED BY <1>41, <1>8, <1>9

(* store: a call gets its payload, Store its temp file or an end. *)
LEMMA StoreEffect ==
  ASSUME EvidenceTypeOK, LocalsInv, NEW t \in Workers, Store(t)
  PROVE  \/ /\ doing'[t] = "idle" /\ local'[t] = NoLocals /\ UNCHANGED dir
         \/ /\ doing'[t] = "rename"
            /\ local'[t] = [local[t] EXCEPT !.temp = Temp(t)]
            /\ local'[t] \in Unlisting
            /\ local'[t].payload = local[t].payload
            /\ local'[t].temp = Temp(t) /\ Temp(t) \in TempNames
            /\ local[t].payload \notin DOMAIN dir
            /\ \E whole \in BOOLEAN : dir' = With(Temp(t), [mtime |-> now, whole |-> whole])
<1>1. doing[t] = "store"
  BY DEF Store
<1>2. LocalTyped(t) /\ local[t].listed = {} /\ local[t].surviving = {} /\ local[t].removed = 0
  BY <1>1 DEF LocalsInv, LocalsFit, LocalTyped, Cleaning
<1>3. local[t].payload \in Payloads
  BY <1>1 DEF LocalsInv, LocalsFit
<1>4. Temp(t) \in TempNames
  BY DEF Temp, TempNames, EvidenceTypeOK
<1>5. CASE Proceed(t, "idle", NoLocals) /\ UNCHANGED dir
  BY <1>5, Proceeds
<1>6. CASE /\ local[t].payload \notin DOMAIN dir
           /\ Proceed(t, "rename", [local[t] EXCEPT !.temp = Temp(t)])
           /\ \E whole \in BOOLEAN : dir' = With(Temp(t), [mtime |-> now, whole |-> whole])
  <2>1. doing'[t] = "rename" /\ local'[t] = [local[t] EXCEPT !.temp = Temp(t)]
    BY <1>6, Proceeds
  <2>2. local'[t] \in Unlisting /\ local'[t].payload = local[t].payload
        /\ local'[t].temp = Temp(t)
    BY <1>2, <1>3, <1>4, <2>1 DEF LocalTyped, Unlisting
  <2> QED BY <1>4, <1>6, <2>1, <2>2
<1> QED BY <1>5, <1>6 DEF Store, StoreReturns, StoreRaises

(* The rename: the call ends, or lists the directory for a cleanup. *)
LEMMA RenameEffect ==
  ASSUME EvidenceTypeOK, LocalsInv, [EvidenceNext]_evidenceVars, NEW t \in Workers, Rename(t)
  PROVE  /\ doing[t] = "rename"
         /\ \/ doing'[t] = "idle" /\ local'[t] = NoLocals
            \/ /\ doing'[t] = "expire" /\ Renamed(t) /\ UNCHANGED returned
               /\ SameCall(t) /\ LocalTyped(t)'
               /\ local'[t].listed = {[name |-> n, mtime |-> dir'[n].mtime] : n \in DOMAIN dir'}
               /\ local'[t].surviving = {} /\ local'[t].removed = 0
<1>1. doing[t] = "rename"
  BY DEF Rename
<1>2. LocalTyped(t) /\ local[t].surviving = {} /\ local[t].removed = 0
  BY <1>1 DEF LocalsInv, LocalsFit, LocalTyped, Cleaning
<1>3. CASE Proceed(t, "idle", NoLocals)
  BY <1>1, <1>3, Proceeds
<1>4. CASE Renamed(t) /\ BeginCleanup(t) /\ UNCHANGED returned
  <2> DEFINE L == {[name |-> n, mtime |-> dir'[n].mtime] : n \in DOMAIN dir'}
             listing == [local[t] EXCEPT !.listed = L, !.cutoff = now - MaxAge]
  <2>1. doing'[t] = "expire" /\ local'[t] = listing
    BY <1>4, Proceeds DEF BeginCleanup
  <2>2. L \subseteq FileSeen
    BY DirNext DEF DirOK, FileSeen
  <2>3. now - MaxAge \in Int
    <3>1. MaxAge \in Nat /\ now \in Nat
      BY LimitsTyped DEF EvidenceTypeOK
    <3> QED BY <3>1
  <2> HIDE DEF L
  <2>4. /\ listing \in [payload: {local[t].payload}, temp: {local[t].temp},
                        listed: SUBSET FileSeen, surviving: SUBSET FileSeen,
                        cutoff: Int, total: Int, removed: Nat]
        /\ listing.listed = L /\ listing.surviving = {} /\ listing.removed = 0
    BY <1>2, <2>2, <2>3 DEF LocalTyped
  <2> HIDE DEF listing
  <2>5. SameCall(t) /\ LocalTyped(t)'
    BY <2>1, <2>4 DEF SameCall, LocalTyped
  <2> QED BY <1>1, <1>4, <2>1, <2>4, <2>5 DEF L
<1> QED BY <1>3, <1>4 DEF Rename, Renamed, StoreReturns, StoreRaises

(* Every step of a thread is one of its own that goes on. *)
LEMMA ThreadStep ==
  ASSUME EvidenceTypeOK, LocalsInv, NEW t \in Workers,
         \/ CallStore(t) \/ Store(t) \/ Rename(t) \/ Expire(t) \/ Sum(t) \/ Shrink(t) \/ Finish(t)
  PROVE  /\ \E label, locals : Proceed(t, label, locals)
         /\ \A u \in Workers : u # t => doing'[u] = doing[u] /\ local'[u] = local[u]
<1>1. \E label, locals : Proceed(t, label, locals)
  <2>1. ASSUME CallStore(t) PROVE \E label, locals : Proceed(t, label, locals)
    BY <2>1 DEF CallStore
  <2>2. ASSUME Store(t) PROVE \E label, locals : Proceed(t, label, locals)
    BY <2>2 DEF Store, StoreReturns, StoreRaises
  <2>3. ASSUME Rename(t) PROVE \E label, locals : Proceed(t, label, locals)
    BY <2>3 DEF Rename, Renamed, BeginCleanup, StoreReturns, StoreRaises
  <2>4. ASSUME Expire(t) PROVE \E label, locals : Proceed(t, label, locals)
    BY <2>4 DEF Expire
  <2>5. ASSUME Sum(t) \/ Finish(t) PROVE \E label, locals : Proceed(t, label, locals)
    BY <2>5 DEF Sum, Finish, StoreReturns
  <2>6. ASSUME Shrink(t) PROVE \E label, locals : Proceed(t, label, locals)
    BY <2>6 DEF Shrink
  <2> QED BY <2>1, <2>2, <2>3, <2>4, <2>5, <2>6
<1> QED BY <1>1, Proceeds

(* Every step keeps the local variables of all threads fitting. *)
LEMMA LocalsNext ==
  ASSUME EvidenceTypeOK, LocalsInv, DeathsInv, [EvidenceNext]_evidenceVars PROVE LocalsInv'
<1>1. ASSUME NEW t \in Workers, CallStore(t) PROVE LocalsInv'
  <2>1. PICK p \in Payloads : Proceed(t, "store", [NoLocals EXCEPT !.payload = p])
    BY <1>1 DEF CallStore
  <2>2. doing'[t] = "store" /\ local'[t] = [NoLocals EXCEPT !.payload = p]
    BY <2>1, Proceeds
  <2>3. local'[t] \in Unlisting /\ local'[t].payload = p
    BY <2>2 DEF NoLocals, Unlisting
  <2>4. LocalsFit(t)'
    BY <2>2, <2>3, NothingListed DEF Cleaning
  <2> QED BY <2>1, <2>4, OthersFit
<1>2. ASSUME NEW t \in Workers, Store(t) PROVE LocalsInv'
  <2>1. LocalsFit(t)'
    <3>1. CASE doing'[t] = "idle" /\ local'[t] = NoLocals
      BY <3>1, NoLocalsFit
    <3>2. CASE doing'[t] = "rename" /\ local'[t] \in Unlisting /\ Temp(t) \in TempNames
               /\ local'[t].temp = Temp(t) /\ local'[t].payload = local[t].payload
      <4>1. Temp(t).thread = t
        BY DEF Temp
      <4>2. local'[t].payload \in Payloads
        BY <1>2, <3>2 DEF Store, LocalsInv, LocalsFit
      <4> QED BY <3>2, <4>1, <4>2, NothingListed DEF Cleaning
    <3> QED BY <1>2, <3>1, <3>2, StoreEffect
  <2> QED BY <1>2, <2>1, OthersFit, ThreadStep
<1>3. ASSUME NEW t \in Workers, Rename(t) PROVE LocalsInv'
  <2>1. LocalsFit(t)'
    <3>1. CASE doing'[t] = "idle" /\ local'[t] = NoLocals
      BY <3>1, NoLocalsFit
    <3>2. CASE /\ doing'[t] = "expire" /\ SameCall(t) /\ LocalTyped(t)'
               /\ local'[t].listed = {[name |-> n, mtime |-> dir'[n].mtime] : n \in DOMAIN dir'}
               /\ local'[t].surviving = {} /\ local'[t].removed = 0
      <4>1. local'[t].payload \in Payloads
        BY <1>3, <3>2 DEF Rename, LocalsInv, LocalsFit, SameCall
      <4>2. /\ IsFiniteSet(DOMAIN dir') /\ Cardinality(DOMAIN dir') \in Nat
            /\ Cardinality(DOMAIN dir') <= Cardinality(Names)
        BY DirNext, NamesFinite, FS_Subset, FS_CardinalityType DEF DirOK
      <4>3. /\ IsFiniteSet(local'[t].listed) /\ Cardinality(local'[t].listed) \in Nat
            /\ Cardinality(local'[t].listed) <= Cardinality(DOMAIN dir')
        BY <3>2, <4>2, ListingSize
      <4>4. IsFiniteSet({}) /\ Cardinality({}) = 0
        BY FS_EmptySet
      <4>5. local'[t].removed + Cardinality(local'[t].listed) + Cardinality(local'[t].surviving)
              <= Cardinality(Names)
        BY <3>2, <4>2, <4>3, <4>4, NamesFinite
      <4> QED BY <3>2, <4>1, <4>3, <4>4, <4>5 DEF LocalsFit, LocalTyped, Cleaning
    <3> QED BY <1>3, <3>1, <3>2, RenameEffect
  <2> QED BY <1>3, <2>1, OthersFit, ThreadStep
<1>4. ASSUME NEW t \in Workers, Expire(t) PROVE LocalsInv'
  <2>1. LocalsFit(t)'
    <3>1. /\ doing[t] = "expire" /\ doing'[t] = "expire" /\ SameCall(t) /\ LocalTyped(t)'
      BY <1>4, ExpireEffect
    <3>2. PICK f \in local[t].listed :
            /\ local'[t].listed = local[t].listed \ {f}
            /\ \/ Removes(t, f) /\ local'[t].surviving = local[t].surviving
               \/ Leaves(t, f) /\ local'[t].surviving = local[t].surviving \union {f}
      BY <1>4, ExpireEffect
    <3>3. LocalsFit(t)
      BY DEF LocalsInv
    <3>4. /\ IsFiniteSet(local'[t].listed)
          /\ Cardinality(local'[t].listed) = Cardinality(local[t].listed) - 1
          /\ Cardinality(local[t].listed) \in Nat /\ Cardinality(local[t].surviving) \in Nat
      BY <3>2, <3>3, FS_RemoveElement, FS_CardinalityType DEF LocalsFit
    <3>5. \/ /\ local'[t].surviving = local[t].surviving
             /\ local'[t].removed = local[t].removed + 1
          \/ /\ local'[t].surviving = local[t].surviving \union {f}
             /\ local'[t].removed = local[t].removed
      BY <3>2 DEF Removes, Leaves
    <3>6. /\ IsFiniteSet(local[t].surviving \union {f})
          /\ Cardinality(local[t].surviving \union {f}) <= Cardinality(local[t].surviving) + 1
          /\ Cardinality(local[t].surviving \union {f}) \in Nat
      <4>1. IsFiniteSet(local[t].surviving)
        BY <3>3 DEF LocalsFit
      <4>2. /\ IsFiniteSet(local[t].surviving \union {f})
            /\ Cardinality(local[t].surviving \union {f})
                 = IF f \in local[t].surviving THEN Cardinality(local[t].surviving)
                                               ELSE Cardinality(local[t].surviving) + 1
        BY <4>1, FS_AddElement
      <4>3. Cardinality(local[t].surviving \union {f}) \in Nat
        BY <4>2, FS_CardinalityType
      <4> QED BY <3>4, <4>2, <4>3
    <3>7. /\ IsFiniteSet(local'[t].surviving)
          /\ local'[t].removed + Cardinality(local'[t].listed) + Cardinality(local'[t].surviving)
              <= Cardinality(Names)
      <4>1. local[t].removed + Cardinality(local[t].listed) + Cardinality(local[t].surviving)
              <= Cardinality(Names) /\ local[t].removed \in Nat /\ IsFiniteSet(local[t].surviving)
        BY <3>3 DEF LocalsFit
      <4>2. CASE /\ local'[t].surviving = local[t].surviving
                 /\ local'[t].removed = local[t].removed + 1
        BY <3>4, <4>1, <4>2, NamesFinite
      <4>3. CASE /\ local'[t].surviving = local[t].surviving \union {f}
                 /\ local'[t].removed = local[t].removed
        BY <3>4, <3>6, <4>1, <4>3, NamesFinite
      <4> QED BY <3>5, <4>2, <4>3
    <3>8. local'[t].payload \in Payloads
      BY <3>1, <3>3 DEF LocalsFit, Cleaning, SameCall
    <3> QED BY <3>1, <3>4, <3>7, <3>8 DEF LocalsFit, LocalTyped, Cleaning
  <2> QED BY <1>4, <2>1, OthersFit, ThreadStep
<1>5. ASSUME NEW t \in Workers, Sum(t) PROVE LocalsInv'
  <2>1. /\ doing[t] = "expire" /\ local[t].listed = {}
        /\ Proceed(t, "shrink", [local[t] EXCEPT !.total = Cardinality(local[t].surviving)])
    BY <1>5 DEF Sum
  <2>2. doing'[t] = "shrink"
        /\ local'[t] = [local[t] EXCEPT !.total = Cardinality(local[t].surviving)]
    BY <2>1, Proceeds
  <2>3. LocalsFit(t) /\ Cardinality(local[t].surviving) \in Int
    BY FS_CardinalityType DEF LocalsInv, LocalsFit
  <2>4. /\ LocalTyped(t)' /\ SameCall(t) /\ local'[t].listed = {}
        /\ local'[t].surviving = local[t].surviving /\ local'[t].removed = local[t].removed
    BY <2>1, <2>2, <2>3 DEF LocalsFit, LocalTyped, SameCall
  <2>5. LocalsFit(t)'
    BY <2>1, <2>2, <2>3, <2>4 DEF LocalsFit, LocalTyped, SameCall, Cleaning
  <2> QED BY <2>1, <2>5, OthersFit
<1>6. ASSUME NEW t \in Workers, Shrink(t) PROVE LocalsInv'
  <2>1. LocalsFit(t)'
    <3>1. /\ doing[t] = "shrink" /\ doing'[t] = "shrink" /\ SameCall(t) /\ LocalTyped(t)'
          /\ local'[t].listed = local[t].listed
      BY <1>6, ShrinkEffect
    <3>2. PICK f \in local[t].surviving :
            /\ local'[t].surviving = local[t].surviving \ {f}
            /\ local'[t].removed \in {local[t].removed, local[t].removed + 1}
      BY <1>6, ShrinkEffect DEF Removes
    <3>3. LocalsFit(t)
      BY DEF LocalsInv
    <3>4. /\ IsFiniteSet(local'[t].surviving)
          /\ Cardinality(local'[t].surviving) = Cardinality(local[t].surviving) - 1
          /\ Cardinality(local[t].listed) \in Nat /\ Cardinality(local[t].surviving) \in Nat
      BY <3>2, <3>3, FS_RemoveElement, FS_CardinalityType DEF LocalsFit
    <3>5. local'[t].removed + Cardinality(local'[t].listed) + Cardinality(local'[t].surviving)
              <= Cardinality(Names)
      <4>1. local[t].removed + Cardinality(local[t].listed) + Cardinality(local[t].surviving)
              <= Cardinality(Names) /\ local[t].removed \in Nat
        BY <3>3 DEF LocalsFit
      <4> QED BY <3>1, <3>2, <3>4, <4>1, NamesFinite
    <3>6. local'[t].payload \in Payloads /\ local'[t].listed = {} /\ IsFiniteSet(local'[t].listed)
      BY <3>1, <3>3 DEF LocalsFit, Cleaning, SameCall
    <3> QED BY <3>1, <3>4, <3>5, <3>6 DEF LocalsFit, LocalTyped, Cleaning
  <2> QED BY <1>6, <2>1, OthersFit, ThreadStep
<1>7. ASSUME NEW t \in Workers, Finish(t) PROVE LocalsInv'
  <2>1. Proceed(t, "idle", NoLocals)
    BY <1>7 DEF Finish, StoreReturns
  <2>2. LocalsFit(t)'
    BY <2>1, Proceeds, NoLocalsFit
  <2> QED BY <2>1, <2>2, OthersFit
<1>8. ASSUME NEW stopped, Stop(stopped) PROVE LocalsInv'
  <2>1. local' = [t \in Workers |-> local'[t]]
    BY <1>8 DEF Stop
  <2>2. ASSUME NEW t \in Workers PROVE LocalsFit(t)'
    <3>1. CASE t \in stopped
      BY <1>8, <3>1, NoLocalsFit DEF Stop
    <3>2. CASE t \notin stopped
      <4>1. local'[t] = local[t] /\ doing'[t] = doing[t]
        BY <1>8, <3>2 DEF Stop
      <4> QED BY <4>1 DEF LocalsInv, LocalsFit, Cleaning
    <3> QED BY <3>1, <3>2
  <2> QED BY <2>1, <2>2 DEF LocalsInv
<1>9. ASSUME NEW s \in Stores, Restart(s) PROVE LocalsInv'
  <2>1. UNCHANGED local
    BY <1>9 DEF Restart
  <2>2. ASSUME NEW t \in Workers PROVE LocalsFit(t)'
    <3>1. doing'[t] = (IF storeOf[t] = s THEN "idle" ELSE doing[t])
      BY <1>9 DEF Restart
    <3>2. storeOf[t] = s => doing[t] = "dead"
      BY <1>9 DEF Restart, UsersOf, DeathsInv
    <3> QED BY <2>1, <3>1, <3>2 DEF LocalsInv, LocalsFit, Cleaning
  <2> QED BY <2>1, <2>2 DEF LocalsInv
<1>10. CASE UNCHANGED <<doing, local>>
  BY <1>10 DEF LocalsInv, LocalsFit, Cleaning
<1>11. UNCHANGED <<doing, local>> \/ ~(Tick \/ UNCHANGED evidenceVars)
  BY DEF Tick, evidenceVars
<1> QED
  BY <1>1, <1>2, <1>3, <1>4, <1>5, <1>6, <1>7, <1>8, <1>9, <1>10, <1>11
  DEF EvidenceNext, Kill, PowerLoss

-----------------------------------------------------------------------------
(* What each step does to the rest of the state.                           *)

(* History and trouble only grow, and a thread keeps its store. *)
LEMMA Grows ==
  ASSUME EvidenceTypeOK, [EvidenceNext]_evidenceVars
  PROVE  /\ upsets \subseteq upsets' /\ UNCHANGED storeOf
         /\ trouble' \in 0 .. MaxTrouble /\ trouble <= trouble'
<1> DEFINE Troubled == \E what : Trouble(what)
           Grown == upsets \subseteq upsets' /\ (UNCHANGED trouble \/ Troubled)
<1>0. ASSUME NEW what, Trouble(what) PROVE Grown
  BY <1>0 DEF Trouble
<1>01. UNCHANGED <<upsets, trouble>> => Grown
  OBVIOUS
<1> HIDE DEF Grown
<1>1. ASSUME NEW t \in Workers, CallStore(t) \/ Store(t) PROVE Grown /\ UNCHANGED storeOf
  BY <1>0, <1>01, <1>1 DEF CallStore, Store, historyVars
<1>2. ASSUME NEW t \in Workers, Rename(t) \/ Sum(t) \/ Finish(t)
      PROVE  Grown /\ UNCHANGED storeOf
  <2>1. UNCHANGED <<storeOf, trouble>>
    BY <1>2 DEF Rename, Sum, Finish, CleanupOnly
  <2>2. CASE Renamed(t)
    <3>1. \E A, B : upsets' = upsets \union A \union B
      BY <2>2 DEF Renamed
    <3> QED BY <2>1, <3>1 DEF Grown
  <2>3. Renamed(t) \/ UNCHANGED upsets
    BY <1>2 DEF Rename, Sum, Finish, TempMissing
  <2> QED BY <1>01, <2>1, <2>2, <2>3
<1>3. ASSUME NEW t \in Workers, Expire(t) \/ Shrink(t) PROVE Grown /\ UNCHANGED storeOf
  <2>1. /\ UNCHANGED storeOf
        /\ \/ \E n : Unlinks(t, n) \/ UnlinkFails(n)
           \/ UNCHANGED <<upsets, trouble>>
    BY <1>3 DEF Expire, Shrink, CleanupOnly
  <2>2. ASSUME NEW n, Unlinks(t, n) PROVE Grown
    <3>1. UNCHANGED trouble /\ \E A, B : upsets' = upsets \union A \union B
      BY <2>2 DEF Unlinks
    <3> QED BY <3>1 DEF Grown
  <2>3. ASSUME NEW n, UnlinkFails(n) PROVE Grown
    BY <1>0, <1>01, <2>3 DEF UnlinkFails
  <2> QED BY <1>01, <2>1, <2>2, <2>3
<1>4. ASSUME NEW s \in Stores, Kill(s) \/ Restart(s) PROVE Grown /\ UNCHANGED storeOf
  BY <1>0, <1>01, <1>4 DEF Kill, Restart, Stop, historyVars
<1>5. ASSUME PowerLoss PROVE Grown /\ UNCHANGED storeOf
  BY <1>0, <1>5 DEF PowerLoss, Stop
<1>6. ASSUME Tick \/ UNCHANGED evidenceVars PROVE Grown /\ UNCHANGED storeOf
  BY <1>01, <1>6 DEF Tick, evidenceVars, historyVars
<1>61. Grown
  BY <1>1, <1>2, <1>3, <1>4, <1>5, <1>6 DEF EvidenceNext
<1>62. UNCHANGED storeOf
  BY <1>1, <1>2, <1>3, <1>4, <1>5, <1>6 DEF EvidenceNext
<1>7. trouble' \in 0 .. MaxTrouble /\ trouble <= trouble'
  <2>1. trouble \in 0 .. MaxTrouble /\ MaxTrouble \in Nat
    BY LimitsTyped DEF EvidenceTypeOK
  <2>2. UNCHANGED trouble \/ (trouble < MaxTrouble /\ trouble' = trouble + 1)
    BY <1>61 DEF Grown, Trouble
  <2> QED BY <2>1, <2>2
<1> QED BY <1>61, <1>62, <1>7 DEF Grown

(* An unlink takes one name off the directory. *)
LEMMA UnlinkEffect ==
  ASSUME NEW t, NEW name, Unlinks(t, name)
  PROVE  /\ name \in DOMAIN dir /\ DOMAIN dir' = DOMAIN dir \ {name}
         /\ \A n \in DOMAIN dir' : dir'[n] = dir[n]
BY DEF Unlinks, Without

(* A step of a cleanup removes one file, or leaves them all. *)
LEMMA CleanupEffect ==
  ASSUME EvidenceTypeOK, LocalsInv, NEW t \in Workers, Expire(t) \/ Shrink(t)
  PROVE  /\ Cleaning(t) /\ Cleaning(t)' /\ SameCall(t) /\ CleanupOnly
         /\ \A u \in Workers : u # t => doing'[u] = doing[u] /\ local'[u] = local[u]
         /\ \/ \E name : Unlinks(t, name) /\ local'[t].removed = local[t].removed + 1
            \/ /\ UNCHANGED <<dir, evicted>>
               /\ local'[t].removed = local[t].removed
<1>1. CASE Expire(t)
  BY <1>1, ExpireEffect, ThreadStep DEF Cleaning, Removes, Leaves, UnlinkFails
<1>2. CASE Shrink(t)
  BY <1>2, ShrinkEffect, ThreadStep DEF Cleaning, Removes, UnlinkFails
<1> QED BY <1>1, <1>2

(* Where nobody is killed nobody starts again. *)
LEMMA NoneDies ==
  ASSUME DeathsInv, [EvidenceNext]_evidenceVars, upsets' \intersect {"killed", "power lost"} = {},
         upsets \subseteq upsets'
  PROVE  \/ \E t \in Workers : \/ CallStore(t) \/ Store(t) \/ Rename(t) \/ Expire(t) \/ Sum(t)
                               \/ Shrink(t) \/ Finish(t)
         \/ Tick \/ UNCHANGED evidenceVars
<1>1. ASSUME NEW s \in Stores PROVE ~Kill(s) /\ ~Restart(s)
  <2>1. ~Kill(s)
    BY DEF Kill, Trouble
  <2>2. ~Restart(s)
    BY DEF Restart, UsersOf, DeathsInv
  <2> QED BY <2>1, <2>2
<1>2. ~PowerLoss
  BY DEF PowerLoss, Trouble
<1> QED BY <1>1, <1>2 DEF EvidenceNext

-----------------------------------------------------------------------------
(* Each part of the invariant.                                             *)

(* The threads of a store still die together, and not without trouble. *)
LEMMA DeathsNext ==
  ASSUME EvidenceTypeOK, LocalsInv, DeathsInv, [EvidenceNext]_evidenceVars PROVE DeathsInv'
<1>0. upsets \subseteq upsets' /\ UNCHANGED storeOf
  BY Grows
<1>1. ASSUME NEW t \in Workers,
             \/ CallStore(t) \/ Store(t) \/ Rename(t) \/ Expire(t) \/ Sum(t) \/ Shrink(t) \/ Finish(t)
      PROVE  DeathsInv'
  <2>1. doing[t] # "dead"
    BY <1>1 DEF CallStore, Store, Rename, Expire, Sum, Shrink, Finish
  <2>2. doing'[t] # "dead"
    <3>1. CallStore(t) => doing'[t] = "store"
      BY Proceeds DEF CallStore
    <3>2. Store(t) => doing'[t] # "dead"
      BY StoreEffect
    <3>3. Rename(t) => doing'[t] # "dead"
      BY RenameEffect
    <3>4. Expire(t) \/ Shrink(t) => doing'[t] # "dead"
      BY ExpireEffect, ShrinkEffect
    <3>5. Sum(t) => doing'[t] = "shrink"
      BY Proceeds DEF Sum
    <3>6. Finish(t) => doing'[t] = "idle"
      BY Proceeds DEF Finish, StoreReturns
    <3> QED BY <1>1, <3>1, <3>2, <3>3, <3>4, <3>5, <3>6
  <2>3. \A u \in Workers : (doing'[u] = "dead") <=> (doing[u] = "dead")
    BY <1>1, <2>1, <2>2, ThreadStep
  <2> QED BY <1>0, <2>3 DEF DeathsInv
<1>2. ASSUME NEW stopped, Stop(stopped), NEW what \in {"killed", "power lost"}, Trouble(what),
             \A t, u \in Workers : storeOf[t] = storeOf[u] /\ t \in stopped => u \in stopped
      PROVE  DeathsInv'
  <2>1. \A t \in Workers : (doing'[t] = "dead") <=> (t \in stopped \/ doing[t] = "dead")
    BY <1>2 DEF Stop
  <2>2. what \in upsets'
    BY <1>2 DEF Trouble
  <2> QED BY <1>0, <1>2, <2>1, <2>2 DEF DeathsInv
<1>3. ASSUME NEW s \in Stores, Kill(s) PROVE DeathsInv'
  BY <1>2, <1>3 DEF Kill, UsersOf
<1>4. ASSUME PowerLoss PROVE DeathsInv'
  BY <1>2, <1>4 DEF PowerLoss
<1>5. ASSUME NEW s \in Stores, Restart(s) PROVE DeathsInv'
  <2>1. \A t \in Workers : doing'[t] = (IF storeOf[t] = s THEN "idle" ELSE doing[t])
    BY <1>5 DEF Restart
  <2> QED BY <1>0, <2>1 DEF DeathsInv
<1>6. ASSUME Tick \/ UNCHANGED evidenceVars PROVE DeathsInv'
  <2>1. UNCHANGED doing
    BY <1>6 DEF Tick, evidenceVars
  <2> QED BY <1>0, <2>1 DEF DeathsInv
<1> QED BY <1>1, <1>3, <1>4, <1>5, <1>6 DEF EvidenceNext

(* The temp file mkstemp makes is new. *)
LEMMA TempIsNew ==
  ASSUME EvidenceTypeOK, TempsInv, NEW t \in Workers, doing[t] = "store"
  PROVE  Temp(t) \in TempNames /\ Temp(t) \notin DOMAIN dir
<1>1. Temp(t) \in TempNames
  BY DEF Temp, TempNames, EvidenceTypeOK
<1>2. Temp(t).thread = t /\ Temp(t).trouble = trouble
  BY DEF Temp
<1> QED BY <1>1, <1>2 DEF TempsInv

(* A temp file in the directory is still one about to be renamed, or old. *)
LEMMA TempsNext ==
  ASSUME EvidenceTypeOK, LocalsInv, TempsInv, DeathsInv, [EvidenceNext]_evidenceVars
  PROVE  TempsInv'
<1>0. trouble \in Nat /\ trouble' \in Nat /\ trouble <= trouble'
  <2>1. trouble \in 0 .. MaxTrouble
    BY DEF EvidenceTypeOK
  <2> QED BY <2>1, Grows, LimitsTyped
<1>00. \A n \in TempNames : n.trouble \in Nat /\ n.thread \in Workers
  BY LimitsTyped DEF TempNames
<1>1. ASSUME NEW t \in Workers, Store(t) PROVE TempsInv'
  <2>1. doing[t] = "store"
    BY <1>1 DEF Store
  <2>2. CASE UNCHANGED dir
    <3> SUFFICES ASSUME NEW n \in TempNames, n \in DOMAIN dir
                 PROVE  /\ n.trouble <= trouble'
                        /\ n.trouble = trouble' => doing'[n.thread] = "rename"
                                                   /\ local'[n.thread].temp = n
      BY <2>2 DEF TempsInv
    <3>1. n.trouble <= trouble
          /\ (n.trouble = trouble => doing[n.thread] = "rename" /\ local[n.thread].temp = n)
      BY DEF TempsInv
    <3>2. n.trouble = trouble' => n.trouble = trouble
      BY <1>0, <1>00, <3>1
    <3>3. n.thread # t \/ n.trouble # trouble
      BY <2>1, <3>1
    <3> QED BY <1>0, <1>00, <1>1, <3>1, <3>2, <3>3, ThreadStep
  <2>3. CASE ~UNCHANGED dir
    <3>1. /\ doing'[t] = "rename" /\ local'[t].temp = Temp(t) /\ Temp(t) \in TempNames
          /\ \E whole \in BOOLEAN : dir' = With(Temp(t), [mtime |-> now, whole |-> whole])
      BY <1>1, <2>3, StoreEffect DEF Store
    <3>2. DOMAIN dir' = DOMAIN dir \union {Temp(t)}
      BY <3>1 DEF With
    <3> SUFFICES ASSUME NEW n \in TempNames, n \in DOMAIN dir'
                 PROVE  /\ n.trouble <= trouble'
                        /\ n.trouble = trouble' => doing'[n.thread] = "rename"
                                                   /\ local'[n.thread].temp = n
      BY DEF TempsInv
    <3>3. CASE n = Temp(t)
      BY <1>0, <3>1, <3>3 DEF Temp
    <3>4. CASE n \in DOMAIN dir
      <4>1. n.trouble <= trouble
            /\ (n.trouble = trouble => doing[n.thread] = "rename" /\ local[n.thread].temp = n)
        BY <3>4 DEF TempsInv
      <4>2. n.trouble = trouble' => n.trouble = trouble
        BY <1>0, <1>00, <4>1
      <4>3. n.thread # t \/ n.trouble # trouble
        BY <2>1, <4>1
      <4> QED BY <1>0, <1>00, <1>1, <4>1, <4>2, <4>3, ThreadStep
    <3> QED BY <3>2, <3>3, <3>4
  <2> QED BY <2>2, <2>3
<1>2. ASSUME NEW t \in Workers, Rename(t) PROVE TempsInv'
  <2>1. doing[t] = "rename" /\ UNCHANGED trouble
    BY <1>2 DEF Rename
  <2>2. local[t].payload \in Payloads
    BY <2>1 DEF LocalsInv, LocalsFit
  <2>3. DOMAIN dir' \subseteq (DOMAIN dir \ {local[t].temp}) \union {local[t].payload}
    BY <1>2, RenameMoves DEF Rename, TempMissing, Renamed
  <2> SUFFICES ASSUME NEW n \in TempNames, n \in DOMAIN dir'
               PROVE  /\ n.trouble <= trouble'
                      /\ n.trouble = trouble' => doing'[n.thread] = "rename"
                                                 /\ local'[n.thread].temp = n
    BY DEF TempsInv
  <2>4. n # local[t].payload
    BY <2>2, TempsAreNot
  <2>5. n \in DOMAIN dir /\ n # local[t].temp
    BY <2>3, <2>4
  <2>6. n.trouble <= trouble
        /\ (n.trouble = trouble => doing[n.thread] = "rename" /\ local[n.thread].temp = n)
    BY <2>5 DEF TempsInv
  <2> QED BY <1>00, <1>2, <2>1, <2>5, <2>6, ThreadStep
<1>3. ASSUME NEW t \in Workers, Expire(t) \/ Shrink(t) PROVE TempsInv'
  <2>1. DOMAIN dir' \subseteq DOMAIN dir
    BY <1>3, CleanupEffect, UnlinkEffect
  <2>2. \A u \in Workers : doing[u] = "rename" =>
          doing'[u] = "rename" /\ local'[u].temp = local[u].temp
    BY <1>3, CleanupEffect DEF Cleaning, SameCall
  <2> QED BY <1>0, <1>00, <2>1, <2>2 DEF TempsInv
<1>4. ASSUME NEW t \in Workers, CallStore(t) \/ Sum(t) \/ Finish(t) PROVE TempsInv'
  <2>1. UNCHANGED <<dir, trouble>> /\ doing[t] # "rename"
    BY <1>4 DEF CallStore, Sum, Finish
  <2> QED BY <1>00, <1>4, <2>1, ThreadStep DEF TempsInv
<1>5. ASSUME NEW what, Trouble(what), DOMAIN dir' = DOMAIN dir PROVE TempsInv'
  <2>1. trouble' = trouble + 1
    BY <1>5 DEF Trouble
  <2> QED BY <1>0, <1>00, <1>5, <2>1 DEF TempsInv
<1>6. ASSUME NEW s \in Stores, Kill(s) PROVE TempsInv'
  BY <1>5, <1>6 DEF Kill
<1>7. ASSUME PowerLoss PROVE TempsInv'
  BY <1>5, <1>7 DEF PowerLoss
<1>8. ASSUME NEW s \in Stores, Restart(s) PROVE TempsInv'
  <2>1. UNCHANGED <<dir, local, trouble>>
    BY <1>8 DEF Restart
  <2>2. \A u \in Workers : doing[u] = "rename" => doing'[u] = "rename"
    BY <1>8 DEF Restart, UsersOf, DeathsInv
  <2> QED BY <1>00, <2>1, <2>2 DEF TempsInv
<1>9. ASSUME Tick \/ UNCHANGED evidenceVars PROVE TempsInv'
  <2>1. UNCHANGED <<dir, doing, local, trouble>>
    BY <1>9 DEF Tick, evidenceVars
  <2> QED BY <2>1 DEF TempsInv
<1> QED BY <1>1, <1>2, <1>3, <1>4, <1>6, <1>7, <1>8, <1>9 DEF EvidenceNext

(* A file a temp file is renamed to keeps its content. *)
LEMMA PayloadsStay ==
  ASSUME EvidenceTypeOK, LocalsInv, NEW t \in Workers, Rename(t)
  PROVE  /\ \A p \in Payloads : p \in DOMAIN dir => p \in DOMAIN dir'
         /\ \A n \in DOMAIN dir' : \E m \in DOMAIN dir : dir'[n] = dir[m]
<1>1. doing[t] = "rename"
  BY DEF Rename
<1>2. local[t].temp \in TempNames
  BY <1>1 DEF LocalsInv, LocalsFit
<1>3. \A p \in Payloads : p # local[t].temp
  BY <1>2, TempsAreNot
<1>4. CASE TempMissing(t)
  BY <1>4 DEF TempMissing
<1>5. CASE Renamed(t)
  BY <1>3, <1>5 DEF Renamed
<1> QED BY <1>4, <1>5 DEF Rename

(* Content in the directory stays whole, unless a fault takes it. *)
LEMMA WholeNext ==
  ASSUME EvidenceTypeOK, LocalsInv, KeptInv, [EvidenceNext]_evidenceVars,
         upsets' \intersect {"short write", "power lost"} = {}
  PROVE  \A n \in DOMAIN dir' : dir'[n].whole
<1>1. upsets \intersect {"short write", "power lost"} = {}
  BY Grows
<1>2. \A n \in DOMAIN dir : dir[n].whole
  BY <1>1 DEF KeptInv
<1>3. ASSUME NEW t \in Workers, Store(t) PROVE \A n \in DOMAIN dir' : dir'[n].whole
  <2>1. \/ UNCHANGED dir \/ dir' = With(Temp(t), [mtime |-> now, whole |-> TRUE])
        \/ Trouble("short write")
    BY <1>3 DEF Store
  <2>2. ~Trouble("short write")
    BY DEF Trouble
  <2>3. CASE dir' = With(Temp(t), [mtime |-> now, whole |-> TRUE])
    <3> DEFINE made == [mtime |-> now, whole |-> TRUE]
    <3>1. made.whole
      OBVIOUS
    <3> HIDE DEF made
    <3>2. dir' = [x \in DOMAIN dir \union {Temp(t)} |-> IF x = Temp(t) THEN made ELSE dir[x]]
      BY <2>3 DEF With, made
    <3> QED BY <1>2, <3>1, <3>2
  <2> QED BY <1>2, <2>1, <2>2, <2>3
<1>4. ASSUME NEW t \in Workers, Rename(t) PROVE \A n \in DOMAIN dir' : dir'[n].whole
  BY <1>2, <1>4, PayloadsStay
<1>5. ASSUME NEW t \in Workers, Expire(t) \/ Shrink(t) PROVE \A n \in DOMAIN dir' : dir'[n].whole
  BY <1>2, <1>5, CleanupEffect, UnlinkEffect
<1>6. ASSUME UNCHANGED dir PROVE \A n \in DOMAIN dir' : dir'[n].whole
  BY <1>2, <1>6
<1>7. ~PowerLoss
  BY DEF PowerLoss, Trouble
<1>8. ASSUME NEW t \in Workers, CallStore(t) \/ Sum(t) \/ Finish(t) PROVE UNCHANGED dir
  BY <1>8 DEF CallStore, Sum, Finish
<1>9. (Tick \/ UNCHANGED evidenceVars \/ \E s \in Stores : Kill(s) \/ Restart(s)) => UNCHANGED dir
  BY DEF Tick, evidenceVars, Kill, Restart
<1> QED BY <1>3, <1>4, <1>5, <1>6, <1>7, <1>8, <1>9 DEF EvidenceNext

(* What is kept is still kept, and what a step returns is kept. *)
LEMMA KeptNext ==
  ASSUME EvidenceTypeOK, LocalsInv, KeptInv, [EvidenceNext]_evidenceVars PROVE KeptInv'
<1>0. \A p \in returned : Safe(p) /\ p \in Payloads
  BY DEF KeptInv, EvidenceTypeOK
<1>00. \A t \in Workers : Cleaning(t) => Safe(local[t].payload) /\ local[t].payload \in Payloads
  BY DEF KeptInv, LocalsInv, LocalsFit
<1>1. ASSUME \A p \in Payloads : Safe(p) => Safe(p)',
             \A p \in returned' : p \in returned \/ Safe(p)',
             \A t \in Workers : Cleaning(t)' =>
               (Cleaning(t) /\ local'[t].payload = local[t].payload) \/ Safe(local[t].payload)'
      PROVE  KeptInv'
  <2>1. \A p \in returned' : Safe(p)'
    BY <1>0, <1>1
  <2>2. ASSUME NEW t \in Workers, Cleaning(t)' PROVE Safe(local[t].payload)'
    <3>1. CASE Cleaning(t) /\ local'[t].payload = local[t].payload
      BY <1>00, <1>1, <3>1 DEF Safe
    <3> QED BY <1>1, <2>2, <3>1
  <2> QED BY <2>1, <2>2, WholeNext DEF KeptInv
<1>2. ASSUME NEW t \in Workers, Store(t) PROVE KeptInv'
  <2>1. DOMAIN dir \subseteq DOMAIN dir' /\ UNCHANGED evicted
    BY <1>2 DEF Store, With
  <2>2. \A p \in returned' : p \in returned \/ p \in DOMAIN dir'
    BY <1>2 DEF Store, StoreReturns, StoreRaises
  <2>3. ~Cleaning(t)'
    BY <1>2, StoreEffect DEF Cleaning
  <2>4. \A u \in Workers : Cleaning(u)' => Cleaning(u) /\ local'[u].payload = local[u].payload
    BY <1>2, <2>3, ThreadStep DEF Cleaning
  <2> QED BY <1>1, <2>1, <2>2, <2>4 DEF Safe
<1>3. ASSUME NEW t \in Workers, Rename(t) PROVE KeptInv'
  <2>1. \A p \in Payloads : Safe(p) => Safe(p)'
    BY <1>3, PayloadsStay DEF Safe, Rename
  <2>2. \A p \in returned' : p \in returned \/ p \in DOMAIN dir'
    BY <1>3, RenameMoves DEF Rename, Renamed, TempMissing, StoreReturns, StoreRaises, BeginCleanup
  <2>3. Cleaning(t)' => local'[t].payload \in DOMAIN dir'
    <3>1. Cleaning(t)' => Renamed(t) /\ SameCall(t)
      BY <1>3, RenameEffect DEF Cleaning
    <3>2. Renamed(t) => local[t].payload \in DOMAIN dir'
      BY DEF Renamed
    <3> QED BY <3>1, <3>2 DEF SameCall
  <2>4. \A u \in Workers : u # t /\ Cleaning(u)' => Cleaning(u) /\ local'[u].payload = local[u].payload
    BY <1>3, ThreadStep DEF Cleaning
  <2> QED BY <1>1, <2>1, <2>2, <2>3, <2>4 DEF Safe
<1>4. ASSUME NEW t \in Workers, Expire(t) \/ Shrink(t) PROVE KeptInv'
  <2>1. UNCHANGED returned
    BY <1>4, CleanupEffect DEF CleanupOnly
  <2>2. ASSUME NEW p \in Payloads, Safe(p) PROVE Safe(p)'
    <3>1. CASE UNCHANGED <<dir, evicted>>
      BY <2>2, <3>1 DEF Safe
    <3>2. ASSUME NEW name, Unlinks(t, name) PROVE Safe(p)'
      <4>1. DOMAIN dir' = DOMAIN dir \ {name}
        BY <3>2, UnlinkEffect
      <4>2. evicted' = evicted \union ({name} \intersect Payloads)
        BY <3>2 DEF Unlinks
      <4> QED BY <2>2, <4>1, <4>2 DEF Safe
    <3> QED BY <1>4, <3>1, <3>2, CleanupEffect
  <2>3. \A u \in Workers : Cleaning(u)' => Cleaning(u) /\ local'[u].payload = local[u].payload
    BY <1>4, CleanupEffect DEF Cleaning, SameCall
  <2> QED BY <1>1, <2>1, <2>2, <2>3
<1>5. ASSUME NEW t \in Workers, CallStore(t) \/ Sum(t) \/ Finish(t) PROVE KeptInv'
  <2>1. UNCHANGED <<dir, evicted>>
    BY <1>5 DEF CallStore, Sum, Finish, historyVars
  <2>2. \A p \in returned' : p \in returned \/ Safe(p)
    <3>1. CASE CallStore(t) \/ Sum(t)
      BY <3>1 DEF CallStore, Sum, CleanupOnly, historyVars
    <3>2. CASE Finish(t)
      <4>1. Cleaning(t) /\ returned' = returned \union {local[t].payload}
        BY <3>2 DEF Finish, StoreReturns, Cleaning
      <4> QED BY <1>00, <4>1
    <3> QED BY <1>5, <3>1, <3>2
  <2>3. Cleaning(t)' => Cleaning(t) /\ local'[t].payload = local[t].payload
    <3>1. CallStore(t) => ~Cleaning(t)'
      BY Proceeds DEF CallStore, Cleaning
    <3>2. Finish(t) => ~Cleaning(t)'
      BY Proceeds DEF Finish, StoreReturns, Cleaning
    <3>3. ASSUME Sum(t) PROVE Cleaning(t) /\ local'[t].payload = local[t].payload
      <4>1. local'[t] = [local[t] EXCEPT !.total = Cardinality(local[t].surviving)]
        BY <3>3, Proceeds DEF Sum
      <4>2. LocalTyped(t)
        BY DEF LocalsInv, LocalsFit, LocalTyped
      <4> QED BY <3>3, <4>1, <4>2 DEF LocalTyped, Sum, Cleaning
    <3> QED BY <1>5, <3>1, <3>2, <3>3
  <2>4. \A u \in Workers : Cleaning(u)' => Cleaning(u) /\ local'[u].payload = local[u].payload
    BY <1>5, <2>3, ThreadStep DEF Cleaning
  <2>5. \A p : Safe(p)' <=> Safe(p)
    BY <2>1 DEF Safe
  <2> QED BY <1>1, <2>2, <2>4, <2>5
<1>6. ASSUME NEW stopped, Stop(stopped), DOMAIN dir' = DOMAIN dir PROVE KeptInv'
  <2>1. UNCHANGED <<returned, evicted>>
    BY <1>6 DEF Stop
  <2>2. \A u \in Workers : Cleaning(u)' => Cleaning(u) /\ local'[u].payload = local[u].payload
    BY <1>6 DEF Stop, Cleaning
  <2> QED BY <1>1, <1>6, <2>1, <2>2 DEF Safe
<1>7. ASSUME NEW s \in Stores, Kill(s) PROVE KeptInv'
  BY <1>6, <1>7 DEF Kill
<1>8. ASSUME PowerLoss PROVE KeptInv'
  BY <1>6, <1>8 DEF PowerLoss
<1>9. ASSUME NEW s \in Stores, Restart(s) PROVE KeptInv'
  <2>1. UNCHANGED <<dir, local, returned, evicted>>
    BY <1>9 DEF Restart, historyVars
  <2>2. \A u \in Workers : Cleaning(u)' => Cleaning(u)
    BY <1>9 DEF Restart, Cleaning
  <2> QED BY <1>1, <2>1, <2>2 DEF Safe
<1>10. ASSUME Tick \/ UNCHANGED evidenceVars PROVE KeptInv'
  <2>1. UNCHANGED <<dir, doing, local, returned, evicted>>
    BY <1>10 DEF Tick, evidenceVars, historyVars
  <2> QED BY <1>1, <2>1 DEF Safe, Cleaning
<1> QED BY <1>2, <1>3, <1>4, <1>5, <1>7, <1>8, <1>9, <1>10 DEF EvidenceNext

(* The counters are numbers, one of each to a store. *)
LEMMA CountsTyped ==
  ASSUME EvidenceTypeOK
  PROVE  /\ since \in [Stores -> Nat] /\ count \in [Stores -> Int] /\ calls \in Nat
         /\ storeOf \in [Workers -> Stores]
<1>1. /\ since \in [Stores -> 0 .. MaxCalls] /\ calls \in 0 .. MaxCalls
      /\ count \in [Stores -> Int] /\ storeOf \in [Workers -> Stores]
  BY DEF EvidenceTypeOK
<1>2. 0 .. MaxCalls \subseteq Nat
  <2> USE EvidenceAssumption
  <2> QED OBVIOUS
<1> QED BY <1>1, <1>2

(* Whoever is about to store was counted as a call. *)
LEMMA SinceNext ==
  ASSUME EvidenceTypeOK, LocalsInv, SinceInv, DeathsInv, [EvidenceNext]_evidenceVars
  PROVE  SinceInv' /\ since' \in [Stores -> Nat]
<1> DEFINE Ok == SinceInv' /\ since' \in [Stores -> Nat]
<1>0. /\ IsFiniteSet(InStore) /\ Cardinality(InStore) \in Nat
      /\ IsFiniteSet(InStore') /\ Cardinality(InStore') \in Nat
  <2>1. IsFiniteSet(Workers)
    BY EvidenceAssumption
  <2> QED BY <2>1, FS_Subset, FS_CardinalityType DEF InStore
<1>00. since \in [Stores -> Nat] /\ calls \in Nat /\ storeOf \in [Workers -> Stores]
  BY CountsTyped
<1>1. ASSUME InStore' \subseteq InStore, calls' = calls,
             \A s \in Stores : since'[s] \in {0, since[s]}, since' \in [Stores -> Nat]
      PROVE  Ok
  <2>1. Cardinality(InStore') <= Cardinality(InStore)
    BY <1>0, <1>1, FS_Subset
  <2>2. ASSUME NEW s \in Stores PROVE since'[s] + Cardinality(InStore') <= calls'
    <3>1. since[s] + Cardinality(InStore) <= calls /\ since[s] \in Nat
      BY <1>00 DEF SinceInv
    <3> QED BY <1>0, <1>00, <1>1, <2>1, <3>1
  <2>3. Cardinality(InStore)' = Cardinality(InStore')
    OBVIOUS
  <2> QED BY <1>1, <2>2, <2>3 DEF SinceInv
<1>2. ASSUME NEW t \in Workers, CallStore(t) PROVE Ok
  <2>1. doing'[t] = "store" /\ doing[t] = "idle" /\ calls' = calls + 1 /\ UNCHANGED since
    BY <1>2, Proceeds DEF CallStore, storeVars
  <2>2. InStore' = InStore \union {t} /\ t \notin InStore
    BY <1>2, <2>1, ThreadStep DEF InStore
  <2>3. Cardinality(InStore') = Cardinality(InStore) + 1
    BY <1>0, <2>2, FS_AddElement
  <2> QED BY <1>0, <1>00, <2>1, <2>3 DEF SinceInv
<1>3. ASSUME NEW t \in Workers, Store(t) PROVE Ok
  <2>1. doing[t] = "store" /\ UNCHANGED <<since, calls>>
    BY <1>3 DEF Store, storeVars
  <2>2. InStore' \subseteq InStore
    BY <1>3, <2>1, ThreadStep DEF InStore
  <2> QED BY <1>00, <1>1, <2>1, <2>2
<1>4. ASSUME NEW t \in Workers, Rename(t) PROVE Ok
  <2>1. doing[t] = "rename" /\ doing'[t] \in {"idle", "expire"} /\ UNCHANGED calls
    BY <1>4, RenameEffect DEF Rename
  <2>2. InStore' = InStore \ {t} /\ t \in InStore
    BY <1>4, <2>1, ThreadStep DEF InStore
  <2>3. Cardinality(InStore') = Cardinality(InStore) - 1
    BY <1>0, <2>2, FS_RemoveElement
  <2>4. CASE UNCHANGED since
    BY <1>00, <1>1, <2>1, <2>2, <2>4
  <2>5. CASE since' = [since EXCEPT ![storeOf[t]] = @ + 1]
    <3>1. since' \in [Stores -> Nat]
      BY <1>00, <2>5
    <3>2. ASSUME NEW s \in Stores PROVE since'[s] + Cardinality(InStore') <= calls'
      <4>1. since'[s] <= since[s] + 1 /\ since'[s] \in Nat /\ since[s] \in Nat
        BY <1>00, <2>5, <3>1
      <4>2. since[s] + Cardinality(InStore) <= calls
        BY DEF SinceInv
      <4> QED BY <1>0, <1>00, <2>1, <2>3, <4>1, <4>2
    <3>3. Cardinality(InStore)' = Cardinality(InStore')
      OBVIOUS
    <3> QED BY <3>1, <3>2, <3>3 DEF SinceInv
  <2> QED BY <1>4, <2>4, <2>5 DEF Rename, Renamed, TempMissing, storeVars
<1>5. ASSUME NEW t \in Workers, Expire(t) \/ Shrink(t) PROVE Ok
  <2>1. UNCHANGED <<since, calls>>
    BY <1>5, CleanupEffect DEF CleanupOnly, storeVars
  <2>2. InStore' \subseteq InStore
    BY <1>5, CleanupEffect DEF InStore, Cleaning
  <2> QED BY <1>00, <1>1, <2>1, <2>2
<1>6. ASSUME NEW t \in Workers, Sum(t) \/ Finish(t) PROVE Ok
  <2>1. UNCHANGED calls /\ doing'[t] \in {"idle", "shrink"}
    BY <1>6, Proceeds DEF Sum, Finish, CleanupOnly, StoreReturns
  <2>2. InStore' \subseteq InStore
    BY <1>6, <2>1, ThreadStep DEF InStore
  <2>3. UNCHANGED since \/ since' = [since EXCEPT ![storeOf[t]] = 0]
    BY <1>6 DEF Sum, Finish, CleanupOnly, storeVars
  <2> QED BY <1>00, <1>1, <2>1, <2>2, <2>3
<1>7. ASSUME NEW stopped, Stop(stopped) PROVE Ok
  <2>1. InStore' \subseteq InStore /\ UNCHANGED <<since, calls>>
    BY <1>7 DEF Stop, InStore, storeVars
  <2> QED BY <1>00, <1>1, <2>1
<1>8. ASSUME NEW s \in Stores, Restart(s) PROVE Ok
  <2>1. InStore' \subseteq InStore /\ UNCHANGED calls /\ since' = [since EXCEPT ![s] = 0]
    BY <1>8 DEF Restart, InStore
  <2> QED BY <1>00, <1>1, <2>1
<1>9. ASSUME Tick \/ UNCHANGED evidenceVars PROVE Ok
  <2>1. UNCHANGED <<doing, since, calls>>
    BY <1>9 DEF Tick, evidenceVars, storeVars
  <2> QED BY <1>00, <1>1, <2>1 DEF InStore
<1> QED BY <1>2, <1>3, <1>4, <1>5, <1>6, <1>7, <1>8, <1>9 DEF EvidenceNext, Kill, PowerLoss

(* Every step keeps the type of every variable. *)
LEMMA TypeNext ==
  ASSUME EvidenceInv, [EvidenceNext]_evidenceVars PROVE EvidenceTypeOK'
<1> USE DEF EvidenceInv
<1>1. /\ dir' \in [DOMAIN dir' -> [mtime: 0 .. now', whole: BOOLEAN]]
      /\ DOMAIN dir' \subseteq Payloads \union TempNames /\ now' \in Nat
  BY DirNext DEF DirOK, Names
<1>2. storeOf' \in [Workers -> Stores] /\ trouble' \in 0 .. MaxTrouble
  BY Grows DEF EvidenceTypeOK
<1>3. \A t \in Workers : local'[t].removed \in 0 .. Cardinality(Payloads \union TempNames)
  <2> SUFFICES ASSUME NEW t \in Workers
               PROVE  local'[t].removed \in 0 .. Cardinality(Payloads \union TempNames)
    OBVIOUS
  <2>1. LocalsFit(t)'
    BY LocalsNext DEF LocalsInv
  <2>2. /\ Cardinality(local'[t].listed) \in Nat /\ Cardinality(local'[t].surviving) \in Nat
        /\ local'[t].removed \in Nat
    BY <2>1, FS_CardinalityType DEF LocalsFit
  <2>3. local'[t].removed + Cardinality(local'[t].listed) + Cardinality(local'[t].surviving)
         <= Cardinality(Names)
    BY <2>1 DEF LocalsFit
  <2>4. local'[t].removed \in 0 .. Cardinality(Names)
    BY <2>2, <2>3, NamesFinite
  <2> QED BY <2>4 DEF Names
<1>4. doing' \in [Workers -> {"idle", "store", "rename", "expire", "shrink", "dead"}]
  <2>1. ASSUME NEW t \in Workers, NEW label, NEW locals, Proceed(t, label, locals),
               label \in {"idle", "store", "rename", "expire", "shrink"}
        PROVE  doing' \in [Workers -> {"idle", "store", "rename", "expire", "shrink", "dead"}]
    BY <2>1 DEF Proceed, EvidenceTypeOK
  <2>2. ASSUME NEW t \in Workers, CallStore(t) \/ Store(t) \/ Rename(t)
        PROVE  \E label, locals : /\ Proceed(t, label, locals)
                                  /\ label \in {"idle", "store", "rename", "expire", "shrink"}
    BY <2>2 DEF CallStore, Store, Rename, Renamed, BeginCleanup, StoreReturns, StoreRaises
  <2>3. ASSUME NEW t \in Workers, Expire(t) \/ Sum(t) \/ Shrink(t) \/ Finish(t)
        PROVE  \E label, locals : /\ Proceed(t, label, locals)
                                  /\ label \in {"idle", "store", "rename", "expire", "shrink"}
    BY <2>3 DEF Expire, Sum, Shrink, Finish, StoreReturns
  <2>4. ASSUME NEW stopped, Stop(stopped)
        PROVE  doing' \in [Workers -> {"idle", "store", "rename", "expire", "shrink", "dead"}]
    BY <2>4 DEF Stop, EvidenceTypeOK
  <2>5. ASSUME NEW s \in Stores, Restart(s)
        PROVE  doing' \in [Workers -> {"idle", "store", "rename", "expire", "shrink", "dead"}]
    BY <2>5 DEF Restart, EvidenceTypeOK
  <2>6. ASSUME Tick \/ UNCHANGED evidenceVars
        PROVE  doing' \in [Workers -> {"idle", "store", "rename", "expire", "shrink", "dead"}]
    BY <2>6 DEF Tick, evidenceVars, EvidenceTypeOK
  <2> QED BY <2>1, <2>2, <2>3, <2>4, <2>5, <2>6 DEF EvidenceNext, Kill, PowerLoss
<1>5. calls' \in 0 .. MaxCalls
  <2>1. UNCHANGED calls \/ (calls < MaxCalls /\ calls' = calls + 1)
    <3>1. (\E t \in Workers : CallStore(t)) => calls < MaxCalls /\ calls' = calls + 1
      BY DEF CallStore
    <3>2. (\E t \in Workers : Store(t) \/ Rename(t)) => UNCHANGED calls
      BY DEF Store, Rename
    <3>3. (\E t \in Workers : Expire(t) \/ Sum(t) \/ Shrink(t) \/ Finish(t)) => UNCHANGED calls
      BY DEF Expire, Sum, Shrink, Finish, CleanupOnly
    <3>4. (\E s \in Stores : Kill(s) \/ Restart(s)) \/ PowerLoss \/ Tick \/ UNCHANGED evidenceVars
            => UNCHANGED calls
      BY DEF Kill, Restart, PowerLoss, Stop, Tick, evidenceVars
    <3> QED BY <3>1, <3>2, <3>3, <3>4 DEF EvidenceNext
  <2>2. calls \in 0 .. MaxCalls /\ MaxCalls \in Nat
    <3> USE EvidenceAssumption
    <3> QED BY DEF EvidenceTypeOK
  <2> QED BY <2>1, <2>2
<1>6. since' \in [Stores -> 0 .. MaxCalls]
  <2>1. SinceInv' /\ since' \in [Stores -> Nat]
    BY SinceNext
  <2>2. ASSUME NEW s \in Stores PROVE since'[s] \in 0 .. MaxCalls
    <3>1. since'[s] + Cardinality(InStore') <= calls'
      BY <2>1 DEF SinceInv
    <3>2. Cardinality(InStore') \in Nat
      <4>1. IsFiniteSet(Workers)
        BY EvidenceAssumption
      <4> QED BY <4>1, FS_Subset, FS_CardinalityType DEF InStore
    <3>3. MaxCalls \in Nat
      <4> USE EvidenceAssumption
      <4> QED OBVIOUS
    <3> QED BY <1>5, <2>1, <3>1, <3>2, <3>3
  <2> QED BY <2>1, <2>2
<1>7. returned' \subseteq Payloads /\ evicted' \subseteq Payloads
  <2>1. ASSUME NEW t \in Workers, CallStore(t) PROVE UNCHANGED <<returned, evicted>>
    BY <2>1 DEF CallStore, historyVars
  <2>2. \A t \in Workers : doing[t] \in {"store", "rename"} \/ Cleaning(t) =>
          local[t].payload \in Payloads
    BY DEF LocalsInv, LocalsFit
  <2>3. ASSUME NEW t \in Workers, Store(t) \/ Rename(t) \/ Finish(t)
        PROVE  UNCHANGED evicted /\ returned' \subseteq returned \union {local[t].payload}
    BY <2>3 DEF Store, Rename, Finish, Renamed, BeginCleanup, StoreReturns, StoreRaises
  <2>4. ASSUME NEW t \in Workers, Store(t) \/ Rename(t) \/ Finish(t)
        PROVE  doing[t] \in {"store", "rename"} \/ Cleaning(t)
    BY <2>4 DEF Store, Rename, Finish, Cleaning
  <2>5. ASSUME NEW t \in Workers, Expire(t) \/ Shrink(t)
        PROVE  UNCHANGED returned /\ (UNCHANGED evicted \/ \E n : evicted' = evicted \union ({n} \intersect Payloads))
    BY <2>5, CleanupEffect DEF CleanupOnly, Unlinks
  <2>6. ASSUME NEW t \in Workers, Sum(t) PROVE UNCHANGED <<returned, evicted>>
    BY <2>6 DEF Sum, CleanupOnly
  <2>7. (\E s \in Stores : Kill(s) \/ Restart(s)) \/ PowerLoss \/ Tick \/ UNCHANGED evidenceVars
            => UNCHANGED <<returned, evicted>>
    BY DEF Kill, Restart, PowerLoss, Stop, Tick, evidenceVars, historyVars
  <2>8. returned \subseteq Payloads /\ evicted \subseteq Payloads
    BY DEF EvidenceTypeOK
  <2> QED BY <2>1, <2>2, <2>3, <2>4, <2>5, <2>6, <2>7, <2>8 DEF EvidenceNext
<1>8. count' \in [Stores -> Int]
  <2>1. UNCHANGED count \/ \E s \in Stores, k \in Int : count' = [count EXCEPT ![s] = k]
    <3>1. ASSUME NEW t \in Workers, Rename(t)
          PROVE  UNCHANGED count \/ \E s \in Stores, k \in Int : count' = [count EXCEPT ![s] = k]
      <4>1. storeOf[t] \in Stores /\ count[storeOf[t]] + 1 \in Int
        BY CountsTyped
      <4> QED BY <3>1, <4>1 DEF Rename, Renamed, TempMissing, storeVars
    <3>2. ASSUME NEW t \in Workers, Finish(t)
          PROVE  \E s \in Stores, k \in Int : count' = [count EXCEPT ![s] = k]
      <4>1. local[t].removed \in Int
        BY DEF LocalsInv, LocalsFit
      <4>2. storeOf[t] \in Stores /\ count[storeOf[t]] - local[t].removed \in Int
        BY <4>1, CountsTyped
      <4> QED BY <3>2, <4>2 DEF Finish
    <3>3. ASSUME NEW s \in Stores, Restart(s)
          PROVE  \E k \in Int : count' = [count EXCEPT ![s] = k]
      <4>1. Cardinality(DOMAIN dir) \in Int
        BY DirFinite
      <4> QED BY <3>3, <4>1 DEF Restart
    <3>4. (\E t \in Workers : CallStore(t) \/ Store(t) \/ Expire(t) \/ Sum(t) \/ Shrink(t))
            => UNCHANGED count
      BY DEF CallStore, Store, Expire, Sum, Shrink, CleanupOnly, storeVars
    <3>5. (\E s \in Stores : Kill(s)) \/ PowerLoss \/ Tick \/ UNCHANGED evidenceVars => UNCHANGED count
      BY DEF Kill, PowerLoss, Stop, Tick, evidenceVars, storeVars
    <3> QED BY <3>1, <3>2, <3>3, <3>4, <3>5 DEF EvidenceNext
  <2>2. count \in [Stores -> Int]
    BY DEF EvidenceTypeOK
  <2> QED BY <2>1, <2>2
<1>9. \A t \in Workers : doing'[t] = "rename" => local'[t].temp \in DOMAIN dir' \/ "temp removed" \in upsets'
  <2> DEFINE Held(u) == doing[u] = "rename" => local[u].temp \in DOMAIN dir \/ "temp removed" \in upsets
  <2>0. \A u \in Workers : Held(u)
    BY DEF EvidenceTypeOK
  <2>00. \A u \in Workers : doing[u] = "rename" => local[u].temp \in TempNames /\ local[u].temp.thread = u
    BY DEF LocalsInv, LocalsFit
  <2>01. upsets \subseteq upsets'
    BY Grows
  <2>1. ASSUME NEW t \in Workers, Store(t), NEW u \in Workers PROVE Held(u)'
    <3>1. DOMAIN dir \subseteq DOMAIN dir'
      BY <2>1 DEF Store, With
    <3>2. CASE u # t
      BY <2>0, <2>01, <2>1, <3>1, <3>2, ThreadStep
    <3>3. CASE u = t
      <4>1. doing'[t] = "rename" => local'[t].temp = Temp(t)
                                    /\ \E whole \in BOOLEAN : dir' = With(Temp(t), [mtime |-> now, whole |-> whole])
        BY <2>1, StoreEffect
      <4>2. doing'[t] = "rename" => Temp(t) \in DOMAIN dir'
        BY <4>1 DEF With
      <4> QED BY <3>3, <4>1, <4>2
    <3> QED BY <3>2, <3>3
  <2>2. ASSUME NEW t \in Workers, Rename(t), NEW u \in Workers PROVE Held(u)'
    <3>1. CASE u = t
      BY <2>2, <3>1, RenameEffect
    <3>2. CASE u # t
      <4>1. doing'[u] = doing[u] /\ local'[u] = local[u]
        BY <2>2, <3>2, ThreadStep
      <4>2. doing[u] = "rename" => local[u].temp # local[t].temp
        BY <2>00, <2>2, <3>2 DEF Rename
      <4>3. DOMAIN dir \ {local[t].temp} \subseteq DOMAIN dir'
        BY <2>2 DEF Rename, Renamed, TempMissing
      <4> QED BY <2>0, <2>01, <4>1, <4>2, <4>3
    <3> QED BY <3>1, <3>2
  <2>3. ASSUME NEW t \in Workers, Expire(t) \/ Shrink(t), NEW u \in Workers PROVE Held(u)'
    <3>1. doing'[u] = "rename" => doing[u] = "rename" /\ local'[u] = local[u]
      BY <2>3, CleanupEffect DEF Cleaning
    <3>2. ASSUME doing[u] = "rename", local[u].temp \in DOMAIN dir
          PROVE  local[u].temp \in DOMAIN dir' \/ "temp removed" \in upsets'
      <4>1. local[u].temp \notin Payloads
        BY <2>00, <3>2, TempsAreNot
      <4>2. ASSUME NEW name, Unlinks(t, name)
            PROVE  local[u].temp \in DOMAIN dir' \/ "temp removed" \in upsets'
        <5>1. CASE name = local[u].temp
          BY <4>1, <4>2, <5>1 DEF Unlinks, IsTemp
        <5>2. CASE name # local[u].temp
          BY <3>2, <4>2, <5>2, UnlinkEffect
        <5> QED BY <5>1, <5>2
      <4> QED BY <2>3, <3>2, <4>2, CleanupEffect
    <3> QED BY <2>0, <2>01, <3>1, <3>2
  <2>4. ASSUME NEW t \in Workers, CallStore(t) \/ Sum(t) \/ Finish(t), NEW u \in Workers PROVE Held(u)'
    <3>1. UNCHANGED dir
      BY <2>4 DEF CallStore, Sum, Finish
    <3>2. ASSUME NEW label \in {"store", "shrink", "idle"}, NEW locals, Proceed(t, label, locals)
          PROVE  doing'[t] # "rename"
      BY <3>2, Proceeds
    <3>3. doing'[t] # "rename"
      BY <2>4, <3>2 DEF CallStore, Sum, Finish, StoreReturns
    <3> QED BY <2>0, <2>01, <2>4, <3>1, <3>3, ThreadStep
  <2>5. ASSUME NEW stopped, Stop(stopped), DOMAIN dir' = DOMAIN dir, NEW u \in Workers PROVE Held(u)'
    <3>1. doing'[u] = "rename" => doing[u] = "rename" /\ local'[u] = local[u]
      BY <2>5 DEF Stop
    <3> QED BY <2>0, <2>01, <2>5, <3>1
  <2>6. ASSUME NEW s \in Stores, Kill(s) \/ Restart(s), NEW u \in Workers PROVE Held(u)'
    <3>1. CASE Kill(s)
      BY <2>5, <3>1 DEF Kill
    <3>2. CASE Restart(s)
      <4>1. UNCHANGED <<dir, local>> /\ (doing'[u] = "rename" => doing[u] = "rename")
        BY <3>2 DEF Restart
      <4> QED BY <2>0, <2>01, <4>1
    <3> QED BY <2>6, <3>1, <3>2
  <2>7. ASSUME PowerLoss, NEW u \in Workers PROVE Held(u)'
    BY <2>5, <2>7 DEF PowerLoss
  <2>8. ASSUME Tick \/ UNCHANGED evidenceVars, NEW u \in Workers PROVE Held(u)'
    <3>1. UNCHANGED <<dir, doing, local>>
      BY <2>8 DEF Tick, evidenceVars
    <3> QED BY <2>0, <2>01, <3>1
  <2> QED BY <2>1, <2>2, <2>3, <2>4, <2>6, <2>7, <2>8 DEF EvidenceNext
<1> QED BY <1>1, <1>2, <1>3, <1>4, <1>5, <1>6, <1>7, <1>8, <1>9 DEF EvidenceTypeOK

-----------------------------------------------------------------------------
(* The count.                                                              *)

(* Threads that have nothing removed owe nothing before and after a step   *)
(* that leaves what everyone removed.                                      *)
LEMMA OwedStays ==
  ASSUME NEW owed, Owed(owed), \A t \in Workers : local'[t].removed = local[t].removed
  PROVE  Owed(owed)'
BY DEF Owed

(* One thread at a time has removed files, unless cleanups met. *)
LEMMA OneRemoves ==
  ASSUME EvidenceTypeOK, LocalsInv, CountInv, [EvidenceNext]_evidenceVars,
         "cleanups met" \notin upsets'
  PROVE  \A t, u \in Workers : local'[t].removed # 0 /\ local'[u].removed # 0 => t = u
<1>0. /\ "cleanups met" \notin upsets
      /\ \A t, u \in Workers : local[t].removed # 0 /\ local[u].removed # 0 => t = u
  BY Grows DEF CountInv
<1>1. ASSUME \A u \in Workers : local'[u].removed = 0 \/ local'[u].removed = local[u].removed
      PROVE  \A t, u \in Workers : local'[t].removed # 0 /\ local'[u].removed # 0 => t = u
  BY <1>0, <1>1
<1>2. ASSUME NEW t \in Workers, CallStore(t) \/ Store(t) \/ Rename(t) \/ Finish(t)
      PROVE  \A u \in Workers : local'[u].removed = 0 \/ local'[u].removed = local[u].removed
  <2>2. local'[t].removed = 0
    <3>1. CASE Rename(t)
      <4>1. NoLocals.removed = 0
        BY DEF NoLocals
      <4> QED BY <3>1, <4>1, RenameEffect
    <3>2. CASE Store(t)
      <4>1. NoLocals.removed = 0
        BY DEF NoLocals
      <4> QED BY <3>2, <4>1, StoreEffect DEF Unlisting
    <3>3. CASE CallStore(t)
      <4>1. PICK p \in Payloads : local'[t] = [NoLocals EXCEPT !.payload = p]
        BY <3>3, Proceeds DEF CallStore
      <4> QED BY <4>1 DEF NoLocals
    <3>4. CASE Finish(t)
      <4>1. local'[t] = NoLocals
        BY <3>4, Proceeds DEF Finish, StoreReturns
      <4>2. NoLocals.removed = 0
        BY DEF NoLocals
      <4> QED BY <4>1, <4>2
    <3> QED BY <1>2, <3>1, <3>2, <3>3, <3>4
  <2> QED BY <1>2, <2>2, ThreadStep
<1>3. ASSUME NEW t \in Workers, Sum(t)
      PROVE  \A u \in Workers : local'[u].removed = 0 \/ local'[u].removed = local[u].removed
  <2>1. local'[t] = [local[t] EXCEPT !.total = Cardinality(local[t].surviving)]
    BY <1>3, Proceeds DEF Sum
  <2>2. LocalTyped(t)
    BY DEF LocalsInv, LocalsFit, LocalTyped
  <2>3. local'[t].removed = local[t].removed
    BY <2>1, <2>2 DEF LocalTyped
  <2> QED BY <1>3, <2>3, ThreadStep
<1>4. ASSUME NEW t \in Workers, Expire(t) \/ Shrink(t)
      PROVE  \A u, v \in Workers : local'[u].removed # 0 /\ local'[v].removed # 0 => u = v
  <2>1. ASSUME NEW name, Unlinks(t, name)
        PROVE  \A u \in Workers : u # t => local'[u].removed = 0
    <3>1. \A u \in Workers \ {t} : ~Cleaning(u)
      BY <2>1 DEF Unlinks
    <3>2. \A u \in Workers : u # t => local[u].removed = 0
      BY <3>1 DEF LocalsInv, LocalsFit
    <3> QED BY <1>4, <3>2, CleanupEffect
  <2> QED BY <1>1, <1>4, <2>1, CleanupEffect
<1>5. ASSUME NEW stopped, Stop(stopped)
      PROVE  \A u \in Workers : local'[u].removed = 0 \/ local'[u].removed = local[u].removed
  BY <1>5 DEF Stop, NoLocals
<1>6. (Tick \/ UNCHANGED evidenceVars \/ \E s \in Stores : Restart(s)) => UNCHANGED local
  BY DEF Tick, evidenceVars, Restart
<1> QED BY <1>1, <1>2, <1>3, <1>4, <1>5, <1>6 DEF EvidenceNext, Kill, PowerLoss

(* The count of a store is its files, less the temp files, and what        *)
(* cleanups owe it.                                                        *)
CountAdds(s) ==
  \E owed \in 0 .. Cardinality(Names) :
     /\ count[s] = Cardinality(DOMAIN dir) - Cardinality(Renaming) + owed
     /\ Owed(owed)

(* A count that was the files less the stores that have yet to rename, and *)
(* what cleanups have yet to take off, is so after every step of a thread. *)
LEMMA CountStep ==
  ASSUME EvidenceInv, [EvidenceNext]_evidenceVars, NEW s \in Stores,
         \A t \in Workers : storeOf[t] = s, upsets' \intersect Interference = {}
  PROVE  CountAdds(s)'
<1> USE DEF EvidenceInv
<1>0. upsets \subseteq upsets'
  BY Grows
<1>00. /\ CountAdds(s)
       /\ "cleanups met" \notin upsets /\ "temp removed" \notin upsets
       /\ "stored twice" \notin upsets' /\ "cleanups met" \notin upsets'
  BY <1>0 DEF CountInv, CountAdds, Interference
<1>01. PICK owed \in 0 .. Cardinality(Names) :
         /\ count[s] = Cardinality(DOMAIN dir) - Cardinality(Renaming) + owed
         /\ Owed(owed)
  BY <1>00 DEF CountAdds
<1>02. owed \in Int /\ count[s] \in Int /\ Cardinality(Names) \in Nat
  BY NamesFinite, CountsTyped
<1>03. /\ IsFiniteSet(DOMAIN dir) /\ Cardinality(DOMAIN dir) \in Int
       /\ IsFiniteSet(Renaming) /\ Cardinality(Renaming) \in Int
  <2>1. IsFiniteSet(Workers)
    BY EvidenceAssumption
  <2> QED BY <2>1, DirFinite, FS_Subset, FS_CardinalityType DEF Renaming
<1>04. \A u \in Workers : ~Cleaning(u) => local[u].removed = 0
  BY DEF LocalsInv, LocalsFit
<1>05. NoLocals.removed = 0
  BY DEF NoLocals
<1>1. ASSUME NEW t \in Workers, CallStore(t) PROVE CountAdds(s)'
  <2>1. doing[t] = "idle" /\ UNCHANGED <<dir, count>>
    BY <1>1 DEF CallStore, storeVars
  <2>2. PICK p \in Payloads : Proceed(t, "store", [NoLocals EXCEPT !.payload = p])
    BY <1>1 DEF CallStore
  <2>3. doing'[t] = "store" /\ local'[t] = [NoLocals EXCEPT !.payload = p]
    BY <2>2, Proceeds
  <2>4. local'[t].removed = local[t].removed
    BY <1>04, <2>1, <2>3 DEF NoLocals, Cleaning
  <2>5. Renaming' = Renaming
    BY <1>1, <2>1, <2>3, ThreadStep DEF Renaming
  <2>6. Owed(owed)'
    BY <1>01, <1>1, <2>4, ThreadStep, OwedStays
  <2> QED BY <1>01, <2>1, <2>5, <2>6 DEF CountAdds
<1>2. ASSUME NEW t \in Workers, Store(t) PROVE CountAdds(s)'
  <2>1. doing[t] = "store" /\ UNCHANGED count
    BY <1>2 DEF Store, storeVars
  <2>2. local'[t].removed = local[t].removed
    BY <1>04, <1>05, <1>2, <2>1, StoreEffect DEF Unlisting, Cleaning
  <2>3. Owed(owed)'
    BY <1>01, <1>2, <2>2, ThreadStep, OwedStays
  <2>4. CASE doing'[t] = "idle" /\ UNCHANGED dir
    <3>1. Renaming' = Renaming
      BY <1>2, <2>1, <2>4, ThreadStep DEF Renaming
    <3> QED BY <1>01, <2>1, <2>3, <2>4, <3>1 DEF CountAdds
  <2>5. CASE /\ doing'[t] = "rename"
             /\ \E whole \in BOOLEAN : dir' = With(Temp(t), [mtime |-> now, whole |-> whole])
    <3>1. Renaming' = Renaming \union {t} /\ t \notin Renaming
      BY <1>2, <2>1, <2>5, ThreadStep DEF Renaming
    <3>2. DOMAIN dir' = DOMAIN dir \union {Temp(t)} /\ Temp(t) \notin DOMAIN dir
      BY <2>1, <2>5, TempIsNew DEF With
    <3>3. /\ Cardinality(Renaming') = Cardinality(Renaming) + 1
          /\ Cardinality(DOMAIN dir') = Cardinality(DOMAIN dir) + 1
      BY <1>03, <3>1, <3>2, FS_AddElement
    <3>4. count'[s] = Cardinality(DOMAIN dir') - Cardinality(Renaming') + owed
      BY <1>01, <1>02, <1>03, <2>1, <3>3
    <3> QED BY <2>3, <3>4 DEF CountAdds
  <2> QED BY <1>2, <2>4, <2>5, StoreEffect
<1>3. ASSUME NEW t \in Workers, Rename(t) PROVE CountAdds(s)'
  <2>1. doing[t] = "rename" /\ doing'[t] # "rename"
    BY <1>3, RenameEffect
  <2>2. local'[t].removed = local[t].removed
    BY <1>04, <1>05, <1>3, <2>1, RenameEffect DEF Cleaning
  <2>3. Owed(owed)'
    BY <1>01, <1>3, <2>2, ThreadStep, OwedStays
  <2>4. local[t].temp \in DOMAIN dir
    BY <1>00, <2>1 DEF EvidenceTypeOK
  <2>5. Renamed(t)
    BY <1>3, <2>4 DEF Rename, TempMissing
  <2>6. local[t].payload \notin DOMAIN dir
    <3>1. local[t].payload \in DOMAIN dir => "stored twice" \in upsets'
      BY <2>5 DEF Renamed
    <3> QED BY <1>00, <3>1
  <2>7. /\ DOMAIN dir' = (DOMAIN dir \ {local[t].temp}) \union {local[t].payload}
        /\ IsFiniteSet(DOMAIN dir \ {local[t].temp})
        /\ Cardinality(DOMAIN dir \ {local[t].temp}) = Cardinality(DOMAIN dir) - 1
    BY <1>03, <2>4, <2>5, FS_RemoveElement DEF Renamed
  <2>8. Cardinality(DOMAIN dir') = Cardinality(DOMAIN dir)
    <3>1. local[t].payload \notin DOMAIN dir \ {local[t].temp}
      BY <2>6
    <3>2. Cardinality(DOMAIN dir') = Cardinality(DOMAIN dir \ {local[t].temp}) + 1
      BY <2>7, <3>1, FS_AddElement
    <3> QED BY <1>03, <2>7, <3>2
  <2>9. Renaming' = Renaming \ {t} /\ t \in Renaming
    BY <1>3, <2>1, ThreadStep DEF Renaming
  <2>10. Cardinality(Renaming') = Cardinality(Renaming) - 1
    BY <1>03, <2>9, FS_RemoveElement
  <2>11. count'[s] = count[s] + 1
    BY <2>5, CountsTyped DEF Renamed
  <2>12. count'[s] = Cardinality(DOMAIN dir') - Cardinality(Renaming') + owed
    BY <1>01, <1>02, <1>03, <2>8, <2>10, <2>11
  <2> QED BY <2>3, <2>12 DEF CountAdds
<1>4. ASSUME NEW t \in Workers, Expire(t) \/ Shrink(t) PROVE CountAdds(s)'
  <2>1. UNCHANGED count /\ Cleaning(t) /\ Cleaning(t)'
    BY <1>4, CleanupEffect DEF CleanupOnly, storeVars
  <2>2. Renaming' = Renaming
    BY <1>4, <2>1, CleanupEffect DEF Renaming, Cleaning
  <2>3. CASE UNCHANGED dir /\ local'[t].removed = local[t].removed
    <3>1. Owed(owed)'
      BY <1>01, <1>4, <2>3, CleanupEffect, OwedStays
    <3> QED BY <1>01, <2>1, <2>2, <2>3, <3>1 DEF CountAdds
  <2>4. ASSUME NEW name, Unlinks(t, name), local'[t].removed = local[t].removed + 1
        PROVE  CountAdds(s)'
    <3>1. \A u \in Workers \ {t} : ~Cleaning(u)
      BY <1>00, <2>4 DEF Unlinks
    <3>2. \A u \in Workers : u # t => local[u].removed = 0 /\ local'[u].removed = 0
      BY <1>04, <1>4, <3>1, CleanupEffect
    <3>3. local[t].removed = owed
      BY <1>01, <3>2 DEF Owed
    <3>4. local'[t].removed = owed + 1 /\ owed + 1 # 0
      BY <1>02, <2>4, <3>3
    <3>5. owed + 1 \in 0 .. Cardinality(Names)
      <4>1. LocalsFit(t)'
        BY LocalsNext DEF LocalsInv
      <4>2. /\ Cardinality(local'[t].listed) \in Nat /\ Cardinality(local'[t].surviving) \in Nat
            /\ local'[t].removed + Cardinality(local'[t].listed) + Cardinality(local'[t].surviving)
                 <= Cardinality(Names)
        BY <4>1, FS_CardinalityType DEF LocalsFit
      <4> QED BY <1>02, <3>4, <4>2
    <3>6. Owed(owed + 1)'
      BY <3>2, <3>4 DEF Owed
    <3>7. DOMAIN dir' = DOMAIN dir \ {name} /\ name \in DOMAIN dir
      BY <2>4, UnlinkEffect
    <3>8. Cardinality(DOMAIN dir') = Cardinality(DOMAIN dir) - 1
      BY <1>03, <3>7, FS_RemoveElement
    <3>9. count'[s] = Cardinality(DOMAIN dir') - Cardinality(Renaming') + (owed + 1)
      BY <1>01, <1>02, <1>03, <2>1, <2>2, <3>8
    <3> QED BY <3>5, <3>6, <3>9 DEF CountAdds
  <2> QED BY <1>4, <2>3, <2>4, CleanupEffect
<1>5. ASSUME NEW t \in Workers, Sum(t) PROVE CountAdds(s)'
  <2>1. doing[t] = "expire" /\ UNCHANGED <<dir, count>>
    BY <1>5 DEF Sum, CleanupOnly, storeVars
  <2>2. doing'[t] = "shrink"
        /\ local'[t] = [local[t] EXCEPT !.total = Cardinality(local[t].surviving)]
    BY <1>5, Proceeds DEF Sum
  <2>3. LocalTyped(t)
    BY DEF LocalsInv, LocalsFit, LocalTyped
  <2>4. local'[t].removed = local[t].removed
    BY <2>2, <2>3 DEF LocalTyped
  <2>5. Renaming' = Renaming
    BY <1>5, <2>1, <2>2, ThreadStep DEF Renaming
  <2>6. Owed(owed)'
    BY <1>01, <1>5, <2>4, ThreadStep, OwedStays
  <2> QED BY <1>01, <2>1, <2>5, <2>6 DEF CountAdds
<1>6. ASSUME NEW t \in Workers, Finish(t) PROVE CountAdds(s)'
  <2>1. doing[t] = "shrink" /\ UNCHANGED dir
        /\ count' = [count EXCEPT ![storeOf[t]] = @ - local[t].removed]
    BY <1>6 DEF Finish
  <2>2. doing'[t] = "idle" /\ local'[t] = NoLocals
    BY <1>6, Proceeds DEF Finish, StoreReturns
  <2>3. Renaming' = Renaming
    BY <1>6, <2>1, <2>2, ThreadStep DEF Renaming
  <2>4. local[t].removed \in Int
    BY DEF LocalsInv, LocalsFit
  <2>5. count'[s] = count[s] - local[t].removed
    BY <2>1, CountsTyped
  <2>6. CASE local[t].removed = 0
    <3>1. Owed(owed)'
      BY <1>01, <1>05, <1>6, <2>2, <2>6, ThreadStep, OwedStays
    <3>2. count'[s] = count[s]
      BY <1>02, <2>5, <2>6
    <3> QED BY <1>01, <2>1, <2>3, <3>1, <3>2 DEF CountAdds
  <2>7. CASE local[t].removed # 0
    <3>1. local[t].removed = owed
      BY <1>01, <2>7 DEF Owed
    <3>2. \A u \in Workers : u # t => local[u].removed = 0
      BY <1>00, <2>7 DEF CountInv
    <3>3. \A u \in Workers : local'[u].removed = 0
      BY <1>05, <1>6, <2>2, <3>2, ThreadStep
    <3>4. Owed(0)'
      BY <3>3 DEF Owed
    <3>5. count'[s] = Cardinality(DOMAIN dir') - Cardinality(Renaming') + 0
      BY <1>01, <1>02, <1>03, <2>1, <2>3, <2>5, <3>1
    <3>6. 0 \in 0 .. Cardinality(Names)
      BY <1>02
    <3> QED BY <3>4, <3>5, <3>6 DEF CountAdds
  <2> QED BY <2>6, <2>7
<1>7. ASSUME Tick \/ UNCHANGED evidenceVars PROVE CountAdds(s)'
  <2>1. UNCHANGED <<dir, doing, local, count>>
    BY <1>7 DEF Tick, evidenceVars, storeVars
  <2>2. Renaming' = Renaming
    BY <2>1 DEF Renaming
  <2>3. Owed(owed)'
    BY <1>01, <2>1, OwedStays
  <2> QED BY <1>01, <2>1, <2>2, <2>3 DEF CountAdds
<1>8. upsets' \intersect {"killed", "power lost"} = {}
  BY DEF Interference
<1> QED BY <1>0, <1>1, <1>2, <1>3, <1>4, <1>5, <1>6, <1>7, <1>8, NoneDies

(* The count is kept. *)
LEMMA CountNext ==
  ASSUME EvidenceInv, [EvidenceNext]_evidenceVars PROVE CountInv'
<1>1. \A s \in Stores :
        (\A t \in Workers : storeOf'[t] = s) /\ upsets' \intersect Interference = {} => CountAdds(s)'
  BY CountStep, Grows DEF EvidenceInv
<1>2. "cleanups met" \notin upsets' =>
        \A t, u \in Workers : local'[t].removed # 0 /\ local'[u].removed # 0 => t = u
  BY OneRemoves DEF EvidenceInv
<1> QED BY <1>1, <1>2 DEF CountInv, CountAdds

-----------------------------------------------------------------------------
(* The listing of a cleanup.                                               *)

(* A cleanup that a step leaves alone agrees with the directory as long as *)
(* every file it lists is there as it was, and none is new and older.      *)
LEMMA ListingStays ==
  ASSUME NEW u \in Workers, ListingAgrees(u), local'[u] = local[u], doing'[u] = doing[u],
         \A f \in ToSee(u) : f.name \in DOMAIN dir' /\ dir'[f.name] = dir[f.name],
         \A n \in DOMAIN dir' : ~Lists(u, n) =>
           \/ n \in DOMAIN dir /\ dir'[n] = dir[n]
           \/ \A f \in ToSee(u) : f.mtime <= dir'[n].mtime
  PROVE  ListingAgrees(u)'
<1>1. ToSee(u)' = ToSee(u) /\ \A n : Lists(u, n)' <=> Lists(u, n)
  BY DEF ToSee, Lists
<1> QED BY <1>1 DEF ListingAgrees

(* A file that is gone is seen by nobody after it. *)
LEMMA ListingShrinks ==
  ASSUME NEW t \in Workers, ListingAgrees(t), NEW f \in ToSee(t), Unlinks(t, f.name),
         ToSee(t)' = ToSee(t) \ {f}
  PROVE  /\ \A g \in ToSee(t)' : g.name \in DOMAIN dir' /\ dir'[g.name].mtime = g.mtime
         /\ \A g, h \in ToSee(t)' : g.name = h.name => g = h
         /\ \A n \in DOMAIN dir' : ~Lists(t, n)' => \A g \in ToSee(t)' : g.mtime <= dir'[n].mtime
<1>1. DOMAIN dir' = DOMAIN dir \ {f.name} /\ \A n \in DOMAIN dir' : dir'[n] = dir[n]
  BY UnlinkEffect
<1>2. /\ \A g \in ToSee(t) : g.name \in DOMAIN dir /\ dir[g.name].mtime = g.mtime
      /\ \A g, h \in ToSee(t) : g.name = h.name => g = h
      /\ \A n \in DOMAIN dir : ~Lists(t, n) => \A g \in ToSee(t) : g.mtime <= dir[n].mtime
  BY DEF ListingAgrees
<1>3. \A g \in ToSee(t)' : g.name # f.name
  BY <1>2
<1>4. \A n \in DOMAIN dir' : ~Lists(t, n)' => ~Lists(t, n)
  <2> SUFFICES ASSUME NEW n \in DOMAIN dir', Lists(t, n) PROVE Lists(t, n)'
    OBVIOUS
  <2>1. PICK g \in ToSee(t) : g.name = n
    BY DEF Lists, ToSee
  <2>2. g \in ToSee(t)'
    BY <1>1, <2>1
  <2> QED BY <2>1, <2>2 DEF Lists, ToSee
<1> QED BY <1>1, <1>2, <1>3, <1>4

(* A cleanup that nothing disturbs agrees with the directory: what it has  *)
(* yet to look at is there as it was, and nothing else is older.           *)
LEMMA ListingNext ==
  ASSUME EvidenceInv, [EvidenceNext]_evidenceVars PROVE ListingInv'
<1> USE DEF EvidenceInv
<1> SUFFICES ASSUME upsets' \intersect Upset = {}
             PROVE  \A u \in Workers : Cleaning(u)' => ListingAgrees(u)'
  BY DEF ListingInv
<1>0. \A u \in Workers : Cleaning(u) => ListingAgrees(u)
  BY Grows DEF ListingInv
<1>00. /\ "cleanups met" \notin upsets' /\ "stored twice" \notin upsets' /\ "temp removed" \notin upsets
       /\ "listed renamed" \notin upsets' /\ "unlink failed" \notin upsets'
       /\ upsets' \intersect {"killed", "power lost"} = {} /\ upsets \subseteq upsets'
  BY Grows DEF Upset, Interference
<1>01. \A u \in Workers : Cleaning(u) =>
         /\ \A f \in ToSee(u) : f.name \in DOMAIN dir /\ dir[f.name].mtime = f.mtime
         /\ \A f, g \in ToSee(u) : f.name = g.name => f = g
         /\ local[u].listed \intersect local[u].surviving = {}
         /\ \A n \in DOMAIN dir : ~Lists(u, n) => \A f \in ToSee(u) : f.mtime <= dir[n].mtime
         /\ doing[u] = "shrink" => local[u].total = Cardinality(local[u].surviving)
  BY <1>0 DEF ListingAgrees
<1>1. ASSUME NEW t \in Workers, CallStore(t) \/ Finish(t), NEW u \in Workers, Cleaning(u)'
      PROVE  ListingAgrees(u)'
  <2>1. UNCHANGED dir
    BY <1>1 DEF CallStore, Finish
  <2>2. ASSUME NEW label \in {"store", "idle"}, NEW locals, Proceed(t, label, locals)
        PROVE  u # t
    BY <1>1, <2>2, Proceeds DEF Cleaning
  <2>3. u # t
    BY <1>1, <2>2 DEF CallStore, Finish, StoreReturns
  <2>4. doing'[u] = doing[u] /\ local'[u] = local[u]
    BY <1>1, <2>3, ThreadStep
  <2>5. Cleaning(u)
    BY <1>1, <2>4 DEF Cleaning
  <2> QED BY <1>0, <1>01, <2>1, <2>4, <2>5, ListingStays
<1>2. ASSUME NEW t \in Workers, Store(t), NEW u \in Workers, Cleaning(u)'
      PROVE  ListingAgrees(u)'
  <2>1. u # t
    BY <1>2, StoreEffect DEF Cleaning
  <2>2. doing'[u] = doing[u] /\ local'[u] = local[u] /\ Cleaning(u)
    BY <1>2, <2>1, ThreadStep DEF Cleaning
  <2>3. CASE UNCHANGED dir
    BY <1>0, <1>01, <2>2, <2>3, ListingStays
  <2>4. ASSUME NEW whole \in BOOLEAN, dir' = With(Temp(t), [mtime |-> now, whole |-> whole])
        PROVE  ListingAgrees(u)'
    <3> DEFINE made == [mtime |-> now, whole |-> whole]
    <3>1. made.mtime = now
      OBVIOUS
    <3> HIDE DEF made
    <3>2. dir' = [x \in DOMAIN dir \union {Temp(t)} |-> IF x = Temp(t) THEN made ELSE dir[x]]
      BY <2>4 DEF With, made
    <3>3. Temp(t) \notin DOMAIN dir
      BY <1>2, TempIsNew DEF Store
    <3>4. \A f \in ToSee(u) : f.mtime <= now
      <4>1. \A n \in DOMAIN dir : dir[n].mtime \in 0 .. now
        BY DEF EvidenceTypeOK
      <4>2. now \in Nat
        BY DEF EvidenceTypeOK
      <4> QED BY <1>01, <2>2, <4>1, <4>2
    <3>5. \A f \in ToSee(u) : f.name \in DOMAIN dir' /\ dir'[f.name] = dir[f.name]
      BY <1>01, <2>2, <3>2, <3>3
    <3>6. \A n \in DOMAIN dir' :
           \/ n \in DOMAIN dir /\ dir'[n] = dir[n]
           \/ \A f \in ToSee(u) : f.mtime <= dir'[n].mtime
      BY <3>1, <3>2, <3>3, <3>4
    <3> QED BY <1>0, <2>2, <3>5, <3>6, ListingStays
  <2> QED BY <1>2, <2>3, <2>4, StoreEffect
<1>3. ASSUME NEW t \in Workers, Rename(t), NEW u \in Workers, Cleaning(u)'
      PROVE  ListingAgrees(u)'
  <2>1. doing[t] = "rename"
    BY <1>3 DEF Rename
  <2>2. Renamed(t)
    <3>1. local[t].temp \in DOMAIN dir
      BY <1>00, <2>1 DEF EvidenceTypeOK
    <3> QED BY <1>3, <3>1 DEF Rename, TempMissing
  <2>3. local[t].payload \notin DOMAIN dir /\ ~Lists(u, local[t].temp)
    BY <1>00, <2>2 DEF Renamed
  <2>4. CASE u # t
    <3>1. doing'[u] = doing[u] /\ local'[u] = local[u] /\ Cleaning(u)
      BY <1>3, <2>4, ThreadStep DEF Cleaning
    <3>2. \A f \in ToSee(u) : f.name # local[t].temp
      BY <2>3 DEF Lists, ToSee
    <3>3. dir' = [x \in (DOMAIN dir \ {local[t].temp}) \union {local[t].payload} |->
                   IF x = local[t].payload THEN dir[local[t].temp] ELSE dir[x]]
      BY <2>2 DEF Renamed
    <3>4. \A f \in ToSee(u) : f.name \in DOMAIN dir' /\ dir'[f.name] = dir[f.name]
      BY <1>01, <2>3, <3>1, <3>2, <3>3
    <3>5. \A n \in DOMAIN dir' :
           \/ n \in DOMAIN dir /\ dir'[n] = dir[n]
           \/ \A f \in ToSee(u) : f.mtime <= dir'[n].mtime
      <4>1. local[t].temp \in DOMAIN dir
        BY <2>2 DEF Renamed
      <4>2. \A f \in ToSee(u) : f.mtime <= dir[local[t].temp].mtime
        BY <1>01, <2>3, <3>1, <4>1
      <4> QED BY <2>3, <3>3, <4>2
    <3> QED BY <1>0, <3>1, <3>4, <3>5, ListingStays
  <2>5. CASE u = t
    <3>1. /\ doing'[t] = "expire" /\ local'[t].surviving = {}
          /\ local'[t].listed = {[name |-> n, mtime |-> dir'[n].mtime] : n \in DOMAIN dir'}
      BY <1>3, <2>5, RenameEffect DEF Cleaning
    <3>2. ToSee(t)' = {[name |-> n, mtime |-> dir'[n].mtime] : n \in DOMAIN dir'}
      BY <3>1 DEF ToSee
    <3>3. \A f \in ToSee(t)' : f.name \in DOMAIN dir' /\ f = [name |-> f.name, mtime |-> dir'[f.name].mtime]
      BY <3>2
    <3>4. \A n \in DOMAIN dir' : Lists(t, n)'
      <4> SUFFICES ASSUME NEW n \in DOMAIN dir' PROVE Lists(t, n)'
        OBVIOUS
      <4>1. [name |-> n, mtime |-> dir'[n].mtime] \in ToSee(t)'
        BY <3>2
      <4> QED BY <4>1 DEF Lists, ToSee
    <3>5. \A f \in ToSee(t)' : dir'[f.name].mtime = f.mtime
      BY <3>3
    <3>6. \A f, g \in ToSee(t)' : f.name = g.name => f = g
      BY <3>3
    <3> QED BY <2>5, <3>1, <3>3, <3>4, <3>5, <3>6 DEF ListingAgrees
  <2> QED BY <2>4, <2>5
<1>4. ASSUME NEW t \in Workers, Expire(t) \/ Shrink(t), NEW u \in Workers, u # t, Cleaning(u)'
      PROVE  ListingAgrees(u)'
  <2>1. doing'[u] = doing[u] /\ local'[u] = local[u] /\ Cleaning(u)
    BY <1>4, CleanupEffect DEF Cleaning
  <2>2. \A name : ~Unlinks(t, name)
    BY <1>00, <1>4, <2>1 DEF Unlinks
  <2>3. UNCHANGED dir
    BY <1>4, <2>2, CleanupEffect
  <2> QED BY <1>0, <1>01, <2>1, <2>3, ListingStays
<1>5. ASSUME NEW t \in Workers, NEW f, f.name \in DOMAIN dir PROVE ~UnlinkFails(f.name)
  BY <1>00, <1>5 DEF UnlinkFails, Trouble
<1>6. ASSUME NEW t \in Workers, Expire(t) PROVE ListingAgrees(t)'
  <2>1. doing[t] = "expire" /\ doing'[t] = "expire" /\ Cleaning(t)
    BY <1>6, ExpireEffect DEF Cleaning
  <2>2. PICK f \in local[t].listed :
              /\ local'[t].listed = local[t].listed \ {f}
              /\ \/ Removes(t, f) /\ local'[t].surviving = local[t].surviving
                 \/ Leaves(t, f) /\ local'[t].surviving = local[t].surviving \union {f}
    BY <1>6, ExpireEffect
  <2>3. f \in ToSee(t) /\ f.name \in DOMAIN dir /\ f \notin local[t].surviving
    BY <1>01, <2>1 DEF ToSee
  <2>4. CASE Removes(t, f) /\ local'[t].surviving = local[t].surviving
    <3>1. ToSee(t)' = ToSee(t) \ {f}
      BY <2>2, <2>3, <2>4 DEF ToSee
    <3>2. Unlinks(t, f.name) /\ ListingAgrees(t)
      BY <1>0, <2>1, <2>4 DEF Removes
    <3>3. local'[t].listed \intersect local'[t].surviving = {}
      BY <1>01, <2>1, <2>2, <2>4
    <3> QED BY <2>1, <2>3, <3>1, <3>2, <3>3, ListingShrinks DEF ListingAgrees
  <2>5. CASE Leaves(t, f) /\ local'[t].surviving = local[t].surviving \union {f}
    <3>1. UNCHANGED dir
      BY <1>5, <2>3, <2>5 DEF Leaves
    <3>2. ToSee(t)' = ToSee(t)
      BY <2>2, <2>5 DEF ToSee
    <3>3. \A n : Lists(t, n)' <=> Lists(t, n)
      BY <3>2 DEF Lists, ToSee
    <3>4. local'[t].listed \intersect local'[t].surviving = {}
      BY <1>01, <2>1, <2>2, <2>5
    <3> QED BY <1>01, <2>1, <3>1, <3>2, <3>3, <3>4 DEF ListingAgrees
  <2> QED BY <2>2, <2>4, <2>5
<1>7. ASSUME NEW t \in Workers, Shrink(t) PROVE ListingAgrees(t)'
  <2>1. /\ doing[t] = "shrink" /\ doing'[t] = "shrink" /\ Cleaning(t)
        /\ local'[t].listed = local[t].listed
    BY <1>7, ShrinkEffect DEF Cleaning
  <2>2. LocalsFit(t)
    BY DEF LocalsInv
  <2>3. local[t].listed = {} /\ IsFiniteSet(local[t].surviving)
    BY <2>1, <2>2 DEF LocalsFit
  <2>4. PICK f \in local[t].surviving :
              /\ local'[t].surviving = local[t].surviving \ {f}
              /\ \/ Removes(t, f) /\ local'[t].total = local[t].total - 1
                 \/ UnlinkFails(f.name)
    BY <1>7, ShrinkEffect
  <2>5. f \in ToSee(t) /\ f.name \in DOMAIN dir
    BY <1>01, <2>1 DEF ToSee
  <2>6. Removes(t, f) /\ local'[t].total = local[t].total - 1
    BY <1>5, <2>4, <2>5
  <2>7. ToSee(t)' = ToSee(t) \ {f}
    BY <2>1, <2>3, <2>4 DEF ToSee
  <2>8. Unlinks(t, f.name) /\ ListingAgrees(t)
    BY <1>0, <2>1, <2>6 DEF Removes
  <2>9. local'[t].total = Cardinality(local'[t].surviving)
    <3>1. local[t].total = Cardinality(local[t].surviving)
      BY <1>01, <2>1
    <3>2. Cardinality(local[t].surviving \ {f}) = Cardinality(local[t].surviving) - 1
      BY <2>3, FS_RemoveElement
    <3> QED BY <2>4, <2>6, <3>1, <3>2
  <2>10. local'[t].listed \intersect local'[t].surviving = {}
    BY <2>1, <2>3
  <2> QED BY <2>1, <2>5, <2>7, <2>8, <2>9, <2>10, ListingShrinks DEF ListingAgrees
<1>8. ASSUME NEW t \in Workers, Sum(t), NEW u \in Workers, Cleaning(u)'
      PROVE  ListingAgrees(u)'
  <2>1. UNCHANGED dir /\ doing[t] = "expire" /\ local[t].listed = {}
    BY <1>8 DEF Sum
  <2>2. CASE u # t
    <3>1. doing'[u] = doing[u] /\ local'[u] = local[u] /\ Cleaning(u)
      BY <1>8, <2>2, ThreadStep DEF Cleaning
    <3> QED BY <1>0, <1>01, <2>1, <3>1, ListingStays
  <2>3. CASE u = t
    <3>1. local'[t] = [local[t] EXCEPT !.total = Cardinality(local[t].surviving)]
      BY <1>8, Proceeds DEF Sum
    <3>2. LocalTyped(t)
      BY DEF LocalsInv, LocalsFit, LocalTyped
    <3>3. /\ local'[t].listed = local[t].listed /\ local'[t].surviving = local[t].surviving
          /\ local'[t].total = Cardinality(local[t].surviving)
      BY <3>1, <3>2 DEF LocalTyped
    <3>4. ToSee(t)' = ToSee(t) /\ \A n : Lists(t, n)' <=> Lists(t, n)
      BY <3>3 DEF ToSee, Lists
    <3>5. Cleaning(t)
      BY <2>1 DEF Cleaning
    <3> QED BY <1>01, <2>1, <2>3, <3>3, <3>4, <3>5 DEF ListingAgrees
  <2> QED BY <2>2, <2>3
<1>9. ASSUME Tick \/ UNCHANGED evidenceVars, NEW u \in Workers, Cleaning(u)'
      PROVE  ListingAgrees(u)'
  <2>1. UNCHANGED <<dir, doing, local>>
    BY <1>9 DEF Tick, evidenceVars
  <2>2. Cleaning(u)
    BY <1>9, <2>1 DEF Cleaning
  <2> QED BY <1>0, <1>01, <2>1, <2>2, ListingStays
<1> QED BY <1>00, <1>1, <1>2, <1>3, <1>4, <1>6, <1>7, <1>8, <1>9, NoneDies

-----------------------------------------------------------------------------
(* The invariant.                                                          *)

(* A store on an empty or an old directory satisfies the invariant. *)
LEMMA EvidenceStart ==
  ASSUME EvidenceInit PROVE EvidenceInv
<1> USE DEF EvidenceInit
<1>1. PICK old \in SUBSET Payloads :
        /\ dir = [p \in old |-> [mtime |-> 0, whole |-> TRUE]]
        /\ count = [s \in Stores |-> Cardinality(old)]
  OBVIOUS
<1>2. DOMAIN dir = old /\ \A p \in old : dir[p].whole
  BY <1>1
<1>3. IsFiniteSet({}) /\ Cardinality({}) = 0 /\ IsFiniteSet(old) /\ Cardinality(old) \in Nat
  <2>1. IsFiniteSet(Payloads)
    BY EvidenceAssumption
  <2> QED BY <2>1, FS_EmptySet, FS_Subset, FS_CardinalityType
<1>4. MaxAge \in Nat /\ MaxTrouble \in Nat /\ MaxCalls \in Nat
  <2> USE EvidenceAssumption
  <2> QED OBVIOUS
<1>5. \A t \in Workers : doing[t] = "idle" /\ local[t] = NoLocals /\ local[t].removed = 0
  BY DEF NoLocals
<1>6. EvidenceTypeOK
  <2>1. dir \in [DOMAIN dir -> [mtime: 0 .. now, whole: BOOLEAN]] /\ now \in Nat
    <3>1. [mtime |-> 0, whole |-> TRUE] \in [mtime: 0 .. now, whole: BOOLEAN]
      BY <1>4
    <3> QED BY <1>1, <1>4, <3>1
  <2>2. \A t \in Workers : local[t].removed \in 0 .. Cardinality(Payloads \union TempNames)
    BY <1>5, NamesFinite DEF Names
  <2>3. count \in [Stores -> Int] /\ since \in [Stores -> 0 .. MaxCalls]
    BY <1>1, <1>3, <1>4
  <2>4. calls \in 0 .. MaxCalls /\ trouble \in 0 .. MaxTrouble
    BY <1>4
  <2>5. doing \in [Workers -> {"idle", "store", "rename", "expire", "shrink", "dead"}]
    OBVIOUS
  <2>6. returned \subseteq Payloads /\ evicted \subseteq Payloads /\ storeOf \in [Workers -> Stores]
    OBVIOUS
  <2> QED BY <1>2, <1>5, <2>1, <2>2, <2>3, <2>4, <2>5, <2>6 DEF EvidenceTypeOK
<1>7. LocalsInv
  <2>1. \A t \in Workers : LocalsFit(t)
    <3> SUFFICES ASSUME NEW t \in Workers PROVE LocalsFit(t)
      OBVIOUS
    <3>1. /\ local[t].listed = {} /\ local[t].surviving = {} /\ local[t].removed = 0
          /\ local[t] \in [payload: {local[t].payload}, temp: {local[t].temp},
                           listed: SUBSET FileSeen, surviving: SUBSET FileSeen,
                           cutoff: Int, total: Int, removed: Nat]
      BY <1>5 DEF NoLocals
    <3>2. local[t].removed + Cardinality(local[t].listed) + Cardinality(local[t].surviving)
            <= Cardinality(Names)
      <4>1. Cardinality(local[t].listed) = 0 /\ Cardinality(local[t].surviving) = 0
        BY <1>3, <3>1
      <4> QED BY <3>1, <4>1, NamesFinite
    <3> QED BY <1>3, <1>5, <3>1, <3>2 DEF LocalsFit, Cleaning
  <2> QED BY <2>1 DEF LocalsInv
<1>8. SinceInv
  <2>1. InStore = {}
    BY <1>5 DEF InStore
  <2> QED BY <1>3, <2>1 DEF SinceInv
<1>9. TempsInv
  BY <1>2, TempsAreNot DEF TempsInv
<1>10. KeptInv /\ DeathsInv /\ ListingInv
  BY <1>2, <1>5 DEF KeptInv, DeathsInv, ListingInv, Cleaning
<1>11. CountInv
  <2>1. Renaming = {}
    BY <1>5 DEF Renaming
  <2>2. Owed(0)
    BY <1>5 DEF Owed
  <2>3. 0 \in 0 .. Cardinality(Names)
    BY NamesFinite
  <2>4. \A s \in Stores : count[s] = Cardinality(DOMAIN dir) - Cardinality(Renaming) + 0
    BY <1>1, <1>2, <1>3, <2>1
  <2> QED BY <1>5, <2>2, <2>3, <2>4 DEF CountInv
<1> QED BY <1>6, <1>7, <1>8, <1>9, <1>10, <1>11 DEF EvidenceInv

(* Every step keeps the invariant. *)
LEMMA EvidenceStep ==
  ASSUME EvidenceInv, [EvidenceNext]_evidenceVars PROVE EvidenceInv'
<1>1. EvidenceTypeOK' /\ CountInv' /\ ListingInv'
  BY TypeNext, CountNext, ListingNext
<1>2. LocalsInv' /\ SinceInv' /\ TempsInv' /\ KeptInv' /\ DeathsInv'
  BY LocalsNext, SinceNext, TempsNext, KeptNext, DeathsNext DEF EvidenceInv
<1> QED BY <1>1, <1>2 DEF EvidenceInv

(* The invariant says what a user of the store relies on. *)
LEMMA EvidenceImplies ==
  ASSUME EvidenceInv PROVE StoreInv
<1> USE DEF EvidenceInv
<1>1. ReturnedEvidenceKept
  <2> SUFFICES ASSUME NEW p \in returned, upsets \intersect {"short write", "power lost"} = {}
               PROVE  Verify(p) \/ p \in evicted
    BY DEF ReturnedEvidenceKept
  <2> QED BY DEF KeptInv, Safe, Verify
<1>2. CountMatches
  <2> SUFFICES ASSUME NEW s \in Stores, \A t \in Workers : doing[t] = "idle" /\ storeOf[t] = s,
                      upsets \intersect Interference = {}
               PROVE  count[s] = Cardinality(DOMAIN dir)
    BY DEF CountMatches
  <2>1. PICK owed \in 0 .. Cardinality(Names) :
          /\ count[s] = Cardinality(DOMAIN dir) - Cardinality(Renaming) + owed
          /\ Owed(owed)
    BY DEF CountInv
  <2>2. \A t \in Workers : local[t].removed = 0
    BY DEF LocalsInv, LocalsFit, Cleaning
  <2>3. owed = 0
    BY <2>1, <2>2 DEF Owed
  <2>4. Renaming = {}
    BY DEF Renaming
  <2>5. Cardinality(Renaming) = 0
    BY <2>4, FS_EmptySet
  <2> QED BY <2>1, <2>3, <2>5, DirFinite
<1> QED BY <1>1, <1>2 DEF StoreInv

(* EvidenceStore keeps what it returned until a cleanup evicts it, and its *)
(* cached count is the number of files when nobody interfered.             *)
THEOREM EvidenceKept == EvidenceSpec => []StoreInv
<1>1. EvidenceInit => EvidenceInv
  BY EvidenceStart
<1>2. EvidenceInv /\ [EvidenceNext]_evidenceVars => EvidenceInv'
  BY EvidenceStep
<1>3. EvidenceInv => StoreInv
  BY EvidenceImplies
<1> QED BY <1>1, <1>2, <1>3, PTL DEF EvidenceSpec

(* A removal for the sake of size is one of Shrink, of the oldest file it  *)
(* lists, while there are more files than the limit; nothing it does not   *)
(* list is older.                                                          *)
LEMMA EvictsStep ==
  ASSUME EvidenceInv, [EvidenceNext]_evidenceVars, NEW t \in Workers,
         doing[t] = "shrink", local'[t].removed > local[t].removed,
         upsets' \intersect Upset = {}
  PROVE  /\ Cardinality(DOMAIN dir) > MaxFiles
         /\ \A n \in DOMAIN dir \ DOMAIN dir', m \in DOMAIN dir' : dir[n].mtime <= dir[m].mtime
<1> USE DEF EvidenceInv
<1>1. upsets \intersect Upset = {} /\ upsets' \intersect {"killed", "power lost"} = {}
      /\ upsets \subseteq upsets' /\ "unlink failed" \notin upsets'
  BY Grows DEF Upset, Interference
<1>2. Cleaning(t) /\ ListingAgrees(t)
  BY <1>1 DEF ListingInv, Cleaning
<1>3. local[t].removed \in Nat /\ local[t].listed = {} /\ IsFiniteSet(local[t].surviving)
  BY DEF LocalsInv, LocalsFit
<1>4. local'[t].removed # local[t].removed
  BY <1>3
<1>5. NoLocals.removed = 0 /\ ~(0 > local[t].removed)
  BY <1>3 DEF NoLocals
<1>6. Shrink(t)
  <2>1. \A u \in Workers : ~(CallStore(u) \/ Store(u) \/ Rename(u) \/ Expire(u) \/ Sum(u))
    <3>1. ASSUME NEW u \in Workers, CallStore(u) \/ Store(u) \/ Rename(u) \/ Expire(u) \/ Sum(u)
          PROVE  FALSE
      <4>1. doing[u] # "shrink"
        BY <3>1 DEF CallStore, Store, Rename, Expire, Sum
      <4> QED BY <1>4, <3>1, <4>1, ThreadStep
    <3> QED BY <3>1
  <2>2. \A u \in Workers : ~Finish(u)
    <3>1. ASSUME NEW u \in Workers, Finish(u) PROVE FALSE
      <4>1. local'[u] = NoLocals
        BY <3>1, Proceeds DEF Finish, StoreReturns
      <4> QED BY <1>4, <1>5, <3>1, <4>1, ThreadStep
    <3> QED BY <3>1
  <2>3. ~(Tick \/ UNCHANGED evidenceVars)
    BY <1>4 DEF Tick, evidenceVars
  <2>4. PICK u \in Workers : Shrink(u)
    BY <1>1, <2>1, <2>2, <2>3, NoneDies
  <2>5. u = t
    BY <1>4, <2>4, ThreadStep
  <2> QED BY <2>4, <2>5
<1>7. PICK f \in local[t].surviving :
        /\ \A g \in local[t].surviving : f.mtime <= g.mtime
        /\ Removes(t, f) \/ local'[t].removed = local[t].removed
  BY <1>6, ShrinkEffect
<1>8. Unlinks(t, f.name) /\ local[t].total > MaxFiles
  BY <1>4, <1>6, <1>7, ShrinkEffect DEF Removes
<1>9. DOMAIN dir' = DOMAIN dir \ {f.name} /\ f.name \in DOMAIN dir
  BY <1>8, UnlinkEffect
<1>10. ToSee(t) = local[t].surviving
  BY <1>3 DEF ToSee
<1>11. /\ \A g \in local[t].surviving : g.name \in DOMAIN dir /\ dir[g.name].mtime = g.mtime
       /\ \A g, h \in local[t].surviving : g.name = h.name => g = h
       /\ \A n \in DOMAIN dir : ~Lists(t, n) => \A g \in local[t].surviving : g.mtime <= dir[n].mtime
       /\ local[t].total = Cardinality(local[t].surviving)
  BY <1>2, <1>10 DEF ListingAgrees
<1>12. Cardinality(DOMAIN dir) > MaxFiles
  <2> DEFINE names == [g \in local[t].surviving |-> g.name]
  <2>1. names \in Injection(local[t].surviving, DOMAIN dir)
    BY <1>11 DEF Injection, IsInjective
  <2>2. Cardinality(local[t].surviving) <= Cardinality(DOMAIN dir)
    BY <2>1, DirFinite, FS_Injection
  <2>3. Cardinality(local[t].surviving) \in Nat
    BY <1>3, FS_CardinalityType
  <2>4. local[t].total <= Cardinality(DOMAIN dir) /\ local[t].total \in Nat
    BY <1>11, <2>2, <2>3
  <2> QED BY <1>8, <2>4, DirFinite, LimitsTyped
<1>13. ASSUME NEW m \in DOMAIN dir' PROVE dir[f.name].mtime <= dir[m].mtime
  <2>1. f.mtime = dir[f.name].mtime /\ m \in DOMAIN dir
    BY <1>9, <1>11
  <2>2. CASE Lists(t, m)
    <3>1. PICK g \in local[t].surviving : g.name = m
      BY <1>3, <2>2 DEF Lists
    <3> QED BY <1>7, <1>11, <2>1, <3>1
  <2>3. CASE ~Lists(t, m)
    BY <1>11, <2>1, <2>3
  <2> QED BY <2>2, <2>3
<1> QED BY <1>9, <1>12, <1>13

(* A cleanup that nothing disturbs removes for the sake of size only while *)
(* there are more files than the limit, and the oldest first.              *)
THEOREM EvictsOldest == EvidenceSpec => EvictsOldestWhenOver
<1> DEFINE Evicts ==
      \A t \in Workers :
       (/\ doing[t] = "shrink" /\ local'[t].removed > local[t].removed
        /\ upsets' \intersect (Interference \union {"listed renamed", "unlink failed"}) = {})
       => /\ Cardinality(DOMAIN dir) > MaxFiles
          /\ \A n \in DOMAIN dir \ DOMAIN dir', m \in DOMAIN dir' : dir[n].mtime <= dir[m].mtime
<1>1. EvidenceInit => EvidenceInv
  BY EvidenceStart
<1>2. EvidenceInv /\ [EvidenceNext]_evidenceVars => EvidenceInv'
  BY EvidenceStep
<1>3. EvidenceInv /\ [EvidenceNext]_evidenceVars => [Evicts]_evidenceVars
  BY EvictsStep DEF Upset
<1> QED BY <1>1, <1>2, <1>3, PTL DEF EvidenceSpec, EvictsOldestWhenOver
=============================================================================
