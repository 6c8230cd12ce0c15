------------------------- MODULE AsyncRecorderProofs -------------------------
(***************************************************************************)
(* Theorems about AsyncRecorder, for any tasks, queue size and faults.     *)
(***************************************************************************)
EXTENDS AsyncRecorder, ChainFileProofs

-----------------------------------------------------------------------------
(* The inductive invariant.                                                *)

Waiting == {"idle", "waitLock", "waitPut"}

Hands == {"put", "waitPut"}

(* Who runs, who holds the lock, and who holds a record. *)
Turns == \A t \in Tasks :
  /\ current # t <=> pc[t] \in Waiting
  /\ lockHolder = t <=> pc[t] \in Hands \union {"build"}
  /\ staged[t] # NoRecord <=> pc[t] \in Hands

(* What join counts, and what it means to be woken. *)
Counting ==
  /\ UnfinishedCounts
  /\ running <=> stopper = "none"
  /\ drain = "done" <=> stopper \in {"wake", "stopped"}
  /\ thread # NoRecord => drain = "write"
  /\ nextId > 0

(* The records on their way to the file, in their order. *)
Pipe == (file \o OneOf(thread)) \o queue

Whole == IF Holding = {} THEN Pipe ELSE Append(Pipe, staged[lockHolder])

Linked ==
  NewFile /\ NeverMet({"drop", "torn", "cancel"}) =>
    /\ HashLinkedFrames(Whole)
    /\ prevHash = LastHash(Whole)
    /\ NeverMet({"serialize"}) => sequence = LastSeq(Whole)

(* Before anything fails there is no gap to report. *)
Flawless ==
  met = {} =>
    /\ ~pendingGap
    /\ \A t \in Tasks : want[t][1] # "GAP" /\ pc[t] \notin {"gap", "unpend", "raise"}
    /\ NewFile => Verifies(Whole, FALSE)

Ids(fs) == {fs[i].id : i \in 1 .. Len(fs)}

(* No accepted record is lost on the way. *)
Flushed ==
  NeverMet({"drop", "torn"}) =>
    /\ accepted \subseteq Ids(file) \union Ids(OneOf(thread)) \union Ids(queue)
    /\ stopper \in {"wake", "stopped"} => promised \subseteq Ids(file)

Writing == {"lock", "waitLock", "build", "put", "waitPut"}

(* A checkpoint on its way covers whatever waits for one. *)
Covering ==
  /\ MerkleCoverage
  /\ \A t \in Tasks :
       /\ ~trackedLate /\ want[t][1] = "CHECKPOINT" /\ pc[t] \in Writing \union {"reset"} =>
            recordHashes \subseteq leaves[t]
       /\ pc[t] = "reset" => want[t][1] = "CHECKPOINT" /\ leaves[t] \subseteq covered
       /\ pc[t] \in Writing => want[t][1] \in {"GAP", "ACTION", "CHECKPOINT"}

IInv == TypeOK /\ Turns /\ Counting /\ Linked /\ Flawless /\ Flushed /\ Covering

-----------------------------------------------------------------------------
(* The types. *)
LEMMA RecordFacts ==
  /\ NoRecord \notin Record /\ NoRecord = Torn /\ Record \subseteq Frame /\ NoRecord \in Frame
  /\ NoBody \in Body
  /\ \A rec \in Record : rec.id > 0 /\ rec # NoRecord
BY DEF NoRecord, Torn, Record, Frame, RecordType, NoBody, Body

(* The record a task has numbered. *)
LEMMA BuiltRecord ==
  ASSUME TypeOK, Counting, NEW t \in Tasks
  PROVE  [id |-> nextId, type |-> want[t][1], seq |-> sequence + 1, prev |-> prevHash,
          ts |-> 0, body |-> want[t][2]] \in Record
<1>1. want[t] \in RecordType \X Body
  BY DEF TypeOK
<1>2. want[t][1] \in RecordType /\ want[t][2] \in Body
  BY <1>1
<1>3. nextId \in Nat \ {0} /\ sequence + 1 \in Nat /\ prevHash \in Nat
  BY DEF TypeOK, Counting
<1> QED BY <1>2, <1>3 DEF Record

(* Joining what is left of a queue from which one was taken out. *)
LEMMA TakenOut ==
  ASSUME NEW S, NEW s \in Seq(S), NEW i \in 1 .. Len(s)
  PROVE  SubSeq(s, 1, i - 1) \o SubSeq(s, i + 1, Len(s)) \in Seq(S)
<1>1. Len(s) \in Nat
  BY LenProperties
<1>2. SubSeq(s, 1, i - 1) \in Seq(S) /\ SubSeq(s, i + 1, Len(s)) \in Seq(S)
  BY <1>1, SubSeqProperties
<1> QED BY <1>2, ConcatProperties

(* Every variable has its type after every step. *)
LEMMA TypeNext ==
  ASSUME TypeOK, Turns, Counting, Covering, Next
  PROVE  TypeOK'
<1> USE DEF loopVars, callVars, chainVars, lockVars, queueVars, diskVars, stopVars, gapVars, leafVars
<1>0. /\ Nobody \notin Tasks /\ MaxQueue \in Nat \ {0} /\ MaxCalls \in Nat
      /\ NoRecord \in Frame /\ NoBody \in Body
  BY AsyncAssumption, RecordFacts
<1>1. ASSUME NEW t \in Tasks, Call(t)
      PROVE  TypeOK'
  BY <1>0, <1>1 DEF Call, Resume, TypeOK, Label
<1>2. ASSUME NEW t \in Tasks, EmitPendingGap(t)
      PROVE  TypeOK'
  <2> DEFINE body == GapBody(gapFirst, IF gapFirst > sequence THEN gapFirst ELSE sequence)
  <2>1. body \in Body
    <3> DEFINE last == IF gapFirst > sequence THEN gapFirst ELSE sequence
    <3>1. gapFirst \in Nat /\ last \in Nat /\ last - gapFirst + 1 \in Nat
      BY DEF TypeOK
    <3> HIDE DEF last
    <3>2. GapBody(gapFirst, last) \in Body
      BY ONLY <3>1 DEF GapBody, Body
    <3> QED BY <3>2 DEF last
  <2>2. <<"GAP", body>> \in RecordType \X Body
    BY <2>1 DEF RecordType
  <2>3. want' = [want EXCEPT ![t] = <<"GAP", body>>]
    BY <1>2 DEF EmitPendingGap
  <2> HIDE DEF body
  <2>4. want' \in [Tasks -> RecordType \X Body]
    BY <2>2, <2>3 DEF TypeOK
  <2> QED BY <1>0, <1>2, <2>4 DEF EmitPendingGap, Continue, TypeOK, Label
<1>3. ASSUME NEW t \in Tasks, Unpend(t)
      PROVE  TypeOK'
  BY <1>0, <1>3 DEF Unpend, Continue, TypeOK, Label
<1>4. ASSUME NEW t \in Tasks, Phase1(t)
      PROVE  TypeOK'
  <2>1. <<"ACTION", NoBody>> \in RecordType \X Body
    BY <1>0 DEF RecordType
  <2>2. want' \in [Tasks -> RecordType \X Body]
    BY <1>4, <2>1 DEF Phase1, TypeOK
  <2> QED BY <1>0, <1>4, <2>2 DEF Phase1, Continue, Meet, TypeOK, Label
<1>5. ASSUME NEW t \in Tasks, Lock(t)
      PROVE  TypeOK'
  <2>1. Append(lockQueue, t) \in Seq(Tasks)
    BY AppendProperties DEF TypeOK
  <2>2. /\ lockQueue' \in {lockQueue, Append(lockQueue, t)} /\ lockHolder' \in {lockHolder, t}
        /\ current' \in {current, Nobody} /\ \E to \in Label : pc' = [pc EXCEPT ![t] = to]
    BY <1>5 DEF Lock, Continue, Yield, Label
  <2>3. UNCHANGED <<callVars, chainVars, queueVars, diskVars, stopVars, gapVars, leafVars,
                    calls, met, trackedLate>>
    BY <1>5 DEF Lock
  <2>4. /\ lockQueue' \in Seq(Tasks) /\ lockHolder' \in Tasks \union {Nobody}
        /\ current' \in Tasks \union {Nobody} /\ pc' \in [Tasks -> Label]
    BY <2>1, <2>2 DEF TypeOK
  <2> QED BY <2>3, <2>4 DEF TypeOK
<1>6. ASSUME NEW t \in Tasks, GetLock(t)
      PROVE  TypeOK'
  BY <1>0, <1>6, HeadTailProperties DEF GetLock, Resume, TypeOK, Label
<1>7. ASSUME NEW t \in Tasks, Build(t)
      PROVE  TypeOK'
  <2> DEFINE rec == [id |-> nextId, type |-> want[t][1], seq |-> sequence + 1, prev |-> prevHash,
                     ts |-> 0, body |-> want[t][2]]
  <2>1. rec \in Record /\ rec.id = nextId
    BY BuiltRecord
  <2>2. rec \in Frame
    BY <2>1, RecordFacts
  <2>3. /\ staged' = [staged EXCEPT ![t] = rec] \/ staged' = staged
        /\ prevHash' = rec.id \/ prevHash' = prevHash
        /\ gapCount' = gapCount \/ gapCount' = gapCount + 1 \/ gapCount' = gapCount + 0
        /\ recordCount' = recordCount \/ recordCount' = recordCount + 1
        /\ lockHolder' \in {lockHolder, Nobody} /\ current' = current
        /\ \E to \in Label : pc' = [pc EXCEPT ![t] = to]
        /\ met' = met \/ (met' = met \union {"serialize"} /\ "serialize" \in Faults)
    BY <1>7 DEF Build, Meet, Continue, Raised, Hash, Label
  <2>4. /\ sequence' = sequence + 1 /\ nextId' = nextId + 1
        /\ UNCHANGED <<want, leaves, lockQueue, queueVars, diskVars, stopVars, gapVars, leafVars,
                       calls, trackedLate>>
    BY <1>7 DEF Build
  <2> HIDE DEF rec
  <2>5. /\ staged' \in [Tasks -> Frame] /\ prevHash' \in Nat /\ gapCount' \in Nat
        /\ recordCount' \in Nat /\ lockHolder' \in Tasks \union {Nobody}
        /\ current' \in Tasks \union {Nobody}
    <3>1. staged' \in [Tasks -> Frame]
      BY <2>2, <2>3 DEF TypeOK
    <3>2. prevHash' \in Nat
      BY <2>1, <2>3 DEF TypeOK
    <3>3. gapCount \in Nat /\ recordCount \in Nat /\ current \in Tasks \union {Nobody}
          /\ lockHolder \in Tasks \union {Nobody}
      BY DEF TypeOK
    <3>4. gapCount' \in Nat
      BY ONLY <2>3, <3>3
    <3>5. recordCount' \in Nat
      BY ONLY <2>3, <3>3
    <3>6. lockHolder' \in Tasks \union {Nobody} /\ current' \in Tasks \union {Nobody}
      BY ONLY <2>3, <3>3
    <3> QED BY ONLY <3>1, <3>2, <3>4, <3>5, <3>6
  <2>6. pc' \in [Tasks -> Label] /\ met' \subseteq Faults
    BY <2>3 DEF TypeOK
  <2> QED BY <2>4, <2>5, <2>6 DEF TypeOK
<1>8. ASSUME NEW t \in Tasks, pc[t] \in Hands, Enqueue(t),
             current' \in Tasks \union {Nobody}, pc' \in [Tasks -> Label],
             UNCHANGED <<chainVars, diskVars>>
      PROVE  TypeOK'
  <2>1. staged[t] \in Record /\ staged[t].id \in Nat
    BY <1>8, RecordFacts DEF Turns, TypeOK, Frame, Record
  <2>2. queue' \in Seq(Record) /\ Len(queue') <= MaxQueue
    BY <1>0, <1>8, <2>1, AppendProperties, LenProperties DEF Enqueue, TypeOK
  <2>3. accepted' \subseteq Nat /\ promised' \subseteq accepted' /\ covered' \subseteq Nat
    BY <1>8, <2>1 DEF Enqueue, TypeOK
  <2> QED BY <1>0, <1>8, <2>2, <2>3 DEF Enqueue, TypeOK
<1>9. ASSUME NEW t \in Tasks
      PROVE  want[t][1] \in {"GAP", "ACTION", "CHECKPOINT"} => AfterWrite(t) \in Label
  BY DEF AfterWrite, Label
<1>10. ASSUME NEW t \in Tasks, Put(t) \/ GetSlot(t)
       PROVE  TypeOK'
  <2>1. AfterWrite(t) \in Label
    BY <1>9, <1>10 DEF Put, GetSlot, Continue, Yield, Resume, Covering, Writing
  <2>2. CASE Enqueue(t)
    <3>1. /\ pc[t] \in Hands /\ current' \in Tasks \union {Nobody} /\ pc' \in [Tasks -> Label]
      BY <1>0, <1>10, <2>1, <2>2 DEF Put, GetSlot, Continue, Yield, Resume, Hands, TypeOK, Label
    <3> QED BY <1>8, <2>2, <3>1 DEF Enqueue
  <2>3. CASE Yield(t, "put", "waitPut") /\ UNCHANGED <<callVars, chainVars, lockVars, queueVars,
                   diskVars, stopVars, gapVars, leafVars, calls, met, trackedLate>>
    BY <1>0, <2>3 DEF Yield, TypeOK, Label
  <2> QED BY <1>10, <2>2, <2>3 DEF Put, GetSlot
<1>11. ASSUME NEW t \in Tasks, Track(t)
       PROVE  TypeOK'
  <2>1. /\ sinceCheckpoint' \in Nat /\ recordHashes' \subseteq Nat /\ tracked' \subseteq Nat
        /\ trackedLate' \in BOOLEAN
    BY <1>11 DEF Track, TypeOK
  <2>2. /\ current' \in {current, Nobody} /\ \E to \in Label : pc' = [pc EXCEPT ![t] = to]
    BY <1>11 DEF Track, Continue, Yield, Label
  <2>3. UNCHANGED <<callVars, chainVars, lockVars, queueVars, diskVars, stopVars, gapVars,
                    covered, calls, met>>
    BY <1>11 DEF Track
  <2> QED BY <1>0, <2>1, <2>2, <2>3 DEF TypeOK
<1>12. ASSUME NEW t \in Tasks, BuildCheckpoint(t)
       PROVE  TypeOK'
  <2>1. <<"CHECKPOINT", <<recordCount + 1, gapCount, prevHash>>>> \in RecordType \X Body
    <3>1. recordCount + 1 \in Nat /\ gapCount \in Nat /\ prevHash \in Nat
      BY DEF TypeOK
    <3>2. <<recordCount + 1, gapCount, prevHash>> \in Body
      BY ONLY <3>1 DEF Body
    <3> QED BY ONLY <3>2 DEF RecordType
  <2>2. want' \in [Tasks -> RecordType \X Body] /\ leaves' \in [Tasks -> SUBSET Nat]
    BY <1>12, <2>1 DEF BuildCheckpoint, TypeOK
  <2> QED BY <1>0, <1>12, <2>2 DEF BuildCheckpoint, Continue, TypeOK, Label
<1>13. ASSUME NEW t \in Tasks, ResetCheckpointCounters(t) \/ Handle(t)
       PROVE  TypeOK'
  <2>1. CASE ResetCheckpointCounters(t)
    BY <1>0, <2>1 DEF ResetCheckpointCounters, Yield, TypeOK, Label
  <2>2. CASE Handle(t)
    BY <1>0, <2>2 DEF Handle, Yield, TypeOK, Label
  <2> QED BY <1>13, <2>1, <2>2
<1>14. ASSUME NEW t \in Tasks, Cancel(t)
       PROVE  TypeOK'
  <2>1. lockQueue' \in Seq(Tasks)
    <3>1. lockQueue \in Seq(Tasks)
      BY DEF TypeOK
    <3>2. \/ lockQueue' = lockQueue
          \/ \E i \in 1 .. Len(lockQueue) :
               lockQueue' = SubSeq(lockQueue, 1, i - 1) \o SubSeq(lockQueue, i + 1, Len(lockQueue))
      BY <1>14 DEF Cancel
    <3> QED BY ONLY <3>1, <3>2, TakenOut
  <2> QED BY <1>0, <1>14, <2>1 DEF Cancel, Meet, TypeOK, Label
<1>15. CASE DrainGet
  <2>1. Head(queue) \in Record /\ Tail(queue) \in Seq(Record) /\ Len(Tail(queue)) <= MaxQueue
    BY <1>0, <1>15, HeadTailProperties, LenProperties DEF DrainGet, TypeOK
  <2>2. Head(queue) \in Frame
    BY <2>1, RecordFacts
  <2> QED BY <1>15, <2>1, <2>2 DEF DrainGet, TypeOK
<1>16. CASE ThreadWrite
  <2>1. Append(file, thread) \in Seq(Frame) /\ Append(file, Torn) \in Seq(Frame)
    BY <1>0, AppendProperties, RecordFacts DEF TypeOK
  <2> QED BY <1>0, <1>16, <2>1 DEF ThreadWrite, Meet, TypeOK
<1>17. CASE TaskDone
  <2>1. unfinished = Len(queue) + 1 /\ Len(queue) \in Nat
    BY <1>17, LenProperties DEF TaskDone, Counting, UnfinishedCounts, TypeOK
  <2> QED BY <1>17, <2>1 DEF TaskDone, TypeOK
<1>18. CASE Stop \/ StopWakes
  BY <1>18 DEF Stop, StopWakes, TypeOK
<1> QED
  BY <1>1, <1>2, <1>3, <1>4, <1>5, <1>6, <1>7, <1>10, <1>11, <1>12, <1>13, <1>14, <1>15, <1>16,
     <1>17, <1>18 DEF Next, Step, Drain

-----------------------------------------------------------------------------
(* Turns.                                                                  *)

(* Of two tasks, one holds the lock at most, and so does one a record.     *)
LEMMA OneHand ==
  ASSUME Turns, NEW t \in Tasks
  PROVE  /\ pc[t] \in Hands => Holding = {t} /\ lockHolder = t
         /\ pc[t] = "build" => Holding = {} /\ lockHolder = t
         /\ lockHolder = Nobody => Holding = {}
<1>1. \A u, v \in Tasks : pc[u] \in Hands \union {"build"} /\ pc[v] \in Hands \union {"build"} => u = v
  BY DEF Turns
<1>2. Holding = {u \in Tasks : pc[u] \in Hands}
  BY DEF Turns, Holding
<1>3. Nobody \notin Tasks
  BY AsyncAssumption
<1> QED BY <1>1, <1>2, <1>3 DEF Turns, Hands

(* Tasks take turns after every step. *)
LEMMA TurnsNext ==
  ASSUME TypeOK, Turns, Counting, Covering, Next
  PROVE  Turns'
<1>0. /\ Nobody \notin Tasks
      /\ pc \in [Tasks -> Label] /\ staged \in [Tasks -> Frame]
      /\ current \in Tasks \union {Nobody}
  BY AsyncAssumption DEF TypeOK
<1> USE DEF callVars, chainVars, lockVars, Waiting, Hands
(* The steps that leave the lock and the records alone. *)
<1>1. ASSUME NEW t \in Tasks, NEW from \in Label, NEW to \in Label,
             Continue(t, from, to) \/ Yield(t, from, to) \/ Resume(t, from, to),
             Continue(t, from, to) \/ Resume(t, from, to) => to \notin Waiting,
             Yield(t, from, to) => to \in Waiting,
             from \notin Hands \union {"build"}, to \notin Hands \union {"build"},
             UNCHANGED <<staged, lockHolder>>
      PROVE  Turns'
  <2>1. /\ pc[t] = from /\ pc' = [pc EXCEPT ![t] = to]
        /\ \/ current = t /\ current' = t /\ to \notin Waiting
           \/ current = t /\ current' = Nobody /\ to \in Waiting
           \/ current = Nobody /\ current' = t /\ to \notin Waiting
    BY <1>1 DEF Continue, Yield, Resume
  <2> QED BY <1>0, <1>1, <2>1 DEF Turns
<1>2. ASSUME NEW t \in Tasks,
             \/ Call(t) \/ EmitPendingGap(t) \/ Unpend(t) \/ Phase1(t) \/ Track(t)
             \/ BuildCheckpoint(t) \/ ResetCheckpointCounters(t) \/ Handle(t)
      PROVE  Turns'
  <2>1. UNCHANGED <<staged, lockHolder>>
    BY <1>2 DEF Call, EmitPendingGap, Unpend, Phase1, Track, BuildCheckpoint,
                ResetCheckpointCounters, Handle
  <2>2. \E from, to \in Label :
          /\ from \notin Hands \union {"build"} /\ to \notin Hands \union {"build"}
          /\ \/ Continue(t, from, to) /\ to \notin Waiting
             \/ Yield(t, from, to) /\ to \in Waiting
             \/ Resume(t, from, to) /\ to \notin Waiting
    <3>1. CASE Call(t) \/ EmitPendingGap(t) \/ Unpend(t) \/ Phase1(t)
      BY <3>1 DEF Call, EmitPendingGap, Unpend, Phase1, Label
    <3>2. CASE Track(t) \/ BuildCheckpoint(t) \/ ResetCheckpointCounters(t) \/ Handle(t)
      BY <3>2 DEF Track, BuildCheckpoint, ResetCheckpointCounters, Handle, Label
    <3> QED BY <1>2, <3>1, <3>2
  <2>3. PICK from \in Label, to \in Label :
          /\ from \notin Hands \union {"build"} /\ to \notin Hands \union {"build"}
          /\ \/ Continue(t, from, to) /\ to \notin Waiting
             \/ Yield(t, from, to) /\ to \in Waiting
             \/ Resume(t, from, to) /\ to \notin Waiting
    BY <2>2
  <2>4. /\ pc[t] = from /\ pc' = [pc EXCEPT ![t] = to]
        /\ \/ current = t /\ current' = t /\ to \notin Waiting
           \/ current = t /\ current' = Nobody /\ to \in Waiting
           \/ current = Nobody /\ current' = t /\ to \notin Waiting
    BY <2>3 DEF Continue, Yield, Resume
  <2> QED BY <1>0, <2>1, <2>3, <2>4 DEF Turns
<1>3. ASSUME NEW t \in Tasks, Lock(t) \/ GetLock(t)
      PROVE  Turns'
  <2>1. /\ staged' = staged /\ pc[t] \in {"lock", "waitLock"}
        /\ \/ /\ lockHolder = Nobody /\ lockHolder' = t /\ current' = t
              /\ current \in {t, Nobody} /\ pc' = [pc EXCEPT ![t] = "build"]
           \/ /\ lockHolder' = lockHolder /\ current = t /\ current' = Nobody
              /\ pc' = [pc EXCEPT ![t] = "waitLock"]
    BY <1>3 DEF Lock, GetLock, Continue, Yield, Resume
  <2> QED BY <1>0, <2>1 DEF Turns
<1>4. ASSUME NEW t \in Tasks, Build(t)
      PROVE  Turns'
  <2> DEFINE rec == [id |-> nextId, type |-> want[t][1], seq |-> sequence + 1, prev |-> prevHash,
                     ts |-> 0, body |-> want[t][2]]
  <2>1. rec # NoRecord
    BY BuiltRecord, RecordFacts
  <2>2. /\ current = t /\ current' = t /\ pc[t] = "build"
        /\ \/ /\ pc' = [pc EXCEPT ![t] = "put"] /\ staged' = [staged EXCEPT ![t] = rec]
              /\ lockHolder' = lockHolder
           \/ /\ pc' = [pc EXCEPT ![t] = Raised(t)] /\ staged' = staged /\ lockHolder' = Nobody
    BY <1>4 DEF Build, Continue
  <2>3. Raised(t) \in {"phase1", "raise"}
    BY DEF Raised
  <2> HIDE DEF rec
  <2> QED BY <1>0, <2>1, <2>2, <2>3 DEF Turns
<1>5. ASSUME NEW t \in Tasks, Put(t) \/ GetSlot(t)
      PROVE  Turns'
  <2>1. AfterWrite(t) \in {"unpend", "track", "reset"}
    <3>1. want[t][1] \in {"GAP", "ACTION", "CHECKPOINT"}
      BY <1>5 DEF Put, GetSlot, Continue, Yield, Resume, Covering, Writing
    <3> QED BY <3>1 DEF AfterWrite
  <2>2. /\ pc[t] \in Hands
        /\ \/ /\ pc' = [pc EXCEPT ![t] = AfterWrite(t)] /\ staged' = [staged EXCEPT ![t] = NoRecord]
              /\ lockHolder' = Nobody /\ current' = t /\ current \in {t, Nobody}
           \/ /\ pc' = [pc EXCEPT ![t] = "waitPut"] /\ staged' = staged /\ lockHolder' = lockHolder
              /\ current = t /\ current' = Nobody
    BY <1>5 DEF Put, GetSlot, Enqueue, Continue, Yield, Resume
  <2> QED BY <1>0, <2>1, <2>2 DEF Turns
<1>6. ASSUME NEW t \in Tasks, Cancel(t)
      PROVE  Turns'
  <2>1. /\ current = Nobody /\ current' = Nobody /\ pc' = [pc EXCEPT ![t] = "idle"]
        /\ staged' = [staged EXCEPT ![t] = NoRecord]
        /\ \/ pc[t] = "waitLock" /\ lockHolder' = lockHolder
           \/ pc[t] = "waitPut" /\ lockHolder' = Nobody
    BY <1>6 DEF Cancel
  <2> QED BY <1>0, <2>1 DEF Turns
<1>7. CASE Drain \/ ThreadWrite \/ Stop \/ StopWakes
  <2>1. UNCHANGED <<current, pc, staged, lockHolder>>
    BY <1>7 DEF Drain, DrainGet, TaskDone, ThreadWrite, Stop, StopWakes, loopVars
  <2> QED BY <2>1 DEF Turns
<1> QED
  BY <1>2, <1>3, <1>4, <1>5, <1>6, <1>7 DEF Next, Step

(* What a step does to the count of join, and to the drain task. *)
LEMMA CountingNext ==
  ASSUME TypeOK, Turns, Counting, Next
  PROVE  Counting'
<1>0. /\ queue \in Seq(Record) /\ Len(queue) \in Nat /\ unfinished \in Nat /\ nextId \in Nat
      /\ nextId > 0
  BY LenProperties DEF TypeOK, Counting
<1>1. ASSUME NEW t \in Tasks,
             \/ Call(t) \/ EmitPendingGap(t) \/ Unpend(t) \/ Phase1(t) \/ Lock(t) \/ GetLock(t)
             \/ Track(t) \/ BuildCheckpoint(t) \/ ResetCheckpointCounters(t) \/ Handle(t) \/ Cancel(t)
      PROVE  UNCHANGED <<queueVars, diskVars, stopVars, nextId>>
  BY <1>1 DEF Call, EmitPendingGap, Unpend, Phase1, Lock, GetLock, Track, BuildCheckpoint,
              ResetCheckpointCounters, Handle, Cancel, chainVars
<1>2. CASE UNCHANGED <<queueVars, diskVars, stopVars>> /\ nextId' \in {nextId, nextId + 1}
  BY <1>0, <1>2 DEF queueVars, diskVars, stopVars, Counting, UnfinishedCounts
<1>3. ASSUME NEW t \in Tasks, Build(t)
      PROVE  Counting'
  BY <1>2, <1>3 DEF Build
<1>4. ASSUME NEW t \in Tasks, Put(t) \/ GetSlot(t)
      PROVE  Counting'
  <2>1. CASE UNCHANGED <<queueVars, diskVars, stopVars, chainVars>>
    BY <1>2, <2>1 DEF chainVars
  <2>2. CASE Enqueue(t) /\ staged[t] # NoRecord
    <3>1. staged[t] \in Record
      BY <2>2, RecordFacts DEF TypeOK, Frame
    <3>2. Len(queue') = Len(queue) + 1 /\ unfinished' = unfinished + 1
      BY <1>0, <2>2, <3>1, AppendProperties DEF Enqueue
    <3>3. UNCHANGED <<diskVars, stopVars, nextId>>
      BY <2>2 DEF Enqueue, chainVars
    <3> QED BY <1>0, <3>2, <3>3 DEF diskVars, stopVars, Counting, UnfinishedCounts
  <2>3. staged[t] = NoRecord => pc[t] \notin Hands
    BY DEF Turns
  <2> QED BY <1>4, <2>1, <2>2, <2>3 DEF Put, GetSlot, Continue, Yield, Resume, Hands
<1>5. CASE DrainGet
  <2>1. Len(queue') = Len(queue) - 1 /\ drain = "get" /\ drain' = "write"
        /\ UNCHANGED <<unfinished, stopVars, nextId>>
    BY <1>0, <1>5, HeadTailProperties DEF DrainGet, chainVars
  <2> QED BY <1>0, <2>1 DEF stopVars, Counting, UnfinishedCounts
<1>6. CASE ThreadWrite
  <2>1. /\ drain = "write" /\ drain' \in {"write", "dead"} /\ thread' = NoRecord
        /\ UNCHANGED <<queueVars, stopVars, nextId>>
    BY <1>6 DEF ThreadWrite, Counting, chainVars
  <2> QED BY <2>1 DEF queueVars, stopVars, Counting, UnfinishedCounts
<1>7. CASE TaskDone
  <2>1. stopper # "stopped" /\ stopper # "wake" /\ unfinished = Len(queue) + 1
    BY <1>7 DEF TaskDone, Counting, UnfinishedCounts
  <2>2. /\ unfinished' = unfinished - 1 /\ queue' = queue /\ thread' = thread /\ thread = NoRecord
        /\ running' = running /\ nextId' = nextId
        /\ stopper' = (IF stopper = "join" /\ unfinished = 1 THEN "wake" ELSE stopper)
        /\ drain' = IF running \/ queue # <<>> THEN "get" ELSE "done"
    BY <1>7 DEF TaskDone, chainVars
  <2>3. queue = <<>> <=> Len(queue) = 0
    BY <1>0, EmptySeq
  <2>4. running <=> stopper = "none"
    BY DEF Counting
  <2>5. stopper \in {"none", "join"}
    BY <2>1 DEF TypeOK
  <2> QED BY <1>0, <2>1, <2>2, <2>3, <2>4, <2>5 DEF Counting, UnfinishedCounts
<1>8. CASE Stop
  <2>1. /\ stopper = "none" /\ running' = FALSE /\ UNCHANGED <<queueVars, thread, nextId>>
        /\ IF unfinished > 0 THEN stopper' = "join" /\ drain' = drain
           ELSE stopper' = "stopped" /\ drain' = "done"
    BY <1>8 DEF Stop, chainVars
  <2>2. unfinished > 0 \/ drain # "write"
    BY <1>0, <2>1 DEF Counting, UnfinishedCounts
  <2> QED BY <1>0, <2>1, <2>2 DEF queueVars, Counting, UnfinishedCounts
<1>9. CASE StopWakes
  <2>1. /\ stopper = "wake" /\ stopper' = "stopped" /\ drain' = "done"
        /\ UNCHANGED <<queueVars, thread, running, nextId>>
    BY <1>9 DEF StopWakes, chainVars
  <2> QED BY <2>1 DEF queueVars, Counting, UnfinishedCounts
<1> QED
  BY <1>1, <1>2, <1>3, <1>4, <1>5, <1>6, <1>7, <1>8, <1>9 DEF Next, Step, Drain

-----------------------------------------------------------------------------
(* The pipeline.                                                           *)

(* A queue is its first record and the others. *)
LEMMA HeadAndTail ==
  ASSUME NEW q, q \in Seq(Frame), q # <<>>
  PROVE  /\ Head(q) \in Frame /\ Tail(q) \in Seq(Frame)
         /\ <<Head(q)>> \o Tail(q) = q
<1>1. /\ Head(q) \in Frame /\ Tail(q) \in Seq(Frame) /\ Len(q) \in Nat \ {0}
      /\ Len(Tail(q)) = Len(q) - 1 /\ Head(q) = q[1]
      /\ \A i \in 1 .. Len(Tail(q)) : Tail(q)[i] = q[i + 1]
  BY HeadTailProperties, LenProperties, EmptySeq
<1>2. <<Head(q)>> \in Seq(Frame) /\ Len(<<Head(q)>>) = 1 /\ <<Head(q)>>[1] = Head(q)
  BY <1>1
<1> DEFINE one == <<Head(q)>>
           rest == Tail(q)
<1> HIDE DEF one, rest
<1>3. /\ one \o rest \in Seq(Frame) /\ Len(one \o rest) = Len(q)
      /\ \A i \in 1 .. Len(q) : (one \o rest)[i] = IF i <= 1 THEN one[i] ELSE rest[i - 1]
  BY <1>1, <1>2, ConcatProperties DEF one, rest
<1>4. ASSUME NEW i \in 1 .. Len(q) PROVE (one \o rest)[i] = q[i]
  <2>1. CASE i = 1
    BY <1>1, <1>2, <1>3, <2>1 DEF one
  <2>2. CASE i # 1
    <3>1. i - 1 \in 1 .. Len(rest) /\ ~(i <= 1) /\ (i - 1) + 1 = i
      BY <1>1, <2>2 DEF rest
    <3>2. rest[i - 1] = q[(i - 1) + 1]
      BY <1>1, <3>1 DEF rest
    <3> QED BY <1>3, <3>1, <3>2
  <2> QED BY <2>1, <2>2
<1>5. one \o rest = q
  BY <1>3, <1>4, SeqEqual
<1> QED BY <1>1, <1>5 DEF one, rest

(* What is in the pipeline are frames, those in the thread and in the hand *)
(* of a task among them.                                                   *)
LEMMA WholeType ==
  ASSUME TypeOK, Turns
  PROVE  /\ file \in Seq(Frame) /\ OneOf(thread) \in Seq(Frame) /\ queue \in Seq(Frame)
         /\ file \o OneOf(thread) \in Seq(Frame)
         /\ Pipe \in Seq(Frame) /\ Whole \in Seq(Frame)
<1>1. file \in Seq(Frame) /\ thread \in Frame
  BY DEF TypeOK
<1>2. queue \in Seq(Frame)
  <2>1. Len(queue) \in Nat /\ queue \in [1 .. Len(queue) -> Record]
    BY LenProperties DEF TypeOK
  <2>2. queue \in [1 .. Len(queue) -> Frame]
    BY <2>1, RecordFacts
  <2> QED BY <2>1, <2>2, IsASeq
<1>3. OneOf(thread) \in Seq(Frame)
  BY <1>1, EmptySeq DEF OneOf
<1>4. file \o OneOf(thread) \in Seq(Frame) /\ Pipe \in Seq(Frame)
  BY <1>1, <1>2, <1>3, ConcatProperties DEF Pipe
<1>5. ASSUME Holding # {} PROVE staged[lockHolder] \in Frame
  <2>1. PICK t \in Tasks : staged[t] # NoRecord
    BY <1>5 DEF Holding
  <2>2. lockHolder = t
    BY <2>1 DEF Turns
  <2> QED BY <2>2 DEF TypeOK
<1> QED BY <1>1, <1>2, <1>3, <1>4, <1>5, AppendProperties DEF Whole

(* What a step does to the chain from the file to the hand of the task     *)
(* that has numbered the last record.                                      *)
LEMMA WholeEffect ==
  ASSUME TypeOK, Turns, Counting, Next
  PROVE  /\ met \subseteq met'
         /\ \/ Whole' = Whole /\ sequence' = sequence /\ prevHash' = prevHash
            \/ \E t \in Tasks, rec \in Record :
                 /\ rec.prev = prevHash /\ rec.seq = sequence + 1 /\ rec.type = want[t][1]
                 /\ Whole' = Append(Whole, rec) /\ sequence' = rec.seq /\ prevHash' = rec.id
            \/ "serialize" \in met' /\ Whole' = Whole /\ prevHash' = prevHash
            \/ met' \intersect {"drop", "torn", "cancel"} # {}
<1> USE DEF loopVars, callVars, chainVars, lockVars, queueVars, diskVars
<1> DEFINE Kept == Whole' = Whole /\ sequence' = sequence /\ prevHash' = prevHash
<1>0. /\ file \in Seq(Frame) /\ OneOf(thread) \in Seq(Frame) /\ queue \in Seq(Frame)
      /\ file \o OneOf(thread) \in Seq(Frame) /\ Nobody \notin Tasks
      /\ thread \in Frame /\ staged \in [Tasks -> Frame]
  BY WholeType, AsyncAssumption DEF TypeOK
<1>1. ASSUME UNCHANGED <<file, thread, queue, staged>>, lockHolder' = lockHolder \/ Holding = {}
      PROVE  Whole' = Whole
  BY <1>1 DEF Whole, Pipe, Holding, OneOf
<1>2. ASSUME NEW t \in Tasks,
             \/ Call(t) \/ EmitPendingGap(t) \/ Unpend(t) \/ Phase1(t) \/ Track(t)
             \/ BuildCheckpoint(t) \/ ResetCheckpointCounters(t) \/ Handle(t)
      PROVE  Kept /\ met \subseteq met'
  <2>1. UNCHANGED <<file, thread, queue, staged, lockHolder, sequence, prevHash>>
    BY <1>2 DEF Call, EmitPendingGap, Unpend, Phase1, Track, BuildCheckpoint,
                ResetCheckpointCounters, Handle
  <2>2. met \subseteq met'
    BY <1>2 DEF Call, EmitPendingGap, Unpend, Phase1, Track, BuildCheckpoint,
                ResetCheckpointCounters, Handle, Meet
  <2> QED BY <1>1, <2>1, <2>2
<1>3. ASSUME NEW t \in Tasks, Lock(t) \/ GetLock(t)
      PROVE  Kept /\ met' = met
  <2>1. /\ UNCHANGED <<file, thread, queue, staged, sequence, prevHash, met>>
        /\ lockHolder' = lockHolder \/ lockHolder = Nobody
    BY <1>3 DEF Lock, GetLock
  <2>2. lockHolder = Nobody => Holding = {}
    BY OneHand
  <2> QED BY <1>1, <2>1, <2>2
<1>4. ASSUME NEW t \in Tasks, Build(t)
      PROVE  /\ met \subseteq met'
             /\ \/ \E rec \in Record :
                     /\ rec.prev = prevHash /\ rec.seq = sequence + 1 /\ rec.type = want[t][1]
                     /\ Whole' = Append(Whole, rec) /\ sequence' = rec.seq /\ prevHash' = rec.id
                \/ "serialize" \in met' /\ Whole' = Whole /\ prevHash' = prevHash
  <2> DEFINE rec == [id |-> nextId, type |-> want[t][1], seq |-> sequence + 1, prev |-> prevHash,
                     ts |-> 0, body |-> want[t][2]]
  <2>1. rec \in Record /\ rec.prev = prevHash /\ rec.seq = sequence + 1 /\ rec.type = want[t][1]
    BY BuiltRecord
  <2>2. UNCHANGED <<file, thread, queue>> /\ sequence' = sequence + 1 /\ Holding = {} /\ lockHolder = t
    BY <1>4, OneHand DEF Build
  <2>3. \/ /\ staged' = [staged EXCEPT ![t] = rec] /\ prevHash' = rec.id
           /\ lockHolder' = lockHolder /\ met' = met
        \/ staged' = staged /\ prevHash' = prevHash /\ "serialize" \in met' /\ met \subseteq met'
    BY <1>4 DEF Build, Meet, Hash
  <2>4. rec # NoRecord
    BY <2>1, RecordFacts
  <2> HIDE DEF rec
  <2>6. staged' = staged => Whole' = Whole
    BY <1>1, <2>2
  <2>7. CASE /\ staged' = [staged EXCEPT ![t] = rec] /\ prevHash' = rec.id
             /\ lockHolder' = lockHolder /\ met' = met
    <3>1. Whole' = Append(Whole, rec)
      BY <2>2, <2>4, <2>7, <1>0 DEF Whole, Pipe, OneOf, Holding
    <3> QED BY <2>1, <2>2, <2>7, <3>1
  <2> QED BY <2>3, <2>6, <2>7
<1>5. ASSUME NEW t \in Tasks, pc[t] \in Hands, Enqueue(t)
      PROVE  Kept /\ met' = met
  <2>1. Holding = {t} /\ lockHolder = t
    BY <1>5, OneHand
  <2>2. /\ UNCHANGED <<file, thread, sequence, prevHash, met>>
        /\ queue' = Append(queue, staged[t]) /\ staged' = [staged EXCEPT ![t] = NoRecord]
    BY <1>5 DEF Enqueue
  <2>3. Holding' = {}
    BY <1>0, <2>1, <2>2 DEF Holding
  <2>4. Whole = Append(Pipe, staged[t]) /\ Whole' = Pipe'
    BY <2>1, <2>3 DEF Whole
  <2>5. Pipe' = (file \o OneOf(thread)) \o Append(queue, staged[t])
    BY <2>2 DEF Pipe, OneOf
  <2>6. staged[t] \in Frame
    BY <1>0
  <2>7. (file \o OneOf(thread)) \o Append(queue, staged[t]) = Append(Pipe, staged[t])
    BY <1>0, <2>6, ConcatAppend DEF Pipe
  <2> QED BY <2>2, <2>4, <2>5, <2>7
<1>6. ASSUME NEW t \in Tasks, Put(t) \/ GetSlot(t)
      PROVE  Kept /\ met' = met
  <2>1. pc[t] \in Hands
    BY <1>6 DEF Put, GetSlot, Continue, Yield, Resume, Hands
  <2>2. CASE UNCHANGED <<callVars, chainVars, lockVars, queueVars, diskVars, met>>
    BY <1>1, <2>2
  <2> QED BY <1>5, <1>6, <2>1, <2>2 DEF Put, GetSlot
<1>7. ASSUME NEW t \in Tasks, Cancel(t)
      PROVE  met \subseteq met' /\ met' \intersect {"drop", "torn", "cancel"} # {}
  BY <1>7 DEF Cancel, Meet
<1>8. CASE DrainGet
  <2>1. /\ queue # <<>> /\ thread' = Head(queue) /\ queue' = Tail(queue) /\ thread = NoRecord
        /\ UNCHANGED <<file, staged, lockHolder, sequence, prevHash, met>>
    BY <1>8 DEF DrainGet, Counting
  <2>2. Head(queue) # NoRecord
    BY <2>1, HeadTailProperties, RecordFacts DEF TypeOK
  <2>3. /\ <<Head(queue)>> \in Seq(Frame) /\ Tail(queue) \in Seq(Frame)
        /\ <<Head(queue)>> \o Tail(queue) = queue
    BY <1>0, <2>1, HeadAndTail
  <2>4. Pipe' = (file \o <<Head(queue)>>) \o Tail(queue)
    BY <2>1, <2>2 DEF Pipe, OneOf
  <2>5. (file \o <<Head(queue)>>) \o Tail(queue) = file \o queue
    BY <1>0, <2>3, ConcatAssociative
  <2>6. Pipe = file \o queue
    BY <1>0, <2>1, ConcatEmptySeq DEF Pipe, OneOf
  <2>7. Pipe' = Pipe
    BY <2>4, <2>5, <2>6
  <2> QED BY <2>1, <2>7 DEF Whole, Holding
<1>9. CASE ThreadWrite
  <2>1. /\ thread # NoRecord /\ thread' = NoRecord
        /\ UNCHANGED <<queue, staged, lockHolder, sequence, prevHash>>
        /\ \/ file' = Append(file, thread) /\ met' = met
           \/ /\ met' = met \union {"drop"} \/ met' = met \union {"torn"}
    BY <1>9 DEF ThreadWrite, Meet
  <2>2. CASE file' = Append(file, thread) /\ met' = met
    <3>1. Pipe' = (Append(file, thread) \o <<>>) \o queue /\ Pipe = (file \o <<thread>>) \o queue
      BY <2>1, <2>2 DEF Pipe, OneOf
    <3>2. file \o <<thread>> = Append(file, thread) /\ Append(file, thread) \in Seq(Frame)
      BY <1>0, AppendOne, AppendProperties
    <3>3. Append(file, thread) \o <<>> = Append(file, thread)
      BY <3>2, ConcatEmptySeq
    <3>4. Pipe' = Pipe
      BY <3>1, <3>2, <3>3
    <3> QED BY <2>1, <2>2, <3>4 DEF Whole, Holding
  <2> QED BY <2>1, <2>2
<1>10. CASE TaskDone \/ Stop \/ StopWakes
  <2>1. UNCHANGED <<file, thread, queue, staged, lockHolder, sequence, prevHash, met>>
    BY <1>10 DEF TaskDone, Stop, StopWakes
  <2> QED BY <1>1, <2>1
<1> HIDE DEF Kept
<1>11. CASE \E t \in Tasks : Call(t) \/ Step(t) \/ Cancel(t)
  <2>1. PICK t \in Tasks : Call(t) \/ Step(t) \/ Cancel(t)
    BY <1>11
  <2>2. (Kept /\ met \subseteq met') \/ Build(t) \/ Cancel(t)
    BY <2>1, <1>2, <1>3, <1>6 DEF Step
  <2> QED BY <2>2, <1>4, <1>7 DEF Kept
<1>12. CASE Drain \/ ThreadWrite \/ Stop \/ StopWakes
  BY <1>8, <1>9, <1>10, <1>12 DEF Drain, Kept
<1> QED BY <1>11, <1>12 DEF Next

(* The chain stays linked, from the file to the record last numbered. *)
LEMMA LinkedNext ==
  ASSUME TypeOK, Turns, Counting, Linked, Next
  PROVE  Linked'
<1>1. SUFFICES ASSUME NewFile, met' \intersect {"drop", "torn", "cancel"} = {}
               PROVE  (/\ HashLinkedFrames(Whole)
                       /\ prevHash = LastHash(Whole)
                       /\ NeverMet({"serialize"}) => sequence = LastSeq(Whole))'
  BY DEF Linked, NeverMet, NewFile
<1>2. met \subseteq met' /\ Whole \in Seq(Frame)
  BY WholeEffect, WholeType
<1>3. /\ HashLinkedFrames(Whole) /\ prevHash = LastHash(Whole)
      /\ NeverMet({"serialize"}) => sequence = LastSeq(Whole)
  BY <1>1, <1>2 DEF Linked, NeverMet
<1>4. CASE Whole' = Whole /\ sequence' = sequence /\ prevHash' = prevHash
  <2>1. NeverMet({"serialize"})' => NeverMet({"serialize"})
    BY <1>2 DEF NeverMet
  <2> QED BY <1>3, <1>4, <2>1
<1>5. ASSUME NEW rec \in Record, rec.prev = prevHash,
             Whole' = Append(Whole, rec), sequence' = rec.seq, prevHash' = rec.id
      PROVE  (/\ HashLinkedFrames(Whole)
              /\ prevHash = LastHash(Whole)
              /\ NeverMet({"serialize"}) => sequence = LastSeq(Whole))'
  <2>1. rec \in Frame
    BY RecordFacts
  <2>2. HashLinkedFrames(Append(Whole, rec))
    BY <1>2, <1>3, <1>5, <2>1, AppendLinks
  <2>3. LastHash(Append(Whole, rec)) = rec.id /\ LastSeq(Append(Whole, rec)) = rec.seq
    BY <1>2, <2>1, AppendFrame
  <2> QED BY <1>5, <2>2, <2>3
<1>6. CASE "serialize" \in met' /\ Whole' = Whole /\ prevHash' = prevHash
  BY <1>3, <1>6 DEF NeverMet
<1> QED BY <1>1, <1>4, <1>5, <1>6, WholeEffect

(* Until something fails no gap is pending and the chain verifies. *)
LEMMA FlawlessNext ==
  ASSUME TypeOK, Turns, Counting, Linked, Flawless, Covering, Next
  PROVE  Flawless'
<1> USE DEF loopVars, callVars, gapVars
<1> DEFINE Calm(t) == want[t][1] # "GAP" /\ pc[t] \notin {"gap", "unpend", "raise"}
<1>1. SUFFICES ASSUME met' = {}
               PROVE  (/\ ~pendingGap
                       /\ \A t \in Tasks : Calm(t)
                       /\ NewFile => Verifies(Whole, FALSE))'
  BY DEF Flawless
<1>2. met = {} /\ ~pendingGap /\ \A t \in Tasks : Calm(t)
  BY <1>1, WholeEffect DEF Flawless
<1>3. want \in [Tasks -> RecordType \X Body] /\ pc \in [Tasks -> Label]
  BY DEF TypeOK
<1>4. ASSUME NEW t \in Tasks,
             UNCHANGED pendingGap,
             \E w : w[1] # "GAP" /\ (want' = want \/ want' = [want EXCEPT ![t] = w]),
             \E to : to \notin {"gap", "unpend", "raise"} /\ pc' = [pc EXCEPT ![t] = to]
      PROVE  ~pendingGap' /\ \A u \in Tasks : Calm(u)'
  BY <1>2, <1>3, <1>4
<1>5. ASSUME NEW t \in Tasks, Call(t) \/ Step(t) \/ Cancel(t)
      PROVE  ~pendingGap' /\ \A u \in Tasks : Calm(u)'
  <2>1. ~EmitPendingGap(t) /\ ~Unpend(t) /\ ~Handle(t) /\ ~Cancel(t)
    BY <1>1, <1>2 DEF EmitPendingGap, Unpend, Handle, Cancel, Meet, Continue, Yield
  <2>2. CASE Call(t) \/ Lock(t) \/ GetLock(t) \/ Track(t) \/ ResetCheckpointCounters(t)
    <3>1. UNCHANGED <<pendingGap, want>>
          /\ \E to : to \notin {"gap", "unpend", "raise"} /\ pc' = [pc EXCEPT ![t] = to]
      BY <1>2, <2>2 DEF Call, Lock, GetLock, Track, ResetCheckpointCounters, Continue, Yield, Resume
    <3> QED BY <1>2, <1>3, <3>1
  <2>3. CASE Phase1(t)
    <3>1. /\ UNCHANGED pendingGap /\ want' = [want EXCEPT ![t] = <<"ACTION", NoBody>>]
          /\ pc' = [pc EXCEPT ![t] = "lock"]
      BY <1>1, <2>3 DEF Phase1, Meet, Continue
    <3> QED BY <1>2, <1>3, <3>1
  <2>4. CASE Build(t)
    <3>1. UNCHANGED <<pendingGap, want>> /\ pc' = [pc EXCEPT ![t] = "put"]
      BY <1>1, <2>4 DEF Build, Meet, Continue
    <3> QED BY <1>2, <1>3, <3>1
  <2>5. CASE Put(t) \/ GetSlot(t)
    <3>1. pc[t] \in Writing
      BY <2>5 DEF Put, GetSlot, Continue, Yield, Resume, Writing
    <3>2. want[t][1] \in {"ACTION", "CHECKPOINT"}
      BY <1>2, <3>1 DEF Covering
    <3>3. AfterWrite(t) \in {"track", "reset"}
      BY <3>2 DEF AfterWrite
    <3>4. UNCHANGED <<pendingGap, want>>
          /\ \E to \in {AfterWrite(t), "waitPut"} : pc' = [pc EXCEPT ![t] = to]
      BY <2>5 DEF Put, GetSlot, Enqueue, Continue, Yield, Resume
    <3> QED BY <1>2, <1>3, <3>3, <3>4
  <2>6. CASE BuildCheckpoint(t)
    <3>1. /\ UNCHANGED pendingGap /\ pc' = [pc EXCEPT ![t] = "lock"]
          /\ want' = [want EXCEPT ![t] = <<"CHECKPOINT", <<recordCount + 1, gapCount, prevHash>>>>]
      BY <2>6 DEF BuildCheckpoint, Continue
    <3> QED BY <1>2, <1>3, <3>1
  <2> HIDE DEF Calm
  <2> QED BY <1>5, <2>1, <2>2, <2>3, <2>4, <2>5, <2>6 DEF Step
<1>6. ASSUME Drain \/ ThreadWrite \/ Stop \/ StopWakes
      PROVE  ~pendingGap' /\ \A u \in Tasks : Calm(u)'
  <2>1. UNCHANGED <<pendingGap, want, pc>>
    BY <1>6 DEF Drain, DrainGet, TaskDone, ThreadWrite, Stop, StopWakes
  <2> QED BY <1>2, <2>1
<1> HIDE DEF Calm
<1>7. ~pendingGap' /\ \A u \in Tasks : Calm(u)'
  BY <1>5, <1>6 DEF Next
<1>8. NewFile => Verifies(Whole, FALSE)'
  <2>1. SUFFICES ASSUME NewFile PROVE Verifies(Whole', FALSE)
    OBVIOUS
  <2>2. Whole \in Seq(Frame) /\ Verifies(Whole, FALSE)
    BY <1>2, <2>1, WholeType DEF Flawless
  <2>3. prevHash = LastHash(Whole) /\ sequence = LastSeq(Whole)
    BY <1>2, <2>1 DEF Linked, NeverMet
  <2>4. CASE Whole' = Whole
    BY <2>2, <2>4
  <2>5. ASSUME NEW t \in Tasks, NEW rec \in Record, rec.prev = prevHash, rec.seq = sequence + 1,
               rec.type = want[t][1], Whole' = Append(Whole, rec)
        PROVE  Verifies(Whole', FALSE)
    <3>1. rec.type # "GAP"
      BY <1>2, <2>5 DEF Calm
    <3>2. Continues(Whole, rec)
      BY <2>3, <2>5, <3>1 DEF Continues
    <3> QED BY <2>2, <2>5, <3>2, AppendVerifies
  <2> QED BY <1>1, <2>4, <2>5, WholeEffect
<1> QED BY <1>7, <1>8

-----------------------------------------------------------------------------
(* What stop waits for.                                                    *)

(* The ids in a queue to which one record is added or from which one is    *)
(* taken.                                                                  *)
LEMMA IdsFacts ==
  ASSUME NEW fs, fs \in Seq(Frame), NEW frame \in Frame
  PROVE  /\ Ids(<<>>) = {} /\ Ids(<<frame>>) = {frame.id}
         /\ Ids(Append(fs, frame)) = Ids(fs) \union {frame.id}
         /\ fs # <<>> => Ids(fs) \subseteq {Head(fs).id} \union Ids(Tail(fs))
<1>1. Ids(<<>>) = {}
  BY DEF Ids
<1>2. Ids(<<frame>>) = {frame.id}
  BY DEF Ids
<1>3. Ids(Append(fs, frame)) = Ids(fs) \union {frame.id}
  <2>1. /\ Len(fs) \in Nat /\ Len(Append(fs, frame)) = Len(fs) + 1
        /\ Append(fs, frame)[Len(fs) + 1] = frame
        /\ \A i \in 1 .. Len(fs) : Append(fs, frame)[i] = fs[i]
    BY AppendFrame
  <2> DEFINE gs == Append(fs, frame)
  <2> HIDE DEF gs
  <2>2. ASSUME NEW i \in 1 .. Len(gs) PROVE gs[i].id \in Ids(fs) \union {frame.id}
    <3>1. i \in 1 .. Len(fs) \/ i = Len(fs) + 1
      BY <2>1 DEF gs
    <3> QED BY <2>1, <3>1 DEF gs, Ids
  <2>3. ASSUME NEW i \in 1 .. Len(fs) PROVE fs[i].id \in Ids(gs)
    <3>1. i \in 1 .. Len(gs) /\ gs[i] = fs[i]
      BY <2>1 DEF gs
    <3> QED BY <3>1 DEF Ids
  <2>4. frame.id \in Ids(gs)
    <3>1. Len(fs) + 1 \in 1 .. Len(gs) /\ gs[Len(fs) + 1] = frame
      BY <2>1 DEF gs
    <3> QED BY <3>1 DEF Ids
  <2> QED BY <2>2, <2>3, <2>4 DEF Ids, gs
<1>4. ASSUME fs # <<>>, NEW i \in 1 .. Len(fs)
      PROVE  fs[i].id \in {Head(fs).id} \union Ids(Tail(fs))
  <2>1. /\ Len(fs) \in Nat \ {0} /\ Len(Tail(fs)) = Len(fs) - 1 /\ Head(fs) = fs[1]
        /\ \A j \in 1 .. Len(Tail(fs)) : Tail(fs)[j] = fs[j + 1]
    BY <1>4, HeadTailProperties, LenProperties, EmptySeq
  <2>2. CASE i # 1
    <3>1. i - 1 \in 1 .. Len(Tail(fs)) /\ (i - 1) + 1 = i
      BY <2>1, <2>2
    <3>2. Tail(fs)[i - 1] = fs[i]
      BY <2>1, <3>1
    <3> QED BY <3>1, <3>2 DEF Ids
  <2> QED BY <2>1, <2>2
<1>5. fs # <<>> => Ids(fs) \subseteq {Head(fs).id} \union Ids(Tail(fs))
  BY <1>4 DEF Ids
<1> QED BY <1>1, <1>2, <1>3, <1>5

(* No step loses an accepted record, and stop has waited for the promised. *)
LEMMA FlushedNext ==
  ASSUME TypeOK, Turns, Counting, Flushed, Next
  PROVE  Flushed'
<1> USE DEF queueVars, diskVars, stopVars
<1> DEFINE Kept == accepted \subseteq Ids(file) \union Ids(OneOf(thread)) \union Ids(queue)
           Done == stopper \in {"wake", "stopped"} => promised \subseteq Ids(file)
<1>1. SUFFICES ASSUME met' \intersect {"drop", "torn"} = {}
               PROVE  (Kept /\ Done)'
  BY DEF Flushed, NeverMet
<1>2. met \subseteq met' /\ Kept /\ Done
  BY <1>1, WholeEffect DEF Flushed, NeverMet
<1>3. /\ file \in Seq(Frame) /\ OneOf(thread) \in Seq(Frame) /\ queue \in Seq(Frame)
      /\ thread \in Frame /\ staged \in [Tasks -> Frame]
      /\ Len(queue) \in Nat /\ promised \subseteq accepted
  BY WholeType, LenProperties DEF TypeOK
<1>4. CASE UNCHANGED <<queue, accepted, thread, file, stopper, promised>>
  BY <1>2, <1>4 DEF OneOf
<1>5. ASSUME NEW t \in Tasks, Enqueue(t), UNCHANGED <<diskVars, stopVars>>
      PROVE  (Kept /\ Done)'
  <2>1. Ids(queue') = Ids(queue) \union {staged[t].id} /\ accepted' = accepted \union {staged[t].id}
    BY <1>3, <1>5, IdsFacts DEF Enqueue
  <2>2. UNCHANGED <<thread, file, stopper, promised>>
    BY <1>5
  <2> QED BY <1>2, <2>1, <2>2 DEF OneOf
<1>6. ASSUME NEW t \in Tasks, Call(t) \/ Step(t) \/ Cancel(t)
      PROVE  (Kept /\ Done)'
  <2>1. CASE Enqueue(t)
    BY <1>5, <2>1 DEF Enqueue
  <2>2. CASE ~Enqueue(t)
    <3>1. UNCHANGED <<queueVars, diskVars, stopVars>>
      <4>1. CASE Call(t) \/ Cancel(t)
        BY <4>1 DEF Call, Cancel
      <4>2. CASE EmitPendingGap(t) \/ Unpend(t) \/ Phase1(t) \/ Lock(t) \/ GetLock(t) \/ Build(t)
        BY <4>2 DEF EmitPendingGap, Unpend, Phase1, Lock, GetLock, Build
      <4>3. CASE Put(t) \/ GetSlot(t)
        BY <2>2, <4>3 DEF Put, GetSlot
      <4>4. CASE Track(t) \/ BuildCheckpoint(t) \/ ResetCheckpointCounters(t) \/ Handle(t)
        BY <4>4 DEF Track, BuildCheckpoint, ResetCheckpointCounters, Handle
      <4> QED BY <1>6, <4>1, <4>2, <4>3, <4>4 DEF Step
    <3> QED BY <1>4, <3>1
  <2> QED BY <2>1, <2>2
<1>7. CASE DrainGet
  <2>1. /\ queue # <<>> /\ thread' = Head(queue) /\ queue' = Tail(queue) /\ thread = NoRecord
        /\ UNCHANGED <<file, accepted, stopper, promised>>
    BY <1>7 DEF DrainGet, Counting
  <2>2. Ids(queue) \subseteq {Head(queue).id} \union Ids(Tail(queue)) /\ Head(queue) \in Frame
    BY <1>3, <2>1, IdsFacts, HeadAndTail
  <2>3. Head(queue) # NoRecord
    BY <2>1, HeadTailProperties, RecordFacts DEF TypeOK
  <2>4. Ids(OneOf(thread)') = {Head(queue).id} /\ Ids(OneOf(thread)) = {}
    BY <1>3, <2>1, <2>2, <2>3, IdsFacts DEF OneOf
  <2> QED BY <1>2, <2>1, <2>2, <2>4
<1>8. CASE ThreadWrite
  <2>1. /\ thread # NoRecord /\ thread' = NoRecord /\ file' = Append(file, thread)
        /\ UNCHANGED <<queue, accepted, stopper, promised>>
    BY <1>1, <1>8 DEF ThreadWrite, Meet
  <2>2. Ids(OneOf(thread)) = {thread.id} /\ Ids(file') = Ids(file) \union {thread.id}
    BY <1>3, <2>1, IdsFacts DEF OneOf
  <2> QED BY <1>2, <2>1, <2>2
<1>9. CASE TaskDone
  <2>1. /\ UNCHANGED <<queue, accepted, thread, file, promised>> /\ thread = NoRecord
        /\ drain = "write"
        /\ stopper' = stopper \/ (stopper = "join" /\ unfinished = 1)
    BY <1>9 DEF TaskDone
  <2>2. CASE stopper' = stopper
    BY <1>4, <2>1, <2>2
  <2>3. CASE stopper = "join" /\ unfinished = 1
    <3>1. Len(queue) = 0
      <4>1. unfinished = Len(queue) + (IF drain \in {"write", "dead"} THEN 1 ELSE 0)
        BY <2>3 DEF Counting, UnfinishedCounts
      <4> QED BY <1>3, <2>1, <2>3, <4>1
    <3>2. Ids(OneOf(thread)) = {} /\ Ids(queue) = {}
      BY <1>3, <2>1, <3>1, IdsFacts, EmptySeq DEF OneOf
    <3>3. promised \subseteq Ids(file)
      BY <1>2, <1>3, <3>2
    <3> QED BY <1>2, <2>1, <3>3 DEF OneOf
  <2> QED BY <2>1, <2>2, <2>3
<1>10. CASE Stop
  <2>1. /\ UNCHANGED <<queue, accepted, thread, file>> /\ promised' = accepted
        /\ stopper = "none"
        /\ IF unfinished > 0 THEN stopper' = "join" ELSE stopper' = "stopped"
    BY <1>10 DEF Stop
  <2>2. CASE unfinished > 0
    BY <1>2, <2>1, <2>2 DEF OneOf
  <2>3. CASE ~(unfinished > 0)
    <3>1. unfinished \in Nat /\ unfinished = Len(queue) + (IF drain \in {"write", "dead"} THEN 1 ELSE 0)
      BY <2>1 DEF TypeOK, Counting, UnfinishedCounts
    <3>2. Len(queue) = 0 /\ drain # "write"
      BY <1>3, <2>3, <3>1
    <3>3. thread = NoRecord
      BY <3>2 DEF Counting
    <3>4. Ids(OneOf(thread)) = {} /\ Ids(queue) = {}
      BY <1>3, <3>2, <3>3, IdsFacts, EmptySeq DEF OneOf
    <3> QED BY <1>2, <2>1, <3>4 DEF OneOf
  <2> QED BY <2>2, <2>3
<1>11. CASE StopWakes
  <2>1. UNCHANGED <<queue, accepted, thread, file, promised>> /\ stopper = "wake"
    BY <1>11 DEF StopWakes
  <2> QED BY <1>2, <2>1 DEF OneOf
<1> HIDE DEF Kept, Done
<1> QED BY <1>6, <1>7, <1>8, <1>9, <1>10, <1>11 DEF Next, Drain

-----------------------------------------------------------------------------
(* The Merkle roots.                                                       *)

(* No step lets a tracked record escape the checkpoints. *)
LEMMA CoveringNext ==
  ASSUME TypeOK, Turns, Counting, Covering, Next
  PROVE  Covering'
<1> USE DEF loopVars, callVars, leafVars
<1> DEFINE Under(t) ==
      /\ ~trackedLate /\ want[t][1] = "CHECKPOINT" /\ pc[t] \in Writing \union {"reset"} =>
           recordHashes \subseteq leaves[t]
      /\ pc[t] = "reset" => want[t][1] = "CHECKPOINT" /\ leaves[t] \subseteq covered
      /\ pc[t] \in Writing => want[t][1] \in {"GAP", "ACTION", "CHECKPOINT"}
<1>0. /\ want \in [Tasks -> RecordType \X Body] /\ pc \in [Tasks -> Label]
      /\ leaves \in [Tasks -> SUBSET Nat]
  BY DEF TypeOK
<1>1. MerkleCoverage /\ \A t \in Tasks : Under(t)
  BY DEF Covering
(* A task that goes on with what it wants. *)
<1>2. ASSUME NEW t \in Tasks, UNCHANGED <<leafVars, trackedLate, want, leaves>>,
             NEW to, pc' = [pc EXCEPT ![t] = to],
             \/ to \notin Writing \union {"reset"}
             \/ to \in Writing /\ pc[t] \in Writing
      PROVE  MerkleCoverage' /\ \A u \in Tasks : Under(u)'
  <2>1. MerkleCoverage'
    BY <1>1, <1>2 DEF MerkleCoverage
  <2>2. "reset" \notin Writing
    BY DEF Writing
  <2> HIDE DEF Under
  <2>3. ASSUME NEW u \in Tasks PROVE Under(u)'
    <3>1. CASE u # t
      <4>1. Under(u) /\ pc'[u] = pc[u] /\ UNCHANGED <<leafVars, trackedLate, want, leaves>>
        BY <1>0, <1>1, <1>2, <3>1
      <4> QED BY <4>1 DEF Under
    <3>2. CASE u = t
      <4>1. Under(u) /\ pc'[u] = to /\ UNCHANGED <<leafVars, trackedLate, want, leaves>>
        BY <1>0, <1>1, <1>2, <3>2
      <4> QED BY <4>1, <1>2, <2>2, <3>2 DEF Under
    <3> QED BY <3>1, <3>2
  <2> QED BY <2>1, <2>3
(* A task that makes up its mind. *)
<1>3. ASSUME NEW t \in Tasks, UNCHANGED <<leafVars, trackedLate>>,
             NEW to, pc' = [pc EXCEPT ![t] = to], to \in {"lock", "raise"},
             NEW w, want' = [want EXCEPT ![t] = w], w[1] \in {"GAP", "ACTION", "CHECKPOINT"},
             \/ leaves' = leaves /\ w[1] # "CHECKPOINT"
             \/ leaves' = [leaves EXCEPT ![t] = recordHashes]
      PROVE  MerkleCoverage' /\ \A u \in Tasks : Under(u)'
  <2>1. MerkleCoverage'
    BY <1>1, <1>3 DEF MerkleCoverage
  <2>2. ASSUME NEW u \in Tasks PROVE Under(u)'
    <3>1. CASE u # t
      <4>1. Under(u) /\ pc'[u] = pc[u] /\ want'[u] = want[u] /\ leaves'[u] = leaves[u]
        BY <1>0, <1>1, <1>3, <3>1
      <4> QED BY <1>3, <4>1
    <3>2. CASE u = t
      <4>1. pc'[u] \in {"lock", "raise"} /\ want'[u] = w
            /\ (w[1] # "CHECKPOINT" \/ leaves'[u] = recordHashes)
        BY <1>0, <1>3, <3>2
      <4> QED BY <1>3, <4>1
    <3> QED BY <3>1, <3>2
  <2> QED BY <2>1, <2>2
<1>4. ASSUME NEW t \in Tasks,
             \/ Call(t) \/ Unpend(t) \/ Lock(t) \/ GetLock(t) \/ Build(t) \/ Handle(t) \/ Cancel(t)
      PROVE  MerkleCoverage' /\ \A u \in Tasks : Under(u)'
  <2>1. UNCHANGED <<leafVars, trackedLate, want, leaves>>
    BY <1>4 DEF Call, Unpend, Lock, GetLock, Build, Handle, Cancel
  <2>2. \E to : /\ pc' = [pc EXCEPT ![t] = to]
                /\ \/ to \in {"gap", "phase1", "raise", "idle"}
                   \/ to \in Writing /\ pc[t] \in Writing
    <3>1. CASE Call(t) \/ Unpend(t) \/ Handle(t) \/ Cancel(t)
      BY <3>1 DEF Call, Unpend, Handle, Cancel, Continue, Yield, Resume
    <3>2. CASE Lock(t) \/ GetLock(t)
      BY <3>2 DEF Lock, GetLock, Continue, Yield, Resume, Writing
    <3>3. CASE Build(t)
      BY <3>3 DEF Build, Continue, Raised, Writing
    <3> QED BY <1>4, <3>1, <3>2, <3>3
  <2>3. \A to \in {"gap", "phase1", "raise", "idle"} : to \notin Writing \union {"reset"}
    BY DEF Writing
  <2> HIDE DEF Under
  <2> QED BY <1>2, <2>1, <2>2, <2>3
<1>5. ASSUME NEW t \in Tasks, EmitPendingGap(t) \/ Phase1(t) \/ BuildCheckpoint(t)
      PROVE  MerkleCoverage' /\ \A u \in Tasks : Under(u)'
  <2>1. UNCHANGED <<leafVars, trackedLate>>
    BY <1>5 DEF EmitPendingGap, Phase1, BuildCheckpoint
  <2>2. \E to \in {"lock", "raise"} : pc' = [pc EXCEPT ![t] = to]
    BY <1>5 DEF EmitPendingGap, Phase1, BuildCheckpoint, Continue
  <2>3. \E w : /\ want' = [want EXCEPT ![t] = w] /\ w[1] \in {"GAP", "ACTION", "CHECKPOINT"}
               /\ \/ leaves' = leaves /\ w[1] # "CHECKPOINT"
                  \/ leaves' = [leaves EXCEPT ![t] = recordHashes]
    <3>1. CASE EmitPendingGap(t)
      <4> DEFINE w == <<"GAP", GapBody(gapFirst, IF gapFirst > sequence THEN gapFirst ELSE sequence)>>
      <4>1. want' = [want EXCEPT ![t] = w] /\ leaves' = leaves
        BY <3>1 DEF EmitPendingGap
      <4>2. w[1] = "GAP"
        OBVIOUS
      <4> HIDE DEF w
      <4> QED BY <4>1, <4>2
    <3>2. CASE Phase1(t)
      <4> DEFINE w == <<"ACTION", NoBody>>
      <4>1. want' = [want EXCEPT ![t] = w] /\ leaves' = leaves /\ w[1] = "ACTION"
        BY <3>2 DEF Phase1
      <4> HIDE DEF w
      <4> QED BY <4>1
    <3>3. CASE BuildCheckpoint(t)
      <4> DEFINE w == <<"CHECKPOINT", <<recordCount + 1, gapCount, prevHash>>>>
      <4>1. want' = [want EXCEPT ![t] = w] /\ leaves' = [leaves EXCEPT ![t] = recordHashes]
        BY <3>3 DEF BuildCheckpoint
      <4>2. w[1] = "CHECKPOINT"
        OBVIOUS
      <4> HIDE DEF w
      <4> QED BY <4>1, <4>2
    <3> QED BY <1>5, <3>1, <3>2, <3>3
  <2> HIDE DEF Under
  <2> QED BY <1>3, <2>1, <2>2, <2>3
<1>6. ASSUME NEW t \in Tasks, Put(t) \/ GetSlot(t)
      PROVE  MerkleCoverage' /\ \A u \in Tasks : Under(u)'
  <2>1. pc[t] \in Writing
    BY <1>6 DEF Put, GetSlot, Continue, Yield, Resume, Writing
  <2>2. CASE Enqueue(t) /\ pc' = [pc EXCEPT ![t] = AfterWrite(t)]
    <3>1. UNCHANGED <<want, leaves, sinceCheckpoint, recordHashes, tracked, trackedLate>>
          /\ covered' = IF want[t][1] = "CHECKPOINT" THEN covered \union leaves[t] ELSE covered
      BY <2>2 DEF Enqueue
    <3>2. MerkleCoverage'
      BY <1>1, <3>1 DEF MerkleCoverage
    <3>3. /\ AfterWrite(t) \notin Writing
          /\ AfterWrite(t) = "reset" <=> want[t][1] = "CHECKPOINT"
      <4>1. want[t][1] \in {"GAP", "ACTION", "CHECKPOINT"}
        BY <1>1, <2>1
      <4> QED BY <4>1 DEF AfterWrite, Writing
    <3>4. ASSUME NEW u \in Tasks PROVE Under(u)'
      <4>1. CASE u # t
        <5>1. Under(u) /\ pc'[u] = pc[u] /\ covered \subseteq covered'
          BY <1>0, <1>1, <2>2, <3>1, <4>1
        <5> QED BY <3>1, <5>1
      <4>2. CASE u = t
        <5>1. pc'[t] = AfterWrite(t) /\ Under(t)
          BY <1>0, <1>1, <2>2
        <5> QED BY <2>1, <3>1, <3>3, <4>2, <5>1
      <4> QED BY <4>1, <4>2
    <3> QED BY <3>2, <3>4
  <2>3. CASE UNCHANGED <<leafVars, trackedLate, want, leaves>> /\ pc' = [pc EXCEPT ![t] = "waitPut"]
    <3>1. "waitPut" \in Writing
      BY DEF Writing
    <3> HIDE DEF Under
    <3> QED BY <1>2, <2>1, <2>3, <3>1
  <2>4. \/ Enqueue(t) /\ pc' = [pc EXCEPT ![t] = AfterWrite(t)]
        \/ UNCHANGED <<leafVars, trackedLate, want, leaves>> /\ pc' = [pc EXCEPT ![t] = "waitPut"]
    BY <1>6 DEF Put, GetSlot, Continue, Yield, Resume
  <2> QED BY <2>2, <2>3, <2>4
<1>7. ASSUME NEW t \in Tasks, Track(t)
      PROVE  MerkleCoverage' /\ \A u \in Tasks : Under(u)'
  <2>1. /\ recordHashes' = recordHashes \union {prevHash} /\ tracked' = tracked \union {prevHash}
        /\ UNCHANGED <<want, leaves, covered>>
        /\ trackedLate' = (trackedLate \/ \E u \in Tasks \ {t} : Checkpointing(u))
        /\ pc' = [pc EXCEPT ![t] = "checkpoint"] \/ pc' = [pc EXCEPT ![t] = "idle"]
    BY <1>7 DEF Track, Continue, Yield
  <2>2. MerkleCoverage'
    BY <1>1, <2>1 DEF MerkleCoverage
  <2>3. /\ "checkpoint" \notin Writing \union {"reset"} /\ "idle" \notin Writing \union {"reset"}
    BY DEF Writing
  <2>4. ASSUME NEW u \in Tasks PROVE Under(u)'
    <3>1. CASE u # t
      <4>1. Under(u) /\ pc'[u] = pc[u]
        BY <1>0, <1>1, <2>1, <3>1
      <4>2. want[u][1] = "CHECKPOINT" /\ pc[u] # "idle" => trackedLate'
        BY <2>1, <3>1 DEF Checkpointing
      <4> QED BY <2>1, <2>3, <4>1, <4>2
    <3>2. CASE u = t
      <4>1. pc'[u] \in {"checkpoint", "idle"}
        BY <1>0, <2>1, <3>2
      <4> QED BY <2>3, <4>1
    <3> QED BY <3>1, <3>2
  <2> QED BY <2>2, <2>4
<1>8. ASSUME NEW t \in Tasks, ResetCheckpointCounters(t)
      PROVE  MerkleCoverage' /\ \A u \in Tasks : Under(u)'
  <2>1. /\ pc[t] = "reset" /\ pc' = [pc EXCEPT ![t] = "idle"] /\ recordHashes' = {}
        /\ leaves' = [leaves EXCEPT ![t] = {}] /\ UNCHANGED <<want, tracked, covered, trackedLate>>
    BY <1>8 DEF ResetCheckpointCounters, Yield
  <2>2. MerkleCoverage'
    <3>1. leaves[t] \subseteq covered /\ (~trackedLate => recordHashes \subseteq leaves[t])
      BY <1>1, <2>1
    <3> QED BY <1>1, <2>1, <3>1 DEF MerkleCoverage
  <2>3. "idle" \notin Writing \union {"reset"}
    BY DEF Writing
  <2>4. ASSUME NEW u \in Tasks PROVE Under(u)'
    <3>1. CASE u # t
      <4>1. Under(u) /\ pc'[u] = pc[u] /\ leaves'[u] = leaves[u]
        BY <1>0, <1>1, <2>1, <3>1
      <4> QED BY <2>1, <4>1
    <3>2. CASE u = t
      <4>1. pc'[u] = "idle"
        BY <1>0, <2>1, <3>2
      <4> QED BY <2>3, <4>1
    <3> QED BY <3>1, <3>2
  <2> QED BY <2>2, <2>4
<1>9. ASSUME Drain \/ ThreadWrite \/ Stop \/ StopWakes
      PROVE  MerkleCoverage' /\ \A u \in Tasks : Under(u)'
  <2>1. UNCHANGED <<leafVars, trackedLate, want, leaves, pc>>
    BY <1>9 DEF Drain, DrainGet, TaskDone, ThreadWrite, Stop, StopWakes
  <2> QED BY <1>1, <2>1 DEF MerkleCoverage
<1>10. MerkleCoverage' /\ \A u \in Tasks : Under(u)'
  <2> HIDE DEF Under
  <2>1. ASSUME NEW t \in Tasks, Call(t) \/ Step(t) \/ Cancel(t)
        PROVE  MerkleCoverage' /\ \A u \in Tasks : Under(u)'
    BY <2>1, <1>4, <1>5, <1>6, <1>7, <1>8 DEF Step
  <2> QED BY <2>1, <1>9 DEF Next
<1> QED BY <1>10 DEF Covering

-----------------------------------------------------------------------------
(* The theorems.                                                           *)

(* It holds when start has queued the BOOT record. *)
LEMMA InvInit ==
  ASSUME Init
  PROVE  IInv
<1> DEFINE boot == [id |-> Len(Existing) + 1, type |-> "BOOT", seq |-> 1, prev |-> ZeroHash,
                    ts |-> 0, body |-> NoBody]
<1>0. /\ Nobody \notin Tasks /\ MaxQueue \in Nat \ {0} /\ MaxCalls \in Nat
      /\ Existing \in Seq(Record) /\ NoRecord \in Frame /\ NoBody \in Body
      /\ Len(Existing) \in Nat
  BY AsyncAssumption, RecordFacts, LenProperties
<1>1. boot.id = Len(Existing) + 1 /\ boot.seq = 1 /\ boot.prev = ZeroHash /\ boot.type = "BOOT"
  OBVIOUS
<1>2. boot \in Record
  BY <1>0 DEF Record, RecordType, ZeroHash
<1>3. Existing \in Seq(Frame)
  <2>1. Existing \in [1 .. Len(Existing) -> Record]
    BY <1>0
  <2>2. Existing \in [1 .. Len(Existing) -> Frame]
    BY <2>1, RecordFacts
  <2> QED BY <1>0, <2>2, IsASeq
<1>4. /\ current = Nobody /\ pc = [t \in Tasks |-> "idle"]
      /\ want = [t \in Tasks |-> <<"ACTION", NoBody>>]
      /\ staged = [t \in Tasks |-> NoRecord] /\ leaves = [t \in Tasks |-> {}]
      /\ sequence = 1 /\ prevHash = boot.id /\ recordCount = 1 /\ gapCount = 0
      /\ lockHolder = Nobody /\ lockQueue = <<>>
      /\ queue = <<boot>> /\ unfinished = 1
      /\ running = TRUE /\ stopper = "none" /\ promised = {}
      /\ drain = "get" /\ thread = NoRecord /\ file = Existing
      /\ pendingGap = FALSE /\ gapFirst = 0
      /\ sinceCheckpoint = 1 /\ recordHashes = {boot.id}
      /\ tracked = {boot.id} /\ covered = {}
      /\ nextId = boot.id + 1 /\ calls = 0 /\ accepted = {boot.id}
      /\ met = {} /\ trackedLate = FALSE
  BY DEF Init
<1> HIDE DEF boot
<1>5. /\ <<boot>> \in Seq(Record) /\ Len(<<boot>>) = 1 /\ <<boot>> \in Seq(Frame)
      /\ boot \in Frame
  BY <1>2, RecordFacts
<1>6. boot.id \in Nat /\ boot.id > 0 /\ boot.id + 1 \in Nat
  BY <1>0, <1>1
<1>7. TypeOK
  <2>1. /\ want \in [Tasks -> RecordType \X Body]
    <3>1. <<"ACTION", NoBody>> \in RecordType \X Body
      BY <1>0 DEF RecordType
    <3> QED BY <1>4, <3>1
  <2>2. /\ current \in Tasks \union {Nobody} /\ pc \in [Tasks -> Label]
        /\ staged \in [Tasks -> Frame] /\ leaves \in [Tasks -> SUBSET Nat]
        /\ lockHolder \in Tasks \union {Nobody} /\ lockQueue \in Seq(Tasks)
    BY <1>0, <1>4, EmptySeq DEF Label
  <2>3. /\ sequence \in Nat /\ prevHash \in Nat /\ recordCount \in Nat /\ gapCount \in Nat
        /\ unfinished \in Nat /\ gapFirst \in Nat /\ sinceCheckpoint \in Nat
        /\ recordHashes \subseteq Nat /\ nextId \in Nat /\ calls \in 0 .. MaxCalls
        /\ accepted \subseteq Nat /\ promised \subseteq accepted
        /\ tracked \subseteq Nat /\ covered \subseteq Nat
    BY <1>0, <1>4, <1>6
  <2>4. /\ queue \in Seq(Record) /\ Len(queue) <= MaxQueue
        /\ file \in Seq(Frame) /\ thread \in Frame
    BY <1>0, <1>3, <1>4, <1>5
  <2> QED BY <1>4, <2>1, <2>2, <2>3, <2>4 DEF TypeOK
<1>8. Turns
  BY <1>0, <1>4 DEF Turns, Waiting, Hands
<1>9. Counting
  BY <1>4, <1>5, <1>6 DEF Counting, UnfinishedCounts
<1>10. ASSUME NewFile PROVE Whole = Append(<<>>, boot)
  <2>1. Holding = {}
    BY <1>4 DEF Holding
  <2>2. Whole = (<<>> \o <<>>) \o <<boot>>
    BY <1>4, <1>10, <2>1 DEF Whole, Pipe, OneOf, NewFile
  <2>3. <<>> \in Seq(Frame)
    BY EmptySeq
  <2>4. <<>> \o <<>> = <<>> /\ <<>> \o <<boot>> = Append(<<>>, boot)
    BY <1>5, <2>3, AppendOne
  <2> QED BY <2>2, <2>4
<1>11. ASSUME NewFile
       PROVE  /\ Verifies(Whole, FALSE) /\ prevHash = LastHash(Whole) /\ sequence = LastSeq(Whole)
  <2>1. <<>> \in Seq(Frame)
    BY EmptySeq
  <2>2. Continues(<<>>, boot)
    BY <1>1, EmptyFile DEF Continues, boot
  <2>3. Verifies(Append(<<>>, boot), FALSE)
    BY <1>2, <2>1, <2>2, EmptyFile, AppendVerifies
  <2>4. LastHash(Append(<<>>, boot)) = boot.id /\ LastSeq(Append(<<>>, boot)) = boot.seq
    BY <1>5, <2>1, AppendFrame
  <2> QED BY <1>1, <1>4, <1>10, <1>11, <2>3, <2>4
<1>12. Linked
  BY <1>11 DEF Linked, Verifies, HashLinkedFrames
<1>13. Flawless
  BY <1>4, <1>11 DEF Flawless
<1>14. Flushed
  <2>1. Ids(queue) = {boot.id}
    BY <1>4, <1>5, EmptySeq, IdsFacts
  <2> QED BY <1>4, <2>1 DEF Flushed
<1>15. Covering
  BY <1>4 DEF Covering, MerkleCoverage, Writing
<1> QED BY <1>7, <1>8, <1>9, <1>12, <1>13, <1>14, <1>15 DEF IInv

(* Every step keeps it. *)
LEMMA InvNext ==
  ASSUME IInv, [Next]_vars
  PROVE  IInv'
<1>1. CASE Next
  <2>1. TypeOK' /\ Turns' /\ Counting'
    BY <1>1, TypeNext, TurnsNext, CountingNext DEF IInv
  <2>2. Linked' /\ Flawless'
    BY <1>1, LinkedNext, FlawlessNext DEF IInv
  <2>3. Flushed' /\ Covering'
    BY <1>1, FlushedNext, CoveringNext DEF IInv
  <2> QED BY <2>1, <2>2, <2>3 DEF IInv
<1>2. CASE UNCHANGED vars
  <2> USE <1>2 DEF vars, loopVars, callVars, chainVars, lockVars, queueVars, diskVars, stopVars,
               gapVars, leafVars
  <2>1. TypeOK'
    BY DEF IInv, TypeOK
  <2>2. Turns' /\ Counting'
    BY DEF IInv, Turns, Counting, UnfinishedCounts
  <2>3. Whole' = Whole
    BY DEF Whole, Pipe, Holding, OneOf
  <2>4. Linked' /\ Flawless'
    BY <2>3 DEF IInv, Linked, Flawless, NeverMet
  <2>5. Flushed' /\ Covering'
    BY DEF IInv, Flushed, Covering, MerkleCoverage, NeverMet, OneOf
  <2> QED BY <2>1, <2>2, <2>4, <2>5 DEF IInv
<1> QED BY <1>1, <1>2

(* The invariant holds in every state the recorder reaches. *)
LEMMA InvAlways == Spec => []IInv
<1>1. Init => IInv
  BY InvInit
<1>2. IInv /\ [Next]_vars => IInv'
  BY InvNext
<1> QED BY <1>1, <1>2, PTL DEF Spec

(* The file is where the chain begins. *)
LEMMA FileBeginsChain ==
  ASSUME TypeOK, Turns
  PROVE  \E n \in 0 .. Len(Whole) : file = SubSeq(Whole, 1, n)
<1> DEFINE rest == OneOf(thread) \o queue
           tail == IF Holding = {} THEN rest ELSE Append(rest, staged[lockHolder])
<1>1. /\ file \in Seq(Frame) /\ OneOf(thread) \in Seq(Frame) /\ queue \in Seq(Frame)
      /\ rest \in Seq(Frame) /\ Pipe = file \o rest
  BY WholeType, ConcatProperties, ConcatAssociative DEF Pipe
<1>2. ASSUME Holding # {} PROVE staged[lockHolder] \in Frame
  <2>1. PICK t \in Tasks : staged[t] # NoRecord
    BY <1>2 DEF Holding
  <2> QED BY <2>1 DEF Turns, TypeOK
<1>3. tail \in Seq(Frame) /\ Whole = file \o tail
  <2>1. CASE Holding = {}
    BY <1>1, <2>1 DEF Whole
  <2>2. CASE Holding # {}
    <3> HIDE DEF rest
    <3> QED BY <1>1, <1>2, <2>2, AppendProperties, ConcatAppend DEF Whole
  <2> QED BY <2>1, <2>2
<1> HIDE DEF tail
<1>4. /\ Len(file) \in Nat /\ Len(tail) \in Nat /\ Len(Whole) = Len(file) + Len(tail)
      /\ Whole \in Seq(Frame) /\ \A i \in 1 .. Len(file) : Whole[i] = file[i]
  BY <1>1, <1>3, ConcatProperties, LenProperties
<1>5. Len(file) \in 0 .. Len(Whole)
  BY <1>4
<1>6. /\ SubSeq(Whole, 1, Len(file)) \in Seq(Frame)
      /\ Len(SubSeq(Whole, 1, Len(file))) = Len(file)
      /\ \A i \in 1 .. Len(file) : SubSeq(Whole, 1, Len(file))[i] = Whole[i]
  BY <1>4, <1>5, FirstFrames
<1>7. file = SubSeq(Whole, 1, Len(file))
  BY <1>1, <1>4, <1>6, SeqEqual
<1> QED BY <1>5, <1>7

(* Staged and Whole name one chain, and one task holds its last record. *)
LEMMA StagedIsWhole ==
  ASSUME TypeOK, Turns
  PROVE  Staged = Whole /\ Cardinality(Holding) <= 1
<1>1. CASE Holding = {}
  <2>1. Staged = Pipe \o <<>>
    <3>1. Staged = file \o OneOf(thread) \o queue \o <<>>
      BY <1>1 DEF Staged
    <3> QED BY <3>1 DEF Pipe
  <2>2. Pipe \o <<>> = Pipe
    BY WholeType, ConcatEmptySeq
  <2> QED BY <1>1, <2>1, <2>2, FS_EmptySet DEF Whole
<1>2. CASE Holding # {}
  <2>1. PICK t \in Tasks : staged[t] # NoRecord
    BY <1>2 DEF Holding
  <2>2. Holding = {t} /\ lockHolder = t
    BY <2>1, OneHand DEF Turns
  <2>3. Staged = Pipe \o <<staged[t]>>
    <3>1. (CHOOSE u \in Holding : TRUE) = t
      BY <2>2
    <3> QED BY <1>2, <3>1 DEF Staged, Pipe
  <2>4. staged[t] \in Frame
    BY DEF TypeOK
  <2>5. Pipe \o <<staged[t]>> = Append(Pipe, staged[t])
    BY <2>4, WholeType, AppendOne
  <2>6. Cardinality(Holding) = 1
    BY <2>2, FS_Singleton
  <2> QED BY <1>2, <2>2, <2>3, <2>5, <2>6 DEF Whole
<1> QED BY <1>1, <1>2

(* From the task that holds the lock over the queue and the thread to the  *)
(* file the records are one chain in the order of their numbers, what is   *)
(* in the file passes verify_chain until something fails, and join counts  *)
(* what it waits for, for any tasks, queue size and faults.                *)
THEOREM PipelineKeepsOneChain == Spec => []PipelineInv
<1>1. IInv => PipelineInv
  <2> SUFFICES ASSUME IInv PROVE PipelineInv
    OBVIOUS
  <2>1. TypeOK /\ Turns /\ UnfinishedCounts
    BY DEF IInv, Counting
  <2>2. StagedChainLinked
    BY <2>1, StagedIsWhole DEF IInv, Linked, StagedChainLinked
  <2>3. FileVerifies
    <3>1. SUFFICES ASSUME NewFile, met = {} PROVE Verifies(file, FALSE)
      BY DEF FileVerifies
    <3>2. Verifies(Whole, FALSE) /\ Whole \in Seq(Frame)
      BY <2>1, <3>1, WholeType DEF IInv, Flawless
    <3> QED BY <2>1, <3>2, FileBeginsChain, PrefixVerifies
  <2> QED BY <2>1, <2>2, <2>3 DEF PipelineInv
<1> QED BY <1>1, InvAlways, PTL

(* When stop has returned, every record write_record had returned before   *)
(* it was called is in the file, unless the disk failed.                   *)
THEOREM StopFlushesAll == Spec => []StopFlushes
<1>1. IInv => StopFlushes
  BY DEF IInv, Flushed, StopFlushes, Ids
<1> QED BY <1>1, InvAlways, PTL

(* No tracked record escapes the Merkle roots of the checkpoints, while no *)
(* task tracks a record beside the checkpoint of another.                  *)
THEOREM RootsCoverRecords == Spec => []MerkleCoverage
<1>1. IInv => MerkleCoverage
  BY DEF IInv, Covering
<1> QED BY <1>1, InvAlways, PTL
===============================================================================
