---------------------------- MODULE AsyncRecorder ----------------------------
(***************************************************************************)
(* AsyncAHPRecorder (ahp/async_recorder.py) on AsyncChainWriter            *)
(* (ahp/core/async_chain.py): tasks of one event loop stage records in a   *)
(* bounded queue, a drain task hands them one by one to a thread that      *)
(* appends them to the file, and stop waits for the queue.                 *)
(*                                                                         *)
(* The loop runs one task at a time until it awaits something that is not  *)
(* ready: current names that task.  Awaits that find the lock free or room *)
(* in the queue do not yield.                                              *)
(***************************************************************************)
EXTENDS ChainFile

CONSTANTS Tasks,               \* tasks that call safe_record
          Nobody,              \* the loop is between two steps
          MaxQueue,            \* max_queue
          CheckpointInterval,  \* records between checkpoints
          Existing,            \* the chain file to append to, as it was before
          Faults,              \* what can go wrong, see FaultKinds
          CanStop,             \* stop may be called
          MaxFaultKinds,       \* bound: kinds of fault in one behaviour
          MaxCalls             \* bound: calls of safe_record

(* Filtering or evidence storage raises, canonical_bytes raises, the write *)
(* to disk raises with no byte or part of the frame written, a waiting     *)
(* call is cancelled.                                                      *)
FaultKinds == {"phase1", "serialize", "drop", "torn", "cancel"}

ASSUME AsyncAssumption ==
  /\ Nobody \notin Tasks
  /\ MaxQueue \in Nat \ {0} /\ CheckpointInterval \in Nat \ {0}
  /\ Existing \in Seq(Record)
  /\ Faults \subseteq FaultKinds
  /\ CanStop \in BOOLEAN
  /\ MaxFaultKinds \in Nat /\ MaxCalls \in Nat

VARIABLES
  current,         \* the task the loop is running, or Nobody
  pc,              \* where each task is
  want,            \* type and body of the record a task is about to write
  staged,          \* the record a task has built and not yet queued
  leaves,          \* records the Merkle root of a task's checkpoint covers
  sequence, prevHash, recordCount, gapCount,  \* of AsyncChainWriter
  lockHolder,      \* holder of _write_lock, or Nobody
  lockQueue,       \* tasks waiting for it
  queue,           \* _queue
  unfinished,      \* its count of records put and not task_done
  running,         \* _running
  drain,           \* the drain task: "get", "write", "done", "dead"
  thread,          \* the record a worker thread is appending, or NoRecord
  stopper,         \* stop: "none", "join", "wake", "stopped"
  file,            \* frames of the chain file
  pendingGap, gapFirst, sinceCheckpoint, recordHashes,  \* of RecorderBase
  nextId,          \* next fresh record_id
  calls,           \* calls so far
  accepted,        \* history: records write_record has returned
  promised,        \* history: those it returned before stop was called
  tracked, covered,\* history: records tracked, and under some Merkle root
  met,             \* history: the Faults that have happened
  trackedLate      \* history: a record was tracked beside a checkpoint

loopVars  == <<current, pc>>
callVars  == <<want, staged, leaves>>
chainVars == <<sequence, prevHash, recordCount, gapCount, nextId>>
lockVars  == <<lockHolder, lockQueue>>
queueVars == <<queue, unfinished, accepted>>
diskVars  == <<drain, thread, file>>
stopVars  == <<running, stopper, promised>>
gapVars   == <<pendingGap, gapFirst>>
leafVars  == <<sinceCheckpoint, recordHashes, tracked, covered>>
vars == <<loopVars, callVars, chainVars, lockVars, queueVars, diskVars, stopVars, gapVars,
          leafVars, calls, met, trackedLate>>

NoRecord == Torn

Label == {"idle", "gap", "phase1", "lock", "waitLock", "build", "put", "waitPut",
          "unpend", "track", "checkpoint", "reset", "raise"}

TypeOK ==
  /\ current \in Tasks \union {Nobody}
  /\ pc \in [Tasks -> Label]
  /\ want \in [Tasks -> RecordType \X Body]
  /\ staged \in [Tasks -> Frame]
  /\ leaves \in [Tasks -> SUBSET Nat]
  /\ sequence \in Nat /\ prevHash \in Nat /\ recordCount \in Nat /\ gapCount \in Nat
  /\ lockHolder \in Tasks \union {Nobody}
  /\ lockQueue \in Seq(Tasks)
  /\ queue \in Seq(Record) /\ Len(queue) <= MaxQueue
  /\ unfinished \in Nat
  /\ running \in BOOLEAN
  /\ drain \in {"get", "write", "done", "dead"}
  /\ thread \in Frame
  /\ stopper \in {"none", "join", "wake", "stopped"}
  /\ file \in Seq(Frame)
  /\ pendingGap \in BOOLEAN /\ gapFirst \in Nat
  /\ sinceCheckpoint \in Nat /\ recordHashes \subseteq Nat
  /\ nextId \in Nat /\ calls \in 0 .. MaxCalls
  /\ accepted \subseteq Nat /\ promised \subseteq accepted
  /\ tracked \subseteq Nat /\ covered \subseteq Nat
  /\ met \subseteq Faults /\ trackedLate \in BOOLEAN

(* start has run: its BOOT record is in the queue.  The constructor begins *)
(* at number 0 and the zero hash whatever the file holds.                  *)
Init ==
  LET boot == [id |-> Len(Existing) + 1, type |-> "BOOT", seq |-> 1, prev |-> ZeroHash,
               ts |-> 0, body |-> NoBody]
  IN  /\ current = Nobody
      /\ pc = [t \in Tasks |-> "idle"]
      /\ want = [t \in Tasks |-> <<"ACTION", NoBody>>]
      /\ staged = [t \in Tasks |-> NoRecord]
      /\ leaves = [t \in Tasks |-> {}]
      /\ sequence = 1 /\ prevHash = boot.id /\ recordCount = 1 /\ gapCount = 0
      /\ lockHolder = Nobody /\ lockQueue = <<>>
      /\ queue = <<boot>> /\ unfinished = 1
      /\ running = TRUE /\ stopper = "none" /\ promised = {}
      /\ drain = "get" /\ thread = NoRecord /\ file = Existing
      /\ pendingGap = FALSE /\ gapFirst = 0
      /\ sinceCheckpoint = 1 /\ recordHashes = {boot.id}
      /\ tracked = {boot.id} /\ covered = {}
      /\ nextId = boot.id + 1 /\ calls = 0 /\ accepted = {boot.id}
      /\ met = {} /\ trackedLate = FALSE

-----------------------------------------------------------------------------
Meet(kind) ==
  /\ kind \in Faults
  /\ met' = met \union {kind}
  /\ Cardinality(met') <= MaxFaultKinds

(* The running task goes on, yields, or takes the loop over again.         *)
Continue(t, from, to) ==
  /\ current = t /\ pc[t] = from
  /\ pc' = [pc EXCEPT ![t] = to]
  /\ current' = current

Yield(t, from, to) ==
  /\ current = t /\ pc[t] = from
  /\ pc' = [pc EXCEPT ![t] = to]
  /\ current' = Nobody

Resume(t, from, to) ==
  /\ current = Nobody /\ pc[t] = from
  /\ pc' = [pc EXCEPT ![t] = to]
  /\ current' = t

(* safe_record enters record_action, which first looks for a pending gap.  *)
Call(t) ==
  /\ calls < MaxCalls
  /\ calls' = calls + 1
  /\ Resume(t, "idle", IF pendingGap THEN "gap" ELSE "phase1")
  /\ UNCHANGED <<callVars, chainVars, lockVars, queueVars, diskVars, stopVars, gapVars,
                 leafVars, met, trackedLate>>

(* _emit_pending_gap: from the number noted at the failure to the last one *)
(* handed out, at least to itself.                                         *)
EmitPendingGap(t) ==
  /\ Continue(t, "gap", "lock")
  /\ want' = [want EXCEPT ![t] =
       <<"GAP", GapBody(gapFirst, IF gapFirst > sequence THEN gapFirst ELSE sequence)>>]
  /\ UNCHANGED <<staged, leaves, chainVars, lockVars, queueVars, diskVars, stopVars, gapVars,
                 leafVars, calls, met, trackedLate>>

Unpend(t) ==
  /\ Continue(t, "unpend", "phase1")
  /\ pendingGap' = FALSE /\ gapFirst' = 0
  /\ UNCHANGED <<callVars, chainVars, lockVars, queueVars, diskVars, stopVars, leafVars,
                 calls, met, trackedLate>>

(* Filtering and evidence storage, which may raise, then the ActionPayload. *)
Phase1(t) ==
  /\ \/ Continue(t, "phase1", "lock") /\ UNCHANGED met
     \/ Continue(t, "phase1", "raise") /\ Meet("phase1")
  /\ want' = [want EXCEPT ![t] = <<"ACTION", NoBody>>]
  /\ UNCHANGED <<staged, leaves, chainVars, lockVars, queueVars, diskVars, stopVars, gapVars,
                 leafVars, calls, trackedLate>>

-----------------------------------------------------------------------------
(* write_record: take _write_lock, at once when it is free and nobody is   *)
(* waiting, else in the order of arrival.                                  *)
Lock(t) ==
  /\ IF lockHolder = Nobody /\ lockQueue = <<>>
     THEN Continue(t, "lock", "build") /\ lockHolder' = t /\ UNCHANGED lockQueue
     ELSE /\ Yield(t, "lock", "waitLock")
          /\ lockQueue' = Append(lockQueue, t)
          /\ UNCHANGED lockHolder
  /\ UNCHANGED <<callVars, chainVars, queueVars, diskVars, stopVars, gapVars, leafVars,
                 calls, met, trackedLate>>

GetLock(t) ==
  /\ lockHolder = Nobody /\ lockQueue # <<>> /\ Head(lockQueue) = t
  /\ Resume(t, "waitLock", "build")
  /\ lockHolder' = t /\ lockQueue' = Tail(lockQueue)
  /\ UNCHANGED <<callVars, chainVars, queueVars, diskVars, stopVars, gapVars, leafVars,
                 calls, met, trackedLate>>

(* An exception inside write_record: the handler of _emit_pending_gap      *)
(* swallows it, that of safe_record does not.                              *)
Raised(t) == IF want[t][1] = "GAP" THEN "phase1" ELSE "raise"

BuildForgettingHash(t) ==
  LET rec == [id |-> nextId, type |-> want[t][1], seq |-> sequence + 1, prev |-> prevHash,
              ts |-> 0, body |-> want[t][2]]
  IN  /\ Continue(t, "build", "put")
      /\ sequence' = sequence + 1
      /\ nextId' = nextId + 1
      /\ staged' = [staged EXCEPT ![t] = rec]
      /\ recordCount' = recordCount + 1
      /\ gapCount' = gapCount + (IF rec.type = "GAP" THEN 1 ELSE 0)
      /\ UNCHANGED <<prevHash, lockHolder, want, leaves, lockQueue, queueVars, diskVars,
                     stopVars, gapVars, leafVars, calls, met, trackedLate>>

(* ... number the record, serialize it, which may raise, and move the head *)
(* of the chain to it ...                                                  *)
Build(t) ==
  LET rec == [id |-> nextId, type |-> want[t][1], seq |-> sequence + 1, prev |-> prevHash,
              ts |-> 0, body |-> want[t][2]]
  IN  /\ current = t /\ pc[t] = "build"
      /\ sequence' = sequence + 1
      /\ nextId' = nextId + 1
      /\ \/ /\ Continue(t, "build", "put")
            /\ staged' = [staged EXCEPT ![t] = rec]
            /\ prevHash' = Hash(rec)
            /\ recordCount' = recordCount + 1
            /\ gapCount' = gapCount + (IF rec.type = "GAP" THEN 1 ELSE 0)
            /\ UNCHANGED <<lockHolder, met>>
         \/ /\ Meet("serialize")
            /\ Continue(t, "build", Raised(t))
            /\ lockHolder' = Nobody
            /\ UNCHANGED <<staged, prevHash, recordCount, gapCount>>
      /\ UNCHANGED <<want, leaves, lockQueue, queueVars, diskVars, stopVars, gapVars, leafVars,
                     calls, trackedLate>>

AfterWrite(t) ==
  CASE want[t][1] = "GAP"        -> "unpend"
    [] want[t][1] = "ACTION"     -> "track"
    [] want[t][1] = "CHECKPOINT" -> "reset"

EnqueueKeepingLock(t) ==
  /\ Len(queue) < MaxQueue
  /\ queue' = Append(queue, staged[t])
  /\ unfinished' = unfinished + 1
  /\ accepted' = accepted \union {staged[t].id}
  /\ staged' = [staged EXCEPT ![t] = NoRecord]
  /\ covered' = IF want[t][1] = "CHECKPOINT" THEN covered \union leaves[t] ELSE covered
  /\ UNCHANGED <<want, leaves, chainVars, lockVars, diskVars, stopVars, gapVars,
                 sinceCheckpoint, recordHashes, tracked, calls, met, trackedLate>>

Enqueue(t) ==
  /\ Len(queue) < MaxQueue
  /\ queue' = Append(queue, staged[t])
  /\ unfinished' = unfinished + 1
  /\ accepted' = accepted \union {staged[t].id}
  /\ staged' = [staged EXCEPT ![t] = NoRecord]
  /\ lockHolder' = Nobody
  /\ covered' = IF want[t][1] = "CHECKPOINT" THEN covered \union leaves[t] ELSE covered
  /\ UNCHANGED <<want, leaves, chainVars, lockQueue, diskVars, stopVars, gapVars,
                 sinceCheckpoint, recordHashes, tracked, calls, met, trackedLate>>

(* ... and queue it, holding the lock while the queue is full.             *)
Put(t) ==
  \/ Continue(t, "put", AfterWrite(t)) /\ Enqueue(t)
  \/ /\ Len(queue) >= MaxQueue
     /\ Yield(t, "put", "waitPut")
     /\ UNCHANGED <<callVars, chainVars, lockVars, queueVars, diskVars, stopVars, gapVars,
                    leafVars, calls, met, trackedLate>>

GetSlot(t) == Resume(t, "waitPut", AfterWrite(t)) /\ Enqueue(t)

(* The call is cancelled while it waits: CancelledError is no Exception,   *)
(* so no handler runs; leaving the with-statement releases the lock.       *)
Cancel(t) ==
  /\ Meet("cancel")
  /\ current = Nobody
  /\ \/ /\ pc[t] = "waitLock"
        /\ \E i \in 1 .. Len(lockQueue) :
             /\ lockQueue[i] = t
             /\ lockQueue' = SubSeq(lockQueue, 1, i - 1) \o SubSeq(lockQueue, i + 1, Len(lockQueue))
        /\ UNCHANGED lockHolder
     \/ pc[t] = "waitPut" /\ lockHolder' = Nobody /\ UNCHANGED lockQueue
  /\ pc' = [pc EXCEPT ![t] = "idle"]
  /\ staged' = [staged EXCEPT ![t] = NoRecord]
  /\ UNCHANGED <<current, want, leaves, chainVars, queueVars, diskVars, stopVars, gapVars,
                 leafVars, calls, trackedLate>>

-----------------------------------------------------------------------------
(* The Merkle root of a task's checkpoint is computed, its counters are    *)
(* not reset yet.                                                          *)
Checkpointing(t) == want[t][1] = "CHECKPOINT" /\ pc[t] # "idle"

(* _track_record, then the end of the call or a checkpoint.                *)
Track(t) ==
  /\ sinceCheckpoint' = sinceCheckpoint + 1
  /\ recordHashes' = recordHashes \union {prevHash}
  /\ tracked' = tracked \union {prevHash}
  /\ IF sinceCheckpoint' >= CheckpointInterval
     THEN Continue(t, "track", "checkpoint")
     ELSE Yield(t, "track", "idle")
  /\ trackedLate' = (trackedLate \/ \E u \in Tasks \ {t} : Checkpointing(u))
  /\ UNCHANGED <<callVars, chainVars, lockVars, queueVars, diskVars, stopVars, gapVars,
                 covered, calls, met>>

BuildCheckpointWithoutLast(t) ==
  /\ Continue(t, "checkpoint", "lock")
  /\ want' = [want EXCEPT ![t] = <<"CHECKPOINT", <<recordCount + 1, gapCount, prevHash>>>>]
  /\ leaves' = [leaves EXCEPT ![t] = recordHashes \ {prevHash}]
  /\ UNCHANGED <<staged, chainVars, lockVars, queueVars, diskVars, stopVars, gapVars,
                 leafVars, calls, met, trackedLate>>

(* emit_checkpoint builds its payload from the state of the chain ...      *)
BuildCheckpoint(t) ==
  /\ Continue(t, "checkpoint", "lock")
  /\ want' = [want EXCEPT ![t] = <<"CHECKPOINT", <<recordCount + 1, gapCount, prevHash>>>>]
  /\ leaves' = [leaves EXCEPT ![t] = recordHashes]
  /\ UNCHANGED <<staged, chainVars, lockVars, queueVars, diskVars, stopVars, gapVars,
                 leafVars, calls, met, trackedLate>>

(* ... and resets the counters once it is queued.                          *)
ResetCheckpointCounters(t) ==
  /\ Yield(t, "reset", "idle")
  /\ sinceCheckpoint' = 0 /\ recordHashes' = {}
  /\ leaves' = [leaves EXCEPT ![t] = {}]
  /\ UNCHANGED <<want, staged, chainVars, lockVars, queueVars, diskVars, stopVars, gapVars,
                 tracked, covered, calls, met, trackedLate>>

(* The handler of safe_record. *)
Handle(t) ==
  /\ Yield(t, "raise", "idle")
  /\ gapFirst' = IF pendingGap THEN gapFirst ELSE sequence + 1
  /\ pendingGap' = TRUE
  /\ UNCHANGED <<callVars, chainVars, lockVars, queueVars, diskVars, stopVars, leafVars, calls, met, trackedLate>>

-----------------------------------------------------------------------------
(* _drain_loop takes a record and gives it to a thread.  A get that times  *)
(* out is tried again: while the queue is empty the drain task waits in it *)
(* only as long as the writer runs.                                        *)
DrainGet ==
  /\ current = Nobody
  /\ drain = "get" /\ queue # <<>>
  /\ drain' = "write"
  /\ thread' = Head(queue)
  /\ queue' = Tail(queue)
  /\ UNCHANGED <<loopVars, callVars, chainVars, lockVars, unfinished, accepted, file, stopVars,
                 gapVars, leafVars, calls, met, trackedLate>>

(* _write_to_file, in the thread, whatever the loop does meanwhile.  An    *)
(* OSError ends the drain task, before task_done.                          *)
ThreadWrite ==
  /\ thread # NoRecord
  /\ thread' = NoRecord
  /\ \/ file' = Append(file, thread) /\ UNCHANGED <<drain, met>>
     \/ /\ Meet("drop")
        /\ UNCHANGED file
        /\ drain' = IF drain = "write" THEN "dead" ELSE drain
     \/ /\ Meet("torn")
        /\ file' = Append(file, Torn)
        /\ drain' = IF drain = "write" THEN "dead" ELSE drain
  /\ UNCHANGED <<loopVars, callVars, chainVars, lockVars, queueVars, stopVars, gapVars,
                 leafVars, calls, trackedLate>>

TaskDoneOnlyWhileRunning ==
  /\ current = Nobody
  /\ drain = "write" /\ thread = NoRecord
  /\ unfinished' = IF running THEN unfinished - 1 ELSE unfinished
  /\ stopper' = IF stopper = "join" /\ unfinished' = 0 THEN "wake" ELSE stopper
  /\ drain' = IF running \/ queue # <<>> THEN "get" ELSE "done"
  /\ UNCHANGED <<loopVars, callVars, chainVars, lockVars, queue, accepted, thread, file,
                 running, promised, gapVars, leafVars, calls, met, trackedLate>>

(* task_done, which releases a stop that waits for the last record, and    *)
(* the condition of the loop.                                              *)
TaskDone ==
  /\ current = Nobody
  /\ drain = "write" /\ thread = NoRecord
  /\ unfinished' = unfinished - 1
  /\ stopper' = IF stopper = "join" /\ unfinished = 1 THEN "wake" ELSE stopper
  /\ drain' = IF running \/ queue # <<>> THEN "get" ELSE "done"
  /\ UNCHANGED <<loopVars, callVars, chainVars, lockVars, queue, accepted, thread, file,
                 running, promised, gapVars, leafVars, calls, met, trackedLate>>

StopWithoutJoin ==
  /\ CanStop
  /\ current = Nobody /\ stopper = "none"
  /\ running' = FALSE
  /\ promised' = accepted
  /\ stopper' = "stopped" /\ drain' = "done"
  /\ UNCHANGED <<loopVars, callVars, chainVars, lockVars, queueVars, thread, file, gapVars,
                 leafVars, calls, met, trackedLate>>

(* stop, while tasks may still be recording: with every record done it     *)
(* cancels the waiting drain task at once, else it waits for the last ...  *)
Stop ==
  /\ CanStop
  /\ current = Nobody /\ stopper = "none"
  /\ running' = FALSE
  /\ promised' = accepted
  /\ IF unfinished > 0
     THEN stopper' = "join" /\ UNCHANGED drain
     ELSE stopper' = "stopped" /\ drain' = "done"
  /\ UNCHANGED <<loopVars, callVars, chainVars, lockVars, queueVars, thread, file, gapVars,
                 leafVars, calls, met, trackedLate>>

(* ... and finds the drain task ended when it wakes up.                    *)
StopWakes ==
  /\ current = Nobody /\ stopper = "wake"
  /\ stopper' = "stopped"
  /\ drain' = "done"
  /\ UNCHANGED <<loopVars, callVars, chainVars, lockVars, queueVars, thread, file, running,
                 promised, gapVars, leafVars, calls, met, trackedLate>>

Step(t) ==
  \/ EmitPendingGap(t) \/ Unpend(t) \/ Phase1(t)
  \/ Lock(t) \/ GetLock(t) \/ Build(t) \/ Put(t) \/ GetSlot(t)
  \/ Track(t) \/ BuildCheckpoint(t) \/ ResetCheckpointCounters(t) \/ Handle(t)

Drain == DrainGet \/ TaskDone

Next ==
  \/ \E t \in Tasks : Call(t) \/ Step(t) \/ Cancel(t)
  \/ Drain \/ ThreadWrite \/ Stop \/ StopWakes

Spec == Init /\ [][Next]_vars

(* The loop runs whatever is ready, threads finish what they started.      *)
(* Nobody has to call safe_record or stop, or to be cancelled.             *)
FairSpec ==
  /\ Spec
  /\ \A t \in Tasks : WF_vars(Step(t))
  /\ WF_vars(Drain) /\ WF_vars(ThreadWrite) /\ WF_vars(StopWakes)

-----------------------------------------------------------------------------
OneOf(rec) == IF rec = NoRecord THEN <<>> ELSE <<rec>>

Holding == {t \in Tasks : staged[t] # NoRecord}

(* Everything numbered so far, in the order it reaches the file.           *)
Staged ==
  file \o OneOf(thread) \o queue \o
  (IF Holding = {} THEN <<>> ELSE <<staged[CHOOSE t \in Holding : TRUE]>>)

NeverMet(kinds) == met \intersect kinds = {}
NewFile == Existing = <<>>

(* Until a disk write fails or a call is cancelled, the records on disk,   *)
(* in the thread, in the queue and in the hand of the task that waits for  *)
(* room are one chain, the head in memory is its last hash, and at most    *)
(* one task holds a record: the numbering done before the queue agrees     *)
(* with the order of the writes.                                           *)
StagedChainLinked ==
  NewFile /\ NeverMet({"drop", "torn", "cancel"}) /\ stopper # "stopped" =>
    /\ Cardinality(Holding) <= 1
    /\ HashLinkedFrames(Staged)
    /\ prevHash = LastHash(Staged)
    /\ NeverMet({"serialize"}) => sequence = LastSeq(Staged)

(* Until something fails, what readers see passes verify_chain at every    *)
(* moment, also while tasks wait for the lock or for room in the queue,    *)
(* and after stop.                                                         *)
FileVerifies == NewFile /\ met = {} => Verifies(file, FALSE)

(* Once stop has returned, every record write_record had returned before   *)
(* stop was called is in the file (async_chain.py:93-106).                 *)
StopFlushes ==
  stopper = "stopped" /\ NeverMet({"drop", "torn"}) =>
    promised \subseteq {file[i].id : i \in 1 .. Len(file)}

(* unfinished counts what join has to wait for: the queued records and the *)
(* one the drain task works on, until a failed write leaves it one too     *)
(* high for ever.                                                          *)
UnfinishedCounts ==
  stopper # "stopped" =>
    unfinished = Len(queue) + (IF drain \in {"write", "dead"} THEN 1 ELSE 0)

(* The pipeline from the lock over the queue to the file: well formed, one *)
(* chain in the order of its writes, readable at every moment, and counted *)
(* right for join.                                                         *)
PipelineInv == TypeOK /\ StagedChainLinked /\ FileVerifies /\ UnfinishedCounts

(* Until a record is tracked while another task's checkpoint is on its     *)
(* way, no tracked record escapes the Merkle roots: it is under one or     *)
(* waits for the next checkpoint, also when a checkpoint fails or is       *)
(* cancelled.                                                              *)
MerkleCoverage == ~trackedLate => tracked \subseteq covered \union recordHashes

(* A call returns, however full the queue gets and whatever else fails,    *)
(* unless the disk fails or stop is called.                                *)
CallsReturn ==
  \A t \in Tasks :
    pc[t] # "idle" ~> \/ pc[t] = "idle"
                      \/ ~NeverMet({"drop", "torn"})
                      \/ stopper # "none"

(* stop returns, whatever is recorded, fails or is cancelled meanwhile,    *)
(* unless the disk fails.                                                  *)
StopReturns ==
  stopper = "join" ~> stopper = "stopped" \/ ~NeverMet({"drop", "torn"})

-----------------------------------------------------------------------------
(* What documents say, and the code does not keep.                         *)

(* Spec 2: "every discontinuity in sequence numbers MUST be explained by a *)
(* GapRecord".                                                             *)
DiscontinuitiesExplained ==
  \A i \in 1 .. Len(file) : SeqOK(file, i, FALSE)

(* Spec 3.2: "MUST NOT block agent execution".                             *)
AgentProceeds == \A t \in Tasks : pc[t] # "idle" ~> pc[t] = "idle"
=============================================================================
