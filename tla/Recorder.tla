------------------------------- MODULE Recorder -------------------------------
(***************************************************************************)
(* AHPRecorder of ahp/recorder.py and RecorderBase of                      *)
(* ahp/_base_recorder.py: threads of one agent record actions through      *)
(* safe_record on one ChainWriter.  A step ends where another thread can   *)
(* see or change the recorder's state: at every lock operation, and        *)
(* between any two accesses of the code that runs without _recorder_lock   *)
(* (the filters before it, the exception handler of safe_record, and the   *)
(* public emit_checkpoint).                                                *)
(***************************************************************************)
EXTENDS ChainWriter

CONSTANTS Threads,             \* the agent's threads that call safe_record
          NoThread,            \* the holder of a free lock
          Checkpointers,       \* threads that call emit_checkpoint themselves
          Level,               \* 1, 2 or 3
          CheckpointInterval,  \* records between checkpoints
          WitnessInterval,     \* records between witness submissions
          Endpoints,           \* number of witness endpoints
          Phase1CanFail,       \* filtering or evidence storage may raise
          MaxCalls             \* bound: calls of safe_record and emit_checkpoint

ASSUME RecorderAssumption ==
  /\ Threads \intersect Checkpointers = {}
  /\ NoThread \notin Threads \union Checkpointers
  /\ Level \in 1 .. 3
  /\ CheckpointInterval \in Nat \ {0} /\ WitnessInterval \in Nat \ {0}
  /\ Endpoints \in Nat
  /\ Phase1CanFail \in BOOLEAN
  /\ MaxCalls \in Nat

VARIABLES
  pc,              \* where each thread is
  lockHolder,      \* holder of _recorder_lock, or NoThread
  local,           \* what a thread has read of the chain and not yet written
  leaves,          \* the Merkle leaves a thread's checkpoint covers
  pendingGap,      \* _pending_gap
  gapFirst,        \* _gap_first_lost_seq
  sinceCheckpoint, \* _records_since_checkpoint
  recordHashes,    \* _record_hashes_since_checkpoint
  sinceWitness,    \* _records_since_witness
  calls,           \* calls so far
  tracked,         \* history: records handed to _track_record
  covered,         \* history: records under the root of some checkpoint
  undocumented,    \* history: failed calls since the last GapRecord
  handlerRaced,    \* history: a handler ran beside a lock holder
  checkpointRaced  \* history: a direct checkpoint ran beside anything else

AllThreads == Threads \union Checkpointers

recorderVars == <<pc, lockHolder, local, leaves, pendingGap, gapFirst, sinceCheckpoint,
                  recordHashes, sinceWitness, calls, tracked, covered, undocumented>>
raceVars == <<handlerRaced, checkpointRaced>>
vars == <<writerVars, recorderVars, raceVars>>

Label == {"idle", "phase1", "acquire", "flush", "unpend", "write", "checkpoint",
          "emit", "resetCheckpoint", "witness", "witnessSeq", "send", "release", "raise",
          "raiseSet"}

TypeOK ==
  /\ WriterTypeOK
  /\ pc \in [AllThreads -> Label]
  /\ lockHolder \in AllThreads \union {NoThread}
  /\ local \in [AllThreads -> Body]
  /\ leaves \in [AllThreads -> SUBSET Nat]
  /\ pendingGap \in BOOLEAN /\ gapFirst \in Nat
  /\ sinceCheckpoint \in Nat /\ sinceWitness \in Nat
  /\ recordHashes \subseteq Nat
  /\ calls \in 0 .. MaxCalls
  /\ tracked \subseteq Nat /\ covered \subseteq Nat
  /\ undocumented \in Nat
  /\ handlerRaced \in BOOLEAN /\ checkpointRaced \in BOOLEAN

(* The chain a constructor leaves: BOOT, and KEY from level 2 on. *)
Startup ==
  LET types == IF Level >= 2 THEN <<"BOOT", "KEY">> ELSE <<"BOOT">>
  IN  [i \in 1 .. Len(types) |->
        [id |-> i, type |-> types[i], seq |-> i, prev |-> i - 1, ts |-> 0, body |-> NoBody]]

Init ==
  /\ file = Startup
  /\ sequence = Len(file) /\ prevHash = Len(file)
  /\ recordCount = Len(file) /\ gapCount = 0
  /\ sinceFsync = Len(file) /\ lastTs = 0 /\ bytesWritten = Len(file)
  /\ buffer = <<>> /\ synced = 0
  /\ nextId = Len(file) + 1 /\ acked = 1 .. Len(file) /\ raised = {} /\ met = {}
  /\ pc = [t \in AllThreads |-> "idle"]
  /\ lockHolder = NoThread
  /\ local = [t \in AllThreads |-> NoBody]
  /\ leaves = [t \in AllThreads |-> {}]
  /\ pendingGap = FALSE /\ gapFirst = 0
  /\ sinceCheckpoint = Len(file) /\ sinceWitness = Len(file)
  /\ recordHashes = 1 .. Len(file)
  /\ calls = 0
  /\ tracked = 1 .. Len(file) /\ covered = {} /\ undocumented = 0
  /\ handlerRaced = FALSE /\ checkpointRaced = FALSE

-----------------------------------------------------------------------------
Goto(t, from, to) == pc[t] = from /\ pc' = [pc EXCEPT ![t] = to]

NoWrite == UNCHANGED writerVars

Wrote == acked' # acked

AfterWriteKeepingLock(t, next) ==
  /\ IF Wrote
     THEN pc' = [pc EXCEPT ![t] = next] /\ UNCHANGED lockHolder
     ELSE /\ pc' = [pc EXCEPT ![t] = IF t \in Threads THEN "raise" ELSE "idle"]
          /\ UNCHANGED lockHolder

(* A record on the chain, after which t continues at next; or an exception *)
(* that leaves the with-statement, releases the lock and reaches the       *)
(* handler of safe_record.                                                 *)
AfterWrite(t, next) ==
  /\ IF Wrote
     THEN pc' = [pc EXCEPT ![t] = next] /\ UNCHANGED lockHolder
     ELSE /\ pc' = [pc EXCEPT ![t] = IF t \in Threads THEN "raise" ELSE "idle"]
          /\ lockHolder' = IF lockHolder = t THEN NoThread ELSE lockHolder

(* _track_record *)
Track ==
  IF Wrote
  THEN /\ sinceCheckpoint' = sinceCheckpoint + 1
       /\ sinceWitness' = sinceWitness + 1
       /\ recordHashes' = recordHashes \union {nextId}
       /\ tracked' = tracked \union {nextId}
  ELSE UNCHANGED <<sinceCheckpoint, sinceWitness, recordHashes, tracked>>

(* safe_record enters record_action, whose filtering and evidence storage  *)
(* run before the lock and may raise.                                      *)
Call(t) ==
  /\ t \in Threads
  /\ calls < MaxCalls
  /\ calls' = calls + 1
  /\ Goto(t, "idle", "phase1")
  /\ NoWrite
  /\ UNCHANGED <<lockHolder, local, leaves, pendingGap, gapFirst, sinceCheckpoint,
                 recordHashes, sinceWitness, tracked, covered, undocumented>>

Phase1(t) ==
  /\ \/ Goto(t, "phase1", "acquire")
     \/ Phase1CanFail /\ Goto(t, "phase1", "raise")
  /\ NoWrite
  /\ UNCHANGED <<lockHolder, local, leaves, pendingGap, gapFirst, sinceCheckpoint,
                 recordHashes, sinceWitness, calls, tracked, covered, undocumented>>

Acquire(t) ==
  /\ lockHolder = NoThread
  /\ lockHolder' = t
  /\ Goto(t, "acquire", "flush")
  /\ NoWrite
  /\ UNCHANGED <<local, leaves, pendingGap, gapFirst, sinceCheckpoint, recordHashes,
                 sinceWitness, calls, tracked, covered, undocumented>>

FlushToLastNumber(t) ==
  /\ IF pendingGap
     THEN /\ pc[t] = "flush"
          /\ WriteGap(gapFirst, sequence)
          /\ AfterWrite(t, "unpend")
          /\ Track
          /\ undocumented' = IF Wrote THEN 0 ELSE undocumented
     ELSE /\ Goto(t, "flush", "write")
          /\ NoWrite
          /\ UNCHANGED <<lockHolder, sinceCheckpoint, recordHashes, sinceWitness, tracked,
                         undocumented>>
  /\ UNCHANGED <<local, leaves, pendingGap, gapFirst, calls, covered>>

(* _flush_pending_gap: the GapRecord runs from the number noted when the   *)
(* failure was caught to the last number handed out since, at least to     *)
(* itself.                                                                 *)
FlushPendingGap(t) ==
  /\ \/ /\ ~pendingGap
        /\ Goto(t, "flush", "write")
        /\ NoWrite
        /\ UNCHANGED <<lockHolder, sinceCheckpoint, recordHashes, sinceWitness, tracked,
                       undocumented>>
     \/ /\ pc[t] = "flush"
        /\ pendingGap
        /\ WriteGap(gapFirst, IF gapFirst > sequence THEN gapFirst ELSE sequence)
        /\ AfterWrite(t, "unpend")
        /\ Track
        /\ undocumented' = IF Wrote THEN 0 ELSE undocumented
  /\ UNCHANGED <<local, leaves, pendingGap, gapFirst, calls, covered>>

ClearPendingGap(t) ==
  /\ Goto(t, "unpend", "write")
  /\ pendingGap' = FALSE
  /\ gapFirst' = 0
  /\ NoWrite
  /\ UNCHANGED <<lockHolder, local, leaves, sinceCheckpoint, recordHashes, sinceWitness,
                 calls, tracked, covered, undocumented>>

WriteAction(t) ==
  /\ pc[t] = "write"
  /\ WriteRecord("ACTION", NoBody)
  /\ AfterWrite(t,
       IF sinceCheckpoint + 1 >= CheckpointInterval THEN "checkpoint" ELSE "witness")
  /\ Track
  /\ UNCHANGED <<local, leaves, pendingGap, gapFirst, calls, covered, undocumented>>

BuildCheckpointResettingLeaves(t) ==
  /\ Goto(t, "checkpoint", "emit")
  /\ local' = [local EXCEPT ![t] = <<recordCount + 1, gapCount, prevHash>>]
  /\ leaves' = [leaves EXCEPT ![t] = recordHashes]
  /\ recordHashes' = {}
  /\ NoWrite
  /\ UNCHANGED <<lockHolder, pendingGap, gapFirst, sinceCheckpoint, calls,
                 sinceWitness, tracked, covered, undocumented>>

(* emit_checkpoint, first half: the payload is built from the state of the *)
(* chain.  Called under the lock by record_action, without it by others.   *)
BuildCheckpoint(t) ==
  /\ \/ Goto(t, "checkpoint", "emit") /\ UNCHANGED calls
     \/ /\ t \in Checkpointers /\ calls < MaxCalls
        /\ calls' = calls + 1
        /\ Goto(t, "idle", "emit")
  /\ local' = [local EXCEPT ![t] = <<recordCount + 1, gapCount, prevHash>>]
  /\ leaves' = [leaves EXCEPT ![t] = recordHashes]
  /\ NoWrite
  /\ UNCHANGED <<lockHolder, pendingGap, gapFirst, sinceCheckpoint, recordHashes,
                 sinceWitness, tracked, covered, undocumented>>

(* ... then written ... *)
EmitCheckpoint(t) ==
  /\ pc[t] = "emit"
  /\ WriteRecord("CHECKPOINT", local[t])
  /\ AfterWrite(t, "resetCheckpoint")
  /\ covered' = IF Wrote THEN covered \union leaves[t] ELSE covered
  /\ UNCHANGED <<local, leaves, pendingGap, gapFirst, sinceCheckpoint, recordHashes,
                 sinceWitness, calls, tracked, undocumented>>

(* ... then _reset_checkpoint_counters. *)
ResetCheckpointCounters(t) ==
  /\ Goto(t, "resetCheckpoint", IF t \in Threads THEN "witness" ELSE "idle")
  /\ sinceCheckpoint' = 0
  /\ recordHashes' = {}
  /\ leaves' = [leaves EXCEPT ![t] = {}]
  /\ NoWrite
  /\ UNCHANGED <<lockHolder, local, pendingGap, gapFirst, sinceWitness, calls, tracked,
                 covered, undocumented>>

(* send_witness_checkpoint reads prev_hash, then sequence. *)
WitnessDue ==
  Level >= 3 /\ Endpoints > 0 /\ sinceWitness >= WitnessInterval

CaptureHash(t) ==
  /\ IF WitnessDue
     THEN /\ Goto(t, "witness", "witnessSeq")
          /\ local' = [local EXCEPT ![t] = <<0, prevHash, 0>>]
     ELSE Goto(t, "witness", "release") /\ UNCHANGED local
  /\ NoWrite
  /\ UNCHANGED <<lockHolder, leaves, pendingGap, gapFirst, sinceCheckpoint, recordHashes,
                 sinceWitness, calls, tracked, covered, undocumented>>

CaptureSequence(t) ==
  /\ Goto(t, "witnessSeq", "send")
  /\ local' = [local EXCEPT ![t][1] = sequence]
  /\ NoWrite
  /\ UNCHANGED <<lockHolder, leaves, pendingGap, gapFirst, sinceCheckpoint, recordHashes,
                 sinceWitness, calls, tracked, covered, undocumented>>

(* For each endpoint: no receipt after the retries, or a receipt and a     *)
(* WITNESS record, whose failing write is logged and forgotten.  local's   *)
(* third number counts the endpoints tried.                                *)
SendToEndpoint(t) ==
  /\ pc[t] = "send"
  /\ local[t][3] < Endpoints
  /\ local' = [local EXCEPT ![t][3] = @ + 1]
  /\ \/ NoWrite
     \/ WriteRecord("WITNESS", <<local[t][1], local[t][2], 0>>)
  /\ UNCHANGED <<pc, lockHolder, leaves, pendingGap, gapFirst, sinceCheckpoint, recordHashes,
                 sinceWitness, calls, tracked, covered, undocumented>>

ResetWitnessCounter(t) ==
  /\ local[t][3] >= Endpoints
  /\ Goto(t, "send", "release")
  /\ sinceWitness' = 0
  /\ NoWrite
  /\ UNCHANGED <<lockHolder, local, leaves, pendingGap, gapFirst, sinceCheckpoint,
                 recordHashes, calls, tracked, covered, undocumented>>

Release(t) ==
  /\ Goto(t, "release", "idle")
  /\ lockHolder' = NoThread
  /\ NoWrite
  /\ UNCHANGED <<local, leaves, pendingGap, gapFirst, sinceCheckpoint, recordHashes,
                 sinceWitness, calls, tracked, covered, undocumented>>

(* The handler of safe_record, outside the lock: note the first lost       *)
(* number unless a gap is pending already, then mark the gap pending.      *)
NoteFirstLost(t) ==
  /\ Goto(t, "raise", "raiseSet")
  /\ gapFirst' = IF pendingGap THEN gapFirst ELSE sequence + 1
  /\ NoWrite
  /\ UNCHANGED <<lockHolder, local, leaves, pendingGap, sinceCheckpoint, recordHashes,
                 sinceWitness, calls, tracked, covered, undocumented>>

ForgetPending(t) ==
  /\ Goto(t, "raiseSet", "idle")
  /\ undocumented' = undocumented + 1
  /\ NoWrite
  /\ UNCHANGED <<lockHolder, local, leaves, pendingGap, gapFirst, sinceCheckpoint,
                 recordHashes, sinceWitness, calls, tracked, covered>>

MarkPending(t) ==
  /\ Goto(t, "raiseSet", "idle")
  /\ pendingGap' = TRUE
  /\ undocumented' = undocumented + 1
  /\ NoWrite
  /\ UNCHANGED <<lockHolder, local, leaves, gapFirst, sinceCheckpoint, recordHashes,
                 sinceWitness, calls, tracked, covered>>

(* The two places that use shared state without _recorder_lock: the        *)
(* exception handler, and emit_checkpoint called by the agent itself.      *)
HandlerBesideHolder ==
  lockHolder # NoThread /\ \E t \in Threads : pc[t] \in {"raise", "raiseSet"}

CheckpointBesideAnything ==
  \E c \in Checkpointers :
    /\ pc[c] # "idle"
    /\ \/ lockHolder # NoThread
       \/ pendingGap
       \/ \E t \in Checkpointers \ {c} : pc[t] # "idle"
       \/ \E t \in Threads : pc[t] \in {"raise", "raiseSet"}

NoteRaces ==
  /\ handlerRaced' = (handlerRaced \/ HandlerBesideHolder')
  /\ checkpointRaced' = (checkpointRaced \/ CheckpointBesideAnything')

Start(t) ==
  /\ \/ Call(t)
     \/ pc[t] = "idle" /\ BuildCheckpoint(t)
  /\ NoteRaces

Step(t) ==
  /\ \/ Phase1(t) \/ Acquire(t) \/ FlushPendingGap(t) \/ ClearPendingGap(t) \/ WriteAction(t)
     \/ pc[t] # "idle" /\ BuildCheckpoint(t)
     \/ EmitCheckpoint(t) \/ ResetCheckpointCounters(t)
     \/ CaptureHash(t) \/ CaptureSequence(t) \/ SendToEndpoint(t) \/ ResetWitnessCounter(t)
     \/ Release(t) \/ NoteFirstLost(t) \/ MarkPending(t)
  /\ NoteRaces

Next == \E t \in AllThreads : Start(t) \/ Step(t)

Spec == Init /\ [][Next]_vars

(* Once a call is under way its thread keeps running: the lock is free     *)
(* again and again and calls are finitely many, writes return, and the     *)
(* witness client gives up after its retries.  Nobody has to call.         *)
FairSpec == Spec /\ \A t \in AllThreads : WF_vars(Step(t))

-----------------------------------------------------------------------------
(* Until a write fails, a handler runs beside a lock holder or a direct    *)
(* checkpoint beside anything, the file passes verify_chain at every       *)
(* moment: with any number of threads, checkpoints and witness records     *)
(* interleaved, and with failed calls documented by GapRecords             *)
(* (_recorder_lock, recorder.py:243; safe_record, recorder.py:439).        *)
VerifiesUnderThreads ==
  met = {} /\ ~handlerRaced /\ ~checkpointRaced => Verifies(file, FALSE)

(* Any failing calls, any threads and any races: each record, whoever      *)
(* wrote it, links to the one before it, as long as failing writes leave   *)
(* no bytes.                                                               *)
LinkedUnderThreads ==
  met \subseteq CleanFaults => HashLinkedFrames(file)

(* A checkpoint tells the truth about the chain it ends: its chain_hash is *)
(* its own prev_hash and its counts are those of the file                  *)
(* (_build_checkpoint_payload, then write_record).                         *)
CheckpointUnderLock ==
  ~checkpointRaced => CheckpointTruth

(* No tracked record escapes the Merkle roots: it is under one already, or *)
(* waits for the next checkpoint, also when writing a checkpoint fails.    *)
MerkleCoverage ==
  ~checkpointRaced => tracked \subseteq covered \union recordHashes

(* A WITNESS record names a sequence number and the hash of the record     *)
(* that has it (send_witness_checkpoint reads the two separately).         *)
WitnessNamesOneRecord ==
  met = {} /\ ~checkpointRaced =>
    \A i \in 1 .. Len(file) : file[i].type = "WITNESS" =>
      \E j \in 1 .. i - 1 : file[j].seq = file[i].body[1] /\ file[j].id = file[i].body[2]

(* A failed call no GapRecord documents yet keeps the gap pending, so the  *)
(* next successful call documents it: no failure is forgotten unless its   *)
(* handler ran beside a lock holder.                                       *)
FailureRemembered == ~handlerRaced /\ undocumented > 0 => pendingGap

(* The chain under threads: well formed, linked whatever fails, and passing *)
(* verify_chain until something fails or races.                            *)
ChainUnderThreads == TypeOK /\ LinkedUnderThreads /\ VerifiesUnderThreads

(* What a checkpoint and a witness submission say is true of the chain they *)
(* are in: the head and the counts, the leaves under the root, and the     *)
(* record that was witnessed (_build_checkpoint_payload and                *)
(* send_witness_checkpoint read shared state piece by piece).              *)
CheckpointsTruthful == CheckpointUnderLock /\ MerkleCoverage /\ WitnessNamesOneRecord

(* Every call of the agent returns, whatever fails: recording never blocks *)
(* the agent for good.                                                     *)
CallsReturn == \A t \in AllThreads : pc[t] # "idle" ~> pc[t] = "idle"

-----------------------------------------------------------------------------
(* safe_record, recorder.py:442: "If recording raises an exception the     *)
(* error is captured and a GapRecord will be emitted on the next           *)
(* successful write".                                                      *)
FailuresGetGapRecords == undocumented > 0 => pendingGap
=============================================================================
