---------------------------- MODULE RecorderProofs ----------------------------
(***************************************************************************)
(* Theorems about the recorder over ChainWriter: Recorder, for any         *)
(* threads, calls, faults and intervals, and then Restart, its life over   *)
(* crashes, for every set of faults, way to crash, level and bound.        *)
(***************************************************************************)
EXTENDS Recorder, Restart, ChainWriterProofs

-----------------------------------------------------------------------------
(* Recorder: the inductive invariant.                                      *)

(* Where a thread of the agent has _recorder_lock, or a direct checkpoint  *)
(* is under way.                                                           *)
Held == {"flush", "unpend", "write", "checkpoint", "emit", "resetCheckpoint", "witness",
         "witnessSeq", "send", "release"}

(* Who is inside, and that the two histories note every race.              *)
Turns ==
  /\ \A t \in Threads : pc[t] \in Held <=> lockHolder = t
  /\ lockHolder \notin Checkpointers
  /\ \A c \in Checkpointers : pc[c] \in {"idle", "emit", "resetCheckpoint"}
  /\ HandlerBesideHolder => handlerRaced
  /\ CheckpointBesideAnything => checkpointRaced

(* The writer agrees with its file, whoever writes.                        *)
Chained ==
  /\ \A n \in acked : n < nextId
  /\ met \subseteq CleanFaults => buffer = <<>> /\ file # <<>> /\ Counted
  /\ met = {} => sequence = LastSeq(file)

(* A failure leaves a pending gap, and whoever writes past the flush has   *)
(* none before it.                                                         *)
Failures ==
  ~handlerRaced =>
    /\ undocumented > 0 => pendingGap
    /\ \A t \in Threads :
         /\ pc[t] = "unpend" => undocumented = 0
         /\ pc[t] \in Held /\ pendingGap => pc[t] \in {"flush", "unpend"}

(* The gap that is pending, or about to be, starts after the last number.  *)
Continuing ==
  met = {} /\ ~handlerRaced /\ ~checkpointRaced =>
    /\ Verifies(file, FALSE)
    /\ pendingGap /\ (\A t \in Threads : pc[t] # "unpend") => gapFirst = sequence + 1
    /\ (\E t \in Threads : pc[t] = "raiseSet") => gapFirst = sequence + 1

(* What a checkpoint that is being emitted has read still holds.           *)
Payload == <<recordCount + 1, gapCount, prevHash>>

Checkpointing ==
  ~checkpointRaced =>
    /\ tracked \subseteq covered \union recordHashes
    /\ \A t \in AllThreads :
         /\ pc[t] = "emit" => local[t] = Payload /\ leaves[t] = recordHashes
         /\ pc[t] = "resetCheckpoint" => recordHashes \subseteq covered
    /\ met \subseteq CleanFaults => TrueBodies(file)

(* So does what a submission has read: it names a record of the file.      *)
Names(fs, n, body) == \E j \in 1 .. n : fs[j].seq = body[1] /\ fs[j].id = body[2]

Witnessing ==
  met = {} /\ ~checkpointRaced =>
    /\ \A t \in Threads : pc[t] = "witnessSeq" => local[t][2] = prevHash
    /\ \A t \in Threads : pc[t] = "send" => Names(file, Len(file), local[t])
    /\ \A i \in 1 .. Len(file) : file[i].type = "WITNESS" => Names(file, i - 1, file[i].body)

IInv == TypeOK /\ Turns /\ Chained /\ Failures /\ Continuing /\ Checkpointing /\ Witnessing

-----------------------------------------------------------------------------
(* What the steps have in common.                                          *)

(* The record thread t writes, and where it does.                          *)
LastLost == IF gapFirst > sequence THEN gapFirst ELSE sequence

WritesRecord(t, rec) ==
  /\ TypedStep(rec) /\ rec.id = nextId /\ rec.prev = prevHash
  /\ pc[t] \in {"flush", "write", "emit", "send"}
  /\ rec.type = "CHECKPOINT" => pc[t] = "emit" /\ rec.body = local[t]
  /\ rec.type = "WITNESS" => pc[t] = "send" /\ rec.body = <<local[t][1], local[t][2], 0>>
  /\ IF pc[t] = "flush"
     THEN /\ pendingGap /\ rec.type = "GAP" /\ rec.seq = LastLost + 1
          /\ rec.body = GapBody(gapFirst, LastLost)
     ELSE rec.seq = sequence + 1 /\ (rec.type # "GAP" \/ met' # {})

(* The triples of numbers a body is. *)
LEMMA BodyParts ==
  ASSUME NEW b \in Body, NEW n \in Nat
  PROVE  /\ b[1] \in Nat /\ b[2] \in Nat /\ b[3] \in Nat
         /\ [b EXCEPT ![1] = n] \in Body /\ [b EXCEPT ![3] = n] \in Body
         /\ [b EXCEPT ![1] = n][1] = n /\ [b EXCEPT ![1] = n][2] = b[2]
         /\ [b EXCEPT ![3] = n][1] = b[1] /\ [b EXCEPT ![3] = n][2] = b[2]
         /\ <<0, n, 0>> \in Body /\ <<b[1], b[2], 0>> \in Body
<1>1. PICK x \in Nat, y \in Nat, z \in Nat : b = <<x, y, z>>
  BY DEF Body
<1>2. [b EXCEPT ![1] = n] = <<n, y, z>> /\ [b EXCEPT ![3] = n] = <<x, y, n>>
  BY <1>1
<1>3. <<n, y, z>> \in Body /\ <<x, y, n>> \in Body /\ <<0, n, 0>> \in Body /\ <<x, y, 0>> \in Body
  BY DEF Body
<1>4. b[1] = x /\ b[2] = y /\ b[3] = z
  BY <1>1
<1>5. /\ [b EXCEPT ![1] = n] \in Body /\ [b EXCEPT ![3] = n] \in Body
      /\ <<0, n, 0>> \in Body /\ <<b[1], b[2], 0>> \in Body
  BY <1>2, <1>3, <1>4
<1>6. [b EXCEPT ![1] = n][1] = n /\ [b EXCEPT ![1] = n][2] = b[2]
  BY <1>2, <1>4
<1>7. [b EXCEPT ![3] = n][1] = b[1] /\ [b EXCEPT ![3] = n][2] = b[2]
  BY <1>2, <1>4
<1> QED BY <1>4, <1>5, <1>6, <1>7

(* A step leaves the chain alone or writes one record. *)
LEMMA StepWrites ==
  ASSUME TypeOK, NEW t \in AllThreads, Start(t) \/ Step(t)
  PROVE  UNCHANGED writerVars \/ \E rec \in Record : WritesRecord(t, rec)
<1>0. /\ WriterTypeOK /\ gapFirst \in Nat /\ sequence \in Nat /\ local[t] \in Body
      /\ {"ACTION", "CHECKPOINT", "WITNESS"} \subseteq RecordType /\ NoBody \in Body
  BY DEF TypeOK, WriterTypeOK, RecordType, Body, NoBody
<1>1. SUFFICES ASSUME ~UNCHANGED writerVars
               PROVE  \E rec \in Record : WritesRecord(t, rec)
  OBVIOUS
<1>2. CASE FlushPendingGap(t)
  <2>1. pc[t] = "flush" /\ pendingGap /\ WriteGap(gapFirst, LastLost)
    BY <1>1, <1>2 DEF FlushPendingGap, NoWrite, LastLost
  <2>2. LastLost \in Nat /\ gapFirst <= LastLost + 1
    BY <1>0 DEF LastLost
  <2>3. PICK rec \in Record :
          /\ TypedStep(rec) /\ rec.id = nextId /\ rec.prev = prevHash /\ rec.seq = LastLost + 1
          /\ rec.type = "GAP" /\ rec.body = GapBody(gapFirst, LastLost)
    BY <1>0, <2>1, <2>2, GapIsTyped
  <2> QED BY <2>1, <2>3 DEF WritesRecord
<1>3. CASE WriteAction(t)
  <2>1. pc[t] = "write" /\ WriteRecord("ACTION", NoBody)
    BY <1>3 DEF WriteAction
  <2>2. PICK rec \in Record :
          /\ TypedStep(rec) /\ rec.id = nextId /\ rec.prev = prevHash /\ rec.seq = sequence + 1
          /\ rec.type = "ACTION" \/ (rec.type = "GAP" /\ "invalid" \in met')
    BY <1>0, <2>1, WriteIsTyped
  <2> QED BY <2>1, <2>2 DEF WritesRecord
<1>4. CASE EmitCheckpoint(t)
  <2>1. pc[t] = "emit" /\ WriteRecord("CHECKPOINT", local[t])
    BY <1>4 DEF EmitCheckpoint
  <2>2. PICK rec \in Record :
          /\ TypedStep(rec) /\ rec.id = nextId /\ rec.prev = prevHash /\ rec.seq = sequence + 1
          /\ \/ rec.type = "CHECKPOINT" /\ rec.body = local[t]
             \/ rec.type = "GAP" /\ "invalid" \in met'
    BY <1>0, <2>1, WriteIsTyped
  <2> QED BY <2>1, <2>2 DEF WritesRecord
<1>5. CASE SendToEndpoint(t)
  <2> DEFINE body == <<local[t][1], local[t][2], 0>>
  <2>1. pc[t] = "send" /\ WriteRecord("WITNESS", body)
    BY <1>1, <1>5 DEF SendToEndpoint, NoWrite
  <2>2. body \in Body
    BY <1>0, BodyParts
  <2> HIDE DEF body
  <2>3. PICK rec \in Record :
          /\ TypedStep(rec) /\ rec.id = nextId /\ rec.prev = prevHash /\ rec.seq = sequence + 1
          /\ \/ rec.type = "WITNESS" /\ rec.body = body
             \/ rec.type = "GAP" /\ "invalid" \in met'
    BY <1>0, <2>1, <2>2, WriteIsTyped
  <2> QED BY <2>1, <2>3 DEF WritesRecord, body
<1>6. CASE Call(t) \/ Phase1(t) \/ Acquire(t) \/ ClearPendingGap(t) \/ BuildCheckpoint(t)
        \/ ResetCheckpointCounters(t) \/ CaptureHash(t) \/ CaptureSequence(t)
        \/ ResetWitnessCounter(t) \/ Release(t) \/ NoteFirstLost(t) \/ MarkPending(t)
  BY <1>1, <1>6 DEF Call, Phase1, Acquire, ClearPendingGap, BuildCheckpoint,
                    ResetCheckpointCounters, CaptureHash, CaptureSequence,
                    ResetWitnessCounter, Release, NoteFirstLost, MarkPending, NoWrite
<1> QED BY <1>2, <1>3, <1>4, <1>5, <1>6 DEF Start, Step

(* What a step of t changes, variable by variable: only t moves; the lock  *)
(* is taken on entry and given back on exit; ...                           *)
LockEffect(t) ==
  /\ \A u \in AllThreads \ {t} :
       pc'[u] = pc[u] /\ local'[u] = local[u] /\ leaves'[u] = leaves[u]
  /\ t \in Checkpointers => pc'[t] \in {"idle", "emit", "resetCheckpoint"} /\ lockHolder' = lockHolder
  /\ t \in Threads =>
       \/ (pc[t] \in Held <=> pc'[t] \in Held) /\ lockHolder' = lockHolder
       \/ /\ pc[t] = "acquire" /\ pc'[t] \in Held
          /\ lockHolder = NoThread /\ lockHolder' = t
       \/ pc[t] \in Held /\ pc'[t] \notin Held /\ lockHolder' = NoThread

(* ... the gap is noted, marked, documented and cleared; ...               *)
GapEffect(t) ==
  \/ /\ pc[t] = "unpend" /\ pc'[t] = "write" /\ ~pendingGap'
     /\ undocumented' = undocumented
  \/ /\ pc[t] = "raise" /\ pc'[t] = "raiseSet" /\ UNCHANGED <<pendingGap, undocumented>>
     /\ gapFirst' = IF pendingGap THEN gapFirst ELSE sequence + 1
  \/ /\ pc[t] = "raiseSet" /\ pc'[t] = "idle" /\ pendingGap'
     /\ gapFirst' = gapFirst /\ undocumented' = undocumented + 1
  \/ /\ pc[t] = "flush" /\ pendingGap /\ pc'[t] = "unpend" /\ Wrote
     /\ undocumented' = 0 /\ UNCHANGED <<pendingGap, gapFirst>>
  \/ /\ pc[t] = "flush" /\ (pc'[t] = "write" => ~pendingGap)
     /\ pc'[t] \in {"write", "raise"} /\ (pendingGap => ~Wrote)
     /\ UNCHANGED <<pendingGap, gapFirst, undocumented>>
  \/ /\ pc[t] \notin {"unpend", "raise", "raiseSet", "flush"}
     /\ pc'[t] \notin {"unpend", "raiseSet"}
     /\ t \in Threads /\ pc'[t] \in Held => pc'[t] = "flush" \/ pc[t] \in Held
     /\ UNCHANGED <<pendingGap, gapFirst, undocumented>>

(* ... a record becomes a leaf, and a checkpoint takes the leaves; ...     *)
LeafEffect(t) ==
  \/ /\ pc[t] \in {"flush", "write"} /\ pc'[t] \notin {"emit", "resetCheckpoint"}
     /\ covered' = covered
     /\ \E S \in {{}, {nextId}} :
          recordHashes' = recordHashes \union S /\ tracked' = tracked \union S
  \/ /\ pc[t] = "emit" /\ pc'[t] # "emit" /\ UNCHANGED <<recordHashes, tracked>>
     /\ covered \subseteq covered'
     /\ pc'[t] = "resetCheckpoint" => leaves[t] \subseteq covered'
  \/ /\ pc[t] = "resetCheckpoint" /\ pc'[t] \notin {"emit", "resetCheckpoint"}
     /\ recordHashes' = {} /\ UNCHANGED <<tracked, covered>>
  \/ /\ pc[t] \notin {"flush", "write", "emit", "resetCheckpoint"} /\ pc'[t] # "resetCheckpoint"
     /\ UNCHANGED <<recordHashes, tracked, covered>>
     /\ pc'[t] = "emit" => /\ local'[t] = Payload /\ leaves'[t] = recordHashes
                           /\ UNCHANGED <<recordCount, gapCount, prevHash>>

(* ... and a submission reads the head of the chain in two steps.          *)
SubmitEffect(t) ==
  \/ pc'[t] = "witnessSeq" /\ local'[t][2] = prevHash /\ prevHash' = prevHash
  \/ /\ pc[t] = "witnessSeq" /\ pc'[t] = "send"
     /\ local'[t][1] = sequence /\ local'[t][2] = local[t][2] /\ file' = file
  \/ pc[t] = "send" /\ local'[t][1] = local[t][1] /\ local'[t][2] = local[t][2]
     /\ pc'[t] # "witnessSeq"
  \/ pc'[t] \notin {"witnessSeq", "send"}

(* The types of what a step of t changes beside the writer.                *)
TypeEffect(t) ==
  /\ pc' \in [AllThreads -> Label] /\ lockHolder' \in AllThreads \union {NoThread}
  /\ local' \in [AllThreads -> Body] /\ leaves' \in [AllThreads -> SUBSET Nat]
  /\ pendingGap' \in BOOLEAN /\ gapFirst' \in Nat
  /\ sinceCheckpoint' \in Nat /\ sinceWitness' \in Nat
  /\ recordHashes' \subseteq Nat /\ calls' \in 0 .. MaxCalls
  /\ tracked' \subseteq Nat /\ covered' \subseteq Nat /\ undocumented' \in Nat

(* Every action has these effects. *)
LEMMA StepEffects ==
  ASSUME TypeOK, Turns, NEW t \in AllThreads, Start(t) \/ Step(t)
  PROVE  LockEffect(t) /\ GapEffect(t) /\ LeafEffect(t) /\ SubmitEffect(t) /\ TypeEffect(t)
<1>0. /\ pc \in [AllThreads -> Label] /\ lockHolder \in AllThreads \union {NoThread}
      /\ local \in [AllThreads -> Body] /\ leaves \in [AllThreads -> SUBSET Nat]
      /\ pendingGap \in BOOLEAN /\ gapFirst \in Nat /\ sequence \in Nat
      /\ sinceCheckpoint \in Nat /\ sinceWitness \in Nat
      /\ recordHashes \subseteq Nat /\ calls \in 0 .. MaxCalls /\ MaxCalls \in Nat
      /\ tracked \subseteq Nat /\ covered \subseteq Nat /\ undocumented \in Nat
      /\ nextId \in Nat /\ recordCount \in Nat /\ gapCount \in Nat /\ prevHash \in Nat
      /\ Payload \in Body
  <2>1. recordCount + 1 \in Nat /\ gapCount \in Nat /\ prevHash \in Nat
    BY DEF TypeOK, WriterTypeOK
  <2>2. Payload \in Body
    BY <2>1 DEF Payload, Body
  <2> QED BY <2>2, RecorderAssumption DEF TypeOK, WriterTypeOK
<1>1. /\ t \in Threads <=> t \notin Checkpointers
      /\ t \in Checkpointers => pc[t] \in {"idle", "emit", "resetCheckpoint"}
      /\ t \in Threads => (pc[t] \in Held <=> lockHolder = t)
      /\ t \in Checkpointers => lockHolder # t
  BY RecorderAssumption DEF Turns, AllThreads
<1>2. /\ local[t] \in Body /\ leaves[t] \subseteq Nat
      /\ \A n \in Nat : /\ [local[t] EXCEPT ![1] = n] \in Body
                        /\ [local[t] EXCEPT ![1] = n][1] = n
                        /\ [local[t] EXCEPT ![1] = n][2] = local[t][2]
      /\ [local[t] EXCEPT ![3] = local[t][3] + 1] \in Body
      /\ [local[t] EXCEPT ![3] = local[t][3] + 1][1] = local[t][1]
      /\ [local[t] EXCEPT ![3] = local[t][3] + 1][2] = local[t][2]
      /\ <<0, prevHash, 0>> \in Body
  <2>1. local[t] \in Body /\ leaves[t] \subseteq Nat
    BY <1>0
  <2>2. local[t][3] \in Nat
    BY <1>0, <2>1, BodyParts
  <2>3. local[t][3] + 1 \in Nat
    BY <2>2
  <2>4. <<0, prevHash, 0>> \in Body
    BY <1>0, <2>1, BodyParts
  <2>5. \A n \in Nat : /\ [local[t] EXCEPT ![1] = n] \in Body
                       /\ [local[t] EXCEPT ![1] = n][1] = n
                       /\ [local[t] EXCEPT ![1] = n][2] = local[t][2]
    BY <2>1, BodyParts
  <2>6. /\ [local[t] EXCEPT ![3] = local[t][3] + 1] \in Body
        /\ [local[t] EXCEPT ![3] = local[t][3] + 1][1] = local[t][1]
        /\ [local[t] EXCEPT ![3] = local[t][3] + 1][2] = local[t][2]
    BY <2>1, <2>3, BodyParts
  <2> QED BY <2>1, <2>4, <2>5, <2>6
<1>3. CASE Call(t)
  <2> USE <1>0, <1>1, <1>2, <1>3 DEF Call, Goto, NoWrite
  <2>1. LockEffect(t)
    BY DEF LockEffect, Held, Label
  <2>2. GapEffect(t)
    BY DEF GapEffect, Held
  <2>3. LeafEffect(t)
    BY DEF LeafEffect, Payload
  <2>4. SubmitEffect(t)
    BY DEF SubmitEffect
  <2>5. TypeEffect(t)
    BY DEF TypeEffect, Label
  <2> QED BY <2>1, <2>2, <2>3, <2>4, <2>5
<1>4. CASE Phase1(t)
  <2> USE <1>0, <1>1, <1>2, <1>4 DEF Phase1, Goto, NoWrite
  <2>1. LockEffect(t)
    BY DEF LockEffect, Held, Label
  <2>2. GapEffect(t)
    BY DEF GapEffect, Held
  <2>3. LeafEffect(t)
    BY DEF LeafEffect, Payload
  <2>4. SubmitEffect(t)
    BY DEF SubmitEffect
  <2>5. TypeEffect(t)
    BY DEF TypeEffect, Label
  <2> QED BY <2>1, <2>2, <2>3, <2>4, <2>5
<1>5. CASE Acquire(t)
  <2> USE <1>0, <1>1, <1>2, <1>5 DEF Acquire, Goto, NoWrite
  <2>1. LockEffect(t)
    BY DEF LockEffect, Held, Label
  <2>2. GapEffect(t)
    BY DEF GapEffect, Held
  <2>3. LeafEffect(t)
    BY DEF LeafEffect, Payload
  <2>4. SubmitEffect(t)
    BY DEF SubmitEffect
  <2>5. TypeEffect(t)
    BY DEF TypeEffect, Label
  <2> QED BY <2>1, <2>2, <2>3, <2>4, <2>5
<1>6. CASE FlushPendingGap(t)
  <2> USE <1>0, <1>1, <1>2, <1>6 DEF FlushPendingGap, Goto, NoWrite, AfterWrite, Track, Wrote
  <2>1. LockEffect(t)
    BY DEF LockEffect, Held, Label
  <2>2. GapEffect(t)
    BY DEF GapEffect, Held
  <2>3. LeafEffect(t)
    BY DEF LeafEffect, Payload
  <2>4. SubmitEffect(t)
    BY DEF SubmitEffect
  <2>5. TypeEffect(t)
    <3>1. pc' \in [AllThreads -> Label] /\ lockHolder' \in AllThreads \union {NoThread}
      BY DEF Label
    <3>2. local' \in [AllThreads -> Body] /\ leaves' \in [AllThreads -> SUBSET Nat]
      OBVIOUS
    <3>3. sinceCheckpoint' \in Nat /\ sinceWitness' \in Nat /\ gapFirst' \in Nat
      OBVIOUS
    <3>4. recordHashes' \subseteq Nat /\ tracked' \subseteq Nat /\ covered' \subseteq Nat
      <4>1. (recordHashes \union {nextId}) \subseteq Nat /\ (tracked \union {nextId}) \subseteq Nat
        BY <1>0
      <4>2. /\ recordHashes' \in {recordHashes, recordHashes \union {nextId}}
            /\ tracked' \in {tracked, tracked \union {nextId}}
            /\ covered' = covered
        OBVIOUS
      <4> QED BY <1>0, <4>1, <4>2
    <3>5. calls' \in 0 .. MaxCalls /\ undocumented' \in Nat
      OBVIOUS
    <3>6. pendingGap' = pendingGap
      OBVIOUS
    <3> QED BY <3>1, <3>2, <3>3, <3>4, <3>5, <3>6 DEF TypeEffect
  <2> QED BY <2>1, <2>2, <2>3, <2>4, <2>5
<1>7. CASE ClearPendingGap(t)
  <2> USE <1>0, <1>1, <1>2, <1>7 DEF ClearPendingGap, Goto, NoWrite
  <2>1. LockEffect(t)
    BY DEF LockEffect, Held, Label
  <2>2. GapEffect(t)
    BY DEF GapEffect, Held
  <2>3. LeafEffect(t)
    BY DEF LeafEffect, Payload
  <2>4. SubmitEffect(t)
    BY DEF SubmitEffect
  <2>5. TypeEffect(t)
    BY DEF TypeEffect, Label
  <2> QED BY <2>1, <2>2, <2>3, <2>4, <2>5
<1>8. CASE WriteAction(t)
  <2> USE <1>0, <1>1, <1>2, <1>8 DEF WriteAction, Goto, NoWrite, AfterWrite, Track, Wrote
  <2>1. LockEffect(t)
    BY DEF LockEffect, Held, Label
  <2>2. GapEffect(t)
    BY DEF GapEffect, Held
  <2>3. LeafEffect(t)
    BY DEF LeafEffect, Payload
  <2>4. SubmitEffect(t)
    BY DEF SubmitEffect
  <2>5. TypeEffect(t)
    <3>1. pc' \in [AllThreads -> Label] /\ lockHolder' \in AllThreads \union {NoThread}
      BY DEF Label
    <3>2. local' \in [AllThreads -> Body] /\ leaves' \in [AllThreads -> SUBSET Nat]
      OBVIOUS
    <3>3. sinceCheckpoint' \in Nat /\ sinceWitness' \in Nat /\ gapFirst' \in Nat
      OBVIOUS
    <3>4. recordHashes' \subseteq Nat /\ tracked' \subseteq Nat /\ covered' \subseteq Nat
      <4>1. (recordHashes \union {nextId}) \subseteq Nat /\ (tracked \union {nextId}) \subseteq Nat
        BY <1>0
      <4>2. /\ recordHashes' \in {recordHashes, recordHashes \union {nextId}}
            /\ tracked' \in {tracked, tracked \union {nextId}}
            /\ covered' = covered
        OBVIOUS
      <4> QED BY <1>0, <4>1, <4>2
    <3>5. calls' \in 0 .. MaxCalls /\ undocumented' \in Nat
      OBVIOUS
    <3>6. pendingGap' = pendingGap
      OBVIOUS
    <3> QED BY <3>1, <3>2, <3>3, <3>4, <3>5, <3>6 DEF TypeEffect
  <2> QED BY <2>1, <2>2, <2>3, <2>4, <2>5
<1>9. CASE BuildCheckpoint(t)
  <2> USE <1>0, <1>1, <1>2, <1>9 DEF BuildCheckpoint, Goto, NoWrite
  <2>1. LockEffect(t)
    BY DEF LockEffect, Held, Label
  <2>2. GapEffect(t)
    BY DEF GapEffect, Held
  <2>3. LeafEffect(t)
    BY DEF LeafEffect, Payload, writerVars, memory, disk
  <2>4. SubmitEffect(t)
    BY DEF SubmitEffect, writerVars, memory, disk
  <2>5. TypeEffect(t)
    <3>1. pc' \in [AllThreads -> Label] /\ lockHolder' \in AllThreads \union {NoThread}
      BY DEF Label
    <3>2. local' \in [AllThreads -> Body] /\ leaves' \in [AllThreads -> SUBSET Nat]
      <4>1. local' = [local EXCEPT ![t] = Payload] /\ leaves' = [leaves EXCEPT ![t] = recordHashes]
        BY <1>9 DEF Payload
      <4> QED BY ONLY <1>0, <4>1
    <3>3. sinceCheckpoint' \in Nat /\ sinceWitness' \in Nat /\ gapFirst' \in Nat
      OBVIOUS
    <3>4. recordHashes' \subseteq Nat /\ tracked' \subseteq Nat /\ covered' \subseteq Nat
      OBVIOUS
    <3>5. calls' \in 0 .. MaxCalls /\ undocumented' \in Nat
      OBVIOUS
    <3>6. pendingGap' = pendingGap
      OBVIOUS
    <3> QED BY <3>1, <3>2, <3>3, <3>4, <3>5, <3>6 DEF TypeEffect
  <2> QED BY <2>1, <2>2, <2>3, <2>4, <2>5
<1>10. CASE EmitCheckpoint(t)
  <2> USE <1>0, <1>1, <1>2, <1>10 DEF EmitCheckpoint, Goto, NoWrite, AfterWrite, Wrote
  <2>1. LockEffect(t)
    BY DEF LockEffect, Held, Label
  <2>2. GapEffect(t)
    BY DEF GapEffect, Held
  <2>3. LeafEffect(t)
    BY DEF LeafEffect, Payload
  <2>4. SubmitEffect(t)
    BY DEF SubmitEffect
  <2>5. TypeEffect(t)
    BY DEF TypeEffect, Label
  <2> QED BY <2>1, <2>2, <2>3, <2>4, <2>5
<1>11. CASE ResetCheckpointCounters(t)
  <2> USE <1>0, <1>1, <1>2, <1>11 DEF ResetCheckpointCounters, Goto, NoWrite
  <2>1. LockEffect(t)
    BY DEF LockEffect, Held, Label
  <2>2. GapEffect(t)
    BY DEF GapEffect, Held
  <2>3. LeafEffect(t)
    BY DEF LeafEffect, Payload
  <2>4. SubmitEffect(t)
    BY DEF SubmitEffect
  <2>5. TypeEffect(t)
    BY DEF TypeEffect, Label
  <2> QED BY <2>1, <2>2, <2>3, <2>4, <2>5
<1>12. CASE CaptureHash(t)
  <2> USE <1>0, <1>1, <1>2, <1>12 DEF CaptureHash, Goto, NoWrite
  <2>1. LockEffect(t)
    BY DEF LockEffect, Held, Label
  <2>2. GapEffect(t)
    BY DEF GapEffect, Held
  <2>3. LeafEffect(t)
    BY DEF LeafEffect, Payload, writerVars, memory, disk
  <2>4. SubmitEffect(t)
    BY DEF SubmitEffect, writerVars, memory, disk
  <2>5. TypeEffect(t)
    BY DEF TypeEffect, Label
  <2> QED BY <2>1, <2>2, <2>3, <2>4, <2>5
<1>13. CASE CaptureSequence(t)
  <2>0. local' = [local EXCEPT ![t] = [local[t] EXCEPT ![1] = sequence]]
    BY <1>13 DEF CaptureSequence
  <2> USE <1>0, <1>1, <1>2, <1>13, <2>0 DEF CaptureSequence, Goto, NoWrite
  <2>1. LockEffect(t)
    BY DEF LockEffect, Held, Label
  <2>2. GapEffect(t)
    BY DEF GapEffect, Held
  <2>3. LeafEffect(t)
    BY DEF LeafEffect, Payload, writerVars, memory, disk
  <2>4. SubmitEffect(t)
    BY DEF SubmitEffect, writerVars, memory, disk
  <2>5. TypeEffect(t)
    <3>1. pc' \in [AllThreads -> Label] /\ lockHolder' \in AllThreads \union {NoThread}
      BY DEF Label
    <3>2. local' \in [AllThreads -> Body] /\ leaves' \in [AllThreads -> SUBSET Nat]
      OBVIOUS
    <3>3. sinceCheckpoint' \in Nat /\ sinceWitness' \in Nat /\ gapFirst' \in Nat
      OBVIOUS
    <3>4. recordHashes' \subseteq Nat /\ tracked' \subseteq Nat /\ covered' \subseteq Nat
      OBVIOUS
    <3>5. calls' \in 0 .. MaxCalls /\ undocumented' \in Nat
      OBVIOUS
    <3>6. pendingGap' = pendingGap
      OBVIOUS
    <3> QED BY <3>1, <3>2, <3>3, <3>4, <3>5, <3>6 DEF TypeEffect
  <2> QED BY <2>1, <2>2, <2>3, <2>4, <2>5
<1>14. CASE SendToEndpoint(t)
  <2>0. pc[t] = "send" /\ local' = [local EXCEPT ![t] = [local[t] EXCEPT ![3] = local[t][3] + 1]]
    BY <1>14 DEF SendToEndpoint
  <2> USE <1>0, <1>1, <1>2, <1>14, <2>0 DEF SendToEndpoint
  <2>1. LockEffect(t)
    BY DEF LockEffect, Held, Label
  <2>2. GapEffect(t)
    BY DEF GapEffect, Held
  <2>3. LeafEffect(t)
    BY DEF LeafEffect, Payload
  <2>4. SubmitEffect(t)
    BY DEF SubmitEffect
  <2>5. TypeEffect(t)
    BY DEF TypeEffect, Label
  <2> QED BY <2>1, <2>2, <2>3, <2>4, <2>5
<1>15. CASE ResetWitnessCounter(t)
  <2> USE <1>0, <1>1, <1>2, <1>15 DEF ResetWitnessCounter, Goto, NoWrite
  <2>1. LockEffect(t)
    BY DEF LockEffect, Held, Label
  <2>2. GapEffect(t)
    BY DEF GapEffect, Held
  <2>3. LeafEffect(t)
    BY DEF LeafEffect, Payload
  <2>4. SubmitEffect(t)
    BY DEF SubmitEffect
  <2>5. TypeEffect(t)
    BY DEF TypeEffect, Label
  <2> QED BY <2>1, <2>2, <2>3, <2>4, <2>5
<1>16. CASE Release(t)
  <2> USE <1>0, <1>1, <1>2, <1>16 DEF Release, Goto, NoWrite
  <2>1. LockEffect(t)
    BY DEF LockEffect, Held, Label
  <2>2. GapEffect(t)
    BY DEF GapEffect, Held
  <2>3. LeafEffect(t)
    BY DEF LeafEffect, Payload
  <2>4. SubmitEffect(t)
    BY DEF SubmitEffect
  <2>5. TypeEffect(t)
    BY DEF TypeEffect, Label
  <2> QED BY <2>1, <2>2, <2>3, <2>4, <2>5
<1>17. CASE NoteFirstLost(t)
  <2> USE <1>0, <1>1, <1>2, <1>17 DEF NoteFirstLost, Goto, NoWrite
  <2>1. LockEffect(t)
    BY DEF LockEffect, Held, Label
  <2>2. GapEffect(t)
    BY DEF GapEffect, Held
  <2>3. LeafEffect(t)
    BY DEF LeafEffect, Payload
  <2>4. SubmitEffect(t)
    BY DEF SubmitEffect
  <2>5. TypeEffect(t)
    BY DEF TypeEffect, Label
  <2> QED BY <2>1, <2>2, <2>3, <2>4, <2>5
<1>18. CASE MarkPending(t)
  <2> USE <1>0, <1>1, <1>2, <1>18 DEF MarkPending, Goto, NoWrite
  <2>1. LockEffect(t)
    BY DEF LockEffect, Held, Label
  <2>2. GapEffect(t)
    BY DEF GapEffect, Held
  <2>3. LeafEffect(t)
    BY DEF LeafEffect, Payload
  <2>4. SubmitEffect(t)
    BY DEF SubmitEffect
  <2>5. TypeEffect(t)
    BY DEF TypeEffect, Label
  <2> QED BY <2>1, <2>2, <2>3, <2>4, <2>5
<1> QED BY <1>3, <1>4, <1>5, <1>6, <1>7, <1>8, <1>9, <1>10, <1>11, <1>12, <1>13, <1>14, <1>15, <1>16, <1>17, <1>18 DEF Start, Step

(* Nothing that has happened is forgotten, and a race stays noted. *)
LEMMA StepRemembers ==
  ASSUME TypeOK, NEW t \in AllThreads, Start(t) \/ Step(t)
  PROVE  /\ met \subseteq met'
         /\ handlerRaced' \in BOOLEAN /\ checkpointRaced' \in BOOLEAN
         /\ ~handlerRaced' => ~handlerRaced /\ ~HandlerBesideHolder'
         /\ ~checkpointRaced' => ~checkpointRaced /\ ~CheckpointBesideAnything'
<1>1. met \subseteq met'
  <2>1. CASE UNCHANGED writerVars
    BY <2>1 DEF writerVars
  <2>2. CASE \E rec \in Record : WritesRecord(t, rec)
    BY <2>2 DEF WritesRecord, TypedStep
  <2> QED BY <2>1, <2>2, StepWrites
<1>2. NoteRaces
  BY DEF Start, Step
<1>3. handlerRaced \in BOOLEAN /\ checkpointRaced \in BOOLEAN
  BY DEF TypeOK
<1>4. HandlerBesideHolder' \in BOOLEAN /\ CheckpointBesideAnything' \in BOOLEAN
  BY DEF HandlerBesideHolder, CheckpointBesideAnything
<1>5. /\ handlerRaced' \in BOOLEAN
      /\ ~handlerRaced' => ~handlerRaced /\ ~HandlerBesideHolder'
  BY <1>2, <1>3, <1>4, Zenon DEF NoteRaces
<1>6. /\ checkpointRaced' \in BOOLEAN
      /\ ~checkpointRaced' => ~checkpointRaced /\ ~CheckpointBesideAnything'
  BY <1>2, <1>3, <1>4, Zenon DEF NoteRaces
<1> QED BY <1>1, <1>5, <1>6

(* The lock excludes: two threads are never past Acquire together; no      *)
(* handler runs beside one that is unless it is noted, and neither does    *)
(* anything run beside a direct checkpoint.                                *)
LEMMA Exclusive ==
  ASSUME TypeOK, Turns, NEW t \in AllThreads, NEW u \in AllThreads, pc[t] \in Held
  PROVE  /\ ~checkpointRaced /\ pc[u] \in Held => t = u
         /\ ~checkpointRaced /\ t \in Checkpointers =>
              ~pendingGap /\ (u \in Threads => pc[u] \notin {"raise", "raiseSet"})
         /\ ~handlerRaced /\ t \in Threads /\ u \in Threads => pc[u] \notin {"raise", "raiseSet"}
<1>1. /\ AllThreads = Threads \union Checkpointers /\ NoThread \notin AllThreads
      /\ Threads \intersect Checkpointers = {} /\ pc[t] # "idle"
  BY RecorderAssumption DEF AllThreads, Held
<1>2. \A v \in AllThreads : pc[v] \in Held => v \in Checkpointers \/ lockHolder = v
  BY <1>1 DEF Turns
<1>3. ASSUME ~handlerRaced, t \in Threads, u \in Threads
      PROVE  pc[u] \notin {"raise", "raiseSet"}
  BY <1>1, <1>2, <1>3 DEF Turns, HandlerBesideHolder
<1>4. ASSUME ~checkpointRaced, t \in Checkpointers
      PROVE  ~pendingGap /\ (u \in Threads => pc[u] \notin {"raise", "raiseSet"})
  BY <1>1, <1>4 DEF Turns, CheckpointBesideAnything
<1>5. ASSUME ~checkpointRaced, pc[u] \in Held, t # u
      PROVE  FALSE
  <2>1. ~CheckpointBesideAnything /\ pc[u] # "idle"
    BY <1>5 DEF Turns, Held
  <2>2. CASE t \in Checkpointers /\ u \in Checkpointers
    BY <1>1, <1>5, <2>1, <2>2 DEF CheckpointBesideAnything
  <2>3. CASE t \notin Checkpointers \/ u \notin Checkpointers
    BY <1>1, <1>2, <1>5, <2>1, <2>3 DEF CheckpointBesideAnything
  <2> QED BY <2>2, <2>3
<1> QED BY <1>3, <1>4, <1>5

-----------------------------------------------------------------------------
(* Each part of the invariant holds of the chain a constructor leaves ...  *)
LEMMA InvInit == Init => IInv
<1> SUFFICES ASSUME Init PROVE IInv
  OBVIOUS
<1> DEFINE n == IF Level >= 2 THEN 2 ELSE 1
<1>1. /\ Level \in 1 .. 3 /\ n \in 1 .. 2
      /\ file = Startup /\ Len(file) = n /\ DOMAIN file = 1 .. n
      /\ \A i \in 1 .. n : /\ file[i].type \in {"BOOT", "KEY"} /\ file[i].id = i
                           /\ file[i].seq = i /\ file[i].prev = i - 1 /\ file[i] \in Record
  <2>1. Level \in 1 .. 3 /\ file = Startup
    BY RecorderAssumption DEF Init
  <2>2. CASE Level >= 2
    <3>1. Len(<<"BOOT", "KEY">>) = 2
      OBVIOUS
    <3>2. file = [i \in 1 .. 2 |->
             [id |-> i, type |-> <<"BOOT", "KEY">>[i], seq |-> i, prev |-> i - 1, ts |-> 0,
              body |-> NoBody]]
      BY <2>1, <2>2, <3>1 DEF Startup
    <3>3. Len(file) = 2 /\ DOMAIN file = 1 .. 2 /\ n = 2
      BY <2>2, <3>2
    <3>4. \A i \in 1 .. 2 : <<"BOOT", "KEY">>[i] \in {"BOOT", "KEY"}
      OBVIOUS
    <3>5. NoBody \in Body /\ {"BOOT", "KEY"} \subseteq RecordType
      BY DEF NoBody, Body, RecordType
    <3>6. \A i \in 1 .. 2 : /\ file[i].type \in {"BOOT", "KEY"} /\ file[i].id = i
                           /\ file[i].seq = i /\ file[i].prev = i - 1 /\ file[i] \in Record
      BY <3>2, <3>4, <3>5 DEF Record
    <3> QED BY <2>1, <3>3, <3>6
  <2>3. CASE ~(Level >= 2)
    <3>1. Len(<<"BOOT">>) = 1
      OBVIOUS
    <3>2. file = [i \in 1 .. 1 |->
             [id |-> i, type |-> <<"BOOT">>[i], seq |-> i, prev |-> i - 1, ts |-> 0,
              body |-> NoBody]]
      BY <2>1, <2>3, <3>1 DEF Startup
    <3>3. Len(file) = 1 /\ DOMAIN file = 1 .. 1 /\ n = 1
      BY <2>3, <3>2
    <3>4. \A i \in 1 .. 1 : <<"BOOT">>[i] \in {"BOOT", "KEY"}
      OBVIOUS
    <3>5. NoBody \in Body /\ {"BOOT", "KEY"} \subseteq RecordType
      BY DEF NoBody, Body, RecordType
    <3>6. \A i \in 1 .. 1 : /\ file[i].type \in {"BOOT", "KEY"} /\ file[i].id = i
                           /\ file[i].seq = i /\ file[i].prev = i - 1 /\ file[i] \in Record
      BY <3>2, <3>4, <3>5 DEF Record
    <3> QED BY <2>1, <3>3, <3>6
  <2> QED BY <2>2, <2>3
<1> HIDE DEF n
<1>2. /\ sequence = n /\ prevHash = n /\ recordCount = n /\ gapCount = 0
      /\ sinceFsync = n /\ lastTs = 0 /\ bytesWritten = n /\ buffer = <<>> /\ synced = 0
      /\ nextId = n + 1 /\ acked = 1 .. n /\ raised = {} /\ met = {}
      /\ pc = [t \in AllThreads |-> "idle"] /\ lockHolder = NoThread
      /\ local = [t \in AllThreads |-> NoBody] /\ leaves = [t \in AllThreads |-> {}]
      /\ pendingGap = FALSE /\ gapFirst = 0 /\ sinceCheckpoint = n /\ sinceWitness = n
      /\ recordHashes = 1 .. n /\ calls = 0 /\ tracked = 1 .. n /\ covered = {}
      /\ undocumented = 0 /\ handlerRaced = FALSE /\ checkpointRaced = FALSE
  BY <1>1 DEF Init
<1>3. file \in Seq(Frame) /\ file # <<>>
  <2>1. \A i \in 1 .. n : file[i] \in Frame
    BY <1>1 DEF Frame
  <2>2. file = [i \in 1 .. n |-> file[i]]
    BY <1>1 DEF Startup
  <2> QED BY <1>1, <2>1, <2>2
<1>4. TypeOK
  <2>1. WriterTypeOK
    BY <1>1, <1>2, <1>3, EmptySeq DEF WriterTypeOK
  <2>2. NoBody \in Body /\ MaxCalls \in Nat
    BY RecorderAssumption DEF NoBody, Body
  <2>3. pendingGap \in BOOLEAN /\ handlerRaced \in BOOLEAN /\ checkpointRaced \in BOOLEAN
    BY <1>2
  <2>4. /\ pc \in [AllThreads -> Label] /\ local \in [AllThreads -> Body]
        /\ leaves \in [AllThreads -> SUBSET Nat]
    BY <1>2, <2>2 DEF Label
  <2> QED BY <1>1, <1>2, <2>1, <2>2, <2>3, <2>4 DEF TypeOK
<1>5. Turns
  BY <1>2, RecorderAssumption
     DEF Turns, Held, HandlerBesideHolder, CheckpointBesideAnything, AllThreads
<1>6. Chained
  <2>1. HashLinkedFrames(file) /\ LastHash(file) = n /\ LastSeq(file) = n
    BY <1>1, <1>3 DEF HashLinkedFrames, LinkOK, LastHash, LastSeq, Hash, ZeroHash
  <2>2. GapsUpTo(file, n) = {}
    BY <1>1 DEF GapsUpTo
  <2>3. Cardinality(GapsUpTo(file, n)) = 0
    BY <2>2, FS_EmptySet
  <2>4. \A k \in acked : k < nextId
    BY <1>1, <1>2
  <2>5. Counted
    BY <1>1, <1>2, <2>1, <2>3 DEF Counted
  <2> QED BY <1>2, <1>3, <2>1, <2>4, <2>5 DEF Chained
<1>7. Failures
  BY <1>2 DEF Failures, Held, AllThreads
<1>8. Continuing
  <2>1. ~Damaged(file)
    BY <1>1 DEF Damaged, Torn
  <2>2. \A i \in 1 .. n : LinkOK(file, i, FALSE) /\ SeqOK(file, i, FALSE)
    BY <1>1 DEF LinkOK, SeqOK, ExpectedSeq, Hash, ZeroHash
  <2>3. Verifies(file, FALSE)
    BY <1>1, <2>1, <2>2 DEF Verifies
  <2> QED BY <1>2, <2>3 DEF Continuing, AllThreads
<1>9. Checkpointing
  BY <1>1, <1>2 DEF Checkpointing, TrueBodies, AllThreads
<1>10. Witnessing
  BY <1>1, <1>2 DEF Witnessing, AllThreads
<1> QED BY <1>4, <1>5, <1>6, <1>7, <1>8, <1>9, <1>10 DEF IInv

(* ... and every step keeps it.  The types: *)
LEMMA StepKeepsTypes ==
  ASSUME IInv, NEW t \in AllThreads, Start(t) \/ Step(t)
  PROVE  TypeOK'
<1>0. TypeOK /\ Turns /\ WriterTypeOK
  BY DEF IInv, TypeOK
<1>1. WriterTypeOK'
  <2>1. CASE UNCHANGED writerVars
    BY <1>0, <2>1 DEF WriterTypeOK, writerVars, memory, disk
  <2>2. CASE \E rec \in Record : WritesRecord(t, rec)
    BY <1>0, <2>2, TypesKept DEF WritesRecord
  <2> QED BY <1>0, <2>1, <2>2, StepWrites
<1>2. TypeEffect(t)
  BY <1>0, StepEffects
<1>3. handlerRaced' \in BOOLEAN /\ checkpointRaced' \in BOOLEAN
  BY <1>0, StepRemembers
<1> QED BY <1>1, <1>2, <1>3, Zenon DEF TypeOK, TypeEffect

(* Who is inside: *)
LEMMA StepKeepsTurns ==
  ASSUME IInv, NEW t \in AllThreads, Start(t) \/ Step(t)
  PROVE  Turns'
<1>0. TypeOK /\ Turns
  BY DEF IInv
<1>1. LockEffect(t)
  BY <1>0, StepEffects
<1>2. /\ AllThreads = Threads \union Checkpointers /\ NoThread \notin AllThreads
      /\ Threads \intersect Checkpointers = {}
  BY RecorderAssumption DEF AllThreads
<1>3. \A u \in Threads : pc'[u] \in Held <=> lockHolder' = u
  BY <1>0, <1>1, <1>2 DEF LockEffect, Turns
<1>4. lockHolder' \notin Checkpointers
  BY <1>0, <1>1, <1>2 DEF LockEffect, Turns
<1>5. \A c \in Checkpointers : pc'[c] \in {"idle", "emit", "resetCheckpoint"}
  BY <1>0, <1>1, <1>2 DEF LockEffect, Turns
<1>6. HandlerBesideHolder' => handlerRaced'
  BY <1>0, StepRemembers, Zenon
<1>7. CheckpointBesideAnything' => checkpointRaced'
  BY <1>0, StepRemembers, Zenon
<1> QED BY <1>3, <1>4, <1>5, <1>6, <1>7 DEF Turns

(* What the step did to the chain, as long as failing writes leave no      *)
(* bytes: nothing, one record more, or a failure that changed nothing.     *)
LEMMA StepOutcome ==
  ASSUME IInv, NEW t \in AllThreads, Start(t) \/ Step(t), met' \subseteq CleanFaults
  PROVE  /\ met \subseteq CleanFaults /\ buffer = <<>> /\ file # <<>> /\ Counted
         /\ \/ UNCHANGED writerVars
            \/ \E rec \in Record :
                 /\ WritesRecord(t, rec) /\ buffer' = <<>>
                 /\ \/ Appended(rec) /\ Wrote
                    \/ Refused /\ file' = file /\ ~Wrote
<1>0. TypeOK /\ Turns /\ WriterTypeOK
  BY DEF IInv, TypeOK
<1>1. met \subseteq CleanFaults
  BY <1>0, StepRemembers
<1>2. buffer = <<>> /\ file # <<>> /\ Counted /\ (\A n \in acked : n < nextId)
  BY <1>1 DEF IInv, Chained
<1>3. ASSUME NEW rec \in Record, WritesRecord(t, rec)
      PROVE  /\ buffer' = <<>>
             /\ \/ Appended(rec) /\ Wrote
                \/ Refused /\ file' = file /\ ~Wrote
  <2>1. TypedStep(rec) /\ rec.id = nextId
    BY <1>3 DEF WritesRecord
  <2>2. buffer' = <<>> /\ (Appended(rec) \/ (Refused /\ file' = file))
    BY <1>0, <1>2, <2>1, CleanStep
  <2>3. nextId \notin acked
    BY <1>0, <1>2 DEF WriterTypeOK
  <2>4. Appended(rec) => Wrote
    BY <2>1, <2>3 DEF Appended, Wrote
  <2>5. Refused => ~Wrote
    BY DEF Refused, Wrote
  <2> QED BY <2>2, <2>4, <2>5
<1> QED BY <1>0, <1>1, <1>2, <1>3, StepWrites

(* The chain: *)
LEMMA StepKeepsChained ==
  ASSUME IInv, NEW t \in AllThreads, Start(t) \/ Step(t)
  PROVE  Chained'
<1>0. TypeOK /\ Turns /\ WriterTypeOK /\ nextId \in Nat /\ file \in Seq(Frame)
  BY DEF IInv, TypeOK, WriterTypeOK
<1>1. \A n \in acked' : n < nextId'
  <2>0. acked \subseteq Nat /\ \A n \in acked : n < nextId
    BY <1>0 DEF IInv, Chained, WriterTypeOK
  <2>1. CASE UNCHANGED writerVars
    BY <2>0, <2>1 DEF writerVars
  <2>2. ASSUME NEW rec \in Record, WritesRecord(t, rec)
        PROVE  \A n \in acked' : n < nextId'
    <3>1. TypedStep(rec) /\ rec.id = nextId
      BY <2>2 DEF WritesRecord
    <3>2. nextId' = nextId + 1
      BY <3>1 DEF TypedStep
    <3>3. acked' \subseteq acked \union {nextId}
      BY <3>1 DEF TypedStep, Commit, SerializeFails, IOFails
    <3> QED BY <1>0, <2>0, <3>2, <3>3
  <2> QED BY <1>0, <2>1, <2>2, StepWrites
<1>2. ASSUME met' \subseteq CleanFaults
      PROVE  buffer' = <<>> /\ file' # <<>> /\ Counted'
  <2>1. /\ buffer = <<>> /\ file # <<>> /\ Counted
        /\ \/ UNCHANGED writerVars
           \/ \E rec \in Record :
                /\ WritesRecord(t, rec) /\ buffer' = <<>>
                /\ \/ Appended(rec) /\ Wrote
                   \/ Refused /\ file' = file /\ ~Wrote
    BY <1>2, StepOutcome
  <2>2. CASE UNCHANGED writerVars
    BY <2>1, <2>2 DEF writerVars, memory, disk, Counted
  <2>3. ASSUME NEW rec \in Record, WritesRecord(t, rec), Appended(rec)
        PROVE  file' # <<>> /\ Counted'
    <3>1. rec.prev = prevHash /\ file' = Append(file, rec) /\ rec \in Frame
      BY <2>3 DEF WritesRecord, Appended, Frame
    <3>2. Len(file') = Len(file) + 1 /\ Len(file) \in Nat /\ Len(<<>>) = 0
      BY <1>0, <3>1, AppendFrame
    <3>3. file' # <<>>
      BY <3>2
    <3> QED BY <1>0, <2>1, <2>3, <3>1, <3>3, AppendedCounts
  <2>4. ASSUME Refused, file' = file
        PROVE  file' # <<>> /\ Counted'
    BY <2>1, <2>4 DEF Refused, Counted
  <2>5. ASSUME NEW rec \in Record, WritesRecord(t, rec), buffer' = <<>>,
               (Appended(rec) /\ Wrote) \/ (Refused /\ file' = file /\ ~Wrote)
        PROVE  buffer' = <<>> /\ file' # <<>> /\ Counted'
    BY <2>1, <2>3, <2>4, <2>5
  <2> QED BY <2>1, <2>2, <2>5
<1>3. ASSUME met' = {}
      PROVE  sequence' = LastSeq(file')
  <2>0. met' \subseteq CleanFaults
    BY <1>3
  <2>1. /\ met = {} /\ sequence = LastSeq(file)
    <3>1. met = {}
      BY <1>0, <1>3, StepRemembers
    <3> QED BY <3>1 DEF IInv, Chained
  <2>2. CASE UNCHANGED writerVars
    BY <2>1, <2>2 DEF writerVars, memory, disk
  <2>3. ASSUME NEW rec \in Record, WritesRecord(t, rec), Appended(rec)
        PROVE  sequence' = LastSeq(file')
    <3>1. sequence' = rec.seq /\ file' = Append(file, rec) /\ rec \in Frame
      BY <2>3 DEF WritesRecord, TypedStep, Appended, Frame
    <3> QED BY <1>0, <3>1, AppendFrame
  <2>4. ~Refused
    BY <1>3 DEF Refused
  <2> QED BY <2>0, <2>2, <2>3, <2>4, StepOutcome
<1> QED BY <1>1, <1>2, <1>3 DEF Chained

(* The pending gap: *)
LEMMA StepKeepsFailures ==
  ASSUME IInv, NEW t \in AllThreads, Start(t) \/ Step(t)
  PROVE  Failures'
<1> SUFFICES ASSUME ~handlerRaced'
             PROVE  /\ undocumented' > 0 => pendingGap'
                    /\ \A u \in Threads :
                         /\ pc'[u] = "unpend" => undocumented' = 0
                         /\ pc'[u] \in Held /\ pendingGap' => pc'[u] \in {"flush", "unpend"}
  BY DEF Failures
<1>0. TypeOK /\ Turns /\ undocumented \in Nat /\ Threads \subseteq AllThreads
  BY DEF IInv, TypeOK, AllThreads
<1>1. /\ ~handlerRaced
      /\ undocumented > 0 => pendingGap
      /\ \A u \in Threads :
           /\ pc[u] = "unpend" => undocumented = 0
           /\ pc[u] \in Held /\ pendingGap => pc[u] \in {"flush", "unpend"}
  <2>1. ~handlerRaced
    BY <1>0, StepRemembers
  <2> QED BY <2>1 DEF IInv, Failures
<1>2. LockEffect(t) /\ GapEffect(t)
  BY <1>0, StepEffects
<1>3. pc[t] \in {"raise", "raiseSet"} => t \in Threads
  BY <1>0 DEF Turns, AllThreads
<1>4. pc[t] \in {"raise", "raiseSet"} => \A u \in Threads : pc[u] \notin Held
  BY <1>0, <1>1, <1>3, Exclusive
<1>5. "unpend" \in Held /\ "flush" \in Held /\ "raiseSet" \notin Held /\ "raise" \notin Held
      /\ "idle" \notin Held
  BY DEF Held
<1>6. undocumented' > 0 => pendingGap'
  BY <1>0, <1>1, <1>2, <1>3 DEF GapEffect, Turns, AllThreads
<1>7. ASSUME NEW u \in Threads, pc'[u] = "unpend"
      PROVE  undocumented' = 0
  BY <1>0, <1>1, <1>2, <1>4, <1>5, <1>7 DEF GapEffect, LockEffect
<1>8. ASSUME NEW u \in Threads, pc'[u] \in Held, pendingGap'
      PROVE  pc'[u] \in {"flush", "unpend"}
  <2>1. CASE u = t
    BY <1>0, <1>1, <1>2, <1>5, <1>8, <2>1 DEF GapEffect
  <2>2. CASE u # t
    <3>1. pc'[u] = pc[u]
      BY <1>0, <1>2, <2>2 DEF LockEffect
    <3>2. pendingGap \/ pc[t] = "raiseSet"
      BY <1>2, <1>8 DEF GapEffect
    <3> QED BY <1>1, <1>4, <1>8, <3>1, <3>2
  <2> QED BY <2>1, <2>2
<1> QED BY <1>6, <1>7, <1>8

(* The numbering: *)
LEMMA StepKeepsContinuing ==
  ASSUME IInv, NEW t \in AllThreads, Start(t) \/ Step(t)
  PROVE  Continuing'
<1> SUFFICES ASSUME met' = {}, ~handlerRaced', ~checkpointRaced'
             PROVE  /\ Verifies(file', FALSE)
                    /\ pendingGap' /\ (\A u \in Threads : pc'[u] # "unpend") =>
                         gapFirst' = sequence' + 1
                    /\ (\E u \in Threads : pc'[u] = "raiseSet") => gapFirst' = sequence' + 1
  BY DEF Continuing
<1>0. /\ TypeOK /\ Turns /\ WriterTypeOK /\ Threads \subseteq AllThreads
      /\ AllThreads = Threads \union Checkpointers
      /\ sequence \in Nat /\ gapFirst \in Nat
  BY DEF IInv, TypeOK, WriterTypeOK, AllThreads
<1>1. /\ met = {} /\ ~handlerRaced /\ ~checkpointRaced
  BY <1>0, StepRemembers
<1>2. /\ Verifies(file, FALSE)
      /\ pendingGap /\ (\A u \in Threads : pc[u] # "unpend") => gapFirst = sequence + 1
      /\ (\E u \in Threads : pc[u] = "raiseSet") => gapFirst = sequence + 1
  BY <1>1 DEF IInv, Continuing
<1>3. sequence = LastSeq(file)
  BY <1>1 DEF IInv, Chained
<1>4. \A u \in Threads : pc[u] \in Held /\ pendingGap => pc[u] \in {"flush", "unpend"}
  BY <1>1 DEF IInv, Failures
<1>5. LockEffect(t) /\ GapEffect(t)
  BY <1>0, StepEffects
<1>6. /\ "unpend" \in Held /\ "flush" \in Held /\ "raiseSet" \notin Held /\ "raise" \notin Held
      /\ "write" \in Held /\ "emit" \in Held /\ "send" \in Held /\ "idle" \notin Held
  BY DEF Held
<1>7. pc[t] \in Held => \A u \in Threads : pc[u] \notin {"raise", "raiseSet"}
  BY <1>0, <1>1, Exclusive
<1>8. \A u \in Threads : pc[u] = "unpend" => pc[t] \notin {"raise", "raiseSet"} /\ (pc[t] \in Held => t = u)
  <2> SUFFICES ASSUME NEW u \in Threads, pc[u] = "unpend"
               PROVE  pc[t] \notin {"raise", "raiseSet"} /\ (pc[t] \in Held => t = u)
    OBVIOUS
  <2>1. pc[t] \in {"raise", "raiseSet"} => t \in Threads
    BY <1>0 DEF Turns
  <2> QED BY <1>0, <1>1, <1>6, <2>1, Exclusive
<1>9. CASE UNCHANGED writerVars
  <2>1. file' = file /\ sequence' = sequence /\ ~Wrote
    BY <1>9 DEF writerVars, memory, disk, Wrote
  <2>2. pc[t] \in {"raise", "raiseSet"} => t \in Threads /\ (\A u \in Threads : pc[u] # "unpend")
    BY <1>0, <1>8 DEF Turns
  <2>3. pc[t] \in Held => \A u \in Threads : u # t => pc[u] # "unpend"
    BY <1>8
  <2>4. ASSUME pendingGap', \A u \in Threads : pc'[u] # "unpend"
        PROVE  gapFirst' = sequence + 1
    BY <1>0, <1>2, <1>5, <1>6, <2>1, <2>2, <2>3, <2>4 DEF GapEffect, LockEffect
  <2>5. ASSUME NEW u \in Threads, pc'[u] = "raiseSet"
        PROVE  gapFirst' = sequence + 1
    BY <1>0, <1>2, <1>5, <1>6, <1>7, <2>1, <2>2, <2>5 DEF GapEffect, LockEffect
  <2> QED BY <1>2, <2>1, <2>4, <2>5
<1>10. ASSUME NEW rec \in Record, WritesRecord(t, rec), Appended(rec), Wrote
       PROVE  /\ Verifies(file', FALSE)
              /\ pendingGap' => \E u \in Threads : pc'[u] = "unpend"
              /\ \A u \in Threads : pc'[u] # "raiseSet"
  <2>0. Counted
    <3>1. met' \subseteq CleanFaults
      OBVIOUS
    <3> QED BY <3>1, StepOutcome
  <2>1. /\ rec.prev = prevHash /\ sequence' = rec.seq
        /\ pc[t] \in {"flush", "write", "emit", "send"}
        /\ IF pc[t] = "flush"
           THEN /\ pendingGap /\ rec.type = "GAP" /\ rec.seq = LastLost + 1
                /\ rec.body = GapBody(gapFirst, LastLost)
           ELSE rec.seq = sequence + 1 /\ rec.type # "GAP"
    BY <1>10 DEF WritesRecord, TypedStep
  <2>2. pc[t] \in Held /\ pc[t] # "unpend"
    BY <1>6, <2>1
  <2>3. \A u \in Threads : pc[u] # "unpend"
    BY <1>8, <2>2
  <2>4. WellNumbered(rec)
    <3>1. CASE pc[t] = "flush"
      <4>1. gapFirst = sequence + 1 /\ LastLost = sequence + 1
        BY <1>0, <1>2, <2>1, <2>3, <3>1 DEF LastLost
      <4> QED BY <1>0, <2>1, <3>1, <4>1 DEF WellNumbered
    <3>2. CASE pc[t] # "flush"
      BY <2>1, <3>2 DEF WellNumbered
    <3> QED BY <3>1, <3>2
  <2>5. Verifies(file', FALSE)
    BY <1>0, <1>2, <1>3, <1>10, <2>0, <2>1, <2>4, AppendedVerifies DEF Numbered
  <2>6. pc[t] # "flush" => ~pendingGap
    <3>1. CASE t \in Threads
      BY <1>4, <2>1, <2>2, <3>1
    <3>2. CASE t \in Checkpointers
      BY <1>0, <1>1, <2>2, <3>2, Exclusive
    <3> QED BY <1>0, <3>1, <3>2
  <2>7. pendingGap' => \E u \in Threads : pc'[u] = "unpend"
    <3>1. CASE pc[t] = "flush"
      <4>1. t \in Threads
        BY <1>0, <3>1 DEF Turns
      <4> QED BY <1>5, <1>10, <2>1, <3>1, <4>1 DEF GapEffect
    <3>2. CASE pc[t] # "flush"
      BY <1>5, <2>1, <2>6, <3>2 DEF GapEffect
    <3> QED BY <3>1, <3>2
  <2>8. \A u \in Threads : pc'[u] # "raiseSet"
    BY <1>0, <1>5, <1>7, <2>1, <2>2 DEF GapEffect, LockEffect
  <2> QED BY <2>5, <2>7, <2>8
<1>11. ~Refused /\ met' \subseteq CleanFaults
  BY DEF Refused
<1> QED BY <1>9, <1>10, <1>11, StepOutcome

(* A record is written, and a head moved, by a thread that is inside. *)
LEMMA WriterIsInside ==
  ASSUME IInv, NEW t \in AllThreads, Start(t) \/ Step(t), pc[t] \notin Held
  PROVE  UNCHANGED writerVars /\ Payload' = Payload /\ prevHash' = prevHash /\ file' = file
<1>1. TypeOK
  BY DEF IInv
<1>2. UNCHANGED writerVars
  <2>1. ASSUME NEW rec \in Record, WritesRecord(t, rec)
        PROVE  FALSE
    BY <2>1 DEF WritesRecord, Held
  <2> QED BY <1>1, <2>1, StepWrites
<1> QED BY <1>2 DEF writerVars, memory, disk, Payload

(* What checkpoints say: *)
LEMMA StepKeepsCheckpointing ==
  ASSUME IInv, NEW t \in AllThreads, Start(t) \/ Step(t)
  PROVE  Checkpointing'
<1> SUFFICES ASSUME ~checkpointRaced'
             PROVE  /\ tracked' \subseteq covered' \union recordHashes'
                    /\ \A u \in AllThreads :
                         /\ pc'[u] = "emit" => local'[u] = Payload' /\ leaves'[u] = recordHashes'
                         /\ pc'[u] = "resetCheckpoint" => recordHashes' \subseteq covered'
                    /\ met' \subseteq CleanFaults => TrueBodies(file')
  BY DEF Checkpointing
<1>0. TypeOK /\ Turns /\ WriterTypeOK
  BY DEF IInv, TypeOK
<1>1. ~checkpointRaced
  BY <1>0, StepRemembers
<1>2. /\ tracked \subseteq covered \union recordHashes
      /\ \A u \in AllThreads :
           /\ pc[u] = "emit" => local[u] = Payload /\ leaves[u] = recordHashes
           /\ pc[u] = "resetCheckpoint" => recordHashes \subseteq covered
      /\ met \subseteq CleanFaults => TrueBodies(file)
  BY <1>1 DEF IInv, Checkpointing
<1>3. LockEffect(t) /\ LeafEffect(t)
  BY <1>0, StepEffects
<1>4. {"flush", "write", "emit", "resetCheckpoint"} \subseteq Held
  BY DEF Held
<1>5. \A u \in AllThreads : pc[t] \in Held /\ pc[u] \in Held => t = u
  BY <1>0, <1>1, Exclusive
<1>6. tracked' \subseteq covered' \union recordHashes'
  BY <1>2, <1>3 DEF LeafEffect
<1>7. ASSUME NEW u \in AllThreads, u # t, pc'[u] \in {"emit", "resetCheckpoint"}
      PROVE  /\ pc[u] = pc'[u] /\ local'[u] = local[u] /\ leaves'[u] = leaves[u]
             /\ Payload' = Payload /\ recordHashes' = recordHashes /\ covered' = covered
  <2>1. pc[u] = pc'[u] /\ local'[u] = local[u] /\ leaves'[u] = leaves[u]
    BY <1>7, <1>3 DEF LockEffect
  <2>2. pc[t] \notin Held
    BY <1>4, <1>5, <1>7, <2>1
  <2>3. Payload' = Payload
    BY <2>2, WriterIsInside
  <2>4. recordHashes' = recordHashes /\ covered' = covered
    BY <1>3, <1>4, <2>2 DEF LeafEffect
  <2> QED BY <2>1, <2>3, <2>4
<1>8. ASSUME pc'[t] = "emit"
      PROVE  local'[t] = Payload' /\ leaves'[t] = recordHashes'
  <2>1. /\ local'[t] = Payload /\ leaves'[t] = recordHashes /\ recordHashes' = recordHashes
        /\ UNCHANGED <<recordCount, gapCount, prevHash>>
    BY <1>3, <1>8 DEF LeafEffect
  <2>2. Payload' = Payload
    BY <2>1 DEF Payload
  <2> QED BY <2>1, <2>2
<1>9. ASSUME pc'[t] = "resetCheckpoint"
      PROVE  recordHashes' \subseteq covered'
  <2>1. pc[t] = "emit" /\ recordHashes' = recordHashes /\ leaves[t] \subseteq covered'
    BY <1>3, <1>9 DEF LeafEffect
  <2> QED BY <1>2, <2>1
<1>10. ASSUME met' \subseteq CleanFaults
       PROVE  TrueBodies(file')
  <2>1. TrueBodies(file) /\ Counted
    BY <1>2, <1>10, StepOutcome
  <2>2. ASSUME NEW rec \in Record, WritesRecord(t, rec), Appended(rec)
        PROVE  TrueBodies(file')
    <3>1. rec.prev = prevHash /\ (rec.type = "CHECKPOINT" => rec.body = Payload)
      BY <1>2, <2>2 DEF WritesRecord
    <3>2. rec.type = "CHECKPOINT" => rec.body = <<recordCount + 1, gapCount, prevHash>>
      BY <3>1 DEF Payload
    <3> QED BY <1>0, <2>1, <2>2, <3>1, <3>2, AppendedTells
  <2>3. ASSUME file' = file
        PROVE  TrueBodies(file')
    BY <2>1, <2>3
  <2>4. UNCHANGED writerVars => file' = file
    BY DEF writerVars, disk
  <2> QED BY <1>10, <2>2, <2>3, <2>4, StepOutcome
<1>11. ASSUME NEW u \in AllThreads
       PROVE  /\ pc'[u] = "emit" => local'[u] = Payload' /\ leaves'[u] = recordHashes'
              /\ pc'[u] = "resetCheckpoint" => recordHashes' \subseteq covered'
  <2>1. CASE u = t
    BY <1>8, <1>9, <2>1
  <2>2. CASE u # t
    BY <1>2, <1>7, <2>2
  <2> QED BY <2>1, <2>2
<1> QED BY <1>6, <1>10, <1>11

(* A record that was there stays there when another is appended. *)
LEMMA NamesPersist ==
  ASSUME NEW fs \in Seq(Frame), NEW rec \in Frame, NEW body, NEW n \in 0 .. Len(fs),
         Names(fs, n, body)
  PROVE  Names(Append(fs, rec), n, body) /\ Names(Append(fs, rec), Len(fs) + 1, body)
<1>1. PICK j \in 1 .. n : fs[j].seq = body[1] /\ fs[j].id = body[2]
  BY DEF Names
<1>2. Len(fs) \in Nat /\ \A i \in 1 .. Len(fs) : Append(fs, rec)[i] = fs[i]
  BY AppendFrame
<1>3. j \in 1 .. Len(fs) /\ j \in 1 .. Len(fs) + 1
  BY <1>2
<1>4. Append(fs, rec)[j].seq = body[1] /\ Append(fs, rec)[j].id = body[2]
  BY <1>1, <1>2, <1>3
<1> QED BY <1>3, <1>4 DEF Names

(* What witness submissions say: *)
LEMMA StepKeepsWitnessing ==
  ASSUME IInv, NEW t \in AllThreads, Start(t) \/ Step(t)
  PROVE  Witnessing'
<1> SUFFICES ASSUME met' = {}, ~checkpointRaced'
             PROVE  /\ \A u \in Threads : pc'[u] = "witnessSeq" => local'[u][2] = prevHash'
                    /\ \A u \in Threads : pc'[u] = "send" => Names(file', Len(file'), local'[u])
                    /\ \A i \in 1 .. Len(file') :
                         file'[i].type = "WITNESS" => Names(file', i - 1, file'[i].body)
  BY DEF Witnessing
<1>0. /\ TypeOK /\ Turns /\ WriterTypeOK /\ Threads \subseteq AllThreads
      /\ file \in Seq(Frame) /\ Len(file) \in Nat
  BY LenProperties DEF IInv, TypeOK, WriterTypeOK, AllThreads
<1>1. met = {} /\ ~checkpointRaced
  BY <1>0, StepRemembers
<1>2. /\ \A u \in Threads : pc[u] = "witnessSeq" => local[u][2] = prevHash
      /\ \A u \in Threads : pc[u] = "send" => Names(file, Len(file), local[u])
      /\ \A i \in 1 .. Len(file) : file[i].type = "WITNESS" => Names(file, i - 1, file[i].body)
  BY <1>1 DEF IInv, Witnessing
<1>3. LockEffect(t) /\ SubmitEffect(t)
  BY <1>0, StepEffects
<1>4. "witnessSeq" \in Held /\ "send" \in Held
  BY DEF Held
<1>5. \A u \in AllThreads : pc[t] \in Held /\ pc[u] \in Held => t = u
  BY <1>0, <1>1, Exclusive
<1>6. \/ file' = file
      \/ \E rec \in Record : WritesRecord(t, rec) /\ file' = Append(file, rec)
  <2>1. met' \subseteq CleanFaults
    OBVIOUS
  <2>2. UNCHANGED writerVars => file' = file
    BY DEF writerVars, disk
  <2> QED BY <2>1, <2>2, StepOutcome DEF Appended
<1>7. \A body : Names(file, Len(file), body) => Names(file', Len(file'), body)
  <2>1. ASSUME NEW rec \in Record, file' = Append(file, rec), NEW body,
               Names(file, Len(file), body)
        PROVE  Names(file', Len(file'), body)
    <3>1. rec \in Frame /\ Len(file') = Len(file) + 1 /\ Len(file) \in 0 .. Len(file)
      BY <1>0, <2>1, AppendFrame DEF Frame
    <3> QED BY <1>0, <2>1, <3>1, NamesPersist
  <2> QED BY <1>6, <2>1
<1>8. ASSUME NEW u \in Threads, pc'[u] = "witnessSeq"
      PROVE  local'[u][2] = prevHash'
  <2>1. CASE u = t
    BY <1>3, <1>8, <2>1 DEF SubmitEffect
  <2>2. CASE u # t
    <3>1. pc[u] = "witnessSeq" /\ local'[u] = local[u]
      BY <1>0, <1>3, <1>8, <2>2 DEF LockEffect
    <3>2. pc[t] \notin Held
      BY <1>0, <1>4, <1>5, <2>2, <3>1
    <3> QED BY <1>2, <3>1, <3>2, WriterIsInside
  <2> QED BY <2>1, <2>2
<1>9. ASSUME NEW u \in Threads, pc'[u] = "send"
      PROVE  Names(file', Len(file'), local'[u])
  <2>1. CASE u # t
    <3>1. pc[u] = "send" /\ local'[u] = local[u]
      BY <1>0, <1>3, <1>9, <2>1 DEF LockEffect
    <3> QED BY <1>2, <1>7, <3>1
  <2>2. CASE u = t /\ pc[t] = "send"
    <3>1. local'[t][1] = local[t][1] /\ local'[t][2] = local[t][2]
      BY <1>3, <1>9, <2>2 DEF SubmitEffect
    <3>2. Names(file, Len(file), local[t])
      BY <1>2, <2>2
    <3>3. Names(file, Len(file), local'[t])
      BY <3>1, <3>2 DEF Names
    <3> QED BY <1>7, <2>2, <3>3
  <2>3. CASE u = t /\ pc[t] # "send"
    <3>1. /\ pc[t] = "witnessSeq" /\ file' = file
          /\ local'[t][1] = sequence /\ local'[t][2] = local[t][2]
      BY <1>3, <1>9, <2>3 DEF SubmitEffect
    <3>2. local'[t][2] = prevHash
      BY <1>2, <2>3, <3>1
    <3>3. file # <<>> /\ Counted /\ sequence = LastSeq(file)
      BY <1>1 DEF IInv, Chained
    <3>4. /\ Len(file) \in 1 .. Len(file)
          /\ file[Len(file)].seq = sequence /\ file[Len(file)].id = prevHash
      BY <1>0, <3>3, EmptySeq DEF Counted, LastSeq, LastHash, Hash
    <3>5. Names(file, Len(file), local'[t])
      BY <3>1, <3>2, <3>4 DEF Names
    <3> QED BY <2>3, <3>1, <3>5
  <2> QED BY <2>1, <2>2, <2>3
<1>10. ASSUME NEW i \in 1 .. Len(file'), file'[i].type = "WITNESS"
       PROVE  Names(file', i - 1, file'[i].body)
  <2>1. CASE file' = file
    BY <1>2, <1>10, <2>1
  <2>2. ASSUME NEW rec \in Record, WritesRecord(t, rec), file' = Append(file, rec)
        PROVE  Names(file', i - 1, file'[i].body)
    <3>1. /\ rec \in Frame /\ Len(file') = Len(file) + 1 /\ file'[Len(file) + 1] = rec
          /\ \A j \in 1 .. Len(file) : file'[j] = file[j]
      BY <1>0, <2>2, AppendFrame DEF Frame
    <3>2. CASE i \in 1 .. Len(file)
      <4>1. Names(file, i - 1, file[i].body) /\ file'[i] = file[i] /\ i - 1 \in 0 .. Len(file)
        BY <1>2, <1>10, <3>1, <3>2
      <4> QED BY <1>0, <2>2, <3>1, <4>1, NamesPersist
    <3>3. CASE i = Len(file) + 1
      <4>1. pc[t] = "send" /\ rec.body = <<local[t][1], local[t][2], 0>>
        BY <1>10, <2>2, <3>1, <3>3 DEF WritesRecord
      <4>2. t \in Threads
        BY <1>0, <4>1 DEF Turns, AllThreads
      <4>3. Names(file, Len(file), local[t])
        BY <1>2, <4>1, <4>2
      <4>4. Names(file, Len(file), rec.body)
        BY <4>1, <4>3 DEF Names
      <4>5. Names(file', Len(file), rec.body)
        BY <1>0, <2>2, <3>1, <4>4, NamesPersist
      <4> QED BY <1>0, <3>1, <3>3, <4>5
    <3> QED BY <1>0, <1>10, <3>1, <3>2, <3>3
  <2> QED BY <1>6, <2>1, <2>2
<1> QED BY <1>8, <1>9, <1>10

(* Together they are inductive. *)
LEMMA InvNext == IInv /\ [Next]_vars => IInv'
<1> SUFFICES ASSUME IInv, [Next]_vars PROVE IInv'
  OBVIOUS
<1>1. ASSUME NEW t \in AllThreads, Start(t) \/ Step(t)
      PROVE  IInv'
  BY <1>1, StepKeepsTypes, StepKeepsTurns, StepKeepsChained, StepKeepsFailures,
     StepKeepsContinuing, StepKeepsCheckpointing, StepKeepsWitnessing DEF IInv
<1>2. CASE UNCHANGED vars
  <2> USE <1>2 DEF vars, writerVars, memory, disk, recorderVars, raceVars
  <2>1. TypeOK'
    BY DEF IInv, TypeOK, WriterTypeOK
  <2>2. Turns'
    BY DEF IInv, Turns, HandlerBesideHolder, CheckpointBesideAnything
  <2>3. Chained'
    BY DEF IInv, Chained, Counted
  <2>4. Failures' /\ Continuing'
    BY DEF IInv, Failures, Continuing
  <2>5. Checkpointing' /\ Witnessing'
    BY DEF IInv, Checkpointing, Payload, Witnessing
  <2> QED BY <2>1, <2>2, <2>3, <2>4, <2>5 DEF IInv
<1> QED BY <1>1, <1>2 DEF Next

-----------------------------------------------------------------------------
(* The checked properties follow.                                          *)
LEMMA InvImplied == IInv => ChainUnderThreads /\ CheckpointsTruthful /\ FailureRemembered
<1> SUFFICES ASSUME IInv
             PROVE  ChainUnderThreads /\ CheckpointsTruthful /\ FailureRemembered
  OBVIOUS
<1>1. LinkedUnderThreads
  BY DEF IInv, Chained, Counted, LinkedUnderThreads
<1>2. VerifiesUnderThreads
  BY DEF IInv, Continuing, VerifiesUnderThreads
<1>3. CheckpointUnderLock
  <2> SUFFICES ASSUME ~checkpointRaced, met \subseteq CleanFaults,
                      NEW i \in 1 .. Len(file), file[i].type = "CHECKPOINT"
               PROVE  /\ file[i].body[1] = i
                      /\ file[i].body[2] = Cardinality({j \in 1 .. i : file[j].type = "GAP"})
                      /\ file[i].body[3] = file[i].prev
    BY DEF CheckpointUnderLock, CheckpointTruth
  <2>1. file[i].body = <<i, Cardinality(GapsUpTo(file, i)), file[i].prev>>
    BY DEF IInv, Checkpointing, TrueBodies
  <2> QED BY <2>1 DEF GapsUpTo
<1>4. MerkleCoverage
  BY DEF IInv, Checkpointing, MerkleCoverage
<1>5. WitnessNamesOneRecord
  BY DEF IInv, Witnessing, Names, WitnessNamesOneRecord
<1>6. FailureRemembered
  BY DEF IInv, Failures, FailureRemembered
<1> QED BY <1>1, <1>2, <1>3, <1>4, <1>5, <1>6
        DEF IInv, ChainUnderThreads, CheckpointsTruthful

(* Any number of threads on one recorder keep one chain: linked as long as *)
(* failing writes leave no bytes, and passing verify_chain until a write   *)
(* fails or somebody runs without the lock (recorder.py:243, :439).        *)
THEOREM ThreadsKeepOneChain == Spec => []ChainUnderThreads
BY InvInit, InvNext, InvImplied, PTL DEF Spec

(* What a checkpoint and a witness submission say of the chain is true:    *)
(* counts and head, the leaves under the root, the record that was         *)
(* witnessed (_base_recorder.py:265).                                      *)
THEOREM CheckpointsTellTheTruth == Spec => []CheckpointsTruthful
BY InvInit, InvNext, InvImplied, PTL DEF Spec

(* A failed call leaves a pending gap until a GapRecord documents it,      *)
(* unless its handler ran beside a lock holder (recorder.py:442).          *)
THEOREM FailuresLeaveAGap == Spec => []FailureRemembered
BY InvInit, InvNext, InvImplied, PTL DEF Spec

-----------------------------------------------------------------------------
(* Restart: the inductive invariant.                                       *)

Working == {"boot", "key", "recovery", "gap", "up"}

(* Without a header there is no record, and a new header is written only   *)
(* to an empty file, by a writer that starts from nothing.                 *)
FileInv ==
  /\ header = "absent" => file = <<>> /\ life \in {"down", "opening"}
  /\ header = "absent" /\ life = "opening" => result = None
  /\ life = "header" => header = "short" /\ file = <<>> /\ prevHash = ZeroHash /\ sequence = 0

(* What recovery has read, and then the head of the writer, is the end of  *)
(* an undamaged file.                                                      *)
HeadInv ==
  met \subseteq CleanFaults =>
    /\ buffer = <<>>
    /\ "recovery" \notin struck /\ header = "ok" =>
         /\ life = "opening" => ~Damaged(file) /\ result.lastHash = LastHash(file)
         /\ life \in Working => ~Damaged(file) /\ prevHash = LastHash(file)

(* With no frame torn there is nothing to truncate, and the next record    *)
(* has the next number.                                                    *)
VerifyingInv ==
  met = {} /\ struck \subseteq {"kill", "power"} =>
    /\ header = "ok" => Verifies(file, FALSE)
    /\ life # "down" => result.truncated = 0
    /\ life \notin {"recovery", "gap"}
    /\ header = "ok" /\ life = "opening" => result.lastSeq = LastSeq(file)
    /\ header = "ok" /\ life \in Working => sequence = LastSeq(file)

RestartIInv == RestartTypeOK /\ FileInv /\ HeadInv /\ VerifyingInv

(* What the refinement needs when a write may tear a frame, and recovery   *)
(* may fail: behind a whole file the head is its end, or a BOOT record     *)
(* starts the chain over.                                                  *)
LogFaults ==
  /\ Faults \subseteq CleanFaults \union {"torn"}
  /\ "invalid" \in Faults => ~RecoveryCanFail

JoinInv ==
  /\ buffer = <<>>
  /\ header = "ok" /\ ~Damaged(file) =>
       /\ life = "opening" => \/ result.lastHash = LastHash(file)
                              \/ RecoveryCanFail /\ result.lastHash = ZeroHash
       /\ life \in Working => \/ prevHash = LastHash(file)
                              \/ RecoveryCanFail /\ life = "boot" /\ prevHash = ZeroHash

-----------------------------------------------------------------------------
(* What the steps have in common.                                          *)

Writes ==
  EmitBootRecord \/ EmitKeyGenesisRecord \/ EmitRecovery \/ EmitRecoveryGap \/ RecordWhileUp

(* Every write appends after the head, and only the gap over truncated     *)
(* records moves the numbers elsewhere.                                    *)
LEMMA WritesAreTyped ==
  ASSUME RestartTypeOK, Writes
  PROVE  \E rec \in Record :
           /\ TypedStep(rec) /\ rec.prev = prevHash
           /\ life = "boot" => rec.type = "BOOT" \/ "invalid" \in met'
           /\ life # "gap" => rec.seq = sequence + 1 /\ (rec.type # "GAP" \/ met' # {})
<1>0. WriterTypeOK /\ NoBody \in Body
  BY DEF RestartTypeOK, Body, NoBody
<1>1. CASE EmitBootRecord
  <2>1. life = "boot" /\ WriteRecord("BOOT", NoBody)
    BY <1>1 DEF EmitBootRecord, StartupWrite
  <2> QED BY <1>0, <2>1, WriteIsTyped DEF RecordType
<1>2. CASE EmitKeyGenesisRecord
  <2>1. life = "key" /\ WriteRecord("KEY", NoBody)
    BY <1>2 DEF EmitKeyGenesisRecord, StartupWrite
  <2> QED BY <1>0, <2>1, WriteIsTyped DEF RecordType
<1>3. CASE EmitRecovery
  <2> DEFINE body == <<result.verified, result.truncated, result.lastSeq>>
  <2>1. life = "recovery" /\ WriteRecord("RECOVERY", body) /\ body \in Body
    BY <1>3, RestartAssumption DEF EmitRecovery, WriteRecovery, StartupWrite, RestartTypeOK, Body
  <2> HIDE DEF body
  <2> QED BY <1>0, <2>1, WriteIsTyped DEF RecordType
<1>4. CASE EmitRecoveryGap
  <2> DEFINE first == result.lastSeq + 1
             last  == result.lastSeq + result.truncated
  <2>1. life = "gap" /\ WriteGap(first, last)
    BY <1>4 DEF EmitRecoveryGap, StartupWrite
  <2>2. first \in Nat /\ last \in Nat /\ first <= last + 1
    BY RestartAssumption DEF RestartTypeOK
  <2> HIDE DEF first, last
  <2> QED BY <1>0, <2>1, <2>2, GapIsTyped
<1>5. CASE RecordWhileUp
  <2>1. life = "up" /\ (WriteRecord("ACTION", NoBody) \/ WriteUnsignedCheckpoint)
    BY <1>5 DEF RecordWhileUp
  <2>2. CASE WriteRecord("ACTION", NoBody)
    BY <1>0, <2>1, <2>2, WriteIsTyped DEF RecordType
  <2>3. CASE WriteUnsignedCheckpoint
    <3> DEFINE body == <<recordCount + 1, gapCount, prevHash>>
    <3>1. WriteRecord("CHECKPOINT", body) /\ body \in Body
      BY <1>0, <2>3 DEF WriteUnsignedCheckpoint, Body, WriterTypeOK
    <3> HIDE DEF body
    <3> QED BY <1>0, <2>1, <3>1, WriteIsTyped DEF RecordType
  <2> QED BY <2>1, <2>2, <2>3
<1> QED BY <1>1, <1>2, <1>3, <1>4, <1>5 DEF Writes

(* A startup write that returns leads to the next stage, one that raises   *)
(* ends the startup; truncated records alone lead to the recovery records. *)
LEMMA WritesGoOn ==
  ASSUME Writes
  PROVE  /\ header' = header /\ result' = result /\ crashes' = crashes /\ struck' = struck
         /\ life \in Working /\ life' \in (Working \ {"boot"}) \union {"failed"}
         /\ life' \in {"recovery", "gap"} => life = "recovery" \/ result.truncated > 0
         /\ acked' = acked => life' = "failed" \/ life = "up"
<1> USE DEF Working, AfterBoot, AfterKey, StartupWrite
<1>1. CASE EmitBootRecord
  BY <1>1 DEF EmitBootRecord
<1>2. CASE EmitKeyGenesisRecord
  BY <1>2 DEF EmitKeyGenesisRecord
<1>3. CASE EmitRecovery
  BY <1>3 DEF EmitRecovery
<1>4. CASE EmitRecoveryGap
  BY <1>4 DEF EmitRecoveryGap
<1>5. CASE RecordWhileUp
  BY <1>5 DEF RecordWhileUp
<1> QED BY <1>1, <1>2, <1>3, <1>4, <1>5 DEF Writes

(* What a scan reports, and what recovery leaves: the readable records,    *)
(* and of the durable ones no fewer.                                       *)
LEMMA RecoveryReads ==
  ASSUME RestartTypeOK, NEW est \in 1 .. MaxEstimate, RecoverChain(est)
  PROVE  /\ file' \in Seq(Frame) /\ synced' \in 0 .. Len(file')
         /\ result' \in [verified: Nat, truncated: 0 .. MaxEstimate, lastSeq: Nat, lastHash: Nat]
         /\ header = "ok" => /\ file' = Readable(file) /\ ~Damaged(file')
                             /\ result'.lastHash = LastHash(file')
                             /\ result'.lastSeq = LastSeq(file')
                             /\ ~Damaged(file) => result'.truncated = 0
                             /\ \/ synced' = synced
                                \/ synced' = Len(file') /\ synced' < synced
         /\ header # "ok" => file' = file /\ synced' = synced /\ result' = None
<1> DEFINE good == Readable(file)
<1>1. /\ file \in Seq(Frame) /\ Len(file) \in Nat /\ synced \in 0 .. Len(file)
      /\ MaxEstimate \in Nat \ {0}
  BY LenProperties, RestartAssumption DEF RestartTypeOK, WriterTypeOK
<1>2. /\ good \in Seq(Frame) /\ Len(good) \in 0 .. Len(file)
      /\ ~Damaged(file) => good = file
      /\ ~Damaged(good)
      /\ LastHash(good) \in Nat /\ LastSeq(good) \in Nat
  BY <1>1, ReadableType, ReadableLenType, ReadableIsWhole, LastType
<1>3. /\ result' = ScanChain(est)
      /\ file' = IF result'.truncated > 0 THEN good ELSE file
      /\ synced' = IF synced > Len(file') THEN Len(file') ELSE synced
  BY DEF RecoverChain
<1> HIDE DEF good
<1>4. CASE header = "ok"
  <2>1. result' = [verified  |-> Len(good),
                   truncated |-> IF Len(good) < Len(file) THEN est ELSE 0,
                   lastSeq   |-> LastSeq(good),
                   lastHash  |-> LastHash(good)]
    BY <1>3, <1>4 DEF ScanChain, good
  <2>2. result' \in [verified: Nat, truncated: 0 .. MaxEstimate, lastSeq: Nat, lastHash: Nat]
    BY <1>1, <1>2, <2>1
  <2>3. /\ result'.truncated > 0 <=> Len(good) < Len(file)
        /\ result'.lastHash = LastHash(good) /\ result'.lastSeq = LastSeq(good)
    BY <1>1, <1>2, <2>1
  <2>4. Len(good) = Len(file) => good = file
    <3>1. ASSUME Len(good) = Len(file) PROVE SubSeq(file, 1, Len(good)) = file
      BY <3>1, <1>1, SMT
    <3>2. good = SubSeq(file, 1, Len(good))
      BY <1>1, ReadableType DEF good, Readable
    <3> QED BY <3>1, <3>2
  <2>5. file' = good
    BY <1>1, <1>2, <1>3, <2>3, <2>4
  <2>6. ~Damaged(file) => result'.truncated = 0
    BY <1>2, <2>1
  <2>7. \/ synced' = synced /\ synced <= Len(good)
        \/ synced' = Len(good) /\ synced' < synced
    BY <1>1, <1>2, <1>3, <2>5
  <2> QED BY <1>1, <1>2, <1>4, <2>2, <2>3, <2>5, <2>6, <2>7 DEF good
<1>5. CASE header # "ok"
  <2>1. result' = None /\ None.truncated = 0
    BY <1>3, <1>5 DEF ScanChain, None
  <2>2. file' = file /\ synced' = synced
    BY <1>1, <1>3, <2>1
  <2>3. None \in [verified: Nat, truncated: 0 .. MaxEstimate, lastSeq: Nat, lastHash: Nat]
    BY <1>1 DEF None, ZeroHash
  <2> QED BY <1>1, <1>5, <2>1, <2>2, <2>3
<1> QED BY <1>4, <1>5

(* What a crash leaves in the file: no fewer frames than are durable, with *)
(* a torn one behind them or not.                                          *)
CrashKeeps(n, tail) ==
  /\ n \in 0 .. Len(file) /\ synced <= n
  /\ tail = <<>> \/ tail = <<Torn>>
  /\ file' = SubSeq(file, 1, n) \o tail
  /\ tail # <<>> => "tear" \in struck' /\ (header = "ok" \/ n < Len(file))

(* A crash does so, and touches the header only when no frame is left. *)
LEMMA CrashFile ==
  ASSUME RestartTypeOK, Crash
  PROVE  /\ \E n, tail : CrashKeeps(n, tail)
         /\ header' = header \/ (file' = <<>> /\ header' \in {"absent", "short"})
         /\ life' = "down" /\ struck \subseteq struck' /\ struck' \subseteq Strikes
         /\ crashes' = crashes + 1 /\ crashes' \in 0 .. MaxCrashes
         /\ buffer' = <<>> /\ synced' = synced /\ met' = met /\ result' = result
<1>1. file \in Seq(Frame) /\ Len(file) \in Nat /\ synced \in 0 .. Len(file) /\ Torn \in Frame
  BY LenProperties DEF RestartTypeOK, WriterTypeOK, Frame
<1>2. /\ life' = "down" /\ crashes' = crashes + 1 /\ crashes < MaxCrashes
      /\ buffer' = <<>> /\ synced' = synced /\ met' = met /\ result' = result
  BY DEF Crash
<1>3. crashes' \in 0 .. MaxCrashes
  BY <1>2, RestartAssumption DEF RestartTypeOK
<1>4. SubSeq(file, 1, Len(file)) = file
  BY <1>1, SMT
<1>5. CASE "kill" \in CrashKinds /\ struck' = struck \union {"kill"} /\ UNCHANGED <<file, header>>
  <2>1. CrashKeeps(Len(file), <<>>)
    BY <1>1, <1>4, <1>5, AppendOne DEF CrashKeeps
  <2>2. struck' \subseteq Strikes /\ struck \subseteq struck'
    BY <1>5 DEF RestartTypeOK, Strikes
  <2> QED BY <1>2, <1>3, <1>5, <2>1, <2>2
<1>6. CASE /\ "tear" \in CrashKinds /\ struck' = struck \union {"tear"}
           /\ header = "ok" /\ file' = Append(file, Torn) /\ UNCHANGED header
  <2>1. CrashKeeps(Len(file), <<Torn>>)
    BY <1>1, <1>4, <1>6, AppendOne DEF CrashKeeps
  <2>2. struck' \subseteq Strikes /\ struck \subseteq struck'
    BY <1>6 DEF RestartTypeOK, Strikes
  <2> QED BY <1>2, <1>3, <1>6, <2>1, <2>2
<1>7. CASE /\ "power" \in CrashKinds
           /\ \E n \in synced .. Len(file), tail \in {<<>>, <<Torn>>} :
                /\ tail # <<>> => "tear" \in CrashKinds /\ n < Len(file)
                /\ file' = SubSeq(file, 1, n) \o tail
                /\ struck' = struck \union (IF tail = <<>> THEN {"power"} ELSE {"power", "tear"})
           /\ header' \in (IF file' = <<>> THEN {"absent", "short", header} ELSE {header})
  <2>1. PICK n \in synced .. Len(file), tail \in {<<>>, <<Torn>>} :
          /\ tail # <<>> => "tear" \in CrashKinds /\ n < Len(file)
          /\ file' = SubSeq(file, 1, n) \o tail
          /\ struck' = struck \union (IF tail = <<>> THEN {"power"} ELSE {"power", "tear"})
    BY <1>7
  <2>2. n \in 0 .. Len(file) /\ synced <= n
    BY <1>1, <2>1
  <2>3. CrashKeeps(n, tail)
    BY <2>1, <2>2 DEF CrashKeeps
  <2>4. struck' \subseteq Strikes /\ struck \subseteq struck'
    BY <1>7, <2>1 DEF RestartTypeOK, Strikes
  <2>5. header' = header \/ (file' = <<>> /\ header' \in {"absent", "short"})
    BY <1>7
  <2> QED BY <1>2, <1>3, <2>3, <2>4, <2>5
<1> QED BY <1>5, <1>6, <1>7 DEF Crash

(* The file keeps its type, and its durable frames. *)
LEMMA CrashKeepsDurable ==
  ASSUME RestartTypeOK, NEW n, NEW tail, CrashKeeps(n, tail)
  PROVE  /\ file' \in Seq(Frame) /\ Len(file') \in Nat /\ synced <= Len(file')
         /\ tail = <<>> => file' = SubSeq(file, 1, n)
         /\ tail # <<>> => file' = Append(SubSeq(file, 1, n), Torn)
         /\ file' = <<>> => n = 0
<1>1. /\ file \in Seq(Frame) /\ n \in 0 .. Len(file) /\ synced <= n /\ Torn \in Frame
      /\ synced \in Nat /\ n \in Nat
  BY LenProperties DEF RestartTypeOK, WriterTypeOK, Frame, CrashKeeps
<1>2. SubSeq(file, 1, n) \in Seq(Frame) /\ Len(SubSeq(file, 1, n)) = n
  BY <1>1, FirstFrames
<1>3. CASE tail = <<>>
  <2>1. file' = SubSeq(file, 1, n)
    BY <1>1, <1>2, <1>3, AppendOne DEF CrashKeeps
  <2> QED BY <1>1, <1>2, <1>3, <2>1
<1>4. CASE tail = <<Torn>>
  <2>1. file' = Append(SubSeq(file, 1, n), Torn) /\ tail # <<>>
    BY <1>1, <1>2, <1>4, AppendOne DEF CrashKeeps
  <2>2. file' \in Seq(Frame) /\ Len(file') = n + 1
    BY <1>1, <1>2, <2>1, AppendFrame
  <2>3. file' # <<>>
    BY <1>1, <2>2
  <2> QED BY <1>1, <2>1, <2>2, <2>3
<1> QED BY <1>3, <1>4 DEF CrashKeeps

-----------------------------------------------------------------------------
(* The type invariant.                                                     *)

(* The type invariant holds initially. *)
LEMMA RestartTypeInit == RestartInit => RestartTypeOK
<1> SUFFICES ASSUME RestartInit PROVE RestartTypeOK
  OBVIOUS
<1>1. WriterTypeOK
  BY TypeInit DEF RestartInit
<1>2. None \in [verified: Nat, truncated: 0 .. MaxEstimate, lastSeq: Nat, lastHash: Nat]
  BY RestartAssumption DEF None, ZeroHash
<1>3. crashes \in 0 .. MaxCrashes
  BY RestartAssumption DEF RestartInit
<1> QED BY <1>1, <1>2, <1>3 DEF RestartInit, RestartTypeOK, Stage, Strikes

(* No step breaks it. *)
LEMMA RestartTypeNext == RestartTypeOK /\ [RestartNext]_restartVars => RestartTypeOK'
<1> SUFFICES ASSUME RestartTypeOK, [RestartNext]_restartVars PROVE RestartTypeOK'
  OBVIOUS
<1>0. /\ WriterTypeOK /\ file \in Seq(Frame) /\ Len(file) \in Nat /\ <<>> \in Seq(Record)
      /\ None \in [verified: Nat, truncated: 0 .. MaxEstimate, lastSeq: Nat, lastHash: Nat]
  BY LenProperties, EmptySeq, RestartAssumption DEF RestartTypeOK, WriterTypeOK, None, ZeroHash
<1>1. CASE UNCHANGED restartVars
  BY <1>1 DEF RestartTypeOK, WriterTypeOK, restartVars, writerVars, memory, disk
<1>2. CASE StartUp
  <2>1. /\ life' = "opening" /\ header' = header /\ crashes' = crashes
        /\ UNCHANGED <<sequence, prevHash, recordCount, gapCount, sinceFsync, lastTs>>
        /\ UNCHANGED <<bytesWritten, buffer, nextId, acked, raised, met>>
    BY <1>2 DEF StartUp, memory
  <2>2. /\ file' \in Seq(Frame) /\ synced' \in 0 .. Len(file')
        /\ result' \in [verified: Nat, truncated: 0 .. MaxEstimate, lastSeq: Nat, lastHash: Nat]
        /\ struck' \subseteq Strikes
    <3>1. CASE \E est \in 1 .. MaxEstimate : RecoverChain(est)  /\ struck' = struck
      <4>1. PICK est \in 1 .. MaxEstimate : RecoverChain(est) /\ struck' = struck
        BY <3>1
      <4> QED BY <4>1, RecoveryReads DEF RestartTypeOK
    <3>2. CASE result' = None /\ file' = file /\ synced' = synced /\ struck' = struck
      BY <1>0, <3>2 DEF RestartTypeOK, WriterTypeOK
    <3>3. CASE /\ RecoveryCanFail /\ result' = None /\ file' = file /\ synced' = synced
               /\ struck' = struck \union {"recovery"}
      BY <1>0, <3>3 DEF RestartTypeOK, WriterTypeOK, Strikes
    <3> QED BY <1>2, <3>1, <3>2, <3>3 DEF StartUp
  <2>3. WriterTypeOK'
    BY <1>0, <2>1, <2>2 DEF WriterTypeOK
  <2> QED BY <2>1, <2>2, <2>3 DEF RestartTypeOK, Stage
<1>3. CASE Open
  <2>1. /\ sequence' = result.lastSeq /\ prevHash' = result.lastHash
        /\ recordCount' = 0 /\ gapCount' = 0 /\ sinceFsync' = 0 /\ lastTs' = 0
        /\ bytesWritten' = Len(file)
        /\ UNCHANGED <<buffer, file, synced, nextId, acked, raised, met>>
        /\ UNCHANGED <<result, crashes, struck>>
        /\ life' \in Stage /\ header' \in {header, "short"}
    BY <1>3 DEF Open, disk, Stage
  <2>2. WriterTypeOK'
    BY <1>0, <2>1 DEF WriterTypeOK, RestartTypeOK
  <2> QED BY <2>1, <2>2 DEF RestartTypeOK
<1>4. CASE WriteHeader
  <2>1. WriterTypeOK'
    BY <1>0, <1>4 DEF WriteHeader, WriterTypeOK, writerVars, memory, disk
  <2> QED BY <1>4, <2>1 DEF WriteHeader, RestartTypeOK, Stage
<1>5. CASE Writes
  <2>1. WriterTypeOK'
    BY <1>0, <1>5, WritesAreTyped, TypesKept
  <2> QED BY <1>5, <2>1, WritesGoOn DEF RestartTypeOK, Working, Stage
<1>6. CASE CloseRecorder
  <2>1. /\ life' = "down" /\ buffer' = <<>> /\ (file' = file \o buffer \/ file' = file)
        /\ UNCHANGED <<sequence, prevHash, recordCount, gapCount, sinceFsync, lastTs>>
        /\ UNCHANGED <<bytesWritten, synced, nextId, acked, raised, met>>
        /\ UNCHANGED <<header, result, crashes, struck>>
    BY <1>6 DEF CloseRecorder, memory
  <2>2. file' \in Seq(Frame) /\ synced' \in 0 .. Len(file')
    <3>1. buffer \in Seq(Frame) /\ Len(buffer) \in Nat
      BY <1>0, FramesType, LenProperties
    <3>2. file \o buffer \in Seq(Frame) /\ Len(file \o buffer) = Len(file) + Len(buffer)
      BY <1>0, <3>1, ConcatProperties
    <3>3. CASE file' = file
      BY <1>0, <2>1, <3>3 DEF WriterTypeOK
    <3>4. CASE file' = file \o buffer
      <4>1. file' \in Seq(Frame) /\ Len(file') = Len(file) + Len(buffer)
        BY <3>2, <3>4
      <4> QED BY <1>0, <2>1, <3>1, <4>1 DEF WriterTypeOK
    <3> QED BY <2>1, <3>3, <3>4
  <2>3. WriterTypeOK'
    BY <1>0, <2>1, <2>2 DEF WriterTypeOK
  <2> QED BY <2>1, <2>3 DEF RestartTypeOK, Stage
<1>7. CASE Crash
  <2>1. PICK n, tail : CrashKeeps(n, tail)
    BY <1>7, CrashFile
  <2>2. file' \in Seq(Frame) /\ synced' \in 0 .. Len(file')
    BY <1>0, <1>7, <2>1, CrashFile, CrashKeepsDurable DEF WriterTypeOK
  <2>3. /\ buffer' = <<>> /\ met' = met /\ result' = result /\ life' = "down"
        /\ crashes' \in 0 .. MaxCrashes /\ struck' \subseteq Strikes
        /\ header' \in {header, "absent", "short"}
    BY <1>7, CrashFile
  <2>4. /\ UNCHANGED <<sequence, prevHash, recordCount, gapCount, sinceFsync, lastTs>>
        /\ UNCHANGED <<bytesWritten, nextId, acked, raised>>
    BY <1>7 DEF Crash, memory
  <2>5. WriterTypeOK'
    BY <1>0, <2>2, <2>3, <2>4 DEF WriterTypeOK
  <2> QED BY <2>3, <2>5 DEF RestartTypeOK, Stage
<1> QED BY <1>1, <1>2, <1>3, <1>4, <1>5, <1>6, <1>7 DEF RestartNext, Writes

-----------------------------------------------------------------------------
(* The file, the head and the chain.                                       *)

(* All parts hold initially. *)
LEMMA RestartInvInit == RestartInit => RestartIInv
<1> SUFFICES ASSUME RestartInit PROVE RestartIInv
  OBVIOUS
<1>1. /\ life = "down" /\ header = "absent" /\ file = <<>> /\ buffer = <<>>
      /\ life \notin Working
  BY DEF RestartInit, WriterInit, Working
<1>2. FileInv /\ HeadInv /\ VerifyingInv
  BY <1>1 DEF FileInv, HeadInv, VerifyingInv
<1> QED BY <1>2, RestartTypeInit DEF RestartIInv

(* How startup begins: with what recovery reports, or with nothing. *)
LEMMA StartReads ==
  ASSUME RestartTypeOK, StartUp
  PROVE  /\ life = "down" /\ life' = "opening" /\ header' = header /\ crashes' = crashes
         /\ buffer' = buffer /\ met' = met
         /\ prevHash' = prevHash /\ sequence' = sequence
         /\ \/ /\ header = "absent" /\ result' = None
               /\ file' = file /\ synced' = synced /\ struck' = struck
            \/ /\ header # "absent" /\ struck' = struck
               /\ \E est \in 1 .. MaxEstimate : RecoverChain(est)
            \/ /\ header # "absent" /\ RecoveryCanFail /\ result' = None
               /\ file' = file /\ synced' = synced /\ struck' = struck \union {"recovery"}
BY DEF StartUp, memory

(* A writer opened on a file with a header starts where the result says;   *)
(* without the file it makes one.                                          *)
LEMMA OpenStarts ==
  ASSUME Open
  PROVE  /\ life = "opening" /\ sequence' = result.lastSeq /\ prevHash' = result.lastHash
         /\ buffer' = buffer /\ file' = file /\ synced' = synced /\ met' = met
         /\ result' = result /\ crashes' = crashes /\ struck' = struck
         /\ \/ header = "absent" /\ header' = "short" /\ life' = "header"
            \/ header # "absent" /\ header' = header /\ life' = "boot"
BY DEF Open, disk

(* Closing may complete a frame a failed flush left behind. *)
LEMMA CloseLeaves ==
  ASSUME RestartTypeOK, CloseRecorder
  PROVE  /\ life \in {"up", "failed"} /\ life' = "down"
         /\ buffer' = <<>> /\ (buffer = <<>> => file' = file)
         /\ synced' = synced /\ met' = met /\ header' = header
         /\ result' = result /\ crashes' = crashes /\ struck' = struck
<1>1. file \o <<>> = file
  BY AppendOne DEF RestartTypeOK, WriterTypeOK, Frame
<1> QED BY <1>1 DEF CloseRecorder

(* The header is made for an empty file, by a writer that starts from      *)
(* nothing, and only a crash that takes every frame loses it.              *)
LEMMA FileNext == RestartIInv /\ [RestartNext]_restartVars => FileInv'
<1> SUFFICES ASSUME RestartIInv, [RestartNext]_restartVars PROVE FileInv'
  OBVIOUS
<1>0. RestartTypeOK /\ FileInv
  BY DEF RestartIInv
<1>1. CASE UNCHANGED restartVars
  BY <1>0, <1>1 DEF FileInv, restartVars, writerVars, memory, disk
<1>2. CASE StartUp
  <2>1. /\ life' = "opening" /\ header' = header
        /\ header = "absent" => file' = file /\ result' = None
    BY <1>0, <1>2, StartReads
  <2> QED BY <1>0, <2>1 DEF FileInv
<1>3. CASE Open
  BY <1>0, <1>3, OpenStarts DEF FileInv, None
<1>4. CASE WriteHeader
  BY <1>4 DEF WriteHeader, FileInv
<1>5. CASE Writes
  <2>1. header' = header /\ life \in Working /\ life' \in Working \union {"failed"}
    BY <1>5, WritesGoOn
  <2> QED BY <1>0, <2>1 DEF FileInv, Working
<1>6. CASE CloseRecorder
  <2>1. header' = header /\ life \in {"up", "failed"} /\ life' = "down"
    BY <1>0, <1>6, CloseLeaves
  <2> QED BY <1>0, <2>1 DEF FileInv
<1>7. CASE Crash
  <2>1. /\ life' = "down"
        /\ header' = header \/ (file' = <<>> /\ header' \in {"absent", "short"})
    BY <1>0, <1>7, CrashFile
  <2>2. ASSUME header = "absent" PROVE file' = <<>>
    <3>1. file = <<>> /\ Len(file) = 0
      BY <1>0, <2>2 DEF FileInv
    <3>2. PICK n, tail : CrashKeeps(n, tail)
      BY <1>0, <1>7, CrashFile
    <3>3. n = 0 /\ tail = <<>> /\ file \in Seq(Frame) /\ n \in 0 .. Len(file)
      BY <1>0, <2>2, <3>1, <3>2 DEF CrashKeeps, RestartTypeOK, WriterTypeOK
    <3>4. SubSeq(file, 1, n) \in Seq(Frame) /\ Len(SubSeq(file, 1, n)) = 0
      BY <3>3, FirstFrames
    <3>5. file' = SubSeq(file, 1, n)
      BY <1>0, <3>2, <3>3, CrashKeepsDurable
    <3> QED BY <3>4, <3>5, EmptySeq
  <2> QED BY <1>0, <2>1, <2>2 DEF FileInv
<1> QED BY <1>1, <1>2, <1>3, <1>4, <1>5, <1>6, <1>7 DEF RestartNext, Writes

(* What any write leaves, as long as none has left bytes behind: one more  *)
(* record, or the file as it was.                                          *)
LEMMA CleanWrite ==
  ASSUME RestartTypeOK, HeadInv, Writes, met' \subseteq CleanFaults
  PROVE  \E rec \in Record :
           /\ buffer = <<>> /\ buffer' = <<>> /\ met \subseteq met'
           /\ Appended(rec) \/ (Refused /\ file' = file)
           /\ rec.prev = prevHash /\ sequence' = rec.seq
           /\ life # "gap" => rec.seq = sequence + 1 /\ (rec.type # "GAP" \/ met' # {})
<1>1. PICK rec \in Record :
        /\ TypedStep(rec) /\ rec.prev = prevHash
        /\ life # "gap" => rec.seq = sequence + 1 /\ (rec.type # "GAP" \/ met' # {})
  BY WritesAreTyped
<1>2. met \subseteq met' /\ sequence' = rec.seq
  BY <1>1 DEF TypedStep
<1>3. buffer = <<>>
  BY <1>2 DEF HeadInv
<1>4. buffer' = <<>> /\ (Appended(rec) \/ (Refused /\ file' = file))
  BY <1>1, <1>3, CleanStep DEF RestartTypeOK
<1> QED BY <1>1, <1>2, <1>3, <1>4

(* Nothing moves the head of the writer away from the end of an undamaged  *)
(* file.                                                                   *)
LEMMA HeadNext == RestartIInv /\ [RestartNext]_restartVars => HeadInv'
<1> SUFFICES ASSUME RestartIInv, [RestartNext]_restartVars, met' \subseteq CleanFaults
             PROVE  /\ buffer' = <<>>
                    /\ "recovery" \notin struck' /\ header' = "ok" =>
                         /\ life' = "opening" => ~Damaged(file') /\ result'.lastHash = LastHash(file')
                         /\ life' \in Working => ~Damaged(file') /\ prevHash' = LastHash(file')
  BY DEF HeadInv
<1>0. /\ RestartTypeOK /\ FileInv /\ HeadInv /\ file \in Seq(Frame)
      /\ "opening" \notin Working /\ "down" \notin Working /\ "header" \notin Working
  BY DEF RestartIInv, RestartTypeOK, WriterTypeOK, Working
<1>1. CASE UNCHANGED restartVars
  BY <1>0, <1>1 DEF HeadInv, restartVars, writerVars, memory, disk
<1>2. CASE StartUp
  <2>1. /\ life' = "opening" /\ header' = header /\ buffer' = buffer /\ met' = met
        /\ \/ header = "absent"
           \/ header # "absent" /\ \E est \in 1 .. MaxEstimate : RecoverChain(est)
           \/ "recovery" \in struck'
    BY <1>0, <1>2, StartReads
  <2>2. buffer' = <<>>
    BY <1>0, <2>1 DEF HeadInv
  <2>3. ASSUME NEW est \in 1 .. MaxEstimate, RecoverChain(est), header = "ok"
        PROVE  ~Damaged(file') /\ result'.lastHash = LastHash(file')
    BY <1>0, <2>3, RecoveryReads
  <2> QED BY <1>0, <2>1, <2>2, <2>3
<1>3. CASE Open
  <2>1. /\ prevHash' = result.lastHash /\ buffer' = buffer /\ file' = file /\ met' = met
        /\ struck' = struck /\ life = "opening"
        /\ \/ header' = "short" /\ life' = "header"
           \/ header' = header /\ life' = "boot"
    BY <1>3, OpenStarts
  <2> QED BY <1>0, <2>1 DEF HeadInv
<1>4. CASE WriteHeader
  <2>1. life = "header" /\ life' = "boot" /\ buffer' = buffer /\ met' = met
    BY <1>4 DEF WriteHeader, writerVars, disk
  <2>2. file' = file /\ prevHash' = prevHash
    BY <1>4 DEF WriteHeader, writerVars, disk, memory
  <2>3. file' = <<>> /\ prevHash' = ZeroHash
    BY <1>0, <2>1, <2>2 DEF FileInv
  <2> QED BY <1>0, <2>1, <2>3, EmptyFile DEF HeadInv
<1>5. CASE Writes
  <2>1. PICK rec \in Record :
          /\ buffer' = <<>> /\ met \subseteq met'
          /\ Appended(rec) \/ (Refused /\ file' = file)
    BY <1>0, <1>5, CleanWrite
  <2>2. header' = header /\ struck' = struck /\ life \in Working /\ life' # "opening"
    BY <1>5, WritesGoOn DEF Working
  <2>3. ASSUME "recovery" \notin struck, header = "ok"
        PROVE  ~Damaged(file') /\ prevHash' = LastHash(file')
    <3>1. ~Damaged(file) /\ prevHash = LastHash(file)
      BY <1>0, <2>1, <2>2, <2>3 DEF HeadInv
    <3>2. CASE Appended(rec)
      <4>1. file' = Append(file, rec) /\ prevHash' = rec.id /\ rec \in Frame /\ rec # Torn
        BY <3>2 DEF Appended, Frame, Record, Torn
      <4>2. Readable(file') = file' /\ LastHash(file') = rec.id /\ file' \in Seq(Frame)
        BY <1>0, <3>1, <4>1, ReadableAppend, AppendFrame
      <4>3. ~Damaged(file')
        BY <4>2, ReadableIsWhole
      <4> QED BY <4>1, <4>2, <4>3
    <3>3. CASE Refused /\ file' = file
      BY <3>1, <3>3 DEF Refused
    <3> QED BY <2>1, <3>2, <3>3
  <2> QED BY <2>1, <2>2, <2>3
<1>6. CASE CloseRecorder
  BY <1>0, <1>6, CloseLeaves
<1>7. CASE Crash
  BY <1>0, <1>7, CrashFile
<1> QED BY <1>1, <1>2, <1>3, <1>4, <1>5, <1>6, <1>7 DEF RestartNext, Writes

(* Without a failing write or a torn frame the chain verifies, and the     *)
(* writer goes on with the number after its last.                          *)
LEMMA VerifyingNext == RestartIInv /\ [RestartNext]_restartVars => VerifyingInv'
<1> DEFINE Calm == met = {} /\ struck \subseteq {"kill", "power"}
<1> SUFFICES ASSUME RestartIInv, [RestartNext]_restartVars, Calm'
             PROVE  /\ header' = "ok" => Verifies(file', FALSE)
                    /\ life' # "down" => result'.truncated = 0
                    /\ life' \notin {"recovery", "gap"}
                    /\ header' = "ok" /\ life' = "opening" => result'.lastSeq = LastSeq(file')
                    /\ header' = "ok" /\ life' \in Working => sequence' = LastSeq(file')
  BY DEF VerifyingInv
<1>0. /\ RestartTypeOK /\ FileInv /\ HeadInv /\ VerifyingInv /\ file \in Seq(Frame)
      /\ "opening" \notin Working /\ "down" \notin Working /\ "header" \notin Working
      /\ "failed" \notin Working
  BY DEF RestartIInv, RestartTypeOK, WriterTypeOK, Working
<1>00. ASSUME met \subseteq met', struck \subseteq struck'
       PROVE  /\ met = {} /\ "recovery" \notin struck /\ "recovery" \notin struck'
              /\ buffer = <<>>
              /\ header = "ok" => Verifies(file, FALSE) /\ ~Damaged(file)
              /\ life # "down" => result.truncated = 0
              /\ life \notin {"recovery", "gap"}
              /\ header = "ok" /\ life = "opening" => result.lastSeq = LastSeq(file)
              /\ header = "ok" /\ life \in Working =>
                   sequence = LastSeq(file) /\ prevHash = LastHash(file)
  <2>1. met = {} /\ "recovery" \notin struck /\ "recovery" \notin struck'
    BY <1>00
  <2>2. Calm
    BY <1>00
  <2> QED BY <1>0, <2>1, <2>2 DEF VerifyingInv, HeadInv, Verifies
<1>1. CASE UNCHANGED restartVars
  BY <1>0, <1>1 DEF VerifyingInv, restartVars, writerVars, memory, disk
<1>2. CASE StartUp
  <2>1. /\ life = "down" /\ life' = "opening" /\ header' = header /\ met' = met
        /\ \/ /\ header = "absent" /\ result' = None /\ struck' = struck
           \/ /\ header # "absent" /\ struck' = struck
              /\ \E est \in 1 .. MaxEstimate : RecoverChain(est)
           \/ "recovery" \in struck' /\ struck' = struck \union {"recovery"}
    BY <1>0, <1>2, StartReads
  <2>2. struck' = struck /\ (header = "ok" => Verifies(file, FALSE) /\ ~Damaged(file))
    BY <1>00, <2>1
  <2>3. None.truncated = 0
    BY DEF None
  <2>4. CASE header = "absent" /\ result' = None
    BY <1>0, <2>1, <2>3, <2>4
  <2>5. ASSUME NEW est \in 1 .. MaxEstimate, RecoverChain(est), header # "absent"
        PROVE  /\ header = "ok" => Verifies(file', FALSE) /\ result'.lastSeq = LastSeq(file')
               /\ result'.truncated = 0
    <3>1. CASE header = "ok"
      <4>1. /\ file' = Readable(file) /\ result'.lastSeq = LastSeq(file')
            /\ result'.truncated = 0 /\ Readable(file) = file
        BY <1>0, <2>2, <2>5, <3>1, RecoveryReads, ReadableType
      <4> QED BY <2>2, <3>1, <4>1
    <3>2. CASE header # "ok"
      BY <1>0, <2>3, <2>5, <3>2, RecoveryReads
    <3> QED BY <3>1, <3>2
  <2> QED BY <1>0, <2>1, <2>4, <2>5, <1>00
<1>3. CASE Open
  <2>1. /\ sequence' = result.lastSeq /\ file' = file /\ met' = met /\ result' = result
        /\ struck' = struck /\ life = "opening"
        /\ \/ header' = "short" /\ life' = "header"
           \/ header' = header /\ life' = "boot"
    BY <1>3, OpenStarts
  <2> QED BY <1>0, <1>00, <2>1
<1>4. CASE WriteHeader
  <2>1. /\ life = "header" /\ life' = "boot" /\ met' = met /\ struck' = struck /\ result' = result
        /\ file' = file /\ sequence' = sequence
    BY <1>4 DEF WriteHeader, writerVars, disk, memory
  <2>2. file' = <<>> /\ sequence' = 0
    BY <1>0, <2>1 DEF FileInv
  <2> QED BY <1>0, <1>00, <2>1, <2>2, EmptyFile
<1>5. CASE Writes
  <2>1. met' \subseteq CleanFaults /\ met' = {}
    OBVIOUS
  <2>2. PICK rec \in Record :
          /\ met \subseteq met'
          /\ Appended(rec) \/ (Refused /\ file' = file)
          /\ rec.prev = prevHash /\ sequence' = rec.seq
          /\ life # "gap" => rec.seq = sequence + 1 /\ (rec.type # "GAP" \/ met' # {})
    BY <1>0, <1>5, <2>1, CleanWrite
  <2>3. /\ header' = header /\ struck' = struck /\ result' = result /\ life \in Working
        /\ life' \in Working \union {"failed"}
        /\ life' \in {"recovery", "gap"} => life = "recovery" \/ result.truncated > 0
    BY <1>5, WritesGoOn
  <2>4. /\ result.truncated = 0 /\ life \notin {"recovery", "gap"}
        /\ header = "ok" => /\ Verifies(file, FALSE)
                            /\ sequence = LastSeq(file) /\ prevHash = LastHash(file)
    BY <1>0, <1>00, <2>2, <2>3
  <2>5. Appended(rec)
    BY <2>1, <2>2 DEF Refused
  <2>6. /\ file' = Append(file, rec) /\ rec \in Frame
    BY <2>5 DEF Appended, Frame
  <2>7. ASSUME header = "ok" PROVE Verifies(file', FALSE) /\ sequence' = LastSeq(file')
    <3>1. Continues(file, rec)
      BY <2>1, <2>2, <2>4, <2>7 DEF Continues
    <3>2. Verifies(file', FALSE)
      BY <1>0, <2>4, <2>6, <2>7, <3>1, AppendVerifies
    <3>3. LastSeq(file') = rec.seq
      BY <1>0, <2>6, AppendFrame
    <3> QED BY <2>2, <3>2, <3>3
  <2>8. result'.truncated = 0 /\ life' \notin {"recovery", "gap"} /\ life' # "opening"
    BY <1>0, <2>3, <2>4
  <2> QED BY <2>3, <2>7, <2>8
<1>6. CASE CloseRecorder
  <2>1. /\ life' = "down" /\ (buffer = <<>> => file' = file)
        /\ met' = met /\ header' = header /\ struck' = struck
    BY <1>0, <1>6, CloseLeaves
  <2> QED BY <1>0, <1>00, <2>1
<1>7. CASE Crash
  <2>1. /\ \E n, tail : CrashKeeps(n, tail)
        /\ header' = header \/ (file' = <<>> /\ header' \in {"absent", "short"})
        /\ life' = "down" /\ struck \subseteq struck' /\ met' = met
    BY <1>0, <1>7, CrashFile
  <2>2. PICK n, tail : CrashKeeps(n, tail)
    BY <2>1
  <2>3. tail = <<>> /\ n \in 0 .. Len(file)
    BY <2>2 DEF CrashKeeps
  <2>4. file' = SubSeq(file, 1, n)
    BY <1>0, <2>2, <2>3, CrashKeepsDurable
  <2>5. header' = "ok" => Verifies(file', FALSE)
    BY <1>0, <1>00, <2>1, <2>3, <2>4, PrefixVerifies
  <2> QED BY <1>0, <2>1, <2>5
<1> QED BY <1>1, <1>2, <1>3, <1>4, <1>5, <1>6, <1>7 DEF RestartNext, Writes

(* Together the parts are inductive. *)
LEMMA RestartInvNext == RestartIInv /\ [RestartNext]_restartVars => RestartIInv'
BY RestartTypeNext, FileNext, HeadNext, VerifyingNext DEF RestartIInv

(* The inductive invariant says what the run checks. *)
LEMMA RestartInvImplied == RestartIInv => RestartInv
<1> SUFFICES ASSUME RestartIInv PROVE RestartInv
  OBVIOUS
<1>1. RestartTypeOK /\ HeadMatchesFile
  BY DEF RestartIInv, HeadInv, HeadMatchesFile, Working
<1>2. ASSUME met = {}, struck \subseteq {"kill", "power"}
      PROVE  Verifies(ReadableRecords, FALSE)
  <2>1. CASE header = "ok"
    <3>1. Verifies(file, FALSE) /\ file \in Seq(Frame)
      BY <1>2, <2>1 DEF RestartIInv, VerifyingInv, RestartTypeOK, WriterTypeOK
    <3>2. Readable(file) = file
      BY <3>1, ReadableType DEF Verifies
    <3> QED BY <2>1, <3>1, <3>2 DEF ReadableRecords
  <2>2. CASE header # "ok"
    BY <2>2, EmptyFile DEF ReadableRecords
  <2> QED BY <2>1, <2>2
<1> QED BY <1>1, <1>2 DEF RestartInv, VerifiesAcrossRestarts

(* Over any kills, torn frames, power losses and failed recoveries the     *)
(* writer starts behind the last readable record, and as long as no frame  *)
(* was torn and no write failed, the chain verifies from its first record  *)
(* (recover_chain and AHPRecorder.__init__).                               *)
THEOREM RestartSafe == RestartSpec => []RestartInv
BY RestartInvInit, RestartInvNext, RestartInvImplied, PTL DEF RestartSpec

-----------------------------------------------------------------------------
(* The refinement.                                                         *)

(* Whatever any write does, with only these faults: it appends its record, *)
(* or moves nothing and at most tears a frame.                             *)
LEMMA LogWrite ==
  ASSUME LogFaults, RestartTypeOK, RestartTypeOK', buffer = <<>>, Writes
  PROVE  \E rec \in Record :
           /\ buffer' = <<>> /\ (Appended(rec) \/ Refused)
           /\ rec.prev = prevHash
           /\ life = "boot" /\ RecoveryCanFail => rec.type = "BOOT"
<1>1. PICK rec \in Record :
        /\ TypedStep(rec) /\ rec.prev = prevHash
        /\ life = "boot" => rec.type = "BOOT" \/ "invalid" \in met'
  BY WritesAreTyped
<1>2. met' \subseteq Faults
  BY DEF RestartTypeOK, WriterTypeOK
<1>3. buffer' = <<>> /\ (Appended(rec) \/ Refused)
  BY <1>1, <1>2, UnbufferedStep DEF LogFaults, RestartTypeOK
<1> QED BY <1>1, <1>2, <1>3 DEF LogFaults

(* The head is the end of a whole file, or BOOT is to start over. *)
LEMMA JoinInit == RestartInit => JoinInv
BY DEF RestartInit, WriterInit, JoinInv

(* No step breaks that, with the faults the log allows. *)
LEMMA JoinNext ==
  ASSUME LogFaults, RestartIInv, RestartIInv', JoinInv, [RestartNext]_restartVars
  PROVE  JoinInv'
<1>0. /\ RestartTypeOK /\ RestartTypeOK' /\ FileInv /\ file \in Seq(Frame) /\ buffer = <<>>
      /\ "opening" \notin Working /\ "down" \notin Working /\ "failed" \notin Working
      /\ "header" \notin Working
  BY DEF RestartIInv, JoinInv, RestartTypeOK, WriterTypeOK, Working
<1>1. CASE UNCHANGED restartVars
  BY <1>0, <1>1 DEF JoinInv, restartVars, writerVars, memory, disk
<1>2. CASE StartUp
  <2>1. /\ life' = "opening" /\ header' = header /\ buffer' = buffer
        /\ \/ header = "absent"
           \/ \E est \in 1 .. MaxEstimate : RecoverChain(est)
           \/ RecoveryCanFail /\ result' = None
    BY <1>0, <1>2, StartReads
  <2>2. ASSUME NEW est \in 1 .. MaxEstimate, RecoverChain(est), header = "ok"
        PROVE  result'.lastHash = LastHash(file')
    BY <1>0, <2>2, RecoveryReads
  <2>3. None.lastHash = ZeroHash
    BY DEF None
  <2> QED BY <1>0, <2>1, <2>2, <2>3 DEF JoinInv
<1>3. CASE Open
  <2>1. /\ prevHash' = result.lastHash /\ buffer' = buffer /\ file' = file /\ life = "opening"
        /\ \/ header' = "short" /\ life' = "header"
           \/ header' = header /\ life' = "boot"
    BY <1>3, OpenStarts
  <2> QED BY <1>0, <2>1 DEF JoinInv
<1>4. CASE WriteHeader
  <2>1. /\ life = "header" /\ life' = "boot" /\ buffer' = buffer
        /\ file' = file /\ prevHash' = prevHash
    BY <1>4 DEF WriteHeader, writerVars, disk, memory
  <2>2. file' = <<>> /\ prevHash' = ZeroHash
    BY <1>0, <2>1 DEF FileInv
  <2> QED BY <1>0, <2>1, <2>2, EmptyFile DEF JoinInv
<1>5. CASE Writes
  <2>1. PICK rec \in Record :
          buffer' = <<>> /\ (Appended(rec) \/ Refused) /\ rec.prev = prevHash
    BY <1>0, <1>5, LogWrite
  <2>2. /\ header' = header /\ life \in Working /\ life' # "boot" /\ life' # "opening"
        /\ acked' = acked => life' = "failed" \/ life = "up"
    BY <1>5, WritesGoOn DEF Working
  <2>3. ASSUME header = "ok", ~Damaged(file'), life' \in Working
        PROVE  prevHash' = LastHash(file')
    <3>1. CASE Appended(rec)
      <4>1. file' = Append(file, rec) /\ prevHash' = rec.id /\ rec \in Frame
        BY <3>1 DEF Appended, Frame
      <4> QED BY <1>0, <4>1, AppendFrame
    <3>2. CASE Refused
      <4>1. ASSUME file' = Append(file, Torn) PROVE FALSE
        <5>1. /\ Len(file') = Len(file) + 1 /\ Len(file) \in Nat /\ file'[Len(file) + 1] = Torn
          BY <1>0, <4>1, AppendFrame DEF Frame
        <5> QED BY <2>3, <5>1 DEF Damaged
      <4>2. file' = file /\ prevHash' = prevHash /\ acked' = acked
        BY <3>2, <4>1 DEF Refused
      <4>3. life = "up"
        BY <1>0, <2>2, <2>3, <4>2
      <4> QED BY <2>2, <2>3, <4>2, <4>3 DEF JoinInv
    <3> QED BY <2>1, <3>1, <3>2
  <2> QED BY <2>1, <2>2, <2>3 DEF JoinInv
<1>6. CASE CloseRecorder
  <2>1. life' = "down" /\ buffer' = <<>>
    BY <1>0, <1>6, CloseLeaves
  <2> QED BY <1>0, <2>1 DEF JoinInv
<1>7. CASE Crash
  <2>1. life' = "down" /\ buffer' = <<>>
    BY <1>0, <1>7, CrashFile
  <2> QED BY <1>0, <2>1 DEF JoinInv
<1> QED BY <1>1, <1>2, <1>3, <1>4, <1>5, <1>6, <1>7 DEF RestartIInv, RestartNext, Writes

(* The log and how much of it is durable, as the refinement maps them. *)
Log == ReadableRecords
Durable == Min2(synced, Len(ReadableRecords))

LogTypeOK ==
  /\ Log \in Seq(Frame) /\ Len(Log) \in Nat /\ Len(Log) <= Len(file)
  /\ Durable \in 0 .. Len(Log) /\ synced \in Nat
  /\ header = "ok" => Log = Readable(file)
  /\ header # "ok" => Log = <<>> /\ Durable = 0

(* The log is a sequence of frames, and no more than it is durable. *)
LEMMA LogType == RestartTypeOK => LogTypeOK
<1> SUFFICES ASSUME RestartTypeOK PROVE LogTypeOK
  OBVIOUS
<1>1. /\ file \in Seq(Frame) /\ synced \in Nat /\ Len(file) \in Nat
  BY LenProperties DEF RestartTypeOK, WriterTypeOK
<1>2. /\ Readable(file) \in Seq(Frame) /\ Len(Readable(file)) \in 0 .. Len(file)
  BY <1>1, ReadableType, ReadableLenType
<1>3. CASE header = "ok"
  <2>1. Log = Readable(file)
    BY <1>3 DEF Log, ReadableRecords
  <2>2. Durable \in 0 .. Len(Log)
    BY <1>1, <1>2, <2>1 DEF Durable, Log, Min2
  <2> QED BY <1>1, <1>2, <1>3, <2>1, <2>2 DEF LogTypeOK
<1>4. CASE header # "ok"
  <2>1. Log = <<>> /\ Log \in Seq(Frame) /\ Len(Log) = 0
    BY <1>4, EmptySeq DEF Log, ReadableRecords
  <2>2. Durable = 0
    BY <1>1, <2>1 DEF Durable, Log, Min2
  <2> QED BY <1>1, <1>4, <2>1, <2>2 DEF LogTypeOK
<1> QED BY <1>3, <1>4

(* It is so after a step, too. *)
LEMMA LogTypeAfter == RestartTypeOK' => LogTypeOK'
BY LogType, PTL

(* A record behind a whole file extends the log; behind a torn frame it    *)
(* does not, and at most an fsync is seen.                                 *)
LEMMA WriteExtendsLog ==
  ASSUME LogFaults, RestartIInv, RestartIInv', JoinInv, Writes
  PROVE  Abstract!Extend \/ Abstract!Sync \/ UNCHANGED <<Log, Durable, crashes>>
<1>0. /\ RestartTypeOK /\ RestartTypeOK' /\ buffer = <<>> /\ file \in Seq(Frame) /\ Len(file) \in Nat
      /\ synced \in 0 .. Len(file) /\ Torn \in Frame
  BY LenProperties DEF RestartIInv, JoinInv, RestartTypeOK, WriterTypeOK, Frame
<1>1. PICK rec \in Record :
        /\ Appended(rec) \/ Refused
        /\ rec.prev = prevHash /\ (life = "boot" /\ RecoveryCanFail => rec.type = "BOOT")
  BY <1>0, LogWrite
<1>2. header' = header /\ crashes' = crashes /\ life \in Working /\ rec \in Frame /\ rec # Torn
  BY WritesGoOn DEF Frame, Record, Torn
<1>3. CASE header # "ok"
  BY <1>0, <1>2, <1>3, LogType, LogTypeAfter DEF LogTypeOK
<1>4. CASE header = "ok" /\ Refused
  <2>1. synced' = synced /\ (file' = file \/ file' = Append(file, Torn))
    BY <1>4 DEF Refused
  <2>2. Readable(file') = Readable(file)
    BY <1>0, <2>1, ReadableAppend
  <2>3. Log' = Log
    BY <1>2, <1>4, <2>2 DEF Log, ReadableRecords
  <2> QED BY <1>2, <2>1, <2>3 DEF Durable, Log
<1>5. CASE header = "ok" /\ Appended(rec) /\ Damaged(file)
  <2>1. file' = Append(file, rec) /\ synced' \in {synced, Len(file')}
    BY <1>5 DEF Appended
  <2>2. Readable(file') = Readable(file) /\ Len(file') = Len(file) + 1
    BY <1>0, <1>2, <1>5, <2>1, ReadableAppend, AppendFrame
  <2>3. Log' = Log
    BY <1>2, <1>5, <2>2 DEF Log, ReadableRecords
  <2>4. Durable' \in Durable .. Len(Log)
    <3>1. synced' \in Nat /\ synced' >= synced /\ Len(Log) \in Nat
      BY <1>0, <2>1, <2>2, LogType, LogTypeAfter DEF LogTypeOK
    <3> QED BY <1>0, <2>3, <3>1 DEF Durable, Log, Min2
  <2> QED BY <1>2, <2>3, <2>4 DEF Abstract!Sync, Log, Durable
<1>6. CASE header = "ok" /\ Appended(rec) /\ ~Damaged(file)
  <2>1. file' = Append(file, rec) /\ synced' \in {synced, Len(file')}
    BY <1>6 DEF Appended
  <2>2. /\ Readable(file') = Append(file, rec) /\ Readable(file) = file
        /\ Len(file') = Len(file) + 1 /\ file'[Len(file) + 1] = rec
        /\ \A i \in 1 .. Len(file) : file'[i] = file[i]
        /\ file' \in Seq(Frame)
    BY <1>0, <1>2, <1>6, <2>1, ReadableAppend, ReadableType, AppendFrame
  <2>3. Log = file /\ Log' = file'
    BY <1>2, <1>6, <2>1, <2>2 DEF Log, ReadableRecords
  <2>4. SubSeq(file', 1, Len(file)) = file
    <3>1. Len(file) \in 0 .. Len(file')
      BY <1>0, <2>2
    <3>2. /\ SubSeq(file', 1, Len(file)) \in Seq(Frame)
          /\ Len(SubSeq(file', 1, Len(file))) = Len(file)
          /\ \A i \in 1 .. Len(file) : SubSeq(file', 1, Len(file))[i] = file'[i]
      BY <2>2, <3>1, FirstFrames
    <3> QED BY <1>0, <2>2, <3>2, SeqEqual
  <2>5. \/ rec.prev = LastHash(file)
        \/ RecoveryCanFail /\ rec.type = "BOOT" /\ rec.prev = ZeroHash
    BY <1>1, <1>2, <1>6 DEF JoinInv
  <2>6. Durable' \in Durable .. Len(file')
    <3>1. Durable = synced /\ Durable' = synced'
      BY <1>0, <2>1, <2>2, <2>3 DEF Durable, Log, Min2
    <3> QED BY <1>0, <2>1, <2>2, <3>1
  <2>7. Abstract!Joins(file'[Len(file')])
    BY <2>2, <2>3, <2>5 DEF Abstract!Joins, Abstract!LastHash, Abstract!ZeroHash, Abstract!Hash,
                            LastHash, ZeroHash, Hash, Log
  <2> QED BY <1>2, <2>2, <2>3, <2>4, <2>6, <2>7 DEF Abstract!Extend, Log, Durable
<1> QED BY <1>1, <1>3, <1>4, <1>5, <1>6

(* A crash cuts the log back, outside its durable prefix. *)
LEMMA CrashCutsLog ==
  ASSUME RestartIInv, RestartIInv', Crash
  PROVE  Abstract!Crash
<1>0. /\ RestartTypeOK /\ RestartTypeOK' /\ file \in Seq(Frame) /\ Len(file) \in Nat
      /\ Torn \in Frame /\ synced \in 0 .. Len(file)
  BY LenProperties DEF RestartIInv, RestartTypeOK, WriterTypeOK, Frame
<1>1. /\ \E n, tail : CrashKeeps(n, tail)
      /\ header' = header \/ (file' = <<>> /\ header' \in {"absent", "short"})
      /\ crashes' = crashes + 1 /\ synced' = synced
  BY <1>0, CrashFile
<1>2. PICK n, tail : CrashKeeps(n, tail)
  BY <1>1
<1>3. n \in 0 .. Len(file) /\ synced <= n /\ (tail = <<>> \/ tail = <<Torn>>) /\ n \in Nat
  BY <1>0, <1>2 DEF CrashKeeps
<1>4. SUFFICES \E m \in Durable .. Len(Log) :
                 Log' = SubSeq(Log, 1, m) /\ Durable' = Durable
  BY <1>1 DEF Abstract!Crash, Log, Durable
<1>5. /\ Log \in Seq(Frame) /\ Len(Log) \in Nat /\ Durable \in 0 .. Len(Log)
  BY <1>0, LogType DEF LogTypeOK
<1>6. SubSeq(Log, 1, 0) = <<>>
  <2>1. 0 \in 0 .. Len(Log)
    BY <1>5
  <2>2. SubSeq(Log, 1, 0) \in Seq(Frame) /\ Len(SubSeq(Log, 1, 0)) = 0
    BY <1>5, <2>1, FirstFrames
  <2> QED BY <2>2, EmptySeq
<1>7. CASE header # "ok"
  <2>1. header' # "ok"
    BY <1>1, <1>7
  <2>2. Log = <<>> /\ Durable = 0 /\ Log' = <<>> /\ Durable' = 0
    BY <1>0, <1>7, <2>1, LogType, LogTypeAfter DEF LogTypeOK
  <2> QED BY <1>5, <1>6, <2>2
<1>8. CASE header = "ok" /\ header' # "ok"
  <2>1. n = 0
    BY <1>0, <1>1, <1>2, <1>8, CrashKeepsDurable
  <2>2. synced = 0
    BY <1>0, <1>3, <2>1
  <2>3. Durable = 0
    BY <1>5, <2>2 DEF Durable, Log, Min2
  <2>4. Log' = <<>> /\ Durable' = 0
    BY <1>0, <1>8, LogType, LogTypeAfter DEF LogTypeOK
  <2> QED BY <1>5, <1>6, <2>3, <2>4
<1>9. CASE header = "ok" /\ header' = "ok"
  <2>1. Log = Readable(file) /\ Log' = Readable(file')
    BY <1>9 DEF Log, ReadableRecords
  <2>2. SubSeq(file, 1, n) \in Seq(Frame)
    BY <1>0, <1>3, FirstFrames
  <2>3. Readable(file') = Readable(SubSeq(file, 1, n))
    <3>1. \/ file' = SubSeq(file, 1, n)
          \/ file' = Append(SubSeq(file, 1, n), Torn)
      BY <1>0, <1>2, <1>3, CrashKeepsDurable
    <3> QED BY <1>0, <2>2, <3>1, ReadableAppend
  <2>4. PICK m \in 0 .. Len(Readable(file)) :
          /\ Readable(SubSeq(file, 1, n)) = SubSeq(Readable(file), 1, m)
          /\ m = n \/ (m = Len(Readable(file)) /\ m <= n)
    BY <1>0, <1>3, ReadablePrefix
  <2>5. Log' = SubSeq(Log, 1, m) /\ m \in 0 .. Len(Log) /\ (m = n \/ (m = Len(Log) /\ m <= n))
    BY <2>1, <2>3, <2>4
  <2>6. Len(Log') = m
    BY <1>5, <2>5, FirstFrames
  <2>7. Durable' = Durable /\ Durable <= m
    BY <1>0, <1>1, <1>3, <1>5, <2>5, <2>6 DEF Durable, Log, Min2
  <2> QED BY <1>5, <2>5, <2>7
<1> QED BY <1>7, <1>8, <1>9

(* Starting, opening and closing change nothing a reader sees. *)
LEMMA StartKeepsLog ==
  ASSUME RestartIInv, RestartIInv', JoinInv, StartUp \/ Open \/ WriteHeader \/ CloseRecorder
  PROVE  UNCHANGED <<Log, Durable, crashes>>
<1>0. /\ RestartTypeOK /\ RestartTypeOK' /\ FileInv /\ buffer = <<>> /\ file \in Seq(Frame)
      /\ Len(file) \in Nat /\ synced \in 0 .. Len(file)
  BY LenProperties DEF RestartIInv, JoinInv, RestartTypeOK, WriterTypeOK
<1>1. ASSUME UNCHANGED <<file, synced, crashes>>, (header = "ok") <=> (header' = "ok")
      PROVE  UNCHANGED <<Log, Durable, crashes>>
  BY <1>1 DEF Log, Durable, ReadableRecords
<1>2. CASE StartUp
  <2>1. /\ header' = header /\ crashes' = crashes
        /\ \/ file' = file /\ synced' = synced
           \/ \E est \in 1 .. MaxEstimate : RecoverChain(est)
    BY <1>0, <1>2, StartReads
  <2>2. ASSUME NEW est \in 1 .. MaxEstimate, RecoverChain(est)
        PROVE  UNCHANGED <<Log, Durable, crashes>>
    <3>1. CASE header # "ok"
      BY <1>0, <1>1, <2>1, <2>2, <3>1, RecoveryReads
    <3>2. CASE header = "ok"
      <4>1. /\ file' = Readable(file)
            /\ \/ synced' = synced
               \/ synced' = Len(file') /\ synced' < synced
        BY <1>0, <2>2, <3>2, RecoveryReads
      <4>2. Readable(file') = Readable(file)
        BY <1>0, <4>1, ReadableIsWhole
      <4>3. Log' = Log /\ Log = file'
        BY <2>1, <3>2, <4>1, <4>2 DEF Log, ReadableRecords
      <4>4. Durable' = Durable
        <5>1. synced' \in Nat /\ synced \in Nat /\ Len(Log) \in Nat
          BY <1>0, LogType DEF LogTypeOK, RestartTypeOK, WriterTypeOK
        <5> QED BY <4>1, <4>3, <5>1 DEF Durable, Log, Min2
      <4> QED BY <2>1, <4>3, <4>4
    <3> QED BY <3>1, <3>2
  <2> QED BY <1>1, <2>1, <2>2
<1>3. CASE Open
  <2>1. UNCHANGED <<file, synced, crashes>> /\ ((header = "ok") <=> (header' = "ok"))
    BY <1>3, OpenStarts
  <2> QED BY <1>1, <2>1
<1>4. CASE WriteHeader
  <2>1. file' = file /\ synced' = synced /\ crashes' = crashes /\ life = "header" /\ header' = "ok"
    BY <1>4 DEF WriteHeader, writerVars, disk
  <2>2. file = <<>> /\ header # "ok" /\ synced = 0
    <3>1. file = <<>> /\ header # "ok"
      BY <1>0, <2>1 DEF FileInv
    <3>2. Len(file) = 0
      BY <3>1
    <3> QED BY <1>0, <3>1, <3>2
  <2>3. Log = <<>> /\ Durable = 0
    BY <1>0, <2>2, LogType, LogTypeAfter DEF LogTypeOK
  <2>4. Log' = Readable(file) /\ Readable(file) = file
    BY <1>0, <2>1, <2>2, EmptyFile, ReadableType DEF Log, ReadableRecords
  <2>5. Durable' = 0
    <3>1. Durable' \in 0 .. Len(Log') /\ Len(Log') = 0
      BY <1>0, <2>2, <2>4, LogType, LogTypeAfter DEF LogTypeOK
    <3> QED BY <3>1
  <2> QED BY <2>1, <2>2, <2>3, <2>4, <2>5
<1>5. CASE CloseRecorder
  <2>1. UNCHANGED <<file, synced, crashes>> /\ header' = header
    BY <1>0, <1>5, CloseLeaves
  <2> QED BY <1>1, <2>1
<1> QED BY <1>2, <1>3, <1>4, <1>5

(* Whatever crashes, power losses, failed recoveries and torn writes come  *)
(* between, the readable chain is an audit log: it grows one linked record *)
(* at a time, nothing but a crash takes records away, and none from the    *)
(* durable prefix.  A write that raises and yet leaves its whole frame     *)
(* ("keep", "fsync") breaks this, as ChainStaysConsistent shows, and so    *)
(* does a replaced BOOT record after a failed recovery.                    *)
THEOREM FileIsAuditLog == ASSUME LogFaults PROVE RestartSpec => ImplementsAuditLog
<1>1. RestartInit => Abstract!Init
  <2> SUFFICES ASSUME RestartInit PROVE Abstract!Init
    OBVIOUS
  <2>1. RestartIInv /\ header # "ok" /\ crashes = 0
    BY RestartInvInit DEF RestartInit
  <2>2. Log = <<>> /\ Durable = 0
    BY <2>1, LogType DEF LogTypeOK, RestartIInv
  <2> QED BY <2>1, <2>2 DEF Abstract!Init, Log, Durable
<1>2. RestartIInv /\ RestartIInv' /\ JoinInv /\ [RestartNext]_restartVars =>
        [Abstract!Next]_<<ReadableRecords, Min2(synced, Len(ReadableRecords)), crashes>>
  <2> SUFFICES ASSUME RestartIInv, RestartIInv', JoinInv, [RestartNext]_restartVars
               PROVE  Abstract!Next \/ UNCHANGED <<Log, Durable, crashes>>
    BY DEF Log, Durable
  <2>1. CASE UNCHANGED restartVars
    BY <2>1 DEF restartVars, writerVars, memory, disk, Log, Durable, ReadableRecords
  <2>2. CASE Writes
    BY <2>2, WriteExtendsLog DEF Abstract!Next
  <2>3. CASE Crash
    BY <2>3, CrashCutsLog DEF Abstract!Next
  <2>4. CASE StartUp \/ Open \/ WriteHeader \/ CloseRecorder
    BY <2>4, StartKeepsLog
  <2> QED BY <2>1, <2>2, <2>3, <2>4 DEF RestartNext, Writes
<1>3. RestartIInv /\ RestartIInv' /\ JoinInv /\ [RestartNext]_restartVars => JoinInv'
  BY JoinNext
<1> QED BY <1>1, <1>2, <1>3, RestartInvInit, RestartInvNext, JoinInit, PTL
        DEF RestartSpec, ImplementsAuditLog, Abstract!Spec
=============================================================================
