-------------------------- MODULE ChainWriterProofs --------------------------
(***************************************************************************)
(* Theorems about ChainWriter, for every set of faults, fsync policy,      *)
(* clock and bound.                                                        *)
(***************************************************************************)
EXTENDS ChainWriter, ChainFileProofs

-----------------------------------------------------------------------------
(* What every record-writing action has in common.                         *)

(* The arguments the public writes pass to _write_record_unlocked. *)
LegalWrite(base, type, body) ==
  /\ base \in Nat /\ base >= sequence
  /\ type \in RecordType
  /\ body \in Body
  /\ type = "GAP" => base > sequence /\ body = GapBody(sequence + 1, base)
  /\ type # "GAP" => base = sequence
  /\ type = "CHECKPOINT" => body = <<recordCount + 1, gapCount, prevHash>>

(* The sequence numbers a record stands for: its own, and those a          *)
(* GapRecord documents.                                                    *)
Numbers(rec) ==
  {rec.seq} \union (IF rec.type = "GAP" THEN rec.body[1] .. rec.body[2] ELSE {})

(* The record such a write hands to Commit, SerializeFails or IOFails. *)
LegalRecord(rec) ==
  /\ rec \in Record
  /\ rec.id = nextId /\ rec.prev = prevHash
  /\ rec.seq > sequence
  /\ rec.ts >= lastTs
  /\ Numbers(rec) = sequence + 1 .. rec.seq
  /\ rec.type = "CHECKPOINT" => rec.body = <<recordCount + 1, gapCount, prevHash>>

(* A record that replaces an invalid one is not numbered as verify_chain   *)
(* expects; any other is.                                                  *)
WellNumbered(rec) ==
  IF rec.type = "GAP"
  THEN rec.seq > sequence + 1 /\ rec.body = GapBody(sequence + 1, rec.seq - 1)
  ELSE rec.seq = sequence + 1

WriteStep(rec) ==
  /\ LegalRecord(rec)
  /\ nextId' = nextId + 1
  /\ sequence' = rec.seq
  /\ lastTs' = rec.ts
  /\ met \subseteq met' /\ met' \subseteq Faults
  /\ met' = {} => WellNumbered(rec)
  /\ \/ Commit(rec)
     \/ SerializeFails(rec)
     \/ IOFails(rec)

(* Every public write calls _write_record_unlocked with legal arguments.   *)
LEMMA NextIsLegalWrite ==
  ASSUME WriterTypeOK, WriterNext
  PROVE  \/ CloseWriter
         \/ \E base \in Nat, type \in RecordType, body \in Body, wall \in Nat :
              LegalWrite(base, type, body) /\ WriteRecordUnlocked(base, type, body, wall)
<1> USE DEF WriterTypeOK
<1>0. Clock \subseteq Nat /\ MaxGap \in Nat
  BY WriterAssumption
<1>1. CASE WriteRecord("ACTION", NoBody)
  <2>1. PICK wall \in Clock : WriteRecordUnlocked(sequence, "ACTION", NoBody, wall)
    BY <1>1 DEF WriteRecord
  <2>2. LegalWrite(sequence, "ACTION", NoBody)
    BY DEF LegalWrite, RecordType, Body, NoBody
  <2> QED BY <1>0, <2>1, <2>2 DEF RecordType, Body, NoBody
<1>2. CASE \E n \in 1 .. MaxGap : WriteGap(sequence + 1, sequence + n)
  <2>1. PICK n \in 1 .. MaxGap : WriteGap(sequence + 1, sequence + n)
    BY <1>2
  <2> DEFINE body == GapBody(sequence + 1, sequence + n)
  <2>2. PICK wall \in Clock : WriteRecordUnlocked(sequence + n, "GAP", body, wall)
    BY <2>1 DEF WriteGap
  <2>3. n \in Nat \ {0}
    BY <1>0
  <2>4. body \in Body
    BY <2>3 DEF GapBody, Body
  <2>5. LegalWrite(sequence + n, "GAP", body)
    BY <2>3, <2>4 DEF LegalWrite, RecordType
  <2> QED BY <1>0, <2>2, <2>3, <2>4, <2>5 DEF RecordType
<1>3. CASE WriteUnsignedCheckpoint
  <2> DEFINE body == <<recordCount + 1, gapCount, prevHash>>
  <2>1. PICK wall \in Clock : WriteRecordUnlocked(sequence, "CHECKPOINT", body, wall)
    BY <1>3 DEF WriteUnsignedCheckpoint, WriteRecord
  <2>2. body \in Body
    BY DEF Body
  <2>3. LegalWrite(sequence, "CHECKPOINT", body)
    BY <2>2 DEF LegalWrite, RecordType
  <2> QED BY <1>0, <2>1, <2>2, <2>3 DEF RecordType
<1> QED BY <1>1, <1>2, <1>3 DEF WriterNext

(* A step of the writer closes it or handles one legal record.             *)
LEMMA NextIsWriteStep ==
  ASSUME WriterTypeOK, WriterNext
  PROVE  CloseWriter \/ \E rec \in Record : WriteStep(rec)
<1> USE DEF WriterTypeOK
<1>1. SUFFICES ASSUME NEW base \in Nat, NEW type \in RecordType, NEW body \in Body,
                      NEW wall \in Nat,
                      LegalWrite(base, type, body),
                      WriteRecordUnlocked(base, type, body, wall)
               PROVE  \E rec \in Record : WriteStep(rec)
  BY NextIsLegalWrite
<1> DEFINE rec == NewRecord(base, type, body, wall)
<1>2. /\ nextId' = nextId + 1
      /\ sequence' = base + 1
      /\ lastTs' = rec.ts
      /\ \/ Commit(rec) /\ UNCHANGED met
         \/ type # "GAP" /\ Commit(ReplacementGap(rec)) /\ Meet("invalid")
         \/ SerializeFails(rec)
         \/ IOFails(rec)
  BY <1>1 DEF WriteRecordUnlocked
<1>3. LegalRecord(rec) /\ WellNumbered(rec) /\ rec.seq = base + 1
  <2>1. /\ rec \in Record /\ rec.id = nextId /\ rec.prev = prevHash
        /\ rec.type = type /\ rec.body = body /\ rec.seq = base + 1
        /\ rec.ts >= lastTs
    BY <1>1 DEF NewRecord, Record
  <2>2. CASE type = "GAP"
    <3>1. base > sequence /\ body[1] = sequence + 1 /\ body[2] = base
      BY <1>1, <2>2 DEF LegalWrite, GapBody
    <3>2. Numbers(rec) = sequence + 1 .. rec.seq
      BY <2>1, <2>2, <3>1 DEF Numbers
    <3> QED BY <1>1, <2>1, <2>2, <3>1, <3>2 DEF LegalRecord, LegalWrite, WellNumbered
  <2>3. CASE type # "GAP"
    <3>1. base = sequence
      BY <1>1, <2>3 DEF LegalWrite
    <3>2. Numbers(rec) = sequence + 1 .. rec.seq
      BY <2>1, <2>3, <3>1 DEF Numbers
    <3> QED BY <1>1, <2>1, <2>3, <3>1, <3>2 DEF LegalRecord, LegalWrite, WellNumbered
  <2> QED BY <2>2, <2>3
<1>4. ASSUME type # "GAP"
      PROVE  /\ LegalRecord(ReplacementGap(rec))
             /\ ReplacementGap(rec).seq = base + 1 /\ ReplacementGap(rec).ts = rec.ts
  <2> DEFINE gap == ReplacementGap(rec)
  <2>1. GapBody(base + 1, base + 1) \in Body /\ "GAP" \in RecordType
    BY DEF GapBody, Body, RecordType
  <2>2. /\ gap \in Record /\ gap.id = nextId /\ gap.prev = prevHash
        /\ gap.type = "GAP" /\ gap.seq = base + 1 /\ gap.ts = rec.ts /\ rec.ts >= lastTs
        /\ gap.body = GapBody(base + 1, base + 1)
    <3>1. /\ rec \in Record /\ rec.id = nextId /\ rec.seq = base + 1
          /\ rec.prev = prevHash /\ rec.ts >= lastTs
      BY <1>3 DEF LegalRecord
    <3> HIDE DEF rec
    <3> QED BY <2>1, <3>1 DEF ReplacementGap, Record
  <2>3. base = sequence
    BY <1>1, <1>4 DEF LegalWrite
  <2>4. gap.body[1] = base + 1 /\ gap.body[2] = base + 1
    BY <2>2 DEF GapBody
  <2>5. Numbers(gap) = sequence + 1 .. gap.seq
    BY <2>2, <2>3, <2>4 DEF Numbers
  <2> HIDE DEF gap
  <2> QED BY <1>4, <2>2, <2>3, <2>5 DEF LegalRecord, gap
<1> HIDE DEF rec
<1>5. CASE type # "GAP" /\ Commit(ReplacementGap(rec)) /\ Meet("invalid")
  <2>1. met \subseteq met' /\ met' \subseteq Faults /\ met' # {}
    BY <1>5 DEF Meet
  <2> QED BY <1>2, <1>4, <1>5, <2>1 DEF WriteStep, LegalRecord
<1>6. CASE Commit(rec) /\ UNCHANGED met
  BY <1>2, <1>3, <1>6 DEF WriteStep, LegalRecord
<1>7. CASE SerializeFails(rec)
  <2>1. met \subseteq met' /\ met' \subseteq Faults
    BY <1>7 DEF SerializeFails, Meet
  <2> QED BY <1>2, <1>3, <1>7, <2>1 DEF WriteStep, LegalRecord
<1>8. CASE IOFails(rec)
  <2>1. met \subseteq met' /\ met' \subseteq Faults
    BY <1>8 DEF IOFails, Meet
  <2> QED BY <1>2, <1>3, <1>8, <2>1 DEF WriteStep, LegalRecord
<1> QED BY <1>2, <1>5, <1>6, <1>7, <1>8

-----------------------------------------------------------------------------
(* A frame is a record or Torn, and what a write leaves in file and buffer *)
(* stays a sequence of them.                                               *)
LEMMA FlushedFrames ==
  ASSUME WriterTypeOK, NEW frame \in Frame
  PROVE  /\ Append(buffer, frame) \in Seq(Frame)
         /\ file \o Append(buffer, frame) \in Seq(Frame)
         /\ Len(file \o Append(buffer, frame)) = Len(file) + Len(buffer) + 1
<1>1. buffer \in Seq(Frame) /\ file \in Seq(Frame)
  BY DEF WriterTypeOK, Frame
<1> QED BY <1>1, ConcatProperties, AppendProperties

(* What any call of _write_record_unlocked does, whatever its arguments:   *)
(* it takes the number rec.seq, and commits rec or fails with it.          *)
TypedStep(rec) ==
  /\ nextId' = nextId + 1
  /\ sequence' = rec.seq
  /\ lastTs' = rec.ts
  /\ met \subseteq met' /\ met' \subseteq Faults
  /\ \/ Commit(rec)
     \/ SerializeFails(rec)
     \/ IOFails(rec)

(* The record is the one asked for, after the head; only the GapRecord     *)
(* that replaces an invalid one is not.                                    *)
LEMMA UnlockedIsTyped ==
  ASSUME WriterTypeOK, NEW base \in Nat, NEW type \in RecordType, NEW body \in Body,
         NEW wall \in Nat, WriteRecordUnlocked(base, type, body, wall)
  PROVE  \E rec \in Record :
           /\ TypedStep(rec)
           /\ rec.id = nextId /\ rec.prev = prevHash /\ rec.seq = base + 1
           /\ \/ rec.type = type /\ rec.body = body
              \/ type # "GAP" /\ rec.type = "GAP" /\ "invalid" \in met'
<1> DEFINE rec == NewRecord(base, type, body, wall)
           gap == ReplacementGap(rec)
<1>1. /\ nextId' = nextId + 1 /\ sequence' = base + 1 /\ lastTs' = rec.ts
      /\ \/ Commit(rec) /\ UNCHANGED met
         \/ type # "GAP" /\ Commit(gap) /\ Meet("invalid")
         \/ SerializeFails(rec)
         \/ IOFails(rec)
  BY DEF WriteRecordUnlocked
<1>2. /\ rec \in Record /\ rec.id = nextId /\ rec.prev = prevHash
      /\ rec.type = type /\ rec.body = body /\ rec.seq = base + 1
  BY DEF NewRecord, Record, WriterTypeOK
<1> HIDE DEF rec
<1>3. /\ gap \in Record /\ gap.id = nextId /\ gap.prev = prevHash
      /\ gap.type = "GAP" /\ gap.seq = base + 1 /\ gap.ts = rec.ts
  <2>1. GapBody(base + 1, base + 1) \in Body /\ "GAP" \in RecordType
    BY DEF GapBody, Body, RecordType
  <2> QED BY <1>2, <2>1 DEF ReplacementGap, Record
<1> HIDE DEF gap
<1>4. CASE type # "GAP" /\ Commit(gap) /\ Meet("invalid")
  <2>1. met \subseteq met' /\ met' \subseteq Faults /\ "invalid" \in met'
    BY <1>4 DEF Meet, WriterTypeOK
  <2> QED BY <1>1, <1>3, <1>4, <2>1 DEF TypedStep
<1>5. CASE (Commit(rec) /\ UNCHANGED met) \/ SerializeFails(rec) \/ IOFails(rec)
  <2>1. met \subseteq met' /\ met' \subseteq Faults
    BY <1>5 DEF SerializeFails, IOFails, Meet, WriterTypeOK
  <2> QED BY <1>1, <1>2, <1>5, <2>1 DEF TypedStep
<1> QED BY <1>1, <1>4, <1>5

(* Any record but a gap is written after the last number. *)
LEMMA WriteIsTyped ==
  ASSUME WriterTypeOK, NEW type \in RecordType, NEW body \in Body, type # "GAP",
         WriteRecord(type, body)
  PROVE  \E rec \in Record :
           /\ TypedStep(rec)
           /\ rec.id = nextId /\ rec.prev = prevHash /\ rec.seq = sequence + 1
           /\ \/ rec.type = type /\ rec.body = body
              \/ rec.type = "GAP" /\ "invalid" \in met'
<1>1. PICK wall \in Clock : WriteRecordUnlocked(sequence, type, body, wall)
  BY DEF WriteRecord
<1>2. wall \in Nat /\ sequence \in Nat
  BY WriterAssumption DEF WriterTypeOK
<1> QED BY <1>1, <1>2, UnlockedIsTyped

(* A gap is written after the last number it documents. *)
LEMMA GapIsTyped ==
  ASSUME WriterTypeOK, NEW first \in Nat, NEW last \in Nat, first <= last + 1,
         WriteGap(first, last)
  PROVE  \E rec \in Record :
           /\ TypedStep(rec)
           /\ rec.id = nextId /\ rec.prev = prevHash /\ rec.seq = last + 1
           /\ rec.type = "GAP" /\ rec.body = GapBody(first, last)
<1>1. PICK wall \in Clock : WriteRecordUnlocked(last, "GAP", GapBody(first, last), wall)
  BY DEF WriteGap
<1>2. wall \in Nat /\ "GAP" \in RecordType /\ GapBody(first, last) \in Body
  BY WriterAssumption DEF RecordType, GapBody, Body
<1> QED BY <1>1, <1>2, UnlockedIsTyped

(* The type invariant holds initially. *)
LEMMA TypeInit == WriterInit => WriterTypeOK
BY DEF WriterInit, WriterTypeOK, ZeroHash

(* A write of any record keeps the types. *)
LEMMA TypesKept ==
  ASSUME WriterTypeOK, NEW rec \in Record, TypedStep(rec)
  PROVE  WriterTypeOK'
<1>0. /\ sequence' \in Nat /\ lastTs' \in Nat /\ nextId' \in Nat \ {0}
      /\ rec.id \in Nat /\ (sequence + 1 .. rec.seq) \subseteq Nat
      /\ rec \in Frame /\ Torn \in Frame /\ met' \subseteq Faults
  BY DEF TypedStep, WriterTypeOK, Record, Frame
<1>1. /\ file \o Append(buffer, rec) \in Seq(Frame)
      /\ Len(file \o Append(buffer, rec)) = Len(file) + Len(buffer) + 1
  BY <1>0, FlushedFrames
<1>2. /\ file \o Append(buffer, Torn) \in Seq(Frame)
      /\ Len(file \o Append(buffer, Torn)) = Len(file) + Len(buffer) + 1
  BY <1>0, FlushedFrames
<1>6. /\ <<>> \in Seq(Record) /\ Append(buffer, rec) \in Seq(Record)
      /\ Len(buffer) \in Nat /\ Len(file) \in Nat
  BY EmptySeq, AppendProperties, LenProperties DEF WriterTypeOK
<1>3. CASE Commit(rec)
  <2>1. /\ buffer' = <<>> /\ file' = file \o Append(buffer, rec)
        /\ UNCHANGED raised
    BY <1>3 DEF Commit
  <2>2. /\ prevHash' \in Nat /\ recordCount' \in Nat /\ gapCount' \in Nat
        /\ bytesWritten' \in Nat /\ acked' \subseteq Nat
    <3>1. /\ prevHash' = rec.id /\ recordCount' = recordCount + 1
          /\ gapCount' = gapCount + 1 \/ gapCount' = gapCount + 0
          /\ bytesWritten' = bytesWritten + 1
          /\ acked' = acked \union {rec.id}
      BY <1>3 DEF Commit, Hash
    <3>2. acked' \subseteq Nat
      BY <1>0, <3>1 DEF WriterTypeOK
    <3>3. recordCount' \in Nat /\ gapCount' \in Nat /\ bytesWritten' \in Nat
      BY <3>1 DEF WriterTypeOK
    <3> QED BY <1>0, <3>1, <3>2, <3>3
  <2>3. Len(file') = Len(file) + Len(buffer) + 1 /\ file' \in Seq(Frame)
    BY <1>1, <2>1
  <2>4. \/ synced' = Len(file') /\ sinceFsync' = 0
        \/ synced' = synced /\ sinceFsync' = sinceFsync + 1
    BY <1>3 DEF Commit
  <2>5. synced' \in 0 .. Len(file') /\ sinceFsync' \in Nat
    BY <1>6, <2>3, <2>4 DEF WriterTypeOK
  <2> QED BY <1>0, <1>6, <2>1, <2>2, <2>3, <2>5 DEF WriterTypeOK
<1>4. CASE SerializeFails(rec)
  BY <1>0, <1>4 DEF SerializeFails, WriterTypeOK, disk
<1>5. CASE IOFails(rec)
  <2>1. /\ UNCHANGED <<prevHash, recordCount, gapCount, bytesWritten, acked>>
        /\ raised' \subseteq Nat
    BY <1>0, <1>5 DEF IOFails, WriterTypeOK
  <2>2. sinceFsync' \in Nat
    BY <1>5 DEF IOFails, WriterTypeOK
  <2>3. buffer' \in Seq(Record)
    BY <1>5, <1>6 DEF IOFails, disk, WriterTypeOK
  <2>4. file' \in Seq(Frame) /\ synced' \in 0 .. Len(file')
    <3>1. /\ synced' = synced
          /\ \/ file' = file
             \/ file' = file \o Append(buffer, rec)
             \/ file' = file \o Append(buffer, Torn)
      BY <1>5 DEF IOFails, disk
    <3>2. file' \in Seq(Frame) /\ Len(file') \in Nat /\ Len(file') >= Len(file)
      <4>1. CASE file' = file
        BY <1>6, <4>1 DEF WriterTypeOK
      <4>2. CASE file' = file \o Append(buffer, rec)
        BY <1>1, <1>6, <4>2
      <4>3. CASE file' = file \o Append(buffer, Torn)
        BY <1>2, <1>6, <4>3
      <4> QED BY <3>1, <4>1, <4>2, <4>3
    <3> QED BY <1>6, <3>1, <3>2 DEF WriterTypeOK
  <2> QED BY <1>0, <2>1, <2>2, <2>3, <2>4 DEF WriterTypeOK
<1> QED BY <1>3, <1>4, <1>5 DEF TypedStep

(* No step of the writer breaks the type invariant. *)
LEMMA TypeNext == WriterTypeOK /\ [WriterNext]_writerVars => WriterTypeOK'
<1> SUFFICES ASSUME WriterTypeOK, [WriterNext]_writerVars
             PROVE  WriterTypeOK'
  OBVIOUS
<1>1. CASE UNCHANGED writerVars
  BY <1>1 DEF WriterTypeOK, writerVars, memory, disk
<1>2. CASE CloseWriter
  <2>1. file \o buffer \in Seq(Frame) /\ Len(file \o buffer) = Len(file) + Len(buffer)
    BY ConcatProperties DEF WriterTypeOK, Frame
  <2>2. /\ UNCHANGED <<sequence, prevHash, recordCount, gapCount, sinceFsync, lastTs>>
        /\ UNCHANGED <<bytesWritten, synced, nextId, acked, raised, met>>
        /\ buffer' = <<>>
        /\ file' = file \o buffer \/ file' = file
    BY <1>2 DEF CloseWriter, memory
  <2>3. <<>> \in Seq(Record)
    BY EmptySeq
  <2>4. synced \in 0 .. Len(file') /\ file' \in Seq(Frame)
    <3>1. Len(buffer) \in Nat /\ Len(file) \in Nat
      BY LenProperties DEF WriterTypeOK
    <3>2. CASE file' = file
      BY <3>2 DEF WriterTypeOK
    <3>3. CASE file' = file \o buffer
      <4>1. file' \in Seq(Frame) /\ Len(file') = Len(file) + Len(buffer)
        BY <2>1, <3>3
      <4> QED BY <3>1, <4>1 DEF WriterTypeOK
    <3> QED BY <2>2, <3>2, <3>3
  <2> QED BY <2>2, <2>3, <2>4 DEF WriterTypeOK
<1>3. ASSUME NEW rec \in Record, WriteStep(rec)
      PROVE  WriterTypeOK'
  BY <1>3, TypesKept DEF WriteStep, TypedStep
<1> QED BY <1>1, <1>2, <1>3, NextIsWriteStep

(* Every variable of the writer keeps its type (ChainWriter._write_record_ *)
(* unlocked and close, under any faults).                                  *)
THEOREM WriterTypeCorrect == WriterSpec => []WriterTypeOK
BY TypeInit, TypeNext, PTL DEF WriterSpec

-----------------------------------------------------------------------------
(* The frames written so far, on disk or still in the buffer.  A write     *)
(* appends the record, a torn frame or nothing; close may drop a tail.     *)
frames == file \o buffer

(* The frames on disk, in the buffer, and both together are sequences of   *)
(* frames.                                                                 *)
LEMMA FramesType ==
  ASSUME WriterTypeOK
  PROVE  /\ file \in Seq(Frame) /\ buffer \in Seq(Frame)
         /\ frames \in Seq(Frame)
         /\ Len(frames) \in Nat
         /\ Len(frames) = Len(file) + Len(buffer)
         /\ \A i \in 1 .. Len(file) : frames[i] = file[i]
<1>1. buffer \in Seq(Frame) /\ file \in Seq(Frame)
  BY DEF WriterTypeOK, Frame
<1> QED BY <1>1, ConcatProperties, LenProperties DEF frames

(* What one write does to the frames: Commit appends the record, a failing *)
(* write appends it, a torn frame or nothing and lists its numbers.        *)
LEMMA WriteFrames ==
  ASSUME WriterTypeOK, NEW rec \in Record, WriteStep(rec)
  PROVE  /\ \/ frames' = Append(frames, rec) /\ raised' = raised
            \/ /\ raised' = raised \union (sequence + 1 .. rec.seq)
               /\ frames' \in {frames, Append(frames, rec), Append(frames, Torn)}
<1>1. /\ buffer \in Seq(Frame) /\ file \in Seq(Frame)
      /\ rec \in Frame /\ Torn \in Frame
  BY DEF WriterTypeOK, Frame
<1>2. \A frame \in Frame : file \o Append(buffer, frame) = Append(frames, frame)
  BY <1>1, ConcatAppend DEF frames
<1>3. \A frame \in Frame : (file \o Append(buffer, frame)) \o <<>> = Append(frames, frame)
  <2>1. \A frame \in Frame : file \o Append(buffer, frame) \in Seq(Frame)
    BY FlushedFrames
  <2> QED BY <1>2, <2>1, ConcatEmptySeq
<1>4. CASE Commit(rec)
  <2>1. file' = file \o Append(buffer, rec) /\ buffer' = <<>> /\ raised' = raised
    BY <1>4 DEF Commit
  <2> QED BY <1>1, <1>3, <2>1 DEF frames
<1>5. CASE SerializeFails(rec)
  BY <1>5 DEF SerializeFails, disk, frames
<1>6. CASE IOFails(rec)
  <2>1. /\ raised' = raised \union (sequence + 1 .. rec.seq)
        /\ \/ file' = file /\ buffer' = buffer
           \/ file' = file \o Append(buffer, Torn) /\ buffer' = <<>>
           \/ file' = file /\ buffer' = Append(buffer, rec)
           \/ file' = file \o Append(buffer, rec) /\ buffer' = <<>>
    BY <1>6 DEF IOFails, disk
  <2> QED BY <1>1, <1>2, <1>3, <2>1 DEF frames
<1> QED BY <1>4, <1>5, <1>6 DEF WriteStep

(* Closing keeps the frames or drops those still in the buffer. *)
LEMMA CloseFrames ==
  ASSUME WriterTypeOK, CloseWriter
  PROVE  \/ frames' = frames
         \/ frames' = file
<1>1. file \o buffer \in Seq(Frame) /\ file \in Seq(Frame)
  BY ConcatProperties DEF WriterTypeOK, Frame
<1>2. (file \o buffer) \o <<>> = file \o buffer /\ file \o <<>> = file
  BY <1>1, ConcatEmptySeq
<1> QED BY <1>2 DEF CloseWriter, frames

-----------------------------------------------------------------------------
(* Sequence numbers and timestamps grow along the frames, and none is      *)
(* beyond the writer's own.                                                *)
Bounded(fs) ==
  \A i \in 1 .. Len(fs) : fs[i] # Torn => fs[i].seq <= sequence /\ fs[i].ts <= lastTs

Ordered(fs) ==
  \A i, j \in 1 .. Len(fs) :
    i < j /\ fs[i] # Torn /\ fs[j] # Torn => fs[i].seq < fs[j].seq /\ fs[i].ts <= fs[j].ts

OrderInv == WriterTypeOK /\ Ordered(frames) /\ Bounded(frames)

(* No step breaks the order of numbers and timestamps. *)
LEMMA OrderNext == OrderInv /\ [WriterNext]_writerVars => OrderInv'
<1> SUFFICES ASSUME OrderInv, [WriterNext]_writerVars
             PROVE  OrderInv'
  OBVIOUS
<1>0. WriterTypeOK /\ WriterTypeOK'
  BY TypeNext DEF OrderInv
<1>1. CASE UNCHANGED writerVars
  BY <1>0, <1>1 DEF OrderInv, Ordered, Bounded, frames, writerVars, memory, disk
<1>2. CASE CloseWriter
  <2>1. UNCHANGED <<sequence, lastTs>>
    BY <1>2 DEF CloseWriter, memory
  <2>2. CASE frames' = frames
    BY <1>0, <2>1, <2>2 DEF OrderInv, Ordered, Bounded
  <2>3. CASE frames' = file
    <3>1. /\ Len(file) \in Nat /\ Len(file) <= Len(frames)
          /\ \A i \in 1 .. Len(file) : i \in 1 .. Len(frames) /\ frames[i] = file[i]
      <4>1. Len(file) \in Nat /\ Len(buffer) \in Nat
        BY <1>0, LenProperties DEF WriterTypeOK
      <4> QED BY <1>0, <4>1, FramesType
    <3> QED BY <1>0, <2>1, <2>3, <3>1 DEF OrderInv, Ordered, Bounded
  <2> QED BY <1>0, <1>2, <2>2, <2>3, CloseFrames
<1>3. ASSUME NEW rec \in Record, WriteStep(rec)
      PROVE  OrderInv'
  <2>1. /\ rec.seq \in Nat /\ rec.ts \in Nat /\ sequence \in Nat /\ lastTs \in Nat
        /\ sequence' = rec.seq /\ sequence < rec.seq
        /\ lastTs' = rec.ts /\ lastTs <= rec.ts
    BY <1>0, <1>3 DEF WriteStep, LegalRecord, WriterTypeOK, Record
  <2>2. /\ frames \in Seq(Frame) /\ Len(frames) \in Nat
        /\ \A i \in 1 .. Len(frames) :
             frames[i] # Torn => frames[i].seq \in Nat /\ frames[i].ts \in Nat
    BY <1>0, FramesType DEF Frame, Record
  <2>3. CASE frames' = frames
    BY <1>0, <2>1, <2>2, <2>3 DEF OrderInv, Ordered, Bounded
  <2>4. ASSUME NEW frame \in {rec, Torn}, frames' = Append(frames, frame)
        PROVE  OrderInv'
    <3>1. /\ Len(frames') = Len(frames) + 1
          /\ \A i \in 1 .. Len(frames) : frames'[i] = frames[i]
          /\ frames'[Len(frames) + 1] = frame
      BY <2>2, <2>4, AppendProperties DEF Frame
    <3>2. Bounded(frames)'
      BY <2>1, <2>2, <2>4, <3>1 DEF OrderInv, Bounded
    <3>3. Ordered(frames)'
      <4> SUFFICES ASSUME NEW i \in 1 .. Len(frames'), NEW j \in 1 .. Len(frames'),
                          i < j, frames'[i] # Torn, frames'[j] # Torn
                   PROVE  frames'[i].seq < frames'[j].seq /\ frames'[i].ts <= frames'[j].ts
        BY DEF Ordered
      <4>1. i \in 1 .. Len(frames)
        BY <2>2, <3>1
      <4>2. CASE j \in 1 .. Len(frames)
        BY <3>1, <4>1, <4>2 DEF OrderInv, Ordered
      <4>3. CASE j = Len(frames) + 1
        BY <2>1, <2>2, <2>4, <3>1, <4>1, <4>3 DEF OrderInv, Bounded
      <4> QED BY <2>2, <3>1, <4>2, <4>3
    <3> QED BY <1>0, <3>2, <3>3 DEF OrderInv
  <2> QED BY <1>0, <1>3, <2>3, <2>4, WriteFrames
<1> QED BY <1>0, <1>1, <1>2, <1>3, NextIsWriteStep

(* The order holds of an empty file. *)
LEMMA OrderInit == WriterInit => OrderInv
<1> SUFFICES ASSUME WriterInit PROVE OrderInv
  OBVIOUS
<1>1. Len(frames) = 0
  BY TypeInit, FramesType, EmptySeq DEF WriterInit
<1> QED BY <1>1, TypeInit DEF OrderInv, Ordered, Bounded

(* The order of the frames is what the two checked properties say. *)
LEMMA OrderImplied == OrderInv => SeqIncreasing /\ TimestampsMonotone
BY DEF OrderInv, Ordered, SeqIncreasing, IncreasingSeqs, TimestampsMonotone, frames

(* No sequence number is ever reused, whatever write fails and however: a  *)
(* failing write keeps the number it took (chain.py:299, :339).    *)
THEOREM SequencesNeverReused == WriterSpec => []SeqIncreasing
BY OrderInit, OrderNext, OrderImplied, PTL DEF WriterSpec

(* Timestamps never go back, whatever the wall clock shows (chain.py:245). *)
THEOREM TimestampsNeverGoBack == WriterSpec => []TimestampsMonotone
BY OrderInit, OrderNext, OrderImplied, PTL DEF WriterSpec

-----------------------------------------------------------------------------
(* Only a write that raised makes a number disappear.                      *)
AccountInv ==
  /\ WriterTypeOK
  /\ \A n \in 1 .. sequence :
       n \in raised \/ \E i \in 1 .. Len(frames) : n \in Numbers(frames[i])
  /\ \A i \in 1 .. Len(buffer) : Numbers(buffer[i]) \subseteq raised

(* A number is accounted for when some frame stands for it. *)
LEMMA AccountedNumbers ==
  ASSUME NEW fs \in Seq(Frame)
  PROVE  \A n : n \in Accounted(fs) <=> \E i \in 1 .. Len(fs) : n \in Numbers(fs[i])
BY DEF Accounted, Numbers

(* After a step the buffer is what it was, empty, or one raised record     *)
(* longer.                                                                 *)
LEMMA WriteBuffer ==
  ASSUME WriterTypeOK, NEW rec \in Record, WriteStep(rec)
  PROVE  /\ raised \subseteq raised'
         /\ \/ buffer' = buffer
            \/ buffer' = <<>>
            \/ buffer' = Append(buffer, rec) /\ sequence + 1 .. rec.seq \subseteq raised'
<1>1. CASE Commit(rec)
  BY <1>1 DEF Commit
<1>2. CASE SerializeFails(rec)
  BY <1>2 DEF SerializeFails, disk
<1>3. CASE IOFails(rec)
  BY <1>3 DEF IOFails, disk
<1> QED BY <1>1, <1>2, <1>3 DEF WriteStep

(* A step accounts for, or lists as raised, every number it takes. *)
LEMMA AccountNext == AccountInv /\ [WriterNext]_writerVars => AccountInv'
<1> SUFFICES ASSUME AccountInv, [WriterNext]_writerVars
             PROVE  AccountInv'
  OBVIOUS
<1>0. WriterTypeOK /\ WriterTypeOK'
  BY TypeNext DEF AccountInv
<1>1. CASE UNCHANGED writerVars
  BY <1>0, <1>1 DEF AccountInv, frames, writerVars, memory, disk
<1>2. CASE CloseWriter
  <2>1. UNCHANGED <<sequence, raised>> /\ buffer' = <<>>
    BY <1>2 DEF CloseWriter, memory
  <2>2. Len(buffer') = 0
    BY <2>1
  <2>3. CASE frames' = frames
    BY <1>0, <2>1, <2>2, <2>3 DEF AccountInv
  <2>4. CASE frames' = file
    <3>1. /\ Len(file) \in Nat /\ Len(buffer) \in Nat /\ Len(frames) = Len(file) + Len(buffer)
          /\ \A i \in 1 .. Len(file) : frames[i] = file[i]
      BY <1>0, FramesType, LenProperties DEF WriterTypeOK
    <3>2. ASSUME NEW n \in 1 .. sequence, n \notin raised
          PROVE  \E i \in 1 .. Len(file) : n \in Numbers(file[i])
      <4>1. PICK i \in 1 .. Len(frames) : n \in Numbers(frames[i])
        BY <3>2 DEF AccountInv
      <4>2. CASE i <= Len(file)
        BY <3>1, <4>1, <4>2
      <4>3. CASE i > Len(file)
        <5>1. i - Len(file) \in 1 .. Len(buffer)
          BY <3>1, <4>3
        <5>2. frames[i] = buffer[i - Len(file)]
          <6>1. file \in Seq(Frame) /\ buffer \in Seq(Frame)
            BY <1>0, FramesType
          <6>2. i \in 1 .. Len(file) + Len(buffer) /\ i > Len(file)
            BY <3>1, <4>3
          <6>3. (file \o buffer)[i] = IF i <= Len(file) THEN file[i] ELSE buffer[i - Len(file)]
            BY <6>1, <6>2, ConcatProperties
          <6> QED BY <3>1, <4>3, <6>3 DEF frames
        <5> QED BY <3>2, <4>1, <5>1, <5>2 DEF AccountInv
      <4> QED BY <3>1, <4>2, <4>3
    <3> QED BY <1>0, <2>1, <2>2, <2>4, <3>2 DEF AccountInv
  <2> QED BY <1>0, <1>2, <2>3, <2>4, CloseFrames
<1>3. ASSUME NEW rec \in Record, WriteStep(rec)
      PROVE  AccountInv'
  <2>1. /\ rec.seq \in Nat /\ sequence \in Nat /\ sequence' = rec.seq
        /\ sequence < rec.seq /\ Numbers(rec) = sequence + 1 .. rec.seq
        /\ rec \in Frame /\ Torn \in Frame
    BY <1>0, <1>3 DEF WriteStep, LegalRecord, WriterTypeOK, Record, Frame
  <2>2. frames \in Seq(Frame) /\ Len(frames) \in Nat
    BY <1>0, FramesType
  <2>3. raised \subseteq raised'
    BY <1>0, <1>3, WriteBuffer
  <2>4. \/ frames' = frames
        \/ \E frame \in {rec, Torn} : frames' = Append(frames, frame)
    BY <1>0, <1>3, WriteFrames
  <2>5. \A i \in 1 .. Len(frames) :
          i \in 1 .. Len(frames') /\ frames'[i] = frames[i]
    BY <2>1, <2>2, <2>4, AppendProperties
  <2>6. ASSUME NEW n \in 1 .. sequence', n \notin raised'
        PROVE  \E i \in 1 .. Len(frames') : n \in Numbers(frames'[i])
    <3>1. CASE n \in 1 .. sequence
      BY <2>3, <2>5, <2>6, <3>1 DEF AccountInv
    <3>2. CASE n \in sequence + 1 .. rec.seq
      <4>1. frames' = Append(frames, rec)
        BY <1>0, <1>3, <2>6, <3>2, WriteFrames
      <4>2. Len(frames') = Len(frames) + 1 /\ frames'[Len(frames) + 1] = rec
        BY <2>1, <2>2, <4>1, AppendProperties
      <4>3. Len(frames) + 1 \in 1 .. Len(frames')
        BY <2>2, <4>2
      <4> QED BY <2>1, <3>2, <4>2, <4>3
    <3> QED BY <2>1, <3>1, <3>2
  <2>7. ASSUME NEW i \in 1 .. Len(buffer')
        PROVE  Numbers(buffer'[i]) \subseteq raised'
    <3>1. CASE buffer' = buffer
      BY <2>3, <2>7, <3>1 DEF AccountInv
    <3>2. CASE buffer' = <<>>
      BY <2>7, <3>2
    <3>3. CASE buffer' = Append(buffer, rec) /\ sequence + 1 .. rec.seq \subseteq raised'
      <4>1. /\ buffer \in Seq(Record) /\ Len(buffer) \in Nat
            /\ Len(buffer') = Len(buffer) + 1 /\ buffer'[Len(buffer) + 1] = rec
            /\ \A k \in 1 .. Len(buffer) : buffer'[k] = buffer[k]
        <5>1. buffer \in Seq(Record)
          BY <1>0 DEF WriterTypeOK
        <5> QED BY <3>3, <5>1, AppendProperties, LenProperties
      <4>2. CASE i = Len(buffer) + 1
        BY <2>1, <3>3, <4>1, <4>2
      <4>3. CASE i \in 1 .. Len(buffer)
        BY <2>3, <4>1, <4>3 DEF AccountInv
      <4> QED BY <4>1, <4>2, <4>3
    <3> QED BY <1>0, <1>3, <3>1, <3>2, <3>3, WriteBuffer
  <2> QED BY <1>0, <2>6, <2>7 DEF AccountInv
<1> QED BY <1>0, <1>1, <1>2, <1>3, NextIsWriteStep

(* Initially no number has been taken. *)
LEMMA AccountInit == WriterInit => AccountInv
<1> SUFFICES ASSUME WriterInit PROVE AccountInv
  OBVIOUS
<1>1. Len(buffer) = 0 /\ sequence = 0
  BY DEF WriterInit
<1> QED BY <1>1, TypeInit DEF AccountInv

(* The accounting is what the checked property says. *)
LEMMA AccountImplied == AccountInv => OnlyRaisedMissing
<1> SUFFICES ASSUME AccountInv PROVE OnlyRaisedMissing
  OBVIOUS
<1>1. frames \in Seq(Frame)
  BY FramesType DEF AccountInv
<1>2. \A n \in 1 .. sequence : n \in raised \/ n \in Accounted(frames)
  BY <1>1, AccountedNumbers DEF AccountInv
<1> QED BY <1>2 DEF OnlyRaisedMissing, frames

(* A number is missing from the chain only when the write that took it     *)
(* raised (_write_record_unlocked, write_gap and close, any faults).       *)
THEOREM OnlyRaisedNumbersMissing == WriterSpec => []OnlyRaisedMissing
BY AccountInit, AccountNext, AccountImplied, PTL DEF WriterSpec

-----------------------------------------------------------------------------
(* Without a fault that leaves bytes behind, file and memory agree: every  *)
(* record links to the one before it, the head is the last record's hash,  *)
(* and the counters count the file.                                        *)
GapsUpTo(fs, n) == {j \in 1 .. n : fs[j].type = "GAP"}

Counted ==
  /\ HashLinkedFrames(file) /\ prevHash = LastHash(file)
  /\ recordCount = Len(file)
  /\ gapCount = Cardinality(GapsUpTo(file, Len(file)))

TrueBodies(fs) ==
  \A i \in 1 .. Len(fs) : fs[i].type = "CHECKPOINT" =>
    fs[i].body = <<i, Cardinality(GapsUpTo(fs, i)), fs[i].prev>>

Agree == buffer = <<>> /\ Counted /\ TrueBodies(file)

AgreeInv == WriterTypeOK /\ (met \subseteq CleanFaults => Agree)

(* What has happened is never forgotten. *)
LEMMA MetGrows ==
  ASSUME WriterTypeOK, [WriterNext]_writerVars
  PROVE  met \subseteq met'
<1>1. CASE UNCHANGED writerVars
  BY <1>1 DEF writerVars
<1>2. CASE CloseWriter
  BY <1>2 DEF CloseWriter
<1>3. CASE \E rec \in Record : WriteStep(rec)
  BY <1>3 DEF WriteStep
<1> QED BY <1>1, <1>2, <1>3, NextIsWriteStep

(* The two ways such a write ends: it appends its record and moves the     *)
(* head, or moves nothing and at most tears a frame.                       *)
Appended(rec) ==
  /\ file' = Append(file, rec)
  /\ prevHash' = rec.id /\ recordCount' = recordCount + 1
  /\ gapCount' = gapCount + (IF rec.type = "GAP" THEN 1 ELSE 0)
  /\ acked' = acked \union {rec.id}
  /\ synced' \in {synced, Len(file')}

Refused ==
  /\ met' # {}
  /\ prevHash' = prevHash /\ recordCount' = recordCount /\ gapCount' = gapCount
  /\ acked' = acked /\ synced' = synced
  /\ \/ file' = file
     \/ "torn" \in met' /\ file' = Append(file, Torn)

(* When no failure leaves a whole frame behind, there is no third. *)
LEMMA UnbufferedStep ==
  ASSUME WriterTypeOK, NEW rec \in Record, TypedStep(rec),
         met' \subseteq CleanFaults \union {"torn"}, buffer = <<>>
  PROVE  buffer' = <<>> /\ (Appended(rec) \/ Refused)
<1>1. /\ file \in Seq(Frame) /\ <<>> \in Seq(Frame) /\ rec \in Frame /\ Torn \in Frame
  BY EmptySeq DEF WriterTypeOK, Frame
<1>2. \A frame \in Frame : file \o Append(<<>>, frame) = Append(file, frame)
  <2> TAKE frame \in Frame
  <2>1. file \o Append(<<>>, frame) = Append(file \o <<>>, frame) /\ file \o <<>> = file
    BY <1>1, ConcatAppend, ConcatEmptySeq
  <2> QED BY <2>1
<1>3. CASE Commit(rec)
  <2>1. file' = Append(file, rec) /\ buffer' = <<>> /\ synced' \in {synced, Len(file')}
    BY <1>1, <1>2, <1>3 DEF Commit
  <2>2. /\ prevHash' = rec.id /\ recordCount' = recordCount + 1
        /\ gapCount' = gapCount + (IF rec.type = "GAP" THEN 1 ELSE 0)
        /\ acked' = acked \union {rec.id}
    BY <1>3 DEF Commit, Hash
  <2> QED BY <2>1, <2>2 DEF Appended
<1>4. CASE SerializeFails(rec)
  <2>1. /\ buffer' = buffer /\ file' = file /\ synced' = synced
        /\ UNCHANGED <<prevHash, recordCount, gapCount, acked>>
    BY <1>4 DEF SerializeFails, disk
  <2>2. met' # {}
    BY <1>4 DEF SerializeFails, Meet
  <2> QED BY <2>1, <2>2 DEF Refused
<1>5. CASE IOFails(rec)
  <2>1. UNCHANGED <<prevHash, recordCount, gapCount, acked>>
    BY <1>5 DEF IOFails
  <2>2. CASE Meet("drop") /\ UNCHANGED <<disk, sinceFsync>>
    <3>1. buffer' = buffer /\ file' = file /\ synced' = synced
      BY <2>2 DEF disk
    <3>2. met' # {}
      BY <2>2 DEF Meet
    <3> QED BY <2>1, <3>1, <3>2 DEF Refused
  <2>3. CASE /\ Meet("torn") /\ file' = file \o Append(buffer, Torn) /\ buffer' = <<>>
             /\ UNCHANGED <<synced, sinceFsync>>
    <3>1. file' = Append(file, Torn)
      BY <1>1, <1>2, <2>3
    <3>2. "torn" \in met'
      BY <2>3 DEF Meet
    <3> QED BY <2>1, <2>3, <3>1, <3>2 DEF Refused
  <2>4. ~Meet("keep") /\ ~Meet("fsync")
    BY DEF Meet, CleanFaults
  <2> QED BY <1>5, <2>2, <2>3, <2>4 DEF IOFails
<1> QED BY <1>3, <1>4, <1>5 DEF TypedStep

(* While no write leaves any bytes, a failing one changes neither file nor *)
(* head.                                                                   *)
LEMMA CleanStep ==
  ASSUME WriterTypeOK, NEW rec \in Record, TypedStep(rec),
         met' \subseteq CleanFaults, buffer = <<>>
  PROVE  /\ buffer' = <<>>
         /\ Appended(rec) \/ (Refused /\ file' = file)
<1>1. "torn" \notin met' /\ met' \subseteq CleanFaults \union {"torn"}
  BY DEF CleanFaults
<1> QED BY <1>1, UnbufferedStep DEF Refused

(* Appending a frame keeps the gaps counted before it and counts it when   *)
(* it is one.                                                              *)
LEMMA GapsGrow ==
  ASSUME NEW fs \in Seq(Frame), NEW rec \in Frame
  PROVE  LET fs2 == Append(fs, rec)
         IN  /\ \A i \in 1 .. Len(fs) : GapsUpTo(fs2, i) = GapsUpTo(fs, i)
             /\ Cardinality(GapsUpTo(fs2, Len(fs2))) =
                  Cardinality(GapsUpTo(fs, Len(fs))) + (IF rec.type = "GAP" THEN 1 ELSE 0)
<1> DEFINE fs2 == Append(fs, rec)
           new == IF rec.type = "GAP" THEN {Len(fs) + 1} ELSE {}
<1>1. /\ Len(fs) \in Nat /\ Len(fs2) = Len(fs) + 1 /\ fs2[Len(fs) + 1] = rec
      /\ \A i \in 1 .. Len(fs) : fs2[i] = fs[i]
  BY AppendProperties, LenProperties
<1> HIDE DEF fs2
<1>2. GapsUpTo(fs2, Len(fs2)) = GapsUpTo(fs, Len(fs)) \union new
  BY <1>1 DEF GapsUpTo
<1>3. /\ IsFiniteSet(GapsUpTo(fs, Len(fs)))
      /\ Cardinality(GapsUpTo(fs, Len(fs))) \in Nat
  <2>1. IsFiniteSet(1 .. Len(fs)) /\ GapsUpTo(fs, Len(fs)) \subseteq 1 .. Len(fs)
    BY <1>1, FS_Interval DEF GapsUpTo
  <2> QED BY <2>1, FS_Subset, FS_CardinalityType
<1>4. Len(fs) + 1 \notin GapsUpTo(fs, Len(fs))
  BY <1>1 DEF GapsUpTo
<1>5. Cardinality(GapsUpTo(fs2, Len(fs2))) =
        Cardinality(GapsUpTo(fs, Len(fs))) + (IF rec.type = "GAP" THEN 1 ELSE 0)
  <2>1. CASE rec.type = "GAP"
    BY <1>2, <1>3, <1>4, <2>1, FS_AddElement
  <2>2. CASE rec.type # "GAP"
    BY <1>2, <1>3, <2>2
  <2> QED BY <2>1, <2>2
<1>6. \A i \in 1 .. Len(fs) : GapsUpTo(fs2, i) = GapsUpTo(fs, i)
  BY <1>1 DEF GapsUpTo
<1> QED BY <1>5, <1>6 DEF fs2

(* A record appended after the head moves head and counters along. *)
LEMMA AppendedCounts ==
  ASSUME WriterTypeOK, NEW rec \in Record, Counted, rec.prev = prevHash, Appended(rec)
  PROVE  Counted'
<1>1. /\ file \in Seq(Frame) /\ rec \in Frame /\ file' = Append(file, rec)
      /\ prevHash' = rec.id /\ recordCount' = recordCount + 1
      /\ gapCount' = gapCount + (IF rec.type = "GAP" THEN 1 ELSE 0)
  BY DEF WriterTypeOK, Frame, Appended
<1>2. Len(file') = Len(file) + 1 /\ LastHash(file') = rec.id
  BY <1>1, AppendFrame
<1>3. HashLinkedFrames(file')
  BY <1>1, AppendLinks DEF Counted
<1>4. Cardinality(GapsUpTo(file', Len(file'))) =
        Cardinality(GapsUpTo(file, Len(file))) + (IF rec.type = "GAP" THEN 1 ELSE 0)
  BY <1>1, GapsGrow
<1> QED BY <1>1, <1>2, <1>3, <1>4 DEF Counted

(* A checkpoint appended with the counts of the moment tells the truth. *)
LEMMA AppendedTells ==
  ASSUME WriterTypeOK, NEW rec \in Record, Counted, TrueBodies(file), rec.prev = prevHash,
         rec.type = "CHECKPOINT" => rec.body = <<recordCount + 1, gapCount, prevHash>>,
         Appended(rec)
  PROVE  TrueBodies(file')
<1> DEFINE n == Len(file)
<1>1. /\ file \in Seq(Frame) /\ rec \in Frame /\ file' = Append(file, rec) /\ gapCount \in Nat
  BY DEF WriterTypeOK, Frame, Appended
<1>2. /\ n \in Nat /\ Len(file') = n + 1 /\ file'[n + 1] = rec
      /\ \A i \in 1 .. n : file'[i] = file[i]
  BY <1>1, AppendFrame
<1>3. /\ \A i \in 1 .. n : GapsUpTo(file', i) = GapsUpTo(file, i)
      /\ Cardinality(GapsUpTo(file', n + 1)) =
           Cardinality(GapsUpTo(file, n)) + (IF rec.type = "GAP" THEN 1 ELSE 0)
  BY <1>1, <1>2, GapsGrow
<1>4. ASSUME NEW i \in 1 .. n + 1, file'[i].type = "CHECKPOINT"
      PROVE  file'[i].body = <<i, Cardinality(GapsUpTo(file', i)), file'[i].prev>>
  <2>1. CASE i \in 1 .. n
    <3>1. file'[i] = file[i] /\ GapsUpTo(file', i) = GapsUpTo(file, i)
      BY <1>2, <1>3, <2>1
    <3> QED BY <1>4, <2>1, <3>1 DEF TrueBodies
  <2>2. CASE i = n + 1
    <3>1. rec.type = "CHECKPOINT" /\ rec.body = <<n + 1, gapCount, rec.prev>>
      BY <1>2, <1>4, <2>2 DEF Counted
    <3>2. Cardinality(GapsUpTo(file', n + 1)) = gapCount
      <4>1. gapCount = Cardinality(GapsUpTo(file, n))
        BY DEF Counted
      <4>2. (IF rec.type = "GAP" THEN 1 ELSE 0) = 0
        BY <3>1
      <4>3. Cardinality(GapsUpTo(file', n + 1)) = gapCount + 0
        BY <1>3, <4>1, <4>2
      <4> QED BY <1>1, <4>3
    <3> QED BY <1>2, <2>2, <3>1, <3>2
  <2> QED BY <1>2, <2>1, <2>2
<1> QED BY <1>2, <1>4 DEF TrueBodies

(* No step makes the in-memory head or counters disagree with the file. *)
LEMMA AgreeNext == AgreeInv /\ [WriterNext]_writerVars => AgreeInv'
<1> SUFFICES ASSUME AgreeInv, [WriterNext]_writerVars, met' \subseteq CleanFaults
             PROVE  Agree'
  BY TypeNext DEF AgreeInv
<1>0. WriterTypeOK /\ Agree
  <2>1. WriterTypeOK
    BY DEF AgreeInv
  <2>2. met \subseteq met'
    BY <2>1, MetGrows
  <2> QED BY <2>2 DEF AgreeInv
<1>1. CASE UNCHANGED <<file, buffer, prevHash, recordCount, gapCount>>
  BY <1>0, <1>1 DEF Agree, Counted
<1>2. CASE CloseWriter
  BY <1>0, <1>2 DEF Agree, CloseWriter
<1>3. ASSUME NEW rec \in Record, WriteStep(rec)
      PROVE  Agree'
  <2>1. /\ TypedStep(rec) /\ rec.prev = prevHash
        /\ rec.type = "CHECKPOINT" => rec.body = <<recordCount + 1, gapCount, prevHash>>
    BY <1>3 DEF WriteStep, TypedStep, LegalRecord
  <2>2. buffer' = <<>> /\ (Appended(rec) \/ (Refused /\ file' = file))
    BY <1>0, <2>1, CleanStep DEF Agree
  <2>3. CASE Appended(rec)
    BY <1>0, <2>1, <2>2, <2>3, AppendedCounts, AppendedTells DEF Agree
  <2>4. CASE Refused /\ file' = file
    BY <1>0, <2>2, <2>4 DEF Agree, Counted, Refused
  <2> QED BY <2>2, <2>3, <2>4
<1> QED BY <1>0, <1>1, <1>2, <1>3, NextIsWriteStep DEF writerVars, memory, disk

(* Head and counters agree with an empty file. *)
LEMMA AgreeInit == WriterInit => AgreeInv
<1> SUFFICES ASSUME WriterInit PROVE Agree
  BY TypeInit DEF AgreeInv
<1>1. file = <<>> /\ Len(file) = 0 /\ buffer = <<>>
  BY DEF WriterInit
<1>2. Cardinality(GapsUpTo(file, Len(file))) = 0
  BY <1>1, FS_EmptySet DEF GapsUpTo
<1> QED BY <1>1, <1>2 DEF WriterInit, Agree, Counted, TrueBodies, HashLinkedFrames, LastHash, ZeroHash

(* The agreement implies both checked properties. *)
LEMMA AgreeImplied == AgreeInv => HashLinked /\ CheckpointTruth
<1> SUFFICES ASSUME AgreeInv PROVE HashLinked /\ CheckpointTruth
  OBVIOUS
<1>1. HashLinked
  BY DEF AgreeInv, Agree, Counted, HashLinked
<1>2. CheckpointTruth
  <2> SUFFICES ASSUME met \subseteq CleanFaults,
                      NEW i \in 1 .. Len(file), file[i].type = "CHECKPOINT"
               PROVE  /\ file[i].body[1] = i
                      /\ file[i].body[2] = Cardinality({j \in 1 .. i : file[j].type = "GAP"})
                      /\ file[i].body[3] = file[i].prev
    BY DEF CheckpointTruth
  <2>1. file[i].body = <<i, Cardinality(GapsUpTo(file, i)), file[i].prev>>
    BY DEF AgreeInv, Agree, TrueBodies
  <2> QED BY <2>1 DEF GapsUpTo
<1> QED BY <1>1, <1>2

(* While failing writes have left no bytes, every record links to the one  *)
(* before it and the in-memory head is the last one's hash (spec 5.3, the  *)
(* rollback of chain.py:336-343).                                          *)
THEOREM HashChainHolds == WriterSpec => []HashLinked
BY AgreeInit, AgreeNext, AgreeImplied, PTL DEF WriterSpec

(* ... and every checkpoint states the true counts and hash (chain.py:227).*)
THEOREM CheckpointsTellTruth == WriterSpec => []CheckpointTruth
BY AgreeInit, AgreeNext, AgreeImplied, PTL DEF WriterSpec

-----------------------------------------------------------------------------
(* When no write fails the file is what verify_chain accepts, and the next *)
(* number is the one after its last.                                       *)
Numbered == Verifies(file, FALSE) /\ sequence = LastSeq(file)

VerifyInv == AgreeInv /\ (met = {} => Numbered)

(* A record with the next number, or a gap that starts there, keeps that.  *)
LEMMA AppendedVerifies ==
  ASSUME WriterTypeOK, NEW rec \in Record, Counted, Numbered, rec.prev = prevHash,
         WellNumbered(rec), Appended(rec), sequence' = rec.seq
  PROVE  Numbered'
<1>1. file \in Seq(Frame) /\ rec \in Frame /\ file' = Append(file, rec)
  BY DEF WriterTypeOK, Frame, Appended
<1>2. Continues(file, rec)
  BY DEF Continues, WellNumbered, Counted, Numbered
<1>3. Verifies(file', FALSE)
  BY <1>1, <1>2, AppendVerifies DEF Numbered
<1>4. LastSeq(file') = rec.seq
  BY <1>1, AppendFrame
<1> QED BY <1>3, <1>4 DEF Numbered

(* Before any fault every step keeps the numbering verify_chain expects. *)
LEMMA VerifyNext == VerifyInv /\ [WriterNext]_writerVars => VerifyInv'
<1> SUFFICES ASSUME VerifyInv, [WriterNext]_writerVars, met' = {}
             PROVE  Numbered'
  BY AgreeNext DEF VerifyInv
<1>0. WriterTypeOK /\ Agree /\ Numbered
  <2>1. WriterTypeOK
    BY DEF VerifyInv, AgreeInv
  <2>2. met = {}
    BY <2>1, MetGrows
  <2> QED BY <2>1, <2>2 DEF VerifyInv, AgreeInv
<1>1. CASE UNCHANGED <<file, sequence>>
  BY <1>0, <1>1 DEF Numbered
<1>2. CASE CloseWriter
  BY <1>0, <1>2 DEF Agree, CloseWriter
<1>3. ASSUME NEW rec \in Record, WriteStep(rec)
      PROVE  Numbered'
  <2>1. /\ TypedStep(rec) /\ rec.prev = prevHash /\ sequence' = rec.seq /\ WellNumbered(rec)
        /\ met' \subseteq CleanFaults /\ met' = {}
    BY <1>3 DEF WriteStep, TypedStep, LegalRecord
  <2>2. Appended(rec)
    BY <1>0, <2>1, CleanStep DEF Agree, Refused
  <2> QED BY <1>0, <2>1, <2>2, AppendedVerifies DEF Agree
<1> QED BY <1>0, <1>1, <1>2, <1>3, NextIsWriteStep DEF writerVars, memory, disk

(* An empty file is what verify_chain accepts. *)
LEMMA VerifyInit == WriterInit => VerifyInv
<1> SUFFICES ASSUME WriterInit PROVE Numbered
  BY AgreeInit DEF VerifyInv
<1>1. file = <<>> /\ Len(file) = 0 /\ sequence = 0
  BY DEF WriterInit
<1> QED BY <1>1 DEF Numbered, LastSeq, Verifies, Damaged

(* The numbering is the checked property. *)
LEMMA VerifyImplied == VerifyInv => VerifiesWithoutFaults
BY DEF VerifyInv, Numbered, VerifiesWithoutFaults

(* A writer whose writes all succeed, gap records included, produces a     *)
(* file that verify_chain accepts (chain.py:165-233 against verify.py).    *)
THEOREM FaultFreeFileVerifies == WriterSpec => []VerifiesWithoutFaults
BY VerifyInit, VerifyNext, VerifyImplied, PTL DEF WriterSpec

-----------------------------------------------------------------------------
(* What losing power can take.  Ids are fresh, so only Commit exposes a    *)
(* returned record, and the counter that decides on the next fsync counts  *)
(* at least the exposed ones, also after an fsync that failed.             *)
Exposed == {i \in 1 .. Len(file) : file[i].id \in acked /\ i > synced}

FreshIds ==
  /\ \A n \in acked : 0 < n /\ n < nextId
  /\ \A i \in 1 .. Len(file) : file[i].id < nextId
  /\ \A i \in 1 .. Len(buffer) : buffer[i].id < nextId /\ buffer[i].id \notin acked

Window ==
  /\ FsyncMode = "every" => Exposed = {}
  /\ FsyncMode = "batch" => /\ Cardinality(Exposed) <= sinceFsync
                            /\ Cardinality(Exposed) < FsyncBatch

DurableInv == WriterTypeOK /\ FreshIds /\ Window

(* Every frame has an id. *)
LEMMA FrameIds ==
  ASSUME NEW fs \in Seq(Frame)
  PROVE  Len(fs) \in Nat /\ \A i \in 1 .. Len(fs) : fs[i].id \in Nat
<1>1. \A frame \in Frame : frame.id \in Nat
  BY DEF Frame, Record, Torn
<1>2. Len(fs) \in Nat /\ \A i \in 1 .. Len(fs) : fs[i] \in Frame
  BY LenProperties
<1> QED BY <1>1, <1>2

(* The set of returned but not yet durable records is finite. *)
LEMMA ExposedFinite ==
  ASSUME WriterTypeOK
  PROVE  IsFiniteSet(Exposed) /\ Cardinality(Exposed) \in Nat
<1>1. Len(file) \in Nat
  BY LenProperties DEF WriterTypeOK
<1>2. IsFiniteSet(1 .. Len(file)) /\ Exposed \subseteq 1 .. Len(file)
  BY <1>1, FS_Interval DEF Exposed
<1> QED BY <1>2, FS_Subset, FS_CardinalityType

(* The frames a flush adds to the file are those of the buffer and the     *)
(* written one.                                                            *)
LEMMA FlushedIds ==
  ASSUME WriterTypeOK, NEW frame \in Frame
  PROVE  LET fs == file \o Append(buffer, frame)
         IN  /\ Len(fs) = Len(file) + Len(buffer) + 1
             /\ \A i \in 1 .. Len(file) : fs[i] = file[i]
             /\ \A i \in Len(file) + 1 .. Len(file) + Len(buffer) :
                  \E k \in 1 .. Len(buffer) : fs[i] = buffer[k]
             /\ fs[Len(file) + Len(buffer) + 1] = frame
<1> DEFINE fs == file \o Append(buffer, frame)
<1>1. /\ file \in Seq(Frame) /\ buffer \in Seq(Frame)
      /\ Len(file) \in Nat /\ Len(buffer) \in Nat
  BY FramesType, LenProperties
<1>2. /\ Append(buffer, frame) \in Seq(Frame)
      /\ Len(Append(buffer, frame)) = Len(buffer) + 1
      /\ \A k \in 1 .. Len(buffer) : Append(buffer, frame)[k] = buffer[k]
      /\ Append(buffer, frame)[Len(buffer) + 1] = frame
  BY <1>1, AppendProperties
<1>3. /\ Len(fs) = Len(file) + Len(buffer) + 1
      /\ \A i \in 1 .. Len(file) + (Len(buffer) + 1) :
           fs[i] = IF i <= Len(file) THEN file[i] ELSE Append(buffer, frame)[i - Len(file)]
  <2> DEFINE t == Append(buffer, frame)
  <2>1. t \in Seq(Frame) /\ Len(t) = Len(buffer) + 1
    BY <1>2
  <2> HIDE DEF t
  <2>2. /\ Len(file \o t) = Len(file) + Len(t)
        /\ \A i \in 1 .. Len(file) + Len(t) :
             (file \o t)[i] = IF i <= Len(file) THEN file[i] ELSE t[i - Len(file)]
    BY <1>1, <2>1, ConcatProperties
  <2> QED BY <1>1, <2>1, <2>2 DEF t
<1> HIDE DEF fs
<1>4. ASSUME NEW i \in Len(file) + 1 .. Len(file) + Len(buffer)
      PROVE  \E k \in 1 .. Len(buffer) : fs[i] = buffer[k]
  <2>1. i - Len(file) \in 1 .. Len(buffer) /\ ~(i <= Len(file))
    BY <1>1
  <2>2. fs[i] = Append(buffer, frame)[i - Len(file)]
    BY <1>1, <1>3, <2>1
  <2> QED BY <1>2, <2>1, <2>2
<1>5. fs[Len(file) + Len(buffer) + 1] = frame
  <2>1. /\ Len(file) + Len(buffer) + 1 \in 1 .. Len(file) + (Len(buffer) + 1)
        /\ ~(Len(file) + Len(buffer) + 1 <= Len(file))
        /\ Len(file) + Len(buffer) + 1 - Len(file) = Len(buffer) + 1
    BY <1>1
  <2> QED BY <1>2, <1>3, <2>1
<1>6. \A i \in 1 .. Len(file) : fs[i] = file[i]
  BY <1>1, <1>3
<1> QED BY <1>3, <1>4, <1>5, <1>6 DEF fs

(* A flush of the buffer and a frame nobody has acknowledged exposes       *)
(* nothing new.                                                            *)
LEMMA UnackedFlush ==
  ASSUME DurableInv, NEW frame \in Frame, frame.id \notin acked, frame.id <= nextId,
         file' = file \o Append(buffer, frame), acked' = acked, synced' = synced
  PROVE  /\ Exposed' = Exposed
         /\ \A i \in 1 .. Len(file') : file'[i].id <= nextId
<1>1. WriterTypeOK /\ FreshIds /\ Len(file) \in Nat /\ Len(buffer) \in Nat
  BY LenProperties DEF DurableInv, WriterTypeOK
<1>2. /\ Len(file') = Len(file) + Len(buffer) + 1
      /\ \A i \in 1 .. Len(file) : file'[i] = file[i]
      /\ \A i \in Len(file) + 1 .. Len(file) + Len(buffer) :
           \E k \in 1 .. Len(buffer) : file'[i] = buffer[k]
      /\ file'[Len(file) + Len(buffer) + 1] = frame
  BY <1>1, FlushedIds
<1>3. ASSUME NEW i \in Len(file) + 1 .. Len(file')
      PROVE  file'[i].id \notin acked /\ file'[i].id <= nextId
  <2>1. CASE i \in Len(file) + 1 .. Len(file) + Len(buffer)
    <3>1. PICK k \in 1 .. Len(buffer) : file'[i] = buffer[k]
      BY <1>2, <2>1
    <3>2. buffer[k].id \notin acked /\ buffer[k].id < nextId /\ buffer[k].id \in Nat
      BY <1>1, FramesType, FrameIds DEF FreshIds
    <3> QED BY <1>1, <3>1, <3>2 DEF WriterTypeOK
  <2>2. CASE i = Len(file) + Len(buffer) + 1
    BY <1>2, <2>2
  <2>3. i \in Len(file) + 1 .. Len(file) + Len(buffer) \/ i = Len(file) + Len(buffer) + 1
    BY <1>1, <1>2
  <2> QED BY <2>1, <2>2, <2>3, Zenon
<1>4. \A i \in 1 .. Len(file) : file'[i].id <= nextId
  <2>1. \A i \in 1 .. Len(file) : file[i].id \in Nat /\ file[i].id < nextId
    BY <1>1, FramesType, FrameIds DEF FreshIds
  <2> QED BY <1>1, <1>2, <2>1 DEF WriterTypeOK
<1>5. Exposed' = Exposed
  BY <1>1, <1>2, <1>3 DEF Exposed
<1>6. ASSUME NEW i \in 1 .. Len(file')
      PROVE  file'[i].id <= nextId
  <2>1. i \in 1 .. Len(file) \/ i \in Len(file) + 1 .. Len(file')
    BY <1>1, <1>2
  <2> QED BY <1>3, <1>4, <2>1, Zenon
<1> QED BY <1>5, <1>6

(* No step exposes more returned records than the fsync policy allows. *)
LEMMA DurableNext == DurableInv /\ [WriterNext]_writerVars => DurableInv'
<1> SUFFICES ASSUME DurableInv, [WriterNext]_writerVars
             PROVE  DurableInv'
  OBVIOUS
<1>0. WriterTypeOK /\ WriterTypeOK' /\ FreshIds /\ Window
  BY TypeNext DEF DurableInv
<1>00. /\ Len(file) \in Nat /\ Len(buffer) \in Nat /\ nextId \in Nat \ {0}
       /\ \A i \in 1 .. Len(file) : file[i].id \in Nat
       /\ \A i \in 1 .. Len(buffer) : buffer[i].id \in Nat
       /\ acked \subseteq Nat
       /\ sinceFsync \in Nat /\ FsyncBatch \in Nat \ {0}
  BY <1>0, FramesType, FrameIds, WriterAssumption DEF WriterTypeOK
<1>1. CASE UNCHANGED writerVars
  BY <1>0, <1>1 DEF DurableInv, FreshIds, Window, Exposed, writerVars, memory, disk
<1>2. CASE CloseWriter
  <2>1. /\ UNCHANGED <<sinceFsync, synced, nextId, acked>> /\ buffer' = <<>>
        /\ file' = file \/ file' = file \o buffer
    BY <1>2 DEF CloseWriter, memory
  <2>2. CASE file' = file
    BY <1>0, <2>1, <2>2 DEF DurableInv, FreshIds, Window, Exposed
  <2>3. CASE file' = file \o buffer
    <3>1. /\ Len(file') = Len(file) + Len(buffer)
          /\ \A i \in 1 .. Len(file) + Len(buffer) :
               file'[i] = IF i <= Len(file) THEN file[i] ELSE buffer[i - Len(file)]
      <4>1. file \in Seq(Frame) /\ buffer \in Seq(Frame)
        BY <1>0, FramesType
      <4> QED BY <2>3, <4>1, ConcatProperties
    <3>2. \A i \in 1 .. Len(file) : file'[i] = file[i]
      BY <1>00, <3>1
    <3>3. ASSUME NEW i \in Len(file) + 1 .. Len(file')
          PROVE  file'[i].id \notin acked /\ file'[i].id < nextId
      <4>1. i - Len(file) \in 1 .. Len(buffer) /\ file'[i] = buffer[i - Len(file)]
        BY <1>00, <3>1
      <4> QED BY <1>0, <4>1 DEF FreshIds
    <3>4. Exposed' = Exposed
      BY <1>00, <2>1, <3>1, <3>2, <3>3 DEF Exposed
    <3>5. FreshIds'
      BY <1>0, <1>00, <2>1, <3>1, <3>2, <3>3 DEF FreshIds
    <3> QED BY <1>0, <2>1, <3>4, <3>5 DEF DurableInv, Window
  <2> QED BY <2>1, <2>2, <2>3
<1>3. ASSUME NEW rec \in Record, WriteStep(rec)
      PROVE  DurableInv'
  <2>1. /\ nextId' = nextId + 1 /\ rec.id = nextId
        /\ rec \in Frame /\ Torn \in Frame /\ Torn.id = 0
        /\ nextId \notin acked /\ 0 \notin acked
    BY <1>0, <1>00, <1>3 DEF WriteStep, LegalRecord, Frame, Torn, FreshIds
  <2>2. CASE Commit(rec)
    <3>1. /\ file' = file \o Append(buffer, rec) /\ buffer' = <<>>
          /\ acked' = acked \union {nextId}
          /\ \/ FsyncDue /\ sinceFsync' = 0 /\ synced' = Len(file')
             \/ ~FsyncDue /\ sinceFsync' = sinceFsync + 1 /\ synced' = synced
      BY <2>1, <2>2 DEF Commit
    <3>2. /\ Len(file') = Len(file) + Len(buffer) + 1
          /\ \A i \in 1 .. Len(file) : file'[i] = file[i]
          /\ \A i \in Len(file) + 1 .. Len(file) + Len(buffer) :
               \E k \in 1 .. Len(buffer) : file'[i] = buffer[k]
          /\ file'[Len(file) + Len(buffer) + 1] = rec
      BY <1>0, <2>1, <3>1, FlushedIds
    <3>3. \A i \in Len(file) + 1 .. Len(file) + Len(buffer) :
            file'[i].id \in Nat /\ file'[i].id \notin acked /\ file'[i].id < nextId
      BY <1>0, <1>00, <3>2 DEF FreshIds
    <3>4. FreshIds'
      <4>1. \A n \in acked' : 0 < n /\ n < nextId'
        BY <1>0, <1>00, <2>1, <3>1 DEF FreshIds
      <4>2. ASSUME NEW i \in 1 .. Len(file')
            PROVE  file'[i].id < nextId'
        <5>1. CASE i \in 1 .. Len(file)
          <6>1. file'[i] = file[i] /\ file[i].id < nextId /\ file[i].id \in Nat
            BY <1>0, <1>00, <3>2, <5>1 DEF FreshIds
          <6> QED BY <1>00, <2>1, <6>1
        <5>2. CASE i \in Len(file) + 1 .. Len(file) + Len(buffer)
          BY <1>00, <2>1, <3>3, <5>2
        <5>3. CASE i = Len(file) + Len(buffer) + 1
          BY <1>00, <2>1, <3>2, <5>3
        <5> QED BY <1>00, <3>2, <5>1, <5>2, <5>3
      <4>3. Len(buffer') = 0
        BY <3>1
      <4> QED BY <4>1, <4>2, <4>3 DEF FreshIds
    <3>5. CASE FsyncDue
      <4>1. synced' = Len(file') /\ sinceFsync' = 0
        BY <3>1, <3>5
      <4>2. Exposed' = {}
        BY <1>00, <3>2, <4>1 DEF Exposed
      <4>3. Cardinality(Exposed') = 0
        BY <4>2, FS_EmptySet
      <4>4. Window'
        BY <1>00, <4>1, <4>2, <4>3 DEF Window
      <4> QED BY <1>0, <3>4, <4>4 DEF DurableInv
    <3>6. CASE ~FsyncDue
      <4>1. synced' = synced /\ sinceFsync' = sinceFsync + 1
        BY <3>1, <3>6
      <4>2. Exposed' \subseteq Exposed \union {Len(file')}
        <5> SUFFICES ASSUME NEW i \in Exposed', i # Len(file')
                     PROVE  i \in Exposed
          OBVIOUS
        <5>1. i \in 1 .. Len(file') /\ file'[i].id \in acked \union {nextId} /\ i > synced
          BY <3>1, <4>1 DEF Exposed
        <5>2. CASE i \in 1 .. Len(file)
          <6>1. file'[i] = file[i] /\ file[i].id < nextId
            BY <1>0, <3>2, <5>2 DEF FreshIds
          <6> QED BY <1>00, <5>1, <5>2, <6>1 DEF Exposed
        <5>3. CASE i \in Len(file) + 1 .. Len(file) + Len(buffer)
          BY <1>00, <3>3, <5>1, <5>3
        <5> QED BY <1>00, <3>2, <5>1, <5>2, <5>3
      <4>3. /\ Cardinality(Exposed') \in Nat
            /\ Cardinality(Exposed') <= Cardinality(Exposed) + 1
        <5>1. /\ IsFiniteSet(Exposed) /\ Cardinality(Exposed) \in Nat
          BY <1>0, ExposedFinite
        <5>2. /\ IsFiniteSet(Exposed \union {Len(file')})
              /\ Cardinality(Exposed \union {Len(file')}) <= Cardinality(Exposed) + 1
              /\ Cardinality(Exposed \union {Len(file')}) \in Nat
          <6>1. /\ IsFiniteSet(Exposed \union {Len(file')})
                /\ Cardinality(Exposed \union {Len(file')}) =
                     IF Len(file') \in Exposed THEN Cardinality(Exposed)
                                               ELSE Cardinality(Exposed) + 1
            BY <5>1, FS_AddElement
          <6> QED BY <5>1, <6>1
        <5>3. /\ Cardinality(Exposed') <= Cardinality(Exposed \union {Len(file')})
              /\ Cardinality(Exposed') \in Nat
          BY <4>2, <5>2, FS_Subset, FS_CardinalityType
        <5> QED BY <5>1, <5>2, <5>3
      <4>4. FsyncMode # "every" /\ (FsyncMode = "batch" => sinceFsync + 1 < FsyncBatch)
        BY <1>00, <3>6 DEF FsyncDue
      <4>5. Window'
        <5>1. Cardinality(Exposed) \in Nat
          BY <1>0, ExposedFinite
        <5> QED BY <1>0, <1>00, <4>1, <4>3, <4>4, <5>1 DEF Window
      <4> QED BY <1>0, <3>4, <4>5 DEF DurableInv
    <3> QED BY <3>5, <3>6
  <2>3. ASSUME acked' = acked, synced' = synced, sinceFsync' \in {sinceFsync, sinceFsync + 1},
               \/ file' = file /\ buffer' \in {buffer, Append(buffer, rec)}
               \/ /\ buffer' = <<>>
                  /\ \E frame \in {rec, Torn} : file' = file \o Append(buffer, frame)
        PROVE  DurableInv'
    <3>1. Exposed' = Exposed /\ \A i \in 1 .. Len(file') : file'[i].id <= nextId
      <4>1. CASE file' = file
        <5>1. Exposed' = Exposed
          BY <2>3, <4>1 DEF Exposed
        <5>2. \A i \in 1 .. Len(file) : file[i].id <= nextId
          BY <1>0, <1>00 DEF FreshIds
        <5> QED BY <4>1, <5>1, <5>2
      <4>2. ASSUME NEW frame \in {rec, Torn}, file' = file \o Append(buffer, frame)
            PROVE  Exposed' = Exposed /\ \A i \in 1 .. Len(file') : file'[i].id <= nextId
        <5>1. frame \in Frame /\ frame.id \notin acked /\ frame.id <= nextId
          BY <1>00, <2>1
        <5> QED BY <2>3, <4>2, <5>1, UnackedFlush
      <4> QED BY <2>3, <4>1, <4>2
    <3>2. ASSUME NEW i \in 1 .. Len(buffer')
          PROVE  buffer'[i].id <= nextId /\ buffer'[i].id \notin acked
      <4>1. CASE buffer' = buffer
        BY <1>0, <1>00, <4>1 DEF FreshIds
      <4>2. CASE buffer' = <<>>
        BY <4>2
      <4>3. CASE buffer' = Append(buffer, rec)
        <5>1. /\ Len(buffer') = Len(buffer) + 1 /\ buffer'[Len(buffer) + 1] = rec
              /\ \A k \in 1 .. Len(buffer) : buffer'[k] = buffer[k]
          <6>1. buffer \in Seq(Record)
            BY <1>0 DEF WriterTypeOK
          <6> QED BY <4>3, <6>1, AppendProperties
        <5> QED BY <1>0, <1>00, <2>1, <5>1 DEF FreshIds
      <4> QED BY <2>3, <4>1, <4>2, <4>3
    <3>3. FreshIds'
      <4>1. /\ \A i \in 1 .. Len(file') : file'[i].id \in Nat
            /\ \A i \in 1 .. Len(buffer') : buffer'[i].id \in Nat
        <5>1. file' \in Seq(Frame) /\ buffer' \in Seq(Record)
          BY <1>0 DEF WriterTypeOK
        <5>2. buffer' \in Seq(Frame)
          BY <5>1 DEF Frame
        <5> QED BY <5>1, <5>2, FrameIds
      <4> QED BY <1>0, <1>00, <2>1, <2>3, <3>1, <3>2, <4>1 DEF FreshIds
    <3>4. Window'
      <4>1. Cardinality(Exposed) \in Nat
        BY <1>0, ExposedFinite
      <4> QED BY <1>0, <1>00, <2>3, <3>1, <4>1 DEF Window
    <3> QED BY <1>0, <3>3, <3>4 DEF DurableInv
  <2>4. CASE SerializeFails(rec)
    BY <2>3, <2>4 DEF SerializeFails, disk
  <2>5. CASE IOFails(rec)
    BY <2>3, <2>5 DEF IOFails, disk
  <2> QED BY <1>3, <2>2, <2>4, <2>5 DEF WriteStep
<1> QED BY <1>0, <1>1, <1>2, <1>3, NextIsWriteStep

(* Initially nothing is exposed. *)
LEMMA DurableInit == WriterInit => DurableInv
<1> SUFFICES ASSUME WriterInit PROVE DurableInv
  OBVIOUS
<1>1. Len(file) = 0 /\ Len(buffer) = 0 /\ acked = {} /\ sinceFsync = 0
  BY DEF WriterInit
<1>2. Exposed = {} /\ Cardinality(Exposed) = 0
  BY <1>1, FS_EmptySet DEF Exposed
<1> QED BY <1>1, <1>2, TypeInit, WriterAssumption DEF DurableInv, FreshIds, Window

(* The window of the invariant is that of the checked property. *)
LEMMA DurableImplied == DurableInv => DurabilityWindow
<1> SUFFICES ASSUME DurableInv PROVE DurabilityWindow
  OBVIOUS
<1>1. {i \in Flushed(file) : i > synced} = Exposed
  BY DEF Flushed, Exposed
<1> QED BY <1>1 DEF DurableInv, Window, DurabilityWindow

(* Losing power takes no returned record with fsync_mode "every", and      *)
(* fewer than fsync_batch_size with "batch", whatever writes or fsyncs     *)
(* failed before (chain.py:327-335).                                       *)
THEOREM DurabilityBounded == WriterSpec => []DurabilityWindow
BY DurableInit, DurableNext, DurableImplied, PTL DEF WriterSpec
=============================================================================
