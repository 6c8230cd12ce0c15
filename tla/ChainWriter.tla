----------------------------- MODULE ChainWriter -----------------------------
(***************************************************************************)
(* ChainWriter of ahp/core/chain.py: one writer on one chain file.  Every  *)
(* public write takes _lock, so a write is one step; what can differ is    *)
(* how it ends.  Faults says which of these endings the environment may    *)
(* choose:                                                                 *)
(*   "invalid"    validate_record reports errors, a GapRecord replaces it  *)
(*   "serialize"  canonical_bytes raises (a value does not fit its field)  *)
(*   "drop"       the write raises OSError, no byte reaches the file       *)
(*   "torn"       the write raises OSError after part of the frame; both    *)
(*                for a frame larger than the BufferedWriter, which goes    *)
(*                straight to the file                                      *)
(*   "keep"       flush raises OSError on a smaller frame, which stays in   *)
(*                the BufferedWriter; the next flush completes it           *)
(*   "fsync"      the frame is in the file, fsync raises OSError           *)
(***************************************************************************)
EXTENDS ChainFile

CONSTANTS Faults,      \* the endings above that can happen
          FsyncMode,   \* "every", "batch" or "none"
          FsyncBatch,  \* fsync_batch_size
          Clock,       \* the wall-clock readings a write can see
          MaxRecords,  \* bound: write attempts
          MaxGap       \* bound: records one write_gap documents

FaultKinds == {"invalid", "serialize", "drop", "torn", "keep", "fsync"}

ASSUME WriterAssumption ==
  /\ Faults \subseteq FaultKinds
  /\ FsyncMode \in {"every", "batch", "none"}
  /\ FsyncBatch \in Nat \ {0}
  /\ Clock \subseteq Nat
  /\ MaxRecords \in Nat
  /\ MaxGap \in Nat

VARIABLES
  sequence,      \* _sequence
  prevHash,      \* _prev_hash
  recordCount,   \* _record_count
  gapCount,      \* _gap_count
  sinceFsync,    \* _writes_since_fsync
  lastTs,        \* _last_ts_ms
  bytesWritten,  \* _bytes_written past the header, a frame counting 1
  buffer,        \* frames the BufferedWriter holds after a failed flush
  file,          \* frames in the chain file
  synced,        \* leading frames of file an fsync has made durable
  nextId,        \* next fresh record_id
  acked,         \* history: ids of the records a write returned
  raised,        \* history: sequence numbers a raising write moved past
  met            \* history: the endings of Faults that have happened

memory == <<sequence, prevHash, recordCount, gapCount, sinceFsync, lastTs, bytesWritten>>
disk   == <<buffer, file, synced>>
writerVars == <<memory, disk, nextId, acked, raised, met>>

WriterTypeOK ==
  /\ sequence \in Nat /\ prevHash \in Nat
  /\ recordCount \in Nat /\ gapCount \in Nat
  /\ sinceFsync \in Nat /\ lastTs \in Nat /\ bytesWritten \in Nat
  /\ buffer \in Seq(Record)
  /\ file \in Seq(Frame)
  /\ synced \in 0 .. Len(file)
  /\ nextId \in Nat \ {0}
  /\ acked \subseteq Nat /\ raised \subseteq Nat
  /\ met \subseteq Faults

WriterInit ==
  /\ sequence = 0 /\ prevHash = ZeroHash
  /\ recordCount = 0 /\ gapCount = 0
  /\ sinceFsync = 0 /\ lastTs = 0 /\ bytesWritten = 0
  /\ buffer = <<>> /\ file = <<>> /\ synced = 0
  /\ nextId = 1 /\ acked = {} /\ raised = {} /\ met = {}

-----------------------------------------------------------------------------
(* The record a write builds.  base is _sequence when the write starts,    *)
(* wall the clock it reads; lastTs floors the timestamp.                   *)
NewRecordWithoutFloor(base, type, body, wall) ==
  [id |-> nextId, type |-> type, seq |-> base + 1, prev |-> prevHash,
   ts |-> wall, body |-> body]

NewRecord(base, type, body, wall) ==
  [id |-> nextId, type |-> type, seq |-> base + 1, prev |-> prevHash,
   ts |-> IF wall >= lastTs THEN wall ELSE lastTs, body |-> body]

(* The GapRecord that takes the place of a record that fails validation:   *)
(* it claims its own sequence number as lost.  A GapRecord with a range in *)
(* order passes _validate_gap, so none is ever replaced.                   *)
ReplacementGap(rec) ==
  [rec EXCEPT !.type = "GAP", !.body = GapBody(rec.seq, rec.seq)]

FsyncDueOneLate ==
  \/ FsyncMode = "every"
  \/ FsyncMode = "batch" /\ sinceFsync + 1 > FsyncBatch

FsyncDue ==
  \/ FsyncMode = "every"
  \/ FsyncMode = "batch" /\ sinceFsync + 1 >= FsyncBatch

Meet(kind) == kind \in Faults /\ met' = met \union {kind}

(* The frame, with whatever an earlier failed flush left in the buffer,    *)
(* is written and flushed, fsynced when due, and the write returns.        *)
Commit(rec) ==
  /\ prevHash' = Hash(rec)
  /\ recordCount' = recordCount + 1
  /\ gapCount' = gapCount + (IF rec.type = "GAP" THEN 1 ELSE 0)
  /\ bytesWritten' = bytesWritten + 1
  /\ file' = file \o Append(buffer, rec)
  /\ buffer' = <<>>
  /\ IF FsyncDue
     THEN sinceFsync' = 0 /\ synced' = Len(file')
     ELSE sinceFsync' = sinceFsync + 1 /\ UNCHANGED synced
  /\ acked' = acked \union {rec.id}
  /\ UNCHANGED raised

(* The write raises before any state but _sequence and _last_ts_ms is      *)
(* assigned.                                                               *)
SerializeFails(rec) ==
  /\ Meet("serialize")
  /\ raised' = raised \union (sequence + 1 .. rec.seq)
  /\ UNCHANGED <<prevHash, recordCount, gapCount, bytesWritten, sinceFsync, disk, acked>>

IOFailsWithoutRollback(rec) ==
  /\ Meet("drop")
  /\ raised' = raised \union (sequence + 1 .. rec.seq)
  /\ prevHash' = Hash(rec)
  /\ recordCount' = recordCount + 1
  /\ UNCHANGED <<gapCount, bytesWritten, sinceFsync, acked, disk>>

IOFailsCountingDown(rec) ==
  /\ Meet("drop")
  /\ raised' = raised \union (sequence + 1 .. rec.seq)
  /\ recordCount' = recordCount - 1
  /\ UNCHANGED <<prevHash, gapCount, bytesWritten, sinceFsync, acked, disk>>

(* OSError during write, flush or fsync: the rollback restores prev_hash   *)
(* and the counters; old_sequence was saved after the increment, so the    *)
(* sequence number stays taken.                                            *)
IOFails(rec) ==
  /\ raised' = raised \union (sequence + 1 .. rec.seq)
  /\ UNCHANGED <<prevHash, recordCount, gapCount, bytesWritten, acked>>
  /\ \/ /\ Meet("drop")
        /\ UNCHANGED <<disk, sinceFsync>>
     \/ /\ Meet("torn")
        /\ file' = file \o Append(buffer, Torn)
        /\ buffer' = <<>>
        /\ UNCHANGED <<synced, sinceFsync>>
     \/ /\ Meet("keep")
        /\ buffer' = Append(buffer, rec)
        /\ UNCHANGED <<file, synced, sinceFsync>>
     \/ /\ Meet("fsync")
        /\ FsyncDue
        /\ file' = file \o Append(buffer, rec)
        /\ buffer' = <<>>
        /\ sinceFsync' = sinceFsync + 1
        /\ UNCHANGED synced

WriteRecordReusingNumbers(base, type, body, wall) ==
  LET rec == NewRecord(base, type, body, wall)
  IN  /\ nextId <= MaxRecords
      /\ nextId' = nextId + 1
      /\ lastTs' = rec.ts
      /\ \/ Commit(rec) /\ UNCHANGED met
         \/ IOFails(rec)
      /\ sequence' = IF acked' = acked THEN sequence ELSE base + 1

(* _write_record_unlocked *)
WriteRecordUnlocked(base, type, body, wall) ==
  LET rec == NewRecord(base, type, body, wall)
  IN  /\ nextId <= MaxRecords
      /\ nextId' = nextId + 1
      /\ sequence' = base + 1
      /\ lastTs' = rec.ts
      /\ \/ Commit(rec) /\ UNCHANGED met
         \/ type # "GAP" /\ Commit(ReplacementGap(rec)) /\ Meet("invalid")
         \/ SerializeFails(rec)
         \/ IOFails(rec)

-----------------------------------------------------------------------------
WriteRecord(type, body) ==
  \E wall \in Clock : WriteRecordUnlocked(sequence, type, body, wall)

WriteGapFromSequence(first, last) ==
  \E wall \in Clock : WriteRecordUnlocked(sequence, "GAP", GapBody(first, last), wall)

WriteGapOneTooFar(first, last) ==
  \E wall \in Clock : WriteRecordUnlocked(last + 1, "GAP", GapBody(first, last), wall)

(* write_gap moves _sequence to last before it writes. *)
WriteGap(first, last) ==
  \E wall \in Clock : WriteRecordUnlocked(last, "GAP", GapBody(first, last), wall)

WriteRecovery(verified, truncated, lastValid) ==
  WriteRecord("RECOVERY", <<verified, truncated, lastValid>>)

CheckpointWithoutItself ==
  WriteRecord("CHECKPOINT", <<recordCount, gapCount, prevHash>>)

WriteUnsignedCheckpoint ==
  WriteRecord("CHECKPOINT", <<recordCount + 1, gapCount, prevHash>>)

(* close: flush what the buffer holds and drop the handle; OSError is      *)
(* swallowed.  A later write reopens the file.                             *)
CloseWriter ==
  /\ buffer # <<>>
  /\ buffer' = <<>>
  /\ \/ file' = file \o buffer
     \/ file' = file
  /\ UNCHANGED <<memory, synced, nextId, acked, raised, met>>

(* The callers of write_gap document a range that starts right after the   *)
(* last number handed out.                                                 *)
WriterNext ==
  \/ WriteRecord("ACTION", NoBody)
  \/ \E n \in 1 .. MaxGap : WriteGap(sequence + 1, sequence + n)
  \/ WriteUnsignedCheckpoint
  \/ CloseWriter

WriterSpec == WriterInit /\ [][WriterNext]_writerVars

-----------------------------------------------------------------------------
(* Faults whose rollback leaves the file as it was before the write.       *)
CleanFaults == {"invalid", "serialize", "drop"}

Flushed(fs) == {i \in 1 .. Len(fs) : fs[i].id \in acked}

(* Sequence numbers that appear, in a record or in a GapRecord's range.    *)
Accounted(fs) ==
  {fs[i].seq : i \in 1 .. Len(fs)} \union
  UNION {fs[i].body[1] .. fs[i].body[2] : i \in {k \in 1 .. Len(fs) : fs[k].type = "GAP"}}

(* As long as failing writes have left the file untouched, every record in *)
(* it carries the hash of the record before it, and the in-memory head is  *)
(* the hash of the last one (chain.py:298-343, the state kept for          *)
(* rollback).                                                              *)
HashLinked ==
  met \subseteq CleanFaults =>
    HashLinkedFrames(file) /\ prevHash = LastHash(file)

(* Whatever fails, the sequence numbers in the file, and then those still  *)
(* in the buffer, strictly increase: a number is never reused.             *)
SeqIncreasing == IncreasingSeqs(file \o buffer)

(* Timestamps never go back, whatever the wall clock does (the floor of    *)
(* chain.py:63-68, :245-250).                                              *)
TimestampsMonotone ==
  LET fs == file \o buffer
  IN  \A i, j \in 1 .. Len(fs) :
        i < j /\ fs[i] # Torn /\ fs[j] # Torn => fs[i].ts <= fs[j].ts

(* A sequence number is missing from the chain only when the write that    *)
(* took it raised: no other number disappears, whatever fails.             *)
OnlyRaisedMissing ==
  1 .. sequence \subseteq Accounted(file \o buffer) \union raised

(* Power loss: with fsync_mode "every" no returned record is outside the   *)
(* durable prefix; with "batch" fewer than fsync_batch_size are, also when *)
(* an fsync failed in between.                                             *)
DurabilityWindow ==
  LET exposed == {i \in Flushed(file) : i > synced}
  IN  /\ FsyncMode = "every" => exposed = {}
      /\ FsyncMode = "batch" => Cardinality(exposed) < FsyncBatch

(* The counters a checkpoint copies agree with the file, so every          *)
(* checkpoint states how many records and gaps precede and include it and  *)
(* the hash it chains from (chain.py:227-233).                             *)
CheckpointTruth ==
  met \subseteq CleanFaults =>
    \A i \in 1 .. Len(file) : file[i].type = "CHECKPOINT" =>
      /\ file[i].body[1] = i
      /\ file[i].body[2] = Cardinality({j \in 1 .. i : file[j].type = "GAP"})
      /\ file[i].body[3] = file[i].prev

(* Until a write fails or is replaced the whole file passes verify_chain.  *)
VerifiesWithoutFaults == met = {} => Verifies(file, FALSE)

-----------------------------------------------------------------------------
(* chain.py:337 "Rollback in-memory state so the chain stays consistent":  *)
(* the file keeps passing verify_chain across a failed write.              *)
ChainStaysConsistent == Verifies(file, FALSE)
=============================================================================
