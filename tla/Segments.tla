------------------------------- MODULE Segments -------------------------------
(***************************************************************************)
(* Segment rotation of AHPRecorder (_check_rotation, ahp/recorder.py) and  *)
(* two readers that follow the chain file while it grows and rotates:      *)
(* ahp tail (ahp/cli/main.py), with a byte offset, and OTLPExporter        *)
(* (ahp/export/otlp.py), with a count of records.  Rotation runs inside    *)
(* the call that recorded an action; a kill, a failing rename or a new     *)
(* writer that cannot be opened may come between its steps.  Writes of     *)
(* records succeed here (see ChainWriter for those that do not), apart     *)
(* from the BOOT record of a new segment.                                  *)
(***************************************************************************)
EXTENDS Naturals, Sequences, FiniteSets, SequencesExt

CONSTANTS Absent,      \* no file at the path
          BatchSize,   \* batch_size of the exporter
          MaxBytes,    \* _max_segment_bytes, in units of an action's frame
          MaxRecords,  \* bound: records written
          MaxTime,     \* bound: seconds that pass
          MaxTrouble,  \* bound: kills and failures of rotation
          MaxExports   \* bound: calls of export_chain

Records == [type: {"BOOT", "GAP", "ACTION"}, id: Nat, seq: Nat, prev: Nat]
Files == [header: BOOLEAN, records: Seq(Records)]

ASSUME SegmentsAssumption ==
  /\ Absent \notin Files
  /\ {BatchSize, MaxBytes} \subseteq Nat \ {0}
  /\ {MaxRecords, MaxTime, MaxTrouble, MaxExports} \subseteq Nat

VARIABLES
  pc,         \* "down", "up", or the step of _check_rotation
  active,     \* what is at the chain path
  segments,   \* the rotated files, by the second in their names
  now,        \* the clock, in seconds
  writer,     \* the ChainWriter: number and hash of the head, bytes_written
  pendingGap, \* _pending_gap
  inFlight,   \* the action whose record_action has not returned, 0 if none
  nextId,     \* ids are given to records in the order they are written
  trouble,    \* kills and failures so far
  tail,       \* ahp tail: "off", "poll", "read", "died", or never run; end_offset; and whether it
              \* read on in a file it had not begun with (history)
  printed,    \* what tail has shown
  exporter,   \* calls left, _exported_offset, what the call has yet to send and the number of
              \* records answered; and whether it met trouble (history)
  received,   \* what the collector has got
  acked,      \* history: actions whose call returned a record
  firsts,     \* history: records that came first in their file
  generation, \* history: how many files the path has named
  upsets,     \* history: what came between the steps of a rotation
  overwritten \* history: records in segments replaced within a second

writerVars   == <<pc, writer, pendingGap, inFlight, nextId, acked, firsts>>
segmentVars  == <<active, segments, generation, overwritten>>
readerVars   == <<tail, printed, exporter, received>>
segmentsVars == <<writerVars, segmentVars, readerVars, now, trouble, upsets>>

NewFile(header) == [header |-> header, records |-> <<>>]

(* A BOOT record is two units long, any other is one. *)
HeaderSize == 1
Boots(records) == {i \in DOMAIN records : records[i].type = "BOOT"}
Bytes(f) == IF f = Absent THEN 0
            ELSE (IF f.header THEN HeaderSize ELSE 0)
                   + Len(f.records) + Cardinality(Boots(f.records))

(* ChainReader.read_all: nothing without a header. *)
ReadAll(f) == IF f # Absent /\ f.header THEN f.records ELSE <<>>

(* The chain as an auditor reads it: the segments in the order of their    *)
(* names, then the file at the path, each with what it has.                *)
Places == 0 .. MaxTime + 1
FileAt(p) == IF p \in DOMAIN segments THEN ReadAll(segments[p])
             ELSE IF p = MaxTime + 1 THEN ReadAll(active) ELSE <<>>

Ids(records) == [i \in DOMAIN records |-> records[i].id]

(* Every variable has its type; a recorder that is up has a head no        *)
(* earlier than any number in the file it writes.                          *)
SegmentsTypeOK ==
  /\ pc \in {"down", "up", "rotate", "closed", "renamed", "boot"}
  /\ DOMAIN segments \subseteq 0 .. now
  /\ now <= MaxTime /\ trouble <= MaxTrouble /\ nextId <= MaxRecords + 1
  /\ tail.state \in {"never", "off", "poll", "read", "died"}
  /\ tail.offset <= HeaderSize + 2 * MaxRecords
  /\ exporter.offset + exporter.sent + Len(exporter.todo) <= nextId
  /\ pc # "down" => \A r \in ToSet(ReadAll(active)) : r.seq <= writer.seq

(* The two readers do not see each other, so there is one at a time.       *)
SegmentsInit ==
  /\ pc = "down" /\ active = Absent /\ segments = <<>> /\ now = 0
  /\ writer = [seq |-> 0, prev |-> 0, bytes |-> 0]
  /\ pendingGap = FALSE /\ inFlight = 0 /\ nextId = 1 /\ trouble = 0
  /\ \E state \in {"never", "off"} :
       /\ tail = [state |-> state, offset |-> 0, generation |-> 0, stale |-> FALSE]
       /\ exporter = [left |-> IF state = "never" THEN MaxExports ELSE 0, offset |-> 0, todo |-> <<>>,
                       sent |-> 0, generation |-> 0, upset |-> FALSE]
  /\ printed = <<>> /\ received = <<>>
  /\ acked = {} /\ firsts = {} /\ generation = 0 /\ upsets = {} /\ overwritten = {}

Upset(what) ==
  /\ trouble < MaxTrouble
  /\ trouble' = trouble + 1
  /\ upsets' = upsets \union {what}

NoUpset == UNCHANGED <<trouble, upsets>>

-----------------------------------------------------------------------------
(* The recorder.                                                           *)

(* Appending through the handle, which is opened again in mode "ab" if the *)
(* writer was closed: a file that is gone comes back without a header.     *)
AppendAll(records) ==
  /\ nextId + Len(records) <= MaxRecords + 1
  /\ active' = IF active = Absent THEN [header |-> FALSE, records |-> records]
             ELSE [active EXCEPT !.records = @ \o records]
  /\ firsts' = IF active = Absent \/ active.records = <<>> THEN firsts \union {nextId} ELSE firsts
  /\ nextId' = nextId + Len(records)
  /\ writer' = [seq |-> Last(records).seq, prev |-> Last(records).id,
                bytes |-> writer.bytes + Bytes([header |-> FALSE, records |-> records])]
  /\ UNCHANGED <<segments, generation, overwritten>>

Rec(type, id, seq, prev) == [type |-> type, id |-> id, seq |-> seq, prev |-> prev]

(* _flush_pending_gap and the action itself.  The GapRecord declares the   *)
(* next number lost.                                                       *)
GapAndAction ==
  IF pendingGap
  THEN <<Rec("GAP", nextId, writer.seq + 2, writer.prev),
         Rec("ACTION", nextId + 1, writer.seq + 3, nextId)>>
  ELSE <<Rec("ACTION", nextId, writer.seq + 1, writer.prev)>>

(* record_action up to _check_rotation. *)
RecordAction ==
  /\ pc = "up"
  /\ AppendAll(GapAndAction)
  /\ pendingGap' = FALSE
  /\ IF writer'.bytes < MaxBytes
     THEN /\ acked' = acked \union {writer'.prev}
          /\ UNCHANGED <<pc, inFlight>>
     ELSE /\ pc' = "rotate" /\ inFlight' = writer'.prev
          /\ UNCHANGED acked
  /\ NoUpset /\ UNCHANGED <<readerVars, now>>

(* _check_rotation: head captured, writer closed.  The head stays in       *)
(* writer, which is what it is handed on to.                               *)
CloseForRotation ==
  /\ pc = "rotate" /\ pc' = "closed"
  /\ NoUpset
  /\ UNCHANGED <<writer, pendingGap, inFlight, nextId, acked, firsts, segmentVars, readerVars, now>>

(* os.rename replaces a segment named in the same second; a failure is     *)
(* logged and the file stays where it is.                                  *)
Rename ==
  /\ pc = "closed" /\ pc' = "renamed"
  /\ \/ /\ segments' = [t \in DOMAIN segments \union {now} |->
                          IF t = now THEN active ELSE segments[t]]
        /\ overwritten' = overwritten \union
             (IF now \in DOMAIN segments THEN ToSet(Ids(segments[now].records)) ELSE {})
        /\ active' = Absent
        /\ generation' = generation + 1
        /\ NoUpset
     \/ Upset("rename") /\ UNCHANGED segmentVars
  /\ UNCHANGED <<writer, pendingGap, inFlight, nextId, acked, firsts, readerVars, now>>

(* The exception reaches safe_record: it notes a gap and returns nothing,  *)
(* although the action is in the chain.                                    *)
CallFails ==
  /\ pc' = "up" /\ pendingGap' = TRUE /\ inFlight' = 0
  /\ UNCHANGED acked

ReopenStartsOver ==
  /\ pc = "renamed" /\ pc' = "boot"
  /\ active' = IF active = Absent THEN NewFile(TRUE) ELSE active
  /\ writer' = [seq |-> 0, prev |-> 0, bytes |-> Bytes(active')]
  /\ NoUpset /\ UNCHANGED <<pendingGap, inFlight, acked, segments, generation, overwritten,
                             nextId, firsts, readerVars, now>>

(* The constructor of the new writer.  If it raises, without a file or     *)
(* with one whose header is not whole, the recorder keeps the old, closed  *)
(* writer.                                                                 *)
Reopen ==
  /\ pc = "renamed"
  /\ \/ /\ pc' = "boot"
        /\ active' = IF active = Absent THEN NewFile(TRUE) ELSE active
        /\ writer' = [writer EXCEPT !.bytes = Bytes(active')]
        /\ NoUpset /\ UNCHANGED <<pendingGap, inFlight, acked>>
     \/ /\ Upset("reopen")
        /\ CallFails
        /\ active' \in IF active = Absent THEN {Absent, NewFile(FALSE)} ELSE {active}
        /\ UNCHANGED writer
  /\ UNCHANGED <<segments, generation, overwritten, nextId, firsts, readerVars, now>>

(* _emit_boot_record, in a rotation or at the start.  Then the call        *)
(* returns; a failure is the call's, or keeps the recorder from starting.  *)
EmitBootRecord ==
  /\ pc = "boot"
  /\ \/ /\ AppendAll(<<Rec("BOOT", nextId, writer.seq + 1, writer.prev)>>)
        /\ pc' = "up" /\ inFlight' = 0
        /\ acked' = acked \union ({inFlight} \ {0})
        /\ NoUpset /\ UNCHANGED pendingGap
     \/ /\ Upset("boot")
        /\ IF inFlight # 0 THEN CallFails
           ELSE pc' = "down" /\ UNCHANGED <<pendingGap, inFlight, acked>>
        /\ UNCHANGED <<nextId, firsts, writer, segmentVars>>
  /\ UNCHANGED <<readerVars, now>>

KillRecorder ==
  /\ pc # "down"
  /\ Upset(IF ReadAll(active) = <<>> THEN "killed empty" ELSE "killed")
  /\ pc' = "down" /\ pendingGap' = FALSE /\ inFlight' = 0
  /\ UNCHANGED <<writer, nextId, acked, firsts, segmentVars, readerVars, now>>

(* __init__: the writer continues from the last record it can read in the  *)
(* file at the path, and otherwise starts a chain.  It never looks at      *)
(* segments.                                                               *)
Start ==
  /\ pc = "down" /\ pc' = "boot"
  /\ active' = IF active = Absent THEN NewFile(TRUE) ELSE active
  /\ LET last == ReadAll(active)
     IN  writer' = IF last = <<>> THEN [seq |-> 0, prev |-> 0, bytes |-> Bytes(active')]
                   ELSE [seq |-> Last(last).seq, prev |-> Last(last).id, bytes |-> Bytes(active')]
  /\ NoUpset
  /\ UNCHANGED <<segments, generation, overwritten, pendingGap, inFlight, nextId, acked,
                 firsts, readerVars, now>>

Tick ==
  /\ now < MaxTime /\ now' = now + 1
  /\ NoUpset /\ UNCHANGED <<writerVars, segmentVars, readerVars>>

-----------------------------------------------------------------------------
(* ahp tail.                                                               *)

ReadFramesSkipsOne(offset) ==
  LET after == {k \in 1 .. Len(active.records) :
                  Bytes([active EXCEPT !.records = SubSeq(@, 1, k - 1)]) = offset}
  IN  IF active.header /\ after # {}
      THEN SubSeq(active.records, (CHOOSE k \in after : TRUE) + 1, Len(active.records))
      ELSE <<>>

(* _read_frames_from: the frames from an offset that is the edge of one,   *)
(* none from any other.                                                    *)
ReadFramesFrom(offset) ==
  LET after == {k \in 0 .. Len(active.records) :
                  Bytes([active EXCEPT !.records = SubSeq(@, 1, k)]) = offset}
  IN  IF active.header /\ after # {}
      THEN SubSeq(active.records, (CHOOSE k \in after : TRUE) + 1, Len(active.records))
      ELSE <<>>

TailOnly == UNCHANGED <<writerVars, segmentVars, now, trouble, upsets, exporter, received>>

Show(frames) == printed' = printed \o Ids(frames)

(* cmd_tail up to its loop: a whole header, then all there is. *)
TailStart ==
  /\ tail.state = "off" /\ active # Absent /\ active.header
  /\ Show(active.records)
  /\ tail' = [state |-> "poll", offset |-> Bytes(active), generation |-> generation, stale |-> FALSE]
  /\ TailOnly

(* One poll looks at the size; a file that shrank is read from its start.  *)
TailStat ==
  /\ tail.state = "poll" /\ active # Absent
  /\ LET offset == IF Bytes(active) < tail.offset THEN HeaderSize ELSE tail.offset
     IN  tail' = [tail EXCEPT
                    !.state = IF Bytes(active) > offset THEN "read" ELSE "poll",
                    !.offset = offset,
                    !.generation = IF offset = HeaderSize THEN generation ELSE @]
  /\ TailOnly /\ UNCHANGED printed

(* ... and reads in a second step.  Opening a file that has just been      *)
(* renamed away ends the command.                                          *)
TailRead ==
  /\ tail.state = "read"
  /\ \/ /\ active = Absent
        /\ tail' = [tail EXCEPT !.state = "died"]
        /\ UNCHANGED printed
     \/ /\ active # Absent
        /\ LET frames == ReadFramesFrom(tail.offset)
           IN  /\ Show(frames)
               /\ tail' = [tail EXCEPT !.state = "poll",
                                       !.offset = IF frames = <<>> THEN @ ELSE Bytes(active),
                                       !.stale = @ \/ (frames # <<>> /\ tail.generation # generation)]
  /\ TailOnly

-----------------------------------------------------------------------------
(* OTLPExporter.export_chain: one reading of the file, sent in batches     *)
(* while the recorder goes on.  A batch may be refused, or be received     *)
(* although no answer comes; in the end the offset moves by the number of  *)
(* records in the batches that were answered.                              *)
ExporterOnly == UNCHANGED <<writerVars, segmentVars, now, trouble, upsets, tail, printed>>

ExportChain ==
  /\ exporter.left > 0 /\ exporter.todo = <<>>
  /\ Len(ReadAll(active)) > exporter.offset
  /\ exporter' = [exporter EXCEPT
                    !.left = @ - 1,
                    !.todo = SubSeq(ReadAll(active), exporter.offset + 1, Len(ReadAll(active))),
                    !.generation = generation,
                    !.upset = @ \/ (exporter.offset > 0 /\ exporter.generation # generation)]
  /\ ExporterOnly /\ UNCHANGED received

Batch(todo) == IF Len(todo) <= BatchSize THEN todo ELSE SubSeq(todo, 1, BatchSize)

AfterBatchOverlaps(todo) ==
  IF Len(todo) <= BatchSize THEN <<>> ELSE SubSeq(todo, BatchSize, Len(todo))

AfterBatch(todo) == IF Len(todo) <= BatchSize THEN <<>> ELSE SubSeq(todo, BatchSize + 1, Len(todo))

Outcome == {"answered", "refused", "unanswered"}

(* _send_batch. *)
Arrived(batch, outcome) == IF outcome = "refused" THEN <<>> ELSE Ids(batch)
Counted(batch, outcome) == IF outcome = "answered" THEN Len(batch) ELSE 0

SendBatch ==
  /\ exporter.todo # <<>>
  /\ \E outcome \in Outcome :
       LET sent == exporter.sent + Counted(Batch(exporter.todo), outcome)
           rest == AfterBatch(exporter.todo)
       IN  /\ received' = received \o Arrived(Batch(exporter.todo), outcome)
           /\ exporter' = [exporter EXCEPT
                             !.todo = rest,
                             !.offset = IF rest = <<>> THEN @ + sent ELSE @,
                             !.sent = IF rest = <<>> THEN 0 ELSE sent,
                             !.upset = @ \/ outcome # "answered"]
  /\ ExporterOnly

RecorderNext ==
  \/ RecordAction \/ CloseForRotation \/ Rename \/ Reopen \/ EmitBootRecord
  \/ KillRecorder \/ Start \/ Tick

SegmentsNext == RecorderNext \/ TailStart \/ TailStat \/ TailRead \/ ExportChain \/ SendBatch

SegmentsSpec == SegmentsInit /\ [][SegmentsNext]_segmentsVars

-----------------------------------------------------------------------------
(* The segments and the file are one chain: links and numbers run across   *)
(* the boundaries, as the specification's C.1 demands.  What breaks that   *)
(* is a kill before the new file has a record, a new writer that cannot be *)
(* opened, and two rotations within a second; a failing rename does not.   *)
Follows(rec, before) ==
  rec.prev = before.id /\ rec.seq = before.seq + (IF rec.type = "GAP" THEN 2 ELSE 1)

LinkedAcrossSegments ==
  \/ upsets \intersect {"killed empty", "reopen"} # {}
  \/ overwritten # {}
  \/ /\ \A p \in Places : \A i \in 2 .. Len(FileAt(p)) : Follows(FileAt(p)[i], FileAt(p)[i - 1])
     /\ \A p, q \in Places :
          (/\ p < q /\ FileAt(p) # <<>> /\ FileAt(q) # <<>>
           /\ \A between \in p + 1 .. q - 1 : FileAt(between) = <<>>)
            => Follows(FileAt(q)[1], Last(FileAt(p)))

(* An action whose call returned a record can be read, in a segment or in  *)
(* the file, unless its segment was replaced within a second or a new      *)
(* writer could not be opened.                                             *)
ReturnedRecordsReadable ==
  \/ "reopen" \in upsets
  \/ acked \ overwritten \subseteq UNION {ToSet(Ids(FileAt(p))) : p \in Places}

(* A rotated chain is still one chain, with everything returned in it.     *)
SegmentsInv == SegmentsTypeOK /\ LinkedAcrossSegments /\ ReturnedRecordsReadable

(* tail shows records in the order they were written, none twice.          *)
TailInOrder ==
  \A i, j \in DOMAIN printed : i < j => printed[i] < printed[j]

(* What tail leaves out is the end of a file that was rotated away: it     *)
(* goes on with the next record, or with the first one of a file, unless   *)
(* its offset fell on the edge of a frame of a file that had outgrown it.  *)
TailSkipsOnlyEnds ==
  \A i \in 2 .. Len(printed) :
    \/ printed[i] = printed[i - 1] + 1
    \/ printed[i] \in firsts
    \/ tail.stale

(* What tail prints is the chain, in order, less the ends it names.        *)
TailFollows == TailInOrder /\ TailSkipsOnlyEnds

(* As long as every batch was answered and the file was not rotated, the   *)
(* collector has the first records of the file, each once.                 *)
ExportedOnce ==
  ~exporter.upset /\ exporter.generation = generation
    => LET count == exporter.offset + exporter.sent
       IN  /\ count <= Len(ReadAll(active))
           /\ received = SubSeq(Ids(ReadAll(active)), 1, count)

(* tail survives a rotation. *)
TailSurvives == tail.state # "died"
=============================================================================
