------------------------------- MODULE Restart -------------------------------
(***************************************************************************)
(* The life of a chain file over crashes and restarts of its one recorder: *)
(* AHPRecorder.__init__ (ahp/recorder.py) with recover_chain               *)
(* (ahp/core/recovery.py) and the ChainWriter constructor, then ordinary   *)
(* writes, a clean close, or a crash.  Each write is a ChainWriter step.   *)
(***************************************************************************)
EXTENDS ChainWriter

CONSTANTS AhpLevel,         \* 1, 2 or 3: a KEY record follows BOOT from 2 on
          CrashKinds,       \* subset of {"kill", "tear", "power"}
          RecoveryCanFail,  \* recover_chain may raise
          MaxEstimate,      \* bound: records_truncated of one recovery
          MaxCrashes        \* bound: crashes

ASSUME RestartAssumption ==
  /\ AhpLevel \in 1 .. 3
  /\ CrashKinds \subseteq {"kill", "tear", "power"}
  /\ RecoveryCanFail \in BOOLEAN
  /\ MaxEstimate \in Nat \ {0}
  /\ MaxCrashes \in Nat

VARIABLES life,    \* the stage the recorder is in
          header,  \* the 16-byte header: "absent" with the file, "short", "ok"
          result,  \* _recovery_result
          crashes, \* crashes so far
          struck   \* history: how the recorder has crashed or recovery failed

restartVars == <<writerVars, life, header, result, crashes, struck>>

Strikes == CrashKinds \union (IF RecoveryCanFail THEN {"recovery"} ELSE {})

Stage == {"down", "opening", "header", "boot", "key", "recovery", "gap", "up", "failed"}

(* RecoveryResult; None has verified 0, as the constructor treats them     *)
(* alike.                                                                  *)
None == [verified |-> 0, truncated |-> 0, lastSeq |-> 0, lastHash |-> ZeroHash]

RestartTypeOK ==
  /\ WriterTypeOK
  /\ life \in Stage
  /\ header \in {"absent", "short", "ok"}
  /\ result \in [verified: Nat, truncated: 0 .. MaxEstimate, lastSeq: Nat, lastHash: Nat]
  /\ crashes \in 0 .. MaxCrashes
  /\ struck \subseteq Strikes

RestartInit ==
  /\ WriterInit
  /\ life = "down" /\ header = "absent" /\ result = None
  /\ crashes = 0 /\ struck = {}

-----------------------------------------------------------------------------
(* scan_chain: the readable prefix, and an estimate, at least one, of the  *)
(* records in whatever follows it.  Without a whole header it reports an   *)
(* empty, undamaged chain.                                                 *)
ScanChain(est) ==
  LET good == Readable(file)
  IN  IF header = "ok"
      THEN [verified  |-> Len(good),
            truncated |-> IF Len(good) < Len(file) THEN est ELSE 0,
            lastSeq   |-> LastSeq(good),
            lastHash  |-> LastHash(good)]
      ELSE None

RecoverChainWithoutTruncating(est) ==
  /\ result' = ScanChain(est)
  /\ UNCHANGED <<file, synced>>

RecoverChainCutsOneMore(est) ==
  /\ result' = ScanChain(est)
  /\ file' = IF result'.truncated > 0 /\ result'.verified > 0
             THEN SubSeq(file, 1, result'.verified - 1) ELSE file
  /\ synced' = IF synced > Len(file') THEN Len(file') ELSE synced

(* recover_chain: scan, and cut the file after its readable prefix. *)
RecoverChain(est) ==
  /\ result' = ScanChain(est)
  /\ file' = IF result'.truncated > 0 THEN Readable(file) ELSE file
  /\ synced' = IF synced > Len(file') THEN Len(file') ELSE synced

(* __init__ up to the constructor of the writer. *)
StartUp ==
  /\ life = "down"
  /\ life' = "opening"
  /\ \/ /\ header = "absent"
        /\ result' = None
        /\ UNCHANGED <<file, synced, struck>>
     \/ /\ header # "absent"
        /\ \E est \in 1 .. MaxEstimate : RecoverChain(est)
        /\ UNCHANGED struck
     \/ /\ header # "absent" /\ RecoveryCanFail
        /\ result' = None
        /\ struck' = struck \union {"recovery"}
        /\ UNCHANGED <<file, synced>>
  /\ UNCHANGED <<memory, buffer, nextId, acked, raised, met, header, crashes>>

(* ChainWriter.__init__ on the recovered position, or from the start when  *)
(* nothing was verified.  It writes a header only to a file it creates.    *)
Open ==
  /\ life = "opening"
  /\ sequence' = result.lastSeq
  /\ prevHash' = result.lastHash
  /\ recordCount' = 0 /\ gapCount' = 0 /\ sinceFsync' = 0 /\ lastTs' = 0
  /\ bytesWritten' = Len(file)
  /\ IF header = "absent"
     THEN header' = "short" /\ life' = "header"
     ELSE life' = "boot" /\ UNCHANGED header
  /\ UNCHANGED <<disk, nextId, acked, raised, met, result, crashes, struck>>

WriteHeader ==
  /\ life = "header"
  /\ header' = "ok"
  /\ life' = "boot"
  /\ UNCHANGED <<writerVars, result, crashes, struck>>

AfterBoot == IF AhpLevel >= 2 THEN "key" ELSE IF result.truncated > 0 THEN "recovery" ELSE "up"
AfterKey  == IF result.truncated > 0 THEN "recovery" ELSE "up"

(* A record of __init__.  When its write raises, __init__ raises with it:  *)
(* no recorder exists, and its writer is closed when it is collected.      *)
StartupWrite(stage, next) ==
  /\ life = stage
  /\ life' = IF acked' # acked THEN next ELSE "failed"
  /\ UNCHANGED <<header, result, crashes, struck>>

EmitBootRecord == WriteRecord("BOOT", NoBody) /\ StartupWrite("boot", AfterBoot)

EmitKeyGenesisRecord == WriteRecord("KEY", NoBody) /\ StartupWrite("key", AfterKey)

(* _emit_recovery_records: a RecoveryRecord, then a GapRecord over the     *)
(* estimated range after the last verified record.                         *)
EmitRecovery ==
  /\ WriteRecovery(result.verified, result.truncated, result.lastSeq)
  /\ StartupWrite("recovery", "gap")

EmitRecoveryGap ==
  /\ WriteGap(result.lastSeq + 1, result.lastSeq + result.truncated)
  /\ StartupWrite("gap", "up")

-----------------------------------------------------------------------------
(* An action record, or a checkpoint. *)
RecordWhileUp ==
  /\ life = "up"
  /\ WriteRecord("ACTION", NoBody) \/ WriteUnsignedCheckpoint
  /\ UNCHANGED <<life, header, result, crashes, struck>>

CloseRecorder ==
  /\ life \in {"up", "failed"}
  /\ life' = "down"
  /\ buffer' = <<>>
  /\ \/ file' = file \o buffer
     \/ file' = file
  /\ UNCHANGED <<memory, synced, nextId, acked, raised, met, header, result, crashes, struck>>

(* The process dies: the buffer is gone.  "kill" keeps what write(2)       *)
(* took; "tear" leaves part of a frame at the end; "power" also drops any  *)
(* frames no fsync covered, with the header or the whole file when it      *)
(* reaches that far, and with "tear" may leave part of the next frame.     *)
Crash ==
  /\ life # "down"
  /\ crashes < MaxCrashes
  /\ crashes' = crashes + 1
  /\ life' = "down"
  /\ buffer' = <<>>
  /\ \/ "kill" \in CrashKinds /\ struck' = struck \union {"kill"} /\ UNCHANGED <<file, header>>
     \/ /\ "tear" \in CrashKinds
        /\ struck' = struck \union {"tear"}
        /\ header = "ok"
        /\ file' = Append(file, Torn)
        /\ UNCHANGED header
     \/ /\ "power" \in CrashKinds
        /\ \E n \in synced .. Len(file), tail \in {<<>>, <<Torn>>} :
             /\ tail # <<>> => "tear" \in CrashKinds /\ n < Len(file)
             /\ file' = SubSeq(file, 1, n) \o tail
             /\ struck' = struck \union (IF tail = <<>> THEN {"power"} ELSE {"power", "tear"})
        /\ header' \in (IF file' = <<>> THEN {"absent", "short", header} ELSE {header})
  /\ UNCHANGED <<memory, synced, nextId, acked, raised, met, result>>

RestartNext ==
  \/ StartUp \/ Open \/ WriteHeader
  \/ EmitBootRecord \/ EmitKeyGenesisRecord \/ EmitRecovery \/ EmitRecoveryGap
  \/ RecordWhileUp
  \/ CloseRecorder
  \/ Crash

RestartSpec == RestartInit /\ [][RestartNext]_restartVars

-----------------------------------------------------------------------------
ReadableRecords == IF header = "ok" THEN Readable(file) ELSE <<>>

Min2(a, b) == IF a <= b THEN a ELSE b

(* The readable chain over any crashes and restarts is an AuditLog: every  *)
(* record links to the one before it, recovery removes no readable record, *)
(* and only a crash does, outside what an fsync covered.                   *)
Abstract == INSTANCE AuditLog
  WITH log <- ReadableRecords, durable <- Min2(synced, Len(ReadableRecords)),
       MayStartOver <- RecoveryCanFail

ImplementsAuditLog == Abstract!Spec

(* Recovery leaves a file with no damaged frame behind it and hands the    *)
(* writer its last record, so what the recorder then writes can be read    *)
(* and links to what was there, until a failing write leaves bytes         *)
(* (recovery.py:126-142, recorder.py:133-141).                             *)
HeadMatchesFile ==
  /\ "recovery" \notin struck
  /\ met \subseteq CleanFaults
  /\ life \in {"boot", "key", "recovery", "gap", "up"}
  /\ header = "ok"
  => ~Damaged(file) /\ prevHash = LastHash(file)

(* Until a crash tears a frame or a write fails, the whole chain passes    *)
(* verify_chain from its first record, however often the recorder was      *)
(* killed, lost power and restarted.                                       *)
VerifiesAcrossRestarts ==
  met = {} /\ struck \subseteq {"kill", "power"} => Verifies(ReadableRecords, FALSE)

(* The state is well formed, a recovered writer is where its file is, and  *)
(* without torn frames and failed writes the chain verifies from its first *)
(* record, over any kills, power losses and restarts.                      *)
RestartInv == RestartTypeOK /\ HeadMatchesFile /\ VerifiesAcrossRestarts

-----------------------------------------------------------------------------
(* Spec 3.3: "first_lost_sequence MUST be greater than the previous        *)
(* record's sequence".                                                     *)
GapAfterPrevious ==
  \A i \in 2 .. Len(file) : file[i].type = "GAP" => file[i].body[1] > file[i - 1].seq
=============================================================================
