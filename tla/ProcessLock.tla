----------------------------- MODULE ProcessLock -----------------------------
(***************************************************************************)
(* Several processes open recorders on one chain path: recover_chain runs  *)
(* before the writer's constructor takes the lock (ahp/recorder.py), the   *)
(* lock is flock on a .lock file that close unlinks (ahp/core/chain.py).   *)
(* A lock file is an inode; a path names at most one, and an unlinked      *)
(* inode stays locked for whoever has it open.                             *)
(***************************************************************************)
EXTENDS ChainFile

CONSTANTS Procs,      \* processes
          NoProc,     \* the holder of an unlocked inode
          MaxRecords, \* bound: records written
          MaxInodes   \* bound: lock files created

ASSUME LockAssumption ==
  /\ NoProc \notin Procs
  /\ MaxRecords \in Nat /\ MaxInodes \in Nat

NoInode == 0
Inodes  == 1 .. MaxInodes

VARIABLES pc,       \* where each process is
          exists,   \* the chain file has been created
          file,     \* records of the chain file
          scanned,  \* records the process's recovery scan has read
          head,     \* the process's _prev_hash and _sequence
          lockPath, \* inode the .lock path names, or NoInode
          opened,   \* inode each process has open as its lock file
          holder,   \* who holds the flock of each inode
          inodes,   \* lock files created so far
          nextId,   \* next fresh record_id
          written,  \* history: ids of all records written
          overlapped,  \* history: a process started beside another one
          unlinked     \* history: a lock file somebody had open was unlinked

vars == <<pc, exists, file, scanned, head, lockPath, opened, holder, inodes, nextId, written,
          overlapped, unlinked>>

Label == {"idle", "stat", "truncate", "openLock", "flock", "header", "live", "unlink"}

TypeOK ==
  /\ pc \in [Procs -> Label]
  /\ exists \in BOOLEAN
  /\ file \in Seq(Frame)
  /\ scanned \in [Procs -> Nat]
  /\ head \in [Procs -> [hash: Nat, seq: Nat]]
  /\ lockPath \in Inodes \union {NoInode}
  /\ opened \in [Procs -> Inodes \union {NoInode}]
  /\ holder \in [Inodes -> Procs \union {NoProc}]
  /\ inodes \in 0 .. MaxInodes
  /\ nextId \in Nat \ {0}
  /\ written \subseteq Nat
  /\ overlapped \in BOOLEAN /\ unlinked \in BOOLEAN

Init ==
  /\ pc = [p \in Procs |-> "idle"]
  /\ exists = FALSE /\ file = <<>>
  /\ scanned = [p \in Procs |-> 0]
  /\ head = [p \in Procs |-> [hash |-> ZeroHash, seq |-> 0]]
  /\ lockPath = NoInode
  /\ opened = [p \in Procs |-> NoInode]
  /\ holder = [i \in Inodes |-> NoProc]
  /\ inodes = 0
  /\ nextId = 1 /\ written = {}
  /\ overlapped = FALSE /\ unlinked = FALSE

Goto(p, from, to) == pc[p] = from /\ pc' = [pc EXCEPT ![p] = to]

(* Writers whose constructor has taken the lock. *)
Live == {p \in Procs : pc[p] \in {"header", "live"}}

-----------------------------------------------------------------------------
(* scan_chain, when the file exists, reads as far as it can; the position  *)
(* it finds becomes the writer's when the constructor runs.                *)
ScanStartsOneLow(p) ==
  /\ Goto(p, "idle", IF exists THEN "stat" ELSE "openLock")
  /\ scanned' = [scanned EXCEPT ![p] = Len(Readable(file))]
  /\ head' = [head EXCEPT ![p] = [hash |-> LastHash(Readable(file)),
                                  seq  |-> LastSeq(Readable(file)) - 1]]
  /\ overlapped' = (overlapped \/ \E q \in Procs : pc[q] # "idle")
  /\ UNCHANGED <<exists, file, lockPath, opened, holder, inodes, nextId, written, unlinked>>

Scan(p) ==
  /\ Goto(p, "idle", IF exists THEN "stat" ELSE "openLock")
  /\ scanned' = [scanned EXCEPT ![p] = Len(Readable(file))]
  /\ head' = [head EXCEPT ![p] = [hash |-> LastHash(Readable(file)),
                                  seq  |-> LastSeq(Readable(file))]]
  /\ overlapped' = (overlapped \/ \E q \in Procs : pc[q] # "idle")
  /\ UNCHANGED <<exists, file, lockPath, opened, holder, inodes, nextId, written, unlinked>>

(* ... then takes the size of the file: bytes past the position count as   *)
(* a corrupt tail ...                                                      *)
Stat(p) ==
  /\ Goto(p, "stat", IF Len(file) > scanned[p] THEN "truncate" ELSE "openLock")
  /\ UNCHANGED <<exists, file, scanned, head, lockPath, opened, holder, inodes, nextId, written, overlapped,
                 unlinked>>

(* ... which truncate_chain cuts off, or pads with zeros, a frame nobody   *)
(* can read, when another recovery has cut deeper meanwhile.               *)
Truncate(p) ==
  /\ Goto(p, "truncate", "openLock")
  /\ file' = IF scanned[p] <= Len(file) THEN SubSeq(file, 1, scanned[p])
                                        ELSE Append(file, Torn)
  /\ UNCHANGED <<exists, scanned, head, lockPath, opened, holder, inodes, nextId, written, overlapped,
                 unlinked>>

(* _acquire_file_lock: open the .lock path, creating it when missing ...   *)
OpenLock(p) ==
  /\ Goto(p, "openLock", "flock")
  /\ IF lockPath = NoInode
     THEN /\ inodes < MaxInodes
          /\ inodes' = inodes + 1
          /\ lockPath' = inodes + 1
          /\ opened' = [opened EXCEPT ![p] = inodes + 1]
     ELSE /\ opened' = [opened EXCEPT ![p] = lockPath]
          /\ UNCHANGED <<inodes, lockPath>>
  /\ UNCHANGED <<exists, file, scanned, head, holder, nextId, written, overlapped,
                 unlinked>>

(* ... and flock(LOCK_EX | LOCK_NB) it: the writer goes on to its header   *)
(* when it finds no chain file, or goes live; else the constructor raises. *)
FlockShared(p) ==
  /\ Goto(p, "flock", IF exists THEN "live" ELSE "header")
  /\ holder' = [holder EXCEPT ![opened[p]] = p]
  /\ UNCHANGED <<exists, file, scanned, head, lockPath, opened, inodes, nextId, written, overlapped,
                 unlinked>>

Flock(p) ==
  /\ pc[p] = "flock"
  /\ \/ /\ holder[opened[p]] = NoProc
        /\ Goto(p, "flock", IF exists THEN "live" ELSE "header")
        /\ holder' = [holder EXCEPT ![opened[p]] = p]
        /\ UNCHANGED opened
     \/ /\ holder[opened[p]] # NoProc
        /\ Goto(p, "flock", "idle")
        /\ opened' = [opened EXCEPT ![p] = NoInode]
        /\ UNCHANGED holder
  /\ UNCHANGED <<exists, file, scanned, head, lockPath, inodes, nextId, written, overlapped,
                 unlinked>>

(* _write_header opens the path with "wb". *)
WriteHeader(p) ==
  /\ Goto(p, "header", "live")
  /\ exists' = TRUE
  /\ file' = <<>>
  /\ UNCHANGED <<scanned, head, lockPath, opened, holder, inodes, nextId, written, overlapped,
                 unlinked>>

WriteRecord(p) ==
  /\ pc[p] = "live"
  /\ nextId <= MaxRecords
  /\ nextId' = nextId + 1
  /\ file' = Append(file, [id |-> nextId, type |-> "ACTION", seq |-> head[p].seq + 1,
                           prev |-> head[p].hash, ts |-> 0, body |-> NoBody])
  /\ head' = [head EXCEPT ![p] = [hash |-> nextId, seq |-> @.seq + 1]]
  /\ written' = written \union {nextId}
  /\ UNCHANGED <<pc, exists, scanned, lockPath, opened, holder, inodes, overlapped, unlinked>>

(* close: LOCK_UN and close the lock file, then unlink whatever inode the  *)
(* path names by now.                                                      *)
Unlock(p) ==
  /\ Goto(p, "live", "unlink")
  /\ holder' = [holder EXCEPT ![opened[p]] = NoProc]
  /\ opened' = [opened EXCEPT ![p] = NoInode]
  /\ UNCHANGED <<exists, file, scanned, head, lockPath, inodes, nextId, written, overlapped,
                 unlinked>>

Unlink(p) ==
  /\ Goto(p, "unlink", "idle")
  /\ lockPath' = NoInode
  /\ unlinked' = (unlinked \/ \E q \in Procs : opened[q] = lockPath /\ lockPath # NoInode)
  /\ UNCHANGED <<exists, file, scanned, head, opened, holder, inodes, nextId, written,
                 overlapped>>

(* A process dies; the kernel drops its flock, the .lock file stays.       *)
DieHoldingLock(p) ==
  /\ pc[p] # "idle"
  /\ pc' = [pc EXCEPT ![p] = "idle"]
  /\ opened' = [opened EXCEPT ![p] = NoInode]
  /\ UNCHANGED <<exists, file, scanned, head, lockPath, holder, inodes, nextId, written, overlapped,
                 unlinked>>

Die(p) ==
  /\ pc[p] # "idle"
  /\ pc' = [pc EXCEPT ![p] = "idle"]
  /\ holder' = [i \in Inodes |-> IF holder[i] = p THEN NoProc ELSE holder[i]]
  /\ opened' = [opened EXCEPT ![p] = NoInode]
  /\ UNCHANGED <<exists, file, scanned, head, lockPath, inodes, nextId, written, overlapped,
                 unlinked>>

Starting(p) ==
  Scan(p) \/ Stat(p) \/ Truncate(p) \/ OpenLock(p) \/ Flock(p) \/ WriteHeader(p)

Next ==
  \E p \in Procs : Starting(p) \/ WriteRecord(p) \/ Unlock(p) \/ Unlink(p) \/ Die(p)

Spec == Init /\ [][Next]_vars

-----------------------------------------------------------------------------
(* Until close unlinks a lock file somebody else has open, at most one     *)
(* writer is live, whoever closes, crashes or is refused.                  *)
OneWriterUnlessUnlinked == ~unlinked => Cardinality(Live) <= 1

(* The lock: well formed, and it admits one writer.                        *)
LockInv == TypeOK /\ OneWriterUnlessUnlinked

(* A process is refused only by a writer that is live at that moment: the  *)
(* lock of a crashed or closed one never keeps the next one out.           *)
RefusedByLiveWriter ==
  [][ \A p \in Procs :
        pc[p] = "flock" /\ pc'[p] = "idle" /\ holder[opened[p]] # NoProc
          => holder[opened[p]] \in Live ]_vars

(* As long as recorders on the path have followed one another, closed or   *)
(* killed, each continues where the last one stopped: nothing written is   *)
(* lost and the file verifies.                                             *)
SuccessionKeepsChain ==
  ~overlapped => /\ Verifies(file, FALSE)
                 /\ written = {file[i].id : i \in 1 .. Len(file)}

-----------------------------------------------------------------------------
(* recovery.py:127 "remove corrupt trailing data": recovery never removes  *)
(* a record a writer has written whole.                                    *)
WrittenRecordsStay == written = {file[i].id : i \in 1 .. Len(file)}
=============================================================================
