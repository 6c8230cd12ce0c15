-------------------------------- MODULE Witness --------------------------------
(***************************************************************************)
(* Agents that submit checkpoints (ahp/core/witness_client.py, called by   *)
(* AHPRecorder.send_witness_checkpoint) and the witness server that        *)
(* answers with receipts (witness/server.py).  Requests and answers get    *)
(* lost or come too late, agents retry, the server is killed between any   *)
(* two steps of a request.  The server handles one request at a time, as   *)
(* HTTPServer does.  An agent is one ChainWriter: agent_id is drawn anew   *)
(* with every writer, so a restarted or rotated chain is another agent.    *)
(* An agent that dies is one that submits no more.                         *)
(***************************************************************************)
EXTENDS Naturals, Sequences, FiniteSets, SequencesExt

CONSTANTS Agents,
          Unsigned,     \* agents below level 2: they send no signature
          None,         \* no receipt, no request
          Unreadable,   \* a receipts file that json.load refuses
          Attempts,     \* retries of send_checkpoint
          MaxReceipts,  \* MAX_RECEIPTS
          MaxArchives,  \* MAX_ARCHIVE_FILES
          MaxSeq,       \* bound: length of a chain
          MaxRounds,    \* bound: submissions
          MaxIssued,    \* bound: receipts saved
          MaxCrashes    \* bound: crashes of the server

ASSUME WitnessAssumption ==
  /\ Unsigned \subseteq Agents
  /\ None \notin Agents
  /\ {Attempts, MaxReceipts, MaxArchives} \subseteq Nat \ {0}
  /\ {MaxSeq, MaxRounds, MaxIssued, MaxCrashes} \subseteq Nat
  /\ MaxSeq >= 2 /\ MaxIssued >= 2  \* the initial states fit the bounds

VARIABLES
  head,      \* the number of the last record of each agent's chain
  call,      \* send_checkpoint of each agent: the attempt that is open, or 0
  witnessed, \* the WITNESS records: checkpoint and receipt
  requests,  \* requests the server has not looked at; their senders may be gone
  up,        \* the server runs
  busy,      \* the request in do_POST, its step and its receipt
  index,     \* _receipt_index, _receipt_by_id and _receipts_by_agent
  file,      \* RECEIPTS_FILE, <<>> when absent
  archives,  \* the rotated files, oldest first
  crashes,   \* crashes so far
  issued,    \* history: every receipt saved, with the era it was saved in
  pruned,    \* history: receipts in deleted archives
  era,       \* history: how often the file was set aside or damaged
  damage,    \* history: how often a power loss damaged the file
  torn       \* history: agents that read number and hash on two sides of a write

agentVars  == <<head, call, witnessed, torn>>
memoryVars == <<up, busy, index>>
diskVars   == <<file, archives, issued, pruned, era, damage>>
vars == <<agentVars, memoryVars, diskVars, requests, crashes>>

Stored == IF file = Unreadable THEN {} ELSE ToSet(file)
Archived == UNION {ToSet(archives[i]) : i \in DOMAIN archives}

Receipt == [id: 1 .. MaxIssued, agent: Agents, seq: 1 .. MaxSeq, hash: 0 .. MaxSeq]
Request == [agent: Agents, seq: 1 .. MaxSeq, hash: 0 .. MaxSeq,
            round: 1 .. MaxRounds, attempt: 1 .. Attempts]

(* json.load gives a list of receipts or raises; None is no request at work. *)
ASSUME TokensAssumption ==
  /\ Unreadable \notin Seq(Receipt)
  /\ None \notin [request: Request, step: {"rotate", "save", "reply"},
                  receipt: Receipt \union {None}]

(* Every variable has its type: what an agent is waiting for, what the     *)
(* server works on, what is on disk.                                       *)
TypeOK ==
  /\ head \in [Agents -> 1 .. MaxSeq]
  /\ call \in [Agents -> [hash: 0 .. MaxSeq, round: 0 .. MaxRounds, attempt: 0 .. Attempts]]
  /\ \A w \in witnessed : w.receipt \in Receipt
  /\ requests \subseteq Request
  /\ busy = None \/ /\ up
                    /\ busy.request \in Request
                    /\ busy.step \in {"rotate", "save", "reply"}
                    /\ busy.receipt \in Receipt \union {None}
  /\ index \subseteq Receipt
  /\ Stored \union Archived \union pruned \subseteq {i.receipt : i \in issued}
  /\ Len(archives) <= MaxArchives

(* The witness is new, or has rotated its file before and has one receipt  *)
(* in the file and one in an archive; every chain has a BOOT record and an *)
(* action.                                                                 *)
Init ==
  /\ head = [a \in Agents |-> 2]
  /\ call = [a \in Agents |-> [hash |-> 0, round |-> 0, attempt |-> 0]]
  /\ witnessed = {} /\ torn = {} /\ requests = {}
  /\ up = FALSE /\ busy = None /\ index = {}
  /\ \/ /\ file = <<>> /\ archives = <<>>
        /\ issued = {} /\ era = 0
     \/ \E a \in Agents \ Unsigned :
          LET old(n) == [id |-> n, agent |-> a, seq |-> n, hash |-> n]
          IN  /\ file = <<old(2)>> /\ archives = << <<old(1)>> >>
              /\ issued = {[receipt |-> old(n), era |-> n - 1] : n \in 1 .. 2}
              /\ era = 1
  /\ crashes = 0 /\ pruned = {} /\ damage = 0

-----------------------------------------------------------------------------
(* The agents.                                                             *)

Open(a) == call[a].attempt # 0
Rounds == Max({call[a].round : a \in Agents})

(* A request goes out; it may never arrive. *)
Send(a, hash, round, attempt) ==
  /\ call' = [call EXCEPT ![a] = [hash |-> hash, round |-> round, attempt |-> attempt]]
  /\ \/ requests' = requests \union {[agent |-> a, seq |-> head'[a], hash |-> hash,
                                       round |-> round, attempt |-> attempt]}
     \/ UNCHANGED requests

(* send_witness_checkpoint, after the chain has grown by any number of     *)
(* records: the head is read once, signed and sent.  The hash is read      *)
(* first, then the number; a thread that writes between the two, which it  *)
(* can when the agent itself makes the call, makes them a torn pair.       *)
Submit(a) ==
  /\ ~Open(a) /\ Rounds < MaxRounds
  /\ \E n \in head[a] .. MaxSeq :
       /\ head' = [head EXCEPT ![a] = n]
       /\ \/ Send(a, n, Rounds + 1, 1) /\ UNCHANGED torn
          \/ n > head[a] /\ Send(a, n - 1, Rounds + 1, 1) /\ torn' = torn \union {a}
  /\ UNCHANGED <<witnessed, memoryVars, diskVars, crashes>>

AttemptFailsForEver(a) ==
  /\ Open(a) /\ UNCHANGED head
  /\ Send(a, call[a].hash, call[a].round, IF call[a].attempt < Attempts THEN call[a].attempt + 1 ELSE 1)
  /\ UNCHANGED <<witnessed, torn, memoryVars, diskVars, crashes>>

(* An attempt fails: refused, timed out, or answered with an error.  The   *)
(* request may still be waiting in the server's backlog.                   *)
AttemptFails(a) ==
  /\ Open(a) /\ UNCHANGED head
  /\ IF call[a].attempt < Attempts
     THEN Send(a, call[a].hash, call[a].round, call[a].attempt + 1)
     ELSE /\ call' = [call EXCEPT ![a].attempt = 0]
          /\ UNCHANGED requests
  /\ UNCHANGED <<witnessed, torn, memoryVars, diskVars, crashes>>

-----------------------------------------------------------------------------
(* The server.                                                             *)

(* _find_existing_receipt. *)
FindExisting(agent, seq) == {r \in index : r.agent = agent /\ r.seq = seq}

(* The answer reaches the agent if that attempt is still open: it writes a *)
(* WITNESS record with the hash it submitted and the receipt it got.  An   *)
(* error answer is a failed attempt, an answer may get lost.               *)
Reply(request, receipt) ==
  \/ /\ receipt # None
     /\ call[request.agent].round = request.round
     /\ call[request.agent].attempt = request.attempt
     /\ call' = [call EXCEPT ![request.agent].attempt = 0]
     /\ witnessed' = witnessed \union {[agent |-> request.agent, seq |-> request.seq,
                                         hash |-> request.hash, receipt |-> receipt]}
     /\ head' = [head EXCEPT ![request.agent] = IF @ < MaxSeq THEN @ + 1 ELSE @]
     /\ UNCHANGED torn
  \/ UNCHANGED agentVars

Work(step, receipt) ==
  busy' = [busy EXCEPT !.step = step, !.receipt = receipt]

(* An exception in the handler: the connection is closed unanswered. *)
HandlerRaises ==
  /\ busy' = None
  /\ UNCHANGED <<agentVars, requests, crashes, up>>

(* _load_receipts: an unreadable file raises on every new checkpoint. *)
LoadReceipts(q) ==
  IF file = Unreadable
  THEN UNCHANGED busy
  ELSE busy' = [request |-> q, receipt |-> None,
                step |-> IF Len(file) >= MaxReceipts THEN "rotate" ELSE "save"]

(* do_POST: an unsigned checkpoint is refused, one that has a receipt gets *)
(* it again, any other is to be saved.                                     *)
Accept ==
  /\ up /\ busy = None
  /\ \E q \in requests :
       LET existing == FindExisting(q.agent, q.seq)
       IN  /\ requests' = requests \ {q}
           /\ \/ /\ q.agent \in Unsigned
                 /\ UNCHANGED <<agentVars, busy>>
              \/ /\ q.agent \notin Unsigned /\ existing # {}
                 /\ Reply(q, CHOOSE r \in existing : TRUE)
                 /\ UNCHANGED busy
              \/ /\ q.agent \notin Unsigned /\ existing = {}
                 /\ LoadReceipts(q)
                 /\ UNCHANGED agentVars
  /\ UNCHANGED <<up, index, diskVars, crashes>>

(* The file becomes an archive; the oldest archive beyond the limit goes.  *)
SetAside ==
  /\ file' = <<>>
  /\ era' = era + 1
  /\ LET all == Append(archives, file)
     IN  IF Len(all) > MaxArchives
         THEN archives' = Tail(all) /\ pruned' = pruned \union ToSet(Head(all))
         ELSE archives' = all /\ UNCHANGED pruned
  /\ UNCHANGED <<issued, damage>>

(* _rotate_receipts_file and the clearing of the indexes.  The rename may  *)
(* fail; listing the directory after it may fail too, and then the file is *)
(* gone and the indexes stay.                                              *)
Rotate ==
  /\ busy # None /\ busy.step = "rotate"
  /\ \/ /\ SetAside
        /\ index' = {}
        /\ Work("save", None)
        /\ UNCHANGED <<agentVars, requests, crashes, up>>
     \/ /\ UNCHANGED <<index, diskVars>>
        /\ HandlerRaises
     \/ /\ Len(archives) < MaxArchives
        /\ SetAside
        /\ UNCHANGED index
        /\ HandlerRaises

NewReceipt ==
  [id |-> Cardinality(issued) + 1, agent |-> busy.request.agent,
   seq |-> busy.request.seq, hash |-> busy.request.hash]

SaveKeepsNewOnly ==
  /\ busy # None /\ busy.step = "save"
  /\ Cardinality(issued) < MaxIssued
  /\ Work("reply", NewReceipt)
  /\ issued' = issued \union {[receipt |-> NewReceipt, era |-> era]}
  /\ file' = <<NewReceipt>>
  /\ UNCHANGED <<archives, pruned, era, damage, index, agentVars, requests, crashes, up>>

SaveErrorIgnored ==
  /\ busy # None /\ busy.step = "save"
  /\ Cardinality(issued) < MaxIssued
  /\ Work("reply", NewReceipt)
  /\ issued' = issued \union {[receipt |-> NewReceipt, era |-> era]}
  /\ \/ file' = Append(file, NewReceipt)
     \/ UNCHANGED file
  /\ UNCHANGED <<archives, pruned, era, damage, index, agentVars, requests, crashes, up>>

(* _save_receipts: a temp file and a rename, or an exception. *)
Save ==
  /\ busy # None /\ busy.step = "save"
  /\ \/ /\ Cardinality(issued) < MaxIssued
        /\ Work("reply", NewReceipt)
        /\ issued' = issued \union {[receipt |-> NewReceipt, era |-> era]}
        /\ file' = Append(file, NewReceipt)
        /\ UNCHANGED <<archives, pruned, era, damage, agentVars, requests, crashes, up>>
     \/ /\ UNCHANGED diskVars
        /\ HandlerRaises
  /\ UNCHANGED index

(* The indexes follow the file, then the answer goes out. *)
IndexAndReply ==
  /\ busy # None /\ busy.step = "reply"
  /\ index' = index \union {busy.receipt}
  /\ Reply(busy.request, busy.receipt)
  /\ busy' = None
  /\ UNCHANGED <<up, diskVars, requests, crashes>>

InitReceiptIndexEmpty ==
  /\ ~up /\ up' = TRUE
  /\ index' = {}
  /\ UNCHANGED <<busy, agentVars, requests, diskVars, crashes>>

(* main and _init_receipt_index. *)
StartServer ==
  /\ ~up /\ up' = TRUE
  /\ index' = Stored
  /\ UNCHANGED <<busy, agentVars, requests, diskVars, crashes>>

KillServer ==
  /\ up /\ crashes < MaxCrashes
  /\ crashes' = crashes + 1
  /\ up' = FALSE /\ busy' = None /\ index' = {} /\ requests' = {}
  /\ UNCHANGED agentVars

Kill == KillServer /\ UNCHANGED diskVars

(* The new file is never synced: a power loss may bring back the one it    *)
(* replaced, or leave an unreadable one.                                   *)
PowerLoss ==
  /\ KillServer
  /\ file # <<>> /\ file # Unreadable
  /\ file' \in {Unreadable, Front(file)}
  /\ era' = era + 1 /\ damage' = damage + 1
  /\ UNCHANGED <<archives, issued, pruned>>

Next ==
  \/ \E a \in Agents : Submit(a) \/ AttemptFails(a)
  \/ Accept \/ Rotate \/ Save \/ IndexAndReply
  \/ StartServer \/ Kill \/ PowerLoss

Spec == Init /\ [][Next]_vars

(* Every attempt has a timeout of ten seconds. *)
FairSpec == Spec /\ \A a \in Agents : WF_vars(AttemptFails(a))

-----------------------------------------------------------------------------
(* As long as the receipts file is neither rotated nor damaged, a          *)
(* checkpoint has one receipt, whatever is retried, answered late or       *)
(* killed between saving, indexing and answering.                          *)
OneReceiptPerCheckpoint ==
  \A i, j \in issued :
    /\ i.receipt.agent = j.receipt.agent
    /\ i.receipt.seq = j.receipt.seq
    /\ i.era = j.era
    => i = j

(* A receipt that an agent has put into its chain is in the receipts file  *)
(* or an archive, or its archive was pruned, unless a power loss damaged   *)
(* the file.                                                               *)
ReceiptsKept ==
  damage = 0 => \A w \in witnessed : w.receipt \in Stored \union Archived \union pruned

(* A WITNESS record names the checkpoint its receipt was signed for.  The  *)
(* server compares agent and number only: an agent that once submitted a   *)
(* torn pair may get the receipt for the other hash later.                 *)
ReceiptAttestsRecord ==
  \A w \in witnessed :
    /\ w.receipt.agent = w.agent /\ w.receipt.seq = w.seq
    /\ w.agent \notin torn => w.receipt.hash = w.hash

(* GET /receipts/{id} of a running server finds every receipt an agent     *)
(* has, if it was saved since the file was last set aside or damaged.      *)
ReceiptsServed ==
  \A w \in witnessed :
    up /\ [receipt |-> w.receipt, era |-> era] \in issued => w.receipt \in index

(* What agents hold is genuine and stays: their receipts are for the       *)
(* records they name, on the disk of the server, and served.               *)
ReceiptsInv == TypeOK /\ ReceiptsKept /\ ReceiptAttestsRecord /\ ReceiptsServed

Registry ==
  INSTANCE ReceiptRegistry WITH Capacity <- MaxReceipts, registry <- Stored

(* The receipts file is a registry: what is in it stays, unaltered, one    *)
(* receipt to a checkpoint, until it is full and set aside.                *)
ImplementsRegistry == Registry!Spec

(* send_checkpoint returns, with or without a receipt: it runs inside the  *)
(* agent's own call.                                                       *)
SubmissionEnds == \A a \in Agents : Open(a) ~> ~Open(a)
=============================================================================
