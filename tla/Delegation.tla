------------------------------ MODULE Delegation ------------------------------
(***************************************************************************)
(* Agents that delegate to each other (ahp/protocols/a2a.py) and call      *)
(* tools (mcp_client.py, mcp_server.py) over HTTP, each recording on its   *)
(* own chain.  A server has one thread (http.server.HTTPServer) and serves *)
(* one request at a time; the handler of a task may delegate in its turn,  *)
(* also back to an agent that waits for it.  The chain is its sequence of  *)
(* records, sealed by ChainWriter.                                         *)
(***************************************************************************)
EXTENDS Integers, Sequences, FiniteSets

CONSTANTS Agents, Tools,  \* A2A servers, each with a chain, and MCP tool servers
          None,
          First,          \* bound: the agent that makes the first call
          MaxCalls,       \* bound: calls made, numbered in their order
          MaxTroubles     \* bound: failed writes, stops, tasks/authorize requests,
                          \* handlers that raise of themselves

ASSUME DelegationAssumption ==
  /\ Agents \intersect Tools = {} /\ First \in Agents
  /\ None \notin Agents \union Tools \union 1 .. MaxCalls
  /\ MaxCalls \in Nat /\ MaxTroubles \in Nat

(* What stands for no answer and no task is none of them. *)
ASSUME TokensAssumption ==
  None \notin {"ok", "error", "broken", "queued", "handle", "answer", "over",
               "SUBMITTED", "WORKING", "COMPLETED"}

Servers == Agents \union Tools
Calls == 1 .. MaxCalls

VARIABLES
  chain,      \* each agent's chain: its records
  call,       \* the calls, seen by the client and by the server
  task,       \* the state of the task each call made at its target, A2AServer.tasks
  backlog,    \* connections a server has not accepted, oldest first
  up,         \* servers that are started
  rerun,      \* the task tasks/authorize has a server's handler run again
  troubles,   \* how many of these there were
  history     \* failed: calls a handler or a write failed for; slow: that timed out

vars == <<chain, call, task, backlog, up, rerun, troubles, history>>

(* by: the call whose handler makes this one, or None for the agent's own  *)
(* thread; answer: what reaches the client, broken when there is nothing   *)
(* to read; seq: the sequence number in the answer.                        *)
NoCall == [from |-> None, by |-> None, to |-> None, client |-> "new", server |-> None,
           answer |-> None, seq |-> 0]

Init ==
  /\ chain = [a \in Agents |-> <<>>]
  /\ call = [c \in Calls |-> NoCall]
  /\ task = [c \in Calls |-> None]
  /\ backlog = [b \in Servers |-> <<>>] /\ up = Servers
  /\ rerun = [a \in Agents |-> None]
  /\ troubles = 0
  /\ history = [failed |-> {}, slow |-> {}]

IsTask(c) == call[c].to \in Agents

InServer == {"handle", "answer"}

AlwaysFree(b) == TRUE

(* serve_forever handles a request in its own thread: the next is accepted *)
(* when the answer to the last has been written.                           *)
Free(b) ==
  /\ \A c \in Calls : call[c].to = b => call[c].server \notin InServer
  /\ b \in Agents => rerun[b] = None

Delivered(c, answer) == IF call[c].answer = None THEN answer ELSE call[c].answer

(* The server is done with c, and leaves the client this answer. *)
Over(c, answer) ==
  call' = [call EXCEPT ![c].server = "over", ![c].answer = Delivered(c, answer)]

(* write_record of a's ChainWriter, which raises when the file cannot be   *)
(* written.  That the record may be in the file even so is in ChainWriter. *)
WriteRecord(a, what, c, status) ==
  /\ chain' = [chain EXCEPT ![a] = Append(@, [what |-> what, call |-> c, status |-> status])]
  /\ UNCHANGED troubles
WriteFails ==
  /\ troubles < MaxTroubles
  /\ troubles' = troubles + 1
  /\ UNCHANGED chain

Fail(c) == history' = [history EXCEPT !.failed = @ \union {c}]

-----------------------------------------------------------------------------
(* The clients.                                                            *)

(* An agent's own thread, and the handler of p, make one call at a time.   *)
Caller(a, p) ==
  /\ \A d \in Calls : call[d].client = "waiting" => (call[d].from # a \/ call[d].by # p)
  /\ p # None => /\ call[p].server = "handle" /\ call[p].to = a

(* send_task and call_tool up to the answer: the connection is refused     *)
(* when the server is down.                                                *)
Send(c, a, p, b) ==
  /\ call[c].client = "new" /\ \A d \in 1 .. c - 1 : call[d].client # "new"
  /\ Caller(a, p) /\ (c = 1 => a = First)
  /\ call' = [call EXCEPT ![c] = [NoCall EXCEPT !.from = a, !.by = p, !.to = b,
                                    !.client = "waiting",
                                    !.server = IF b \in up THEN "queued" ELSE "over",
                                    !.answer = IF b \in up THEN None ELSE "broken"]]
  /\ backlog' = IF b \in up THEN [backlog EXCEPT ![b] = Append(@, c)] ELSE backlog
  /\ UNCHANGED <<chain, task, up, rerun, troubles, history>>

NoTimeout(c) == FALSE /\ UNCHANGED vars

(* urlopen gives up after 15 or 10 seconds, whether the request waits in   *)
(* the backlog or is being served: the server does not know.               *)
Timeout(c) ==
  /\ call[c].client = "waiting" /\ call[c].answer = None
  /\ call' = [call EXCEPT ![c].answer = "broken"]
  /\ history' = [history EXCEPT !.slow = @ \union {c}]
  /\ UNCHANGED <<chain, task, backlog, up, rerun, troubles>>

SetClient(c, how) == call' = [call EXCEPT ![c].client = how]

(* The rest of send_task.  The error it makes up of a failed request is a  *)
(* string, of which it then reads ["error"]["message"]: that raises        *)
(* TypeError before the record is written.                                 *)
EndSendTask(c) ==
  /\ call[c].client = "waiting" /\ call[c].answer # None /\ IsTask(c)
  /\ \/ /\ call[c].answer = "broken"
        /\ SetClient(c, "raised")
        /\ UNCHANGED <<chain, troubles, history>>
     \/ /\ call[c].answer = "ok"
        /\ WriteRecord(call[c].from, "delegation", c, "SUCCESS") /\ SetClient(c, "returned")
        /\ UNCHANGED history
     \/ /\ call[c].answer = "ok"
        /\ WriteFails /\ SetClient(c, "raised") /\ Fail(c)
  /\ UNCHANGED <<task, backlog, up, rerun>>

ToolRecordsNoFailure(c) ==
  /\ call[c].client = "waiting" /\ call[c].answer # None /\ ~IsTask(c)
  /\ IF call[c].answer = "broken" THEN UNCHANGED <<chain, troubles>>
     ELSE WriteRecord(call[c].from, "tool", c, IF call[c].answer = "ok" THEN "SUCCESS" ELSE "ERROR")
  /\ SetClient(c, "returned")
  /\ UNCHANGED <<task, backlog, up, rerun, history>>

(* The rest of call_tool: what failed, of the tool, the server or the      *)
(* connection, is recorded as ERROR and returned.                          *)
EndCallTool(c) ==
  /\ call[c].client = "waiting" /\ call[c].answer # None /\ ~IsTask(c)
  /\ \/ /\ WriteRecord(call[c].from, "tool", c,
                       IF call[c].answer = "ok" THEN "SUCCESS" ELSE "ERROR")
        /\ SetClient(c, "returned")
        /\ UNCHANGED history
     \/ WriteFails /\ SetClient(c, "raised") /\ Fail(c)
  /\ UNCHANGED <<task, backlog, up, rerun>>

-----------------------------------------------------------------------------
(* The servers.                                                            *)

(* do_POST of the oldest connection, also of one whose client is gone, and *)
(* _handle_task_send up to the handler; when it raises, the connection is  *)
(* closed without an answer.                                               *)
Accept(b) ==
  /\ backlog[b] # <<>> /\ b \in up /\ Free(b)
  /\ backlog' = [backlog EXCEPT ![b] = Tail(@)]
  /\ LET c == Head(backlog[b])
         Handle == call' = [call EXCEPT ![c].server = "handle"]
     IN  \/ /\ ~IsTask(c) /\ Handle
            /\ UNCHANGED <<chain, task, troubles, history>>
         \/ /\ IsTask(c) /\ WriteRecord(b, "receive", c, "SUCCESS") /\ Handle
            /\ task' = [task EXCEPT ![c] = "WORKING"]
            /\ UNCHANGED history
         \/ /\ IsTask(c) /\ WriteFails /\ Over(c, "broken") /\ Fail(c)
            /\ task' = [task EXCEPT ![c] = "SUBMITTED"]
  /\ UNCHANGED <<up, rerun>>

(* A handler, or a tool, that is not in a call of its own.                 *)
Handling(c) == call[c].server = "handle" /\ Caller(call[c].to, c)

(* The decision, with its sequence number for the answer. *)
Decide(c) ==
  /\ WriteRecord(call[c].to, "decision", c, "SUCCESS")
  /\ call' = [call EXCEPT ![c].server = "answer", ![c].seq = Len(chain'[call[c].to])]

(* The handler returns: the task is COMPLETED, whatever the handler set,   *)
(* and the decision recorded.                                              *)
HandlerReturns(c) ==
  /\ Handling(c)
  /\ \/ /\ ~IsTask(c)
        /\ call' = [call EXCEPT ![c].server = "answer"]
        /\ UNCHANGED <<chain, task, troubles, history>>
     \/ /\ IsTask(c) /\ Decide(c)
        /\ task' = [task EXCEPT ![c] = "COMPLETED"]
        /\ UNCHANGED history
     \/ /\ IsTask(c) /\ WriteFails /\ Over(c, "broken") /\ Fail(c)
        /\ task' = [task EXCEPT ![c] = "COMPLETED"]
  /\ UNCHANGED <<backlog, up, rerun>>

(* The handler raises, of itself or what a call of its own has raised: a   *)
(* task stays WORKING and the connection is closed; a tool server answers  *)
(* with an error.                                                          *)
HandlerRaises(c) ==
  /\ Handling(c)
  /\ \/ /\ \E d \in Calls : call[d].by = c /\ call[d].client = "raised"
        /\ UNCHANGED troubles
     \/ /\ troubles < MaxTroubles
        /\ troubles' = troubles + 1
  /\ Over(c, IF IsTask(c) THEN "broken" ELSE "error")
  /\ Fail(c)
  /\ UNCHANGED <<chain, task, backlog, up, rerun>>

AnswerWithTheWritersSequence(c) ==
  /\ call[c].server = "answer"
  /\ call' = [call EXCEPT ![c].server = "over", ![c].answer = Delivered(c, "ok"),
                          ![c].seq = IF IsTask(c) THEN Len(chain[call[c].to]) ELSE 0]
  /\ UNCHANGED <<chain, task, backlog, up, rerun, troubles, history>>

(* The answer is written; nobody reads it when the client has given up.    *)
Answer(c) ==
  /\ call[c].server = "answer"
  /\ Over(c, "ok")
  /\ UNCHANGED <<chain, task, backlog, up, rerun, troubles, history>>

(* _handle_task_authorize of any task the server has: the handler runs     *)
(* again, and nothing is recorded.                                         *)
Authorize(b, c) ==
  /\ troubles < MaxTroubles
  /\ b \in up /\ Free(b) /\ call[c].to = b /\ task[c] # None
  /\ task' = [task EXCEPT ![c] = "WORKING"]
  /\ rerun' = [rerun EXCEPT ![b] = c]
  /\ troubles' = troubles + 1
  /\ UNCHANGED <<chain, call, backlog, up, history>>

AuthorizedAgain(b) ==
  /\ rerun[b] # None
  /\ \/ task' = [task EXCEPT ![rerun[b]] = "COMPLETED"] /\ UNCHANGED history
     \/ Fail(rerun[b]) /\ UNCHANGED task
  /\ rerun' = [rerun EXCEPT ![b] = None]
  /\ UNCHANGED <<chain, call, backlog, up, troubles>>

(* stop waits for the request being served and drops the others. *)
Stop(b) ==
  /\ troubles < MaxTroubles
  /\ b \in up /\ Free(b)
  /\ up' = up \ {b}
  /\ troubles' = troubles + 1
  /\ LET dropped == {backlog[b][i] : i \in 1 .. Len(backlog[b])}
     IN  call' = [c \in Calls |-> IF c \in dropped
                                  THEN [call[c] EXCEPT !.server = "over",
                                                       !.answer = Delivered(c, "broken")]
                                  ELSE call[c]]
  /\ backlog' = [backlog EXCEPT ![b] = <<>>]
  /\ UNCHANGED <<chain, task, rerun, history>>

Start(b) ==
  /\ b \notin up
  /\ up' = up \union {b}
  /\ UNCHANGED <<chain, call, task, backlog, rerun, troubles, history>>

-----------------------------------------------------------------------------
Next ==
  \/ \E c \in Calls, a \in Agents, p \in Calls \union {None}, b \in Servers : Send(c, a, p, b)
  \/ \E c \in Calls : \/ Timeout(c) \/ EndSendTask(c) \/ EndCallTool(c)
                      \/ HandlerReturns(c) \/ HandlerRaises(c) \/ Answer(c)
  \/ \E b \in Servers : Accept(b) \/ Stop(b) \/ Start(b)
  \/ \E b \in Agents, c \in Calls : Authorize(b, c)
  \/ \E b \in Agents : AuthorizedAgain(b)

Spec == Init /\ [][Next]_vars

(* Threads go on, a handler that waits for no answer comes to an end, and  *)
(* urlopen's timeouts run out.  Calls, stops and starts need not happen.   *)
ClientThread(c) == Timeout(c) \/ EndSendTask(c) \/ EndCallTool(c)

ServerThread(b) ==
  \/ Accept(b)
  \/ \E c \in Calls : call[c].to = b /\ (HandlerReturns(c) \/ HandlerRaises(c) \/ Answer(c))
  \/ b \in Agents /\ AuthorizedAgain(b)

Fairness ==
  /\ \A c \in Calls : WF_vars(ClientThread(c))
  /\ \A b \in Servers : WF_vars(ServerThread(b))

FairSpec == Spec /\ Fairness

-----------------------------------------------------------------------------
(* Properties.                                                             *)

(* Every variable has its type; no task is ever FAILED or AUTH_REQUIRED.   *)
TypeOK ==
  /\ \A a \in Agents : \A i \in 1 .. Len(chain[a]) :
       chain[a][i] \in [what : {"receive", "decision", "delegation", "tool"}, call : Calls,
                        status : {"SUCCESS", "ERROR"}]
  /\ call \in [Calls -> [from : Agents \union {None}, by : Calls \union {None},
                         to : Servers \union {None},
                         client : {"new", "waiting", "returned", "raised"},
                         server : InServer \union {None, "queued", "over"},
                         answer : {None, "ok", "error", "broken"},
                         seq : 0 .. 3 * Cardinality(Calls)]]
  /\ task \in [Calls -> {None, "SUBMITTED", "WORKING", "COMPLETED"}]
  /\ \A b \in Servers : \A i \in 1 .. Len(backlog[b]) : backlog[b][i] \in Calls
  /\ up \subseteq Servers /\ rerun \in [Agents -> Calls \union {None}]
  /\ troubles \in 0 .. MaxTroubles
  /\ history \in [failed : SUBSET Calls, slow : SUBSET Calls]

At(a, what, c) == {i \in 1 .. Len(chain[a]) : chain[a][i].what = what /\ chain[a][i].call = c}

(* A delegation on the caller's chain is answered by one decision on the   *)
(* other chain, at the sequence number the caller was told, after the      *)
(* record of the task's receipt: the link across chains that send_task's   *)
(* result is for (a2a.py:207).                                             *)
DelegationLinked ==
  \A a \in Agents : \A i \in 1 .. Len(chain[a]) :
    LET e == chain[a][i]
        b == call[e.call].to
    IN  e.what = "delegation" =>
          /\ At(b, "decision", e.call) = {call[e.call].seq}
          /\ \E j \in At(b, "receive", e.call) : j < call[e.call].seq

(* The tasks of an agent follow each other on its chain: a decision        *)
(* belongs to the last task received.  They would mix with one thread a    *)
(* request.                                                                *)
TasksInTurn ==
  \A b \in Agents : \A i \in 1 .. Len(chain[b]) :
    chain[b][i].what = "decision" =>
      LET received == {j \in 1 .. i - 1 : chain[b][j].what = "receive"}
      IN  received # {} /\ chain[b][CHOOSE j \in received : \A k \in received : k <= j].call
                             = chain[b][i].call

(* What a handler delegates or calls is recorded after its task and before *)
(* the decision on it, also when what it called is slow or fails.          *)
NestedInside ==
  \A a \in Agents : \A i \in 1 .. Len(chain[a]) :
    LET e == chain[a][i]
        p == call[e.call].by
    IN  (e.what \in {"delegation", "tool"} /\ p # None /\ IsTask(p)) =>
          /\ \E j \in At(a, "receive", p) : j < i
          /\ \A j \in At(a, "decision", p) : i < j

(* A call that returned is on its caller's chain once, as SUCCESS exactly  *)
(* when the other side answered with a result; one that raised is not on   *)
(* it, and raised because its chain could not be written or, for a task,   *)
(* because no answer came (a2a.py:286).                                    *)
ReturnedCallsRecorded ==
  \A c \in Calls :
    LET own == IF call[c].from = None THEN {}
               ELSE {i \in 1 .. Len(chain[call[c].from]) :
                       /\ chain[call[c].from][i].call = c
                       /\ chain[call[c].from][i].what \in {"delegation", "tool"}}
    IN  /\ call[c].client = "returned" =>
             /\ Cardinality(own) = 1
             /\ \A i \in own : (chain[call[c].from][i].status = "SUCCESS") <=> (call[c].answer = "ok")
        /\ call[c].client = "raised" =>
             own = {} /\ (c \in history.failed \/ (IsTask(c) /\ call[c].answer = "broken"))

(* A decision its caller never gets is one whose caller timed out: no      *)
(* failure on the server's side, and no stop, comes between the decision   *)
(* and its answer.                                                         *)
DecisionsDelivered ==
  \A c \in Calls :
    (call[c].to \in Agents /\ call[c].server = "over" /\ At(call[c].to, "decision", c) # {}) =>
      (call[c].answer = "ok" \/ c \in history.slow)

(* Whenever a server can answer tasks/get, each of its tasks is COMPLETED  *)
(* and decided on its chain, or its handler or a write failed: no one sees *)
(* a task that is being worked on.                                         *)
TasksSettled ==
  \A c \in Calls :
    (task[c] # None /\ Free(call[c].to)) =>
      \/ c \in history.failed
      \/ task[c] = "COMPLETED" /\ At(call[c].to, "decision", c) # {}

(* The link between the chains of a delegation: the state is well formed,  *)
(* each delegation names its decision, and decisions reach their callers.  *)
LinkInv == TypeOK /\ DelegationLinked /\ DecisionsDelivered

(* The records of an agent's tasks are in order: one task after the other, *)
(* what it caused inside of it, and each settled when the agent is free.   *)
TasksInOrder == TasksInTurn /\ NestedInside /\ TasksSettled

(* Of finitely many calls every one returns or raises, also when agents    *)
(* wait for each other in a circle: their timeouts end it.                 *)
CallsReturn == <>[](\A c \in Calls : call[c].client # "waiting")

(* And every server comes free of them again, whatever its clients did.    *)
ServersComeFree == <>[](\A b \in Servers : Free(b))

(* Calls and servers both come to an end.                                  *)
EverythingSettles == CallsReturn /\ ServersComeFree

(* Not what the code does.  a2a.py:239: "AHP records every call as         *)
(* protocol=A2A"; a task that is not answered raises unrecorded, and this  *)
(* fails of the code as soon as a server is down.                          *)
EveryCallRecorded ==
  \A c \in Calls : (call[c].client = "raised" /\ IsTask(c)) =>
    \/ c \in history.failed
    \/ At(call[c].from, "delegation", c) # {}
===============================================================================
