--------------------------- MODULE DelegationProofs ---------------------------
(***************************************************************************)
(* Theorems about Delegation, for any agents, tools, calls and troubles.   *)
(***************************************************************************)
EXTENDS Delegation, SequenceTheorems, FiniteSetTheorems, TLAPS

-----------------------------------------------------------------------------
(* The inductive invariant.                                                *)
Entry == [what : {"receive", "decision", "delegation", "tool"}, call : Calls,
          status : {"SUCCESS", "ERROR"}]

Own == {"delegation", "tool"}

CallRecord == [from : Agents \union {None}, by : Calls \union {None},
               to : Servers \union {None},
               client : {"new", "waiting", "returned", "raised"},
               server : InServer \union {None, "queued", "over"},
               answer : {None, "ok", "error", "broken"},
               seq : Nat]

(* The types; that no sequence number is larger than the chains can grow   *)
(* follows from the rest.                                                  *)
Typed ==
  /\ chain \in [Agents -> Seq(Entry)]
  /\ call \in [Calls -> CallRecord]
  /\ task \in [Calls -> {None, "SUBMITTED", "WORKING", "COMPLETED"}]
  /\ backlog \in [Servers -> Seq(Calls)]
  /\ up \subseteq Servers /\ rerun \in [Agents -> Calls \union {None}]
  /\ troubles \in 0 .. MaxTroubles
  /\ history \in [failed : SUBSET Calls, slow : SUBSET Calls]

Has(s, what, c) == \E i \in 1 .. Len(s) : s[i].what = what /\ s[i].call = c

(* The last of the first n records that is a receipt is that of c. *)
LastReceived(s, n, c) ==
  \E j \in 1 .. n : /\ s[j].what = "receive" /\ s[j].call = c
                    /\ \A k \in 1 .. n : s[k].what = "receive" => k <= j

(* The two ends of a call: while it is in a server's hands an answer is    *)
(* only there because the client gave up, and a handler is where it was    *)
(* while it waits for a call of its own.                                   *)
CallInv == \A c \in Calls :
  /\ call[c].client = "new" => call[c] = NoCall
  /\ call[c].client # "new" =>
       call[c].from \in Agents /\ call[c].to \in Servers /\ call[c].server # None
  /\ call[c].client \in {"returned", "raised"} => call[c].answer # None
  /\ call[c].server \in {"queued", "handle", "answer"} /\ call[c].answer # None =>
       call[c].answer = "broken" /\ c \in history.slow
  /\ call[c].client # "new" /\ call[c].by # None => call[call[c].by].to = call[c].from
  /\ call[c].client = "waiting" /\ call[c].by # None => call[call[c].by].server = "handle"
  /\ call[c].client = "raised" =>
       c \in history.failed \/ (IsTask(c) /\ call[c].answer = "broken")

(* A backlog holds the queued calls of its server, each once. *)
QueueInv == \A b \in Servers : \A i \in 1 .. Len(backlog[b]) :
  /\ call[backlog[b][i]].server = "queued" /\ call[backlog[b][i]].to = b
  /\ \A j \in 1 .. Len(backlog[b]) : backlog[b][i] = backlog[b][j] => i = j

(* A server has one call in its hands, or a task that runs again. *)
BusyInv ==
  /\ \A c, d \in Calls : /\ call[c].server \in InServer /\ call[d].server \in InServer
                         /\ call[c].to = call[d].to
                         => c = d
  /\ \A b \in Agents : rerun[b] # None =>
       /\ task[rerun[b]] # None /\ call[rerun[b]].to = b
       /\ \A c \in Calls : call[c].to = b => call[c].server \notin InServer

(* A task that is over is COMPLETED and decided, unless it failed. *)
TaskInv == \A c \in Calls :
  /\ task[c] # None => IsTask(c) /\ call[c].server \in {"handle", "answer", "over"}
  /\ task[c] # None /\ call[c].server = "over" /\ c \notin history.failed =>
       /\ Has(chain[call[c].to], "decision", c)
       /\ rerun[call[c].to] # c => task[c] = "COMPLETED"
  /\ call[c].server = "answer" /\ IsTask(c) => task[c] = "COMPLETED"

(* What record i of a's chain says of the call it is about. *)
ReceiptTrue(a, i) ==
  LET c == chain[a][i].call
  IN  chain[a][i].what = "receive" =>
        call[c].to = a /\ call[c].server \in {"handle", "answer", "over"}

DecisionTrue(a, i) ==
  LET c == chain[a][i].call
  IN  chain[a][i].what = "decision" =>
        /\ call[c].to = a /\ call[c].server \in {"answer", "over"}
        /\ call[c].seq = i
        /\ call[c].server = "over" => call[c].answer = "ok" \/ c \in history.slow
        /\ LastReceived(chain[a], i - 1, c)

OwnTrue(a, i) ==
  LET c == chain[a][i].call
  IN  chain[a][i].what \in Own =>
        /\ call[c].from = a /\ call[c].client = "returned"
        /\ chain[a][i].status = "SUCCESS" <=> call[c].answer = "ok"
        /\ chain[a][i].what = "delegation" => IsTask(c) /\ call[c].answer = "ok"

Inside(a, i) ==
  LET p == call[chain[a][i].call].by
  IN  chain[a][i].what \in Own /\ p # None /\ IsTask(p) =>
        /\ \E j \in 1 .. i - 1 : chain[a][j].what = "receive" /\ chain[a][j].call = p
        /\ \A j \in 1 .. Len(chain[a]) :
             chain[a][j].what = "decision" /\ chain[a][j].call = p => i < j

EntryInv == \A a \in Agents : \A i \in 1 .. Len(chain[a]) :
  ReceiptTrue(a, i) /\ DecisionTrue(a, i) /\ OwnTrue(a, i) /\ Inside(a, i)

(* No call is on a chain twice in one role. *)
Once == \A a \in Agents : \A i, j \in 1 .. Len(chain[a]) :
  /\ chain[a][i].call = chain[a][j].call
  /\ chain[a][i].what = chain[a][j].what \/ {chain[a][i].what, chain[a][j].what} \subseteq Own
  => i = j

(* What has been recorded by now. *)
LoggedInv == \A c \in Calls :
  /\ IsTask(c) /\ call[c].server \in InServer =>
       LastReceived(chain[call[c].to], Len(chain[call[c].to]), c)
  /\ IsTask(c) /\ (call[c].server = "answer" \/ call[c].answer = "ok") =>
       Has(chain[call[c].to], "decision", c)
  /\ call[c].client = "returned" =>
       \E i \in 1 .. Len(chain[call[c].from]) :
         chain[call[c].from][i].call = c /\ chain[call[c].from][i].what \in Own
  /\ call[c].seq # 0 => IsTask(c) /\ call[c].seq <= Len(chain[call[c].to])

IInv == /\ Typed /\ CallInv /\ QueueInv /\ BusyInv /\ TaskInv
        /\ EntryInv /\ Once /\ LoggedInv

-----------------------------------------------------------------------------
(* The steps.                                                              *)
Logs(a, what, c, status) ==
  chain' = [chain EXCEPT ![a] = Append(chain[a], [what |-> what, call |-> c, status |-> status])]

SameRoute(c) ==
  call'[c].from = call[c].from /\ call'[c].by = call[c].by /\ call'[c].to = call[c].to

(* The ways a call moves: it is made, its client gives up or ends; ...     *)
Made(c) ==
  /\ call[c].client = "new" /\ call'[c].client = "waiting"
  /\ call'[c].from \in Agents /\ call'[c].to \in Servers /\ call'[c].seq = 0
  /\ \A d \in Calls \ {c} : call'[d] = call[d]
  /\ \/ call'[c].server = "queued" /\ call'[c].answer = None
     \/ call'[c].server = "over" /\ call'[c].answer = "broken"
  /\ call'[c].by # None =>
       /\ call'[c].by \in Calls /\ call'[c].by # c /\ call[call'[c].by].server = "handle"
       /\ call[call'[c].by].to = call'[c].from

GaveUp(c) ==
  /\ SameRoute(c) /\ call'[c].client = call[c].client /\ call'[c].server = call[c].server
  /\ call'[c].seq = call[c].seq
  /\ call[c].client = "waiting" /\ call[c].answer = None
  /\ call'[c].answer = "broken" /\ c \in history'.slow

Ended(c) ==
  /\ SameRoute(c) /\ call'[c].server = call[c].server /\ call'[c].seq = call[c].seq
  /\ call[c].client = "waiting" /\ call[c].answer # None /\ call'[c].answer = call[c].answer
  /\ \/ /\ call'[c].client = "raised" /\ chain' = chain
        /\ c \in history'.failed \/ (IsTask(c) /\ call[c].answer = "broken")
     \/ /\ call'[c].client = "returned"
        /\ IsTask(c) => call[c].answer = "ok"
        /\ Logs(call[c].from, IF IsTask(c) THEN "delegation" ELSE "tool", c,
                IF call[c].answer = "ok" THEN "SUCCESS" ELSE "ERROR")

(* ... its server accepts it, decides, answers, or drops it.               *)
Accepted(c) ==
  /\ SameRoute(c) /\ call'[c].client = call[c].client /\ call'[c].answer = call[c].answer
  /\ call'[c].seq = call[c].seq
  /\ call[c].server = "queued" /\ call'[c].server = "handle"
  /\ Free(call[c].to) /\ c = Head(backlog[call[c].to])
  /\ IF IsTask(c) THEN Logs(call[c].to, "receive", c, "SUCCESS") ELSE chain' = chain

Decided(c) ==
  /\ SameRoute(c) /\ call'[c].client = call[c].client /\ call'[c].answer = call[c].answer
  /\ Handling(c) /\ call'[c].server = "answer"
  /\ IF IsTask(c)
     THEN /\ Logs(call[c].to, "decision", c, "SUCCESS")
          /\ call'[c].seq = Len(chain[call[c].to]) + 1
     ELSE chain' = chain /\ call'[c].seq = call[c].seq

Dropped(c) ==
  /\ SameRoute(c) /\ call'[c].client = call[c].client /\ call'[c].seq = call[c].seq
  /\ call[c].server = "queued" \/ Handling(c)
  /\ call'[c].server = "over" /\ call'[c].answer # None
  /\ IF call[c].answer = None
     THEN call'[c].answer \in {"broken", "error"} ELSE call'[c].answer = call[c].answer

Answered(c) ==
  /\ SameRoute(c) /\ call'[c].client = call[c].client /\ call'[c].seq = call[c].seq
  /\ call[c].server = "answer" /\ call'[c].server = "over"
  /\ call'[c].answer = Delivered(c, "ok") /\ chain' = chain

Moves(c) ==
  \/ call'[c] = call[c]
  \/ Made(c) \/ GaveUp(c) \/ Ended(c) \/ Accepted(c) \/ Decided(c) \/ Dropped(c) \/ Answered(c)

(* What a step does to the calls and the chains. *)
Effect ==
  /\ \A c \in Calls : Moves(c)
  /\ chain' = chain \/ \E c \in Calls : Ended(c) \/ Accepted(c) \/ Decided(c)
  /\ history.failed \subseteq history'.failed /\ history.slow \subseteq history'.slow

(* Every action has such an effect. *)
LEMMA NextEffect ==
  ASSUME Typed, CallInv, QueueInv, Next
  PROVE  Effect
<1> USE DEF Typed
<1>0. /\ None \notin Agents /\ None \notin Servers /\ None \notin Calls
      /\ Agents \subseteq Servers
      /\ None \notin {"ok", "error", "broken", "queued", "handle", "answer", "over"}
  BY DelegationAssumption, TokensAssumption DEF Servers, Calls
<1>1. ASSUME NEW c \in Calls, NEW a \in Agents, NEW p \in Calls \union {None}, NEW b \in Servers,
             Send(c, a, p, b)
      PROVE  Effect
  <2>1. /\ call[c].client = "new" /\ call[c] = NoCall
        /\ p # None => call[p].server = "handle" /\ call[p].to = a
        /\ chain' = chain /\ history' = history
    BY <1>1 DEF Send, Caller, CallInv
  <2> DEFINE new == [NoCall EXCEPT !.from = a, !.by = p, !.to = b, !.client = "waiting",
                                   !.server = IF b \in up THEN "queued" ELSE "over",
                                   !.answer = IF b \in up THEN None ELSE "broken"]
  <2>2. /\ new.from = a /\ new.by = p /\ new.to = b /\ new.client = "waiting" /\ new.seq = 0
        /\ new.server = IF b \in up THEN "queued" ELSE "over"
        /\ new.answer = IF b \in up THEN None ELSE "broken"
    BY DEF NoCall
  <2>3. call' = [call EXCEPT ![c] = new]
    BY <1>1 DEF Send
  <2> HIDE DEF new
  <2>4. p # c
    BY <1>0, <2>1 DEF NoCall
  <2>5. \A d \in Calls \ {c} : call'[d] = call[d]
    BY <2>3
  <2>6. Made(c)
    BY <2>1, <2>2, <2>3, <2>4, <2>5 DEF Made
  <2> QED BY <2>1, <2>5, <2>6 DEF Effect, Moves
<1>2. ASSUME NEW c \in Calls, Timeout(c)
      PROVE  Effect
  <2> USE <1>2 DEF Timeout
  <2>1. GaveUp(c)
    BY DEF GaveUp, SameRoute, CallRecord
  <2>2. /\ \A d \in Calls \ {c} : call'[d] = call[d]
        /\ chain' = chain
        /\ history.failed \subseteq history'.failed /\ history.slow \subseteq history'.slow
    OBVIOUS
  <2> QED BY ONLY <2>1, <2>2 DEF Effect, Moves
<1>3. ASSUME NEW c \in Calls, EndSendTask(c)
      PROVE  Effect
  <2> USE <1>3 DEF EndSendTask, SetClient
  <2>1. Ended(c)
    BY DEF Ended, SameRoute, CallRecord, WriteRecord, WriteFails, Logs, Fail
  <2>2. /\ \A d \in Calls \ {c} : call'[d] = call[d]
        /\ history.failed \subseteq history'.failed /\ history.slow \subseteq history'.slow
    BY DEF Fail
  <2> QED BY ONLY <2>1, <2>2 DEF Effect, Moves
<1>4. ASSUME NEW c \in Calls, EndCallTool(c)
      PROVE  Effect
  <2> USE <1>4 DEF EndCallTool, SetClient
  <2>1. Ended(c)
    BY DEF Ended, SameRoute, CallRecord, WriteRecord, WriteFails, Logs, Fail
  <2>2. /\ \A d \in Calls \ {c} : call'[d] = call[d]
        /\ history.failed \subseteq history'.failed /\ history.slow \subseteq history'.slow
    BY DEF Fail
  <2> QED BY ONLY <2>1, <2>2 DEF Effect, Moves
<1>5. ASSUME NEW b \in Servers, Accept(b)
      PROVE  Effect
  <2> DEFINE c == Head(backlog[b])
  <2>1. c \in Calls /\ call[c].server = "queued" /\ call[c].to = b /\ Free(b)
    <3>1. backlog[b] \in Seq(Calls) /\ backlog[b] # <<>> /\ Free(b)
      BY <1>5 DEF Accept
    <3>2. 1 \in 1 .. Len(backlog[b]) /\ c = backlog[b][1] /\ c \in Calls
      BY <3>1
    <3> QED BY <3>1, <3>2 DEF QueueInv
  <2>2. \/ /\ ~IsTask(c) /\ call' = [call EXCEPT ![c].server = "handle"]
           /\ chain' = chain /\ history' = history
        \/ /\ IsTask(c) /\ WriteRecord(b, "receive", c, "SUCCESS")
           /\ call' = [call EXCEPT ![c].server = "handle"] /\ history' = history
        \/ /\ IsTask(c) /\ chain' = chain /\ Over(c, "broken") /\ Fail(c)
    BY <1>5 DEF Accept, WriteFails
  <2> HIDE DEF c
  <2>3. CASE call' = [call EXCEPT ![c].server = "handle"]
    <3>1. /\ call'[c] = [call[c] EXCEPT !.server = "handle"]
          /\ \A d \in Calls \ {c} : call'[d] = call[d]
          /\ history' = history
      BY <2>1, <2>2, <2>3 DEF Over, CallRecord
    <3>2. call[c] \in CallRecord /\ call'[c].server = "handle" /\ SameRoute(c)
          /\ call'[c].client = call[c].client /\ call'[c].answer = call[c].answer
          /\ call'[c].seq = call[c].seq
      BY <2>1, <3>1 DEF SameRoute, CallRecord
    <3>3. ~Over(c, "broken")
      BY <2>1, <3>2 DEF Over, CallRecord
    <3>4. IF IsTask(c) THEN Logs(b, "receive", c, "SUCCESS") ELSE chain' = chain
      BY <2>2, <3>3 DEF WriteRecord, Logs
    <3>5. Accepted(c)
      BY <2>1, <3>2, <3>4 DEF Accepted, c
    <3> QED BY <2>1, <3>1, <3>4, <3>5 DEF Effect, Moves
  <2>4. CASE chain' = chain /\ Over(c, "broken") /\ Fail(c)
    <3>1. Dropped(c)
      BY <1>0, <2>1, <2>4 DEF Dropped, SameRoute, CallRecord, Over, Delivered
    <3>2. /\ \A d \in Calls \ {c} : call'[d] = call[d]
          /\ history.failed \subseteq history'.failed /\ history.slow \subseteq history'.slow
      BY <2>1, <2>4 DEF Over, Fail
    <3> QED BY <2>1, <2>4, <3>1, <3>2 DEF Effect, Moves
  <2> QED BY <2>2, <2>3, <2>4
<1>6. ASSUME NEW c \in Calls, HandlerReturns(c)
      PROVE  Effect
  <2> USE <1>6 DEF HandlerReturns
  <2>1. Handling(c) /\ call[c].server = "handle"
    BY DEF Handling
  <2>2. \A d \in Calls \ {c} : call'[d] = call[d]
    BY DEF Over, Decide
  <2>3. history.failed \subseteq history'.failed /\ history.slow \subseteq history'.slow
    BY DEF Fail
  <2>4. CASE ~IsTask(c)
    <3>1. Decided(c)
      BY <2>1, <2>4 DEF Decided, SameRoute, CallRecord
    <3> QED BY ONLY <2>2, <2>3, <2>4, <3>1 DEF Effect, Moves
  <2>5. CASE IsTask(c) /\ Decide(c)
    <3>1. Len(chain'[call[c].to]) = Len(chain[call[c].to]) + 1
      BY <2>5 DEF Decide, WriteRecord, IsTask, Entry
    <3>2. Decided(c)
      BY <2>1, <2>5, <3>1 DEF Decide, Decided, SameRoute, CallRecord, WriteRecord, Logs
    <3> QED BY ONLY <2>2, <2>3, <2>5, <3>2 DEF Effect, Moves
  <2>6. CASE IsTask(c) /\ WriteFails /\ Over(c, "broken")
    <3>1. Dropped(c) /\ chain' = chain
      BY <1>0, <2>1, <2>6 DEF Dropped, SameRoute, CallRecord, Over, Delivered, WriteFails
    <3> QED BY ONLY <2>2, <2>3, <2>6, <3>1 DEF Effect, Moves
  <2> QED BY <2>4, <2>5, <2>6
<1>7. ASSUME NEW c \in Calls, HandlerRaises(c)
      PROVE  Effect
  <2> USE <1>7 DEF HandlerRaises
  <2>1. Dropped(c) /\ chain' = chain
    BY <1>0 DEF Dropped, SameRoute, CallRecord, Over, Delivered, Handling
  <2>2. /\ \A d \in Calls \ {c} : call'[d] = call[d]
        /\ history.failed \subseteq history'.failed /\ history.slow \subseteq history'.slow
    BY DEF Fail, Over
  <2> QED BY ONLY <2>1, <2>2 DEF Effect, Moves
<1>8. ASSUME NEW c \in Calls, Answer(c)
      PROVE  Effect
  <2> USE <1>8 DEF Answer
  <2>1. Answered(c)
    BY DEF Answered, SameRoute, CallRecord, Over
  <2>2. /\ \A d \in Calls \ {c} : call'[d] = call[d]
        /\ chain' = chain /\ history' = history
    BY DEF Over
  <2> QED BY ONLY <2>1, <2>2 DEF Effect, Moves
<1>9. ASSUME NEW b \in Servers, Stop(b)
      PROVE  Effect
  <2> DEFINE dropped == {backlog[b][i] : i \in 1 .. Len(backlog[b])}
  <2>1. /\ chain' = chain /\ history' = history
        /\ call' = [c \in Calls |-> IF c \in dropped
                                    THEN [call[c] EXCEPT !.server = "over",
                                                         !.answer = Delivered(c, "broken")]
                                    ELSE call[c]]
    BY <1>9 DEF Stop
  <2>2. \A c \in dropped : call[c].server = "queued"
    BY DEF QueueInv
  <2> HIDE DEF dropped
  <2>3. ASSUME NEW c \in Calls
        PROVE  Moves(c)
    <3>1. CASE c \in dropped
      <4>1. call'[c] = [call[c] EXCEPT !.server = "over", !.answer = Delivered(c, "broken")]
        BY <2>1, <3>1
      <4>2. Dropped(c)
        BY <1>0, <2>2, <3>1, <4>1 DEF Dropped, SameRoute, CallRecord, Delivered
      <4> QED BY <4>2 DEF Moves
    <3>2. CASE c \notin dropped
      BY <2>1, <3>2 DEF Moves
    <3> QED BY <3>1, <3>2
  <2> QED BY <2>1, <2>3 DEF Effect
<1>10. CASE \E b \in Servers : Start(b)
  BY <1>10 DEF Start, Effect, Moves
<1>11. CASE \E b \in Agents, c \in Calls : Authorize(b, c)
  BY <1>11 DEF Authorize, Effect, Moves
<1>12. CASE \E b \in Agents : AuthorizedAgain(b)
  <2>1. PICK b \in Agents : AuthorizedAgain(b)
    BY <1>12
  <2>2. chain' = chain /\ call' = call
    BY <2>1 DEF AuthorizedAgain
  <2>3. history.failed \subseteq history'.failed /\ history.slow \subseteq history'.slow
    BY <2>1 DEF AuthorizedAgain, Fail
  <2> QED BY <2>2, <2>3 DEF Effect, Moves
<1> QED
  BY <1>1, <1>2, <1>3, <1>4, <1>5, <1>6, <1>7, <1>8, <1>9, <1>10, <1>11, <1>12 DEF Next

(* The types. *)
LEMMA TypedNext == Typed /\ CallInv /\ QueueInv /\ Next => Typed'
<1> SUFFICES ASSUME Typed, CallInv, QueueInv, Next PROVE Typed'
  OBVIOUS
<1>0. /\ Agents \subseteq Servers /\ MaxTroubles \in Nat /\ Effect
      /\ call \in [Calls -> CallRecord] /\ NoCall \in CallRecord
  BY DelegationAssumption, NextEffect DEF Servers, Typed, NoCall, CallRecord
<1>1. chain' \in [Agents -> Seq(Entry)]
  <2>1. ASSUME NEW a \in Agents, NEW what, NEW status, NEW c \in Calls,
               what \in {"receive", "decision", "delegation", "tool"},
               status \in {"SUCCESS", "ERROR"}, Logs(a, what, c, status)
        PROVE  chain' \in [Agents -> Seq(Entry)]
    <3>1. [what |-> what, call |-> c, status |-> status] \in Entry
      BY <2>1 DEF Entry
    <3>2. Append(chain[a], [what |-> what, call |-> c, status |-> status]) \in Seq(Entry)
      BY <3>1, AppendProperties DEF Typed
    <3> QED BY <2>1, <3>2 DEF Typed, Logs
  <2>2. ASSUME NEW c \in Calls, Ended(c)
        PROVE  chain' \in [Agents -> Seq(Entry)]
    <3>1. call[c].from \in Agents
      BY <2>2 DEF Ended, CallInv
    <3> QED BY <2>1, <2>2, <3>1 DEF Ended, Typed
  <2>3. ASSUME NEW c \in Calls, Accepted(c) \/ Decided(c)
        PROVE  chain' \in [Agents -> Seq(Entry)]
    <3>1. IsTask(c) => call[c].to \in Agents
      BY DEF IsTask
    <3> QED BY <2>1, <2>3, <3>1 DEF Accepted, Decided, Typed
  <2> QED BY <1>0, <2>2, <2>3 DEF Effect, Typed
<1>2. call' \in [Calls -> CallRecord]
  <2> USE <1>0 DEF CallRecord, InServer
  <2>1. CASE \E c \in Calls, a \in Agents, p \in Calls \union {None}, b \in Servers : Send(c, a, p, b)
    <3>1. PICK c \in Calls, a \in Agents, p \in Calls \union {None}, b \in Servers : Send(c, a, p, b)
      BY <2>1
    <3>2. [NoCall EXCEPT !.from = a, !.by = p, !.to = b, !.client = "waiting",
                         !.server = IF b \in up THEN "queued" ELSE "over",
                         !.answer = IF b \in up THEN None ELSE "broken"] \in CallRecord
      BY <1>0
    <3> QED BY ONLY <1>0, <3>1, <3>2 DEF Send
  <2>0. ASSUME NEW c \in Calls, NEW x \in {"ok", "error", "broken"}
        PROVE  [call[c] EXCEPT !.server = "over", !.answer = Delivered(c, x)] \in CallRecord
    <3>1. Delivered(c, x) \in {None, "ok", "error", "broken"}
      BY DEF Delivered
    <3> QED BY <3>1
  <2>00. ASSUME NEW c \in Calls, NEW x \in {"ok", "error", "broken"}, Over(c, x)
         PROVE  call' \in [Calls -> CallRecord]
    <3>1. call' = [call EXCEPT ![c] = [call[c] EXCEPT !.server = "over", !.answer = Delivered(c, x)]]
      BY <2>00 DEF Over
    <3> QED BY ONLY <1>0, <2>0, <3>1
  <2>2. CASE \E c \in Calls : Timeout(c) \/ EndSendTask(c) \/ EndCallTool(c)
    BY <2>2 DEF Timeout, EndSendTask, EndCallTool, SetClient
  <2>3. CASE \E c \in Calls : HandlerReturns(c)
    <3>1. PICK c \in Calls : HandlerReturns(c)
      BY <2>3
    <3>2. CASE call' = [call EXCEPT ![c].server = "answer"]
      BY <3>2
    <3>3. CASE Decide(c) /\ IsTask(c)
      <4>1. Len(chain'[call[c].to]) \in Nat
        <5>1. chain'[call[c].to] \in Seq(Entry)
          BY ONLY <1>1, <3>3 DEF IsTask
        <5> QED BY ONLY <5>1, LenProperties
      <4>2. [call[c] EXCEPT !.server = "answer", !.seq = Len(chain'[call[c].to])] \in CallRecord
        BY ONLY <1>0, <4>1, call[c] \in CallRecord DEF CallRecord, InServer
      <4>3. call' = [call EXCEPT ![c] = [call[c] EXCEPT !.server = "answer",
                                                        !.seq = Len(chain'[call[c].to])]]
        BY <3>3 DEF Decide
      <4> QED BY ONLY <1>0, <4>2, <4>3
    <3>4. CASE Over(c, "broken")
      BY <2>00, <3>4
    <3> QED BY <3>1, <3>2, <3>3, <3>4 DEF HandlerReturns
  <2>4. CASE \E c \in Calls : HandlerRaises(c) \/ Answer(c)
    BY <2>00, <2>4 DEF HandlerRaises, Answer
  <2>5. CASE \E b \in Servers : Accept(b)
    <3>1. PICK b \in Servers : Accept(b)
      BY <2>5
    <3>2. Head(backlog[b]) \in Calls
      BY ONLY <3>1, HeadTailProperties, <1>0, Typed DEF Accept, Typed
    <3>3. CASE call' = [call EXCEPT ![Head(backlog[b])].server = "handle"]
      BY <3>2, <3>3
    <3> QED BY <2>00, <3>1, <3>2, <3>3 DEF Accept
  <2>6. CASE \E b \in Servers : Stop(b)
    <3>1. PICK b \in Servers : Stop(b)
      BY <2>6
    <3>2. \A c \in Calls : [call[c] EXCEPT !.server = "over",
                                         !.answer = Delivered(c, "broken")] \in CallRecord
      BY ONLY <2>0
    <3> QED BY ONLY <1>0, <3>1, <3>2 DEF Stop
  <2>7. CASE UNCHANGED call
    BY <2>7
  <2> QED BY <2>1, <2>2, <2>3, <2>4, <2>5, <2>6, <2>7 DEF Next, Start, Authorize, AuthorizedAgain
<1>3. backlog' \in [Servers -> Seq(Calls)]
  <2> USE DEF Typed
  <2>1. CASE \E c \in Calls, a \in Agents, p \in Calls \union {None}, b \in Servers : Send(c, a, p, b)
    BY <2>1, AppendProperties DEF Send
  <2>2. CASE \E b \in Servers : Accept(b)
    BY <2>2, HeadTailProperties DEF Accept
  <2>3. CASE \E b \in Servers : Stop(b)
    <3>1. <<>> \in Seq(Calls)
      OBVIOUS
    <3> QED BY <2>3, <3>1 DEF Stop
  <2>4. CASE UNCHANGED backlog
    BY <2>4
  <2> QED BY <2>1, <2>2, <2>3, <2>4
          DEF Next, Timeout, EndSendTask, EndCallTool, HandlerReturns, HandlerRaises, Answer, Start,
              Authorize, AuthorizedAgain
<1>4. history' \in [failed : SUBSET Calls, slow : SUBSET Calls]
  <2> USE DEF Typed
  <2>1. ASSUME NEW c \in Calls
        PROVE  /\ [history EXCEPT !.failed = @ \union {c}] \in [failed : SUBSET Calls, slow : SUBSET Calls]
               /\ [history EXCEPT !.slow = @ \union {c}] \in [failed : SUBSET Calls, slow : SUBSET Calls]
    OBVIOUS
  <2>2. CASE \E c \in Calls : \/ Timeout(c) \/ EndSendTask(c) \/ EndCallTool(c)
                              \/ HandlerReturns(c) \/ HandlerRaises(c) \/ Answer(c)
    BY <2>1, <2>2 DEF Timeout, EndSendTask, EndCallTool, HandlerReturns, HandlerRaises, Answer, Fail
  <2>3. CASE \E b \in Servers : Accept(b)
    <3>1. PICK b \in Servers : Accept(b)
      BY <2>3
    <3>2. Head(backlog[b]) \in Calls
      BY <3>1 DEF Accept
    <3> QED BY <2>1, <3>1, <3>2 DEF Accept, Fail
  <2>4. CASE \E b \in Agents : AuthorizedAgain(b)
    BY <2>1, <2>4 DEF AuthorizedAgain, Fail
  <2>5. CASE UNCHANGED history
    BY <2>5
  <2> QED BY <2>2, <2>3, <2>4, <2>5 DEF Next, Send, Stop, Start, Authorize
<1>5. task' \in [Calls -> {None, "SUBMITTED", "WORKING", "COMPLETED"}]
  <2> USE DEF Typed
  <2>1. CASE \E b \in Servers : Accept(b)
    BY <2>1 DEF Accept
  <2>2. CASE \E c \in Calls : HandlerReturns(c)
    BY <2>2 DEF HandlerReturns
  <2>3. CASE \/ \E b \in Agents, c \in Calls : Authorize(b, c)
             \/ \E b \in Agents : AuthorizedAgain(b)
    BY <2>3 DEF Authorize, AuthorizedAgain
  <2>4. CASE UNCHANGED task
    BY <2>4
  <2> QED BY <2>1, <2>2, <2>3, <2>4
          DEF Next, Send, Timeout, EndSendTask, EndCallTool, HandlerRaises, Answer, Stop, Start
<1>6. up' \subseteq Servers
  BY DEF Typed, Next, Send, Timeout, EndSendTask, EndCallTool, HandlerReturns, HandlerRaises, Answer,
         Accept, Stop, Start, Authorize, AuthorizedAgain
<1>7. rerun' \in [Agents -> Calls \union {None}]
  <2> USE DEF Typed
  <2>1. CASE \E b \in Agents, c \in Calls : Authorize(b, c)
    BY <2>1 DEF Authorize
  <2>2. CASE \E b \in Agents : AuthorizedAgain(b)
    BY <2>2 DEF AuthorizedAgain
  <2>3. CASE UNCHANGED rerun
    BY <2>3
  <2> QED BY <2>1, <2>2, <2>3
          DEF Next, Send, Timeout, EndSendTask, EndCallTool, HandlerReturns, HandlerRaises, Answer,
              Accept, Stop, Start
<1>8. troubles' \in 0 .. MaxTroubles
  <2>1. troubles' = troubles \/ (troubles < MaxTroubles /\ troubles' = troubles + 1)
    BY DEF Next, Send, Timeout, EndSendTask, EndCallTool, HandlerReturns, HandlerRaises,
           Answer, Accept, Stop, Start, Authorize, AuthorizedAgain, WriteRecord, WriteFails, Decide
  <2> QED BY <1>0, <2>1 DEF Typed
<1> QED BY <1>1, <1>2, <1>3, <1>4, <1>5, <1>6, <1>7, <1>8 DEF Typed

(* The two ends of every call. *)
LEMMA CallInvNext ==
  ASSUME Typed, CallInv, QueueInv, Next
  PROVE  CallInv'
<1>0. /\ Effect /\ call \in [Calls -> CallRecord] /\ call' \in [Calls -> CallRecord]
      /\ None \notin {"ok", "error", "broken", "queued", "handle", "answer", "over"}
      /\ NoCall.server = None /\ NoCall.answer = None /\ NoCall.client = "new"
  BY NextEffect, TypedNext, TokensAssumption DEF Typed, NoCall
<1>1. SUFFICES ASSUME NEW c \in Calls
               PROVE  /\ call'[c].client = "new" => call'[c] = NoCall
                      /\ call'[c].client # "new" =>
                           /\ call'[c].from \in Agents /\ call'[c].to \in Servers
                           /\ call'[c].server # None
                      /\ call'[c].client \in {"returned", "raised"} => call'[c].answer # None
                      /\ call'[c].server \in {"queued", "handle", "answer"} /\ call'[c].answer # None =>
                           call'[c].answer = "broken" /\ c \in history'.slow
                      /\ call'[c].client # "new" /\ call'[c].by # None =>
                           call'[call'[c].by].to = call'[c].from
                      /\ call'[c].client = "waiting" /\ call'[c].by # None =>
                           call'[call'[c].by].server = "handle"
                      /\ call'[c].client = "raised" =>
                           \/ c \in history'.failed
                           \/ call'[c].to \in Agents /\ call'[c].answer = "broken"
  BY DEF CallInv, IsTask
<1>2. /\ call[c].client = "new" => call[c] = NoCall
      /\ call[c].client # "new" =>
           call[c].from \in Agents /\ call[c].to \in Servers /\ call[c].server # None
      /\ call[c].client \in {"returned", "raised"} => call[c].answer # None
      /\ call[c].server \in {"queued", "handle", "answer"} /\ call[c].answer # None =>
           call[c].answer = "broken" /\ c \in history.slow
      /\ call[c].client # "new" /\ call[c].by # None => call[call[c].by].to = call[c].from
      /\ call[c].client = "waiting" /\ call[c].by # None => call[call[c].by].server = "handle"
      /\ call[c].client = "raised" =>
           c \in history.failed \/ (call[c].to \in Agents /\ call[c].answer = "broken")
  BY DEF CallInv, IsTask
<1>3. Moves(c) /\ history.failed \subseteq history'.failed /\ history.slow \subseteq history'.slow
  BY <1>0 DEF Effect
<1>4. /\ call'[c].client = "new" => call'[c] = NoCall
      /\ call'[c].client # "new" =>
           /\ call'[c].from \in Agents /\ call'[c].to \in Servers
           /\ call'[c].server # None
      /\ call'[c].client \in {"returned", "raised"} => call'[c].answer # None
      /\ call'[c].server \in {"queued", "handle", "answer"} /\ call'[c].answer # None =>
           call'[c].answer = "broken" /\ c \in history'.slow
      /\ call'[c].client = "raised" =>
           \/ c \in history'.failed
           \/ call'[c].to \in Agents /\ call'[c].answer = "broken"
  <2> USE <1>0, <1>2, <1>3
  <2>1. CASE call'[c] = call[c]
    BY <2>1
  <2>2. CASE Made(c)
    BY <2>2 DEF Made
  <2>3. CASE GaveUp(c)
    BY <2>3 DEF GaveUp, SameRoute
  <2>0. CASE Ended(c)
    <3>1. /\ call'[c].from = call[c].from /\ call'[c].to = call[c].to
          /\ call'[c].server = call[c].server /\ call'[c].answer = call[c].answer
          /\ call[c].client = "waiting" /\ call[c].answer # None
          /\ call'[c].client \in {"raised", "returned"}
          /\ call'[c].client = "raised" =>
               c \in history'.failed \/ (call[c].to \in Agents /\ call[c].answer = "broken")
      BY ONLY <2>0 DEF Ended, SameRoute, IsTask
    <3> QED BY <3>1
  <2>4. CASE Accepted(c) \/ Decided(c)
    BY <2>4 DEF Accepted, Decided, Handling, SameRoute
  <2>5. CASE Dropped(c)
    BY <2>5 DEF Dropped, Handling, SameRoute
  <2>6. CASE Answered(c)
    BY <2>6 DEF Answered, SameRoute, Delivered
  <2> QED BY ONLY <1>3, <2>0, <2>1, <2>2, <2>3, <2>4, <2>5, <2>6 DEF Moves
<1>5. ASSUME call'[c].client # "new", call'[c].by # None
      PROVE  /\ call'[call'[c].by].to = call'[c].from
             /\ call'[c].client = "waiting" => call'[call'[c].by].server = "handle"
  <2>1. CASE Made(c)
    BY <1>5, <2>1 DEF Made
  <2>2. CASE ~Made(c)
    <3>1. /\ call[c].client # "new" /\ call'[c].by = call[c].by /\ call'[c].from = call[c].from
          /\ call'[c].client = "waiting" => call[c].client = "waiting"
          /\ call[c].by \in Calls
      BY <1>0, <1>2, <1>3, <1>5, <2>2
         DEF Moves, GaveUp, Ended, Accepted, Decided, Dropped, Answered, SameRoute, CallRecord
    <3> DEFINE p == call[c].by
    <3>2. call[p].to = call[c].from /\ call[c].from \in Agents
      BY <1>2, <1>5, <3>1
    <3>3. Moves(p) /\ call[p].client # "new"
      <4>1. NoCall.to = None /\ None \notin Agents
        BY DelegationAssumption DEF NoCall
      <4> QED BY <1>0, <3>1, <3>2, <4>1 DEF Effect, CallInv
    <3>4. call'[p].to = call[p].to
      BY <3>3 DEF Moves, Made, GaveUp, Ended, Accepted, Decided, Dropped, Answered, SameRoute
    <3>5. ASSUME call'[c].client = "waiting"
          PROVE  call'[p].server = "handle"
      <4>1. call[p].server = "handle" /\ ~Handling(p)
        BY <1>2, <1>5, <3>1, <3>2, <3>5 DEF Handling, Caller
      <4> QED BY <3>3, <4>1 DEF Moves, Made, GaveUp, Ended, Accepted, Decided, Dropped, Answered
    <3> QED BY <3>1, <3>2, <3>4, <3>5
  <2> QED BY <2>1, <2>2
<1> QED BY <1>4, <1>5

(* Every backlog. *)
LEMMA QueueInvNext ==
  ASSUME Typed, CallInv, QueueInv, Next
  PROVE  QueueInv'
<1>0. /\ call \in [Calls -> CallRecord] /\ backlog \in [Servers -> Seq(Calls)]
      /\ NoCall.server = None /\ None # "queued" /\ NoCall.client = "new"
  BY TokensAssumption DEF Typed, NoCall
<1>1. \A b \in Servers : \A i \in 1 .. Len(backlog[b]) : backlog[b][i] \in Calls
  BY <1>0, ElementOfSeq
<1>2. CASE backlog' = backlog /\ \A c \in Calls : call[c].server = "queued" =>
              call'[c].server = "queued" /\ call'[c].to = call[c].to
  BY <1>1, <1>2 DEF QueueInv
<1>3. ASSUME NEW c \in Calls, NEW a \in Agents, NEW p \in Calls \union {None}, NEW b \in Servers,
             Send(c, a, p, b)
      PROVE  QueueInv'
  <2>1. /\ call[c].server # "queued"
        /\ \A d \in Calls \ {c} : call'[d] = call[d]
        /\ call'[c].to = b
        /\ IF b \in up
           THEN call'[c].server = "queued" /\ backlog' = [backlog EXCEPT ![b] = Append(backlog[b], c)]
           ELSE backlog' = backlog
    BY <1>0, <1>3 DEF Send, CallInv, NoCall
  <2>2. CASE b \notin up
    BY <1>1, <2>1, <2>2 DEF QueueInv
  <2>3. CASE b \in up
    <3>1. /\ Len(backlog'[b]) = Len(backlog[b]) + 1 /\ Len(backlog[b]) \in Nat
          /\ backlog'[b][Len(backlog[b]) + 1] = c
          /\ \A i \in 1 .. Len(backlog[b]) : backlog'[b][i] = backlog[b][i]
          /\ \A s \in Servers \ {b} : backlog'[s] = backlog[s]
      BY <1>0, <2>1, <2>3, AppendProperties
    <3>2. \A i \in 1 .. Len(backlog[b]) : backlog[b][i] # c
      BY <2>1 DEF QueueInv
    <3>3. ASSUME NEW s \in Servers, NEW i \in 1 .. Len(backlog'[s])
          PROVE  /\ call'[backlog'[s][i]].server = "queued" /\ call'[backlog'[s][i]].to = s
                 /\ \A j \in 1 .. Len(backlog'[s]) : backlog'[s][i] = backlog'[s][j] => i = j
      <4>1. CASE s # b
        BY <1>1, <2>1, <3>1, <3>3, <4>1 DEF QueueInv
      <4>2. CASE s = b /\ i = Len(backlog[b]) + 1
        BY <2>1, <2>3, <3>1, <3>2, <4>2
      <4>3. CASE s = b /\ i \in 1 .. Len(backlog[b])
        BY <1>1, <2>1, <3>1, <3>2, <4>3 DEF QueueInv
      <4> QED BY <3>1, <4>1, <4>2, <4>3
    <3> QED BY <3>3 DEF QueueInv
  <2> QED BY <2>2, <2>3
<1>4. ASSUME NEW b \in Servers, Accept(b)
      PROVE  QueueInv'
  <2> DEFINE c == Head(backlog[b])
  <2>1. backlog[b] \in Seq(Calls) /\ backlog[b] # <<>> /\ backlog' = [backlog EXCEPT ![b] = Tail(backlog[b])]
    BY <1>0, <1>4 DEF Accept
  <2>2. /\ Len(backlog[b]) \in Nat \ {0} /\ c = backlog[b][1] /\ c \in Calls
        /\ Len(Tail(backlog[b])) = Len(backlog[b]) - 1
        /\ \A i \in 1 .. Len(backlog[b]) - 1 : Tail(backlog[b])[i] = backlog[b][i + 1]
    BY <2>1, HeadTailProperties, LenProperties, EmptySeq
  <2>3. \A d \in Calls \ {c} : call'[d] = call[d]
    <3>1. \/ call' = [call EXCEPT ![c].server = "handle"]
          \/ call' = [call EXCEPT ![c].server = "over", ![c].answer = Delivered(c, "broken")]
      BY ONLY <1>4 DEF Accept, Over
    <3> QED BY ONLY <3>1, <1>0
  <2>4. call[c].to = b
    BY <2>2 DEF QueueInv
  <2> HIDE DEF c
  <2>5. ASSUME NEW s \in Servers, NEW i \in 1 .. Len(backlog'[s])
        PROVE  /\ call'[backlog'[s][i]].server = "queued" /\ call'[backlog'[s][i]].to = s
               /\ \A j \in 1 .. Len(backlog'[s]) : backlog'[s][i] = backlog'[s][j] => i = j
    <3>1. CASE s # b
      <4>1. backlog'[s] = backlog[s] /\ backlog[s][i] \in Calls /\ call[backlog[s][i]].to = s
        BY <1>0, <1>1, <2>1, <2>5, <3>1 DEF QueueInv
      <4> QED BY <2>3, <2>4, <2>5, <3>1, <4>1 DEF QueueInv
    <3>2. CASE s = b
      <4>1. backlog'[b] = Tail(backlog[b])
        BY <1>0, <2>1
      <4>2. /\ i + 1 \in 1 .. Len(backlog[b]) /\ backlog'[b][i] = backlog[b][i + 1]
            /\ backlog[b][i + 1] # c
        BY <2>2, <2>5, <3>2, <4>1 DEF QueueInv
      <4>3. call'[backlog'[b][i]] = call[backlog[b][i + 1]]
        BY <1>1, <2>3, <4>2
      <4>4. ASSUME NEW j \in 1 .. Len(backlog'[b]), backlog'[b][i] = backlog'[b][j]
            PROVE  i = j
        <5>1. j + 1 \in 1 .. Len(backlog[b]) /\ backlog[b][i + 1] = backlog[b][j + 1]
          BY <2>2, <4>1, <4>2, <4>4
        <5>2. i + 1 = j + 1
          BY <4>2, <5>1 DEF QueueInv
        <5> QED BY <2>2, <2>5, <3>2, <4>1, <5>2
      <4> QED BY <3>2, <4>2, <4>3, <4>4 DEF QueueInv
    <3> QED BY <3>1, <3>2
  <2> QED BY <2>5 DEF QueueInv
<1>5. ASSUME NEW b \in Servers, Stop(b)
      PROVE  QueueInv'
  <2> DEFINE dropped == {backlog[b][i] : i \in 1 .. Len(backlog[b])}
  <2>1. backlog' = [backlog EXCEPT ![b] = <<>>] /\ \A d \in Calls \ dropped : call'[d] = call[d]
    BY <1>5 DEF Stop
  <2>2. \A d \in dropped : call[d].to = b
    BY DEF QueueInv
  <2> HIDE DEF dropped
  <2>3. ASSUME NEW s \in Servers, NEW i \in 1 .. Len(backlog'[s])
        PROVE  /\ call'[backlog'[s][i]].server = "queued" /\ call'[backlog'[s][i]].to = s
               /\ \A j \in 1 .. Len(backlog'[s]) : backlog'[s][i] = backlog'[s][j] => i = j
    <3>1. s # b /\ backlog'[s] = backlog[s]
      <4>1. Len(<<>>) = 0
        OBVIOUS
      <4>2. s = b => backlog'[s] = <<>>
        BY <1>0, <2>1
      <4> QED BY <1>0, <2>1, <2>3, <4>1, <4>2
    <3>2. backlog[s][i] \in Calls \ dropped
      BY <1>1, <2>2, <2>3, <3>1 DEF QueueInv
    <3> QED BY <2>1, <2>3, <3>1, <3>2 DEF QueueInv
  <2> QED BY <2>3 DEF QueueInv
<1>6. ASSUME NEW c \in Calls, \/ Timeout(c) \/ EndSendTask(c) \/ EndCallTool(c)
                              \/ HandlerReturns(c) \/ HandlerRaises(c) \/ Answer(c)
      PROVE  QueueInv'
  <2>1. backlog' = backlog
    BY <1>6 DEF Timeout, EndSendTask, EndCallTool, HandlerReturns, HandlerRaises, Answer
  <2>3. \A d \in Calls \ {c} : call'[d] = call[d]
    <3>1. CASE Timeout(c) \/ EndSendTask(c) \/ EndCallTool(c)
      BY <1>0, <3>1 DEF Timeout, EndSendTask, EndCallTool, SetClient
    <3>2. CASE HandlerReturns(c)
      BY <1>0, <3>2 DEF HandlerReturns, Over, Decide
    <3>3. CASE HandlerRaises(c) \/ Answer(c)
      BY <1>0, <3>3 DEF HandlerRaises, Answer, Over
    <3> QED BY <1>6, <3>1, <3>2, <3>3
  <2>2. call[c].server = "queued" => call'[c].server = "queued" /\ call'[c].to = call[c].to
    BY <1>0, <1>6 DEF Timeout, EndSendTask, EndCallTool, HandlerReturns, HandlerRaises, Answer,
                      Handling, SetClient, CallRecord
  <2> QED BY <1>2, <2>1, <2>2, <2>3
<1>7. CASE \/ \E b \in Servers : Start(b)
           \/ \E b \in Agents, c \in Calls : Authorize(b, c)
           \/ \E b \in Agents : AuthorizedAgain(b)
  BY <1>2, <1>7 DEF Start, Authorize, AuthorizedAgain
<1> QED BY <1>3, <1>4, <1>5, <1>6, <1>7 DEF Next

(* A step leaves the chains alone, or appends a record that says what it   *)
(* did of a call.                                                          *)
Appended(a, what, c, status) ==
  /\ Logs(a, what, c, status) /\ a \in Agents
  /\ \/ what \in Own /\ Ended(c) /\ a = call[c].from /\ call'[c].client = "returned"
     \/ what = "receive" /\ Accepted(c) /\ a = call[c].to
     \/ what = "decision" /\ Decided(c) /\ a = call[c].to

(* Every step does one or the other. *)
LEMMA ChainEffect ==
  ASSUME Typed, CallInv, QueueInv, Next
  PROVE  \/ chain' = chain
         \/ \E a \in Agents, what \in {"receive", "decision", "delegation", "tool"},
               status \in {"SUCCESS", "ERROR"}, c \in Calls : Appended(a, what, c, status)
<1>0. Effect
  BY NextEffect
<1> SUFFICES ASSUME chain' # chain, NEW c \in Calls, Ended(c) \/ Accepted(c) \/ Decided(c)
             PROVE  \E a \in Agents, what \in {"receive", "decision", "delegation", "tool"},
                       status \in {"SUCCESS", "ERROR"} : Appended(a, what, c, status)
  BY <1>0 DEF Effect
<1>1. CASE Ended(c)
  <2> DEFINE what == IF IsTask(c) THEN "delegation" ELSE "tool"
             status == IF call[c].answer = "ok" THEN "SUCCESS" ELSE "ERROR"
  <2>1. /\ call[c].client = "waiting" /\ call'[c].client = "returned"
        /\ Logs(call[c].from, what, c, status)
    BY <1>1 DEF Ended
  <2>2. call[c].from \in Agents
    BY <2>1 DEF CallInv
  <2>3. /\ what \in {"receive", "decision", "delegation", "tool"} /\ status \in {"SUCCESS", "ERROR"}
        /\ what \in Own
    BY DEF Own
  <2> HIDE DEF what, status
  <2>4. Appended(call[c].from, what, c, status)
    BY <1>1, <2>1, <2>2, <2>3 DEF Appended
  <2> QED BY <2>2, <2>3, <2>4
<1>2. CASE Accepted(c)
  BY <1>2 DEF Accepted, Appended, IsTask
<1>3. CASE Decided(c)
  BY <1>3 DEF Decided, Appended, IsTask
<1> QED BY <1>1, <1>2, <1>3

(* The chains after a record was appended. *)
LEMMA AppendedChain ==
  ASSUME Typed, NEW a \in Agents, NEW what \in {"receive", "decision", "delegation", "tool"},
         NEW status \in {"SUCCESS", "ERROR"}, NEW c \in Calls, Appended(a, what, c, status)
  PROVE  /\ \A b \in Agents : chain[b] \in Seq(Entry) /\ Len(chain[b]) \in Nat
         /\ Len(chain'[a]) = Len(chain[a]) + 1
         /\ chain'[a][Len(chain[a]) + 1] = [what |-> what, call |-> c, status |-> status]
         /\ \A i \in 1 .. Len(chain[a]) : chain'[a][i] = chain[a][i]
         /\ \A b \in Agents \ {a} : chain'[b] = chain[b]
<1>1. chain \in [Agents -> Seq(Entry)]
  BY DEF Typed
<1>2. [what |-> what, call |-> c, status |-> status] \in Entry
  BY DEF Entry
<1>3. chain' = [chain EXCEPT ![a] = Append(chain[a], [what |-> what, call |-> c, status |-> status])]
  BY DEF Appended, Logs
<1>4. /\ chain'[a] = Append(chain[a], [what |-> what, call |-> c, status |-> status])
      /\ \A b \in Agents \ {a} : chain'[b] = chain[b]
  BY <1>1, <1>3
<1>5. \A b \in Agents : chain[b] \in Seq(Entry) /\ Len(chain[b]) \in Nat
  BY <1>1, LenProperties
<1> QED BY <1>2, <1>4, <1>5, AppendProperties

(* What was recorded stays recorded. *)
LEMMA HasKept ==
  ASSUME Typed, CallInv, QueueInv, Next, NEW a \in Agents, NEW x, NEW c, Has(chain[a], x, c)
  PROVE  Has(chain'[a], x, c)
<1>1. ASSUME NEW b \in Agents, NEW what \in {"receive", "decision", "delegation", "tool"},
             NEW status \in {"SUCCESS", "ERROR"}, NEW d \in Calls, Appended(b, what, d, status)
      PROVE  Has(chain'[a], x, c)
  <2>1. /\ Len(chain[b]) \in Nat /\ Len(chain'[b]) = Len(chain[b]) + 1
        /\ \A i \in 1 .. Len(chain[b]) : chain'[b][i] = chain[b][i]
        /\ \A s \in Agents \ {b} : chain'[s] = chain[s]
    BY <1>1, AppendedChain
  <2> QED BY <2>1 DEF Has
<1> QED BY <1>1, ChainEffect DEF Has

(* What a step does to the task of a call: its receipt, or the failure of  *)
(* it, the end of its handler, and the run that tasks/authorize asks for.  *)
TaskMoves(c) ==
  /\ \/ task'[c] = task[c]
     \/ /\ IsTask(c) /\ call[c].server = "queued" /\ task'[c] # None
        /\ call'[c].server = "handle" \/ (call'[c].server = "over" /\ c \in history'.failed)
     \/ IsTask(c) /\ call[c].server = "handle" /\ task'[c] = "COMPLETED"
     \/ /\ task[c] # None /\ task'[c] # None /\ call' = call
        /\ Free(call[c].to) /\ rerun'[call[c].to] = c
     \/ task[c] # None /\ call' = call /\ task'[c] = "COMPLETED"
  /\ IsTask(c) /\ call[c].server = "handle" =>
       /\ call'[c].server = "answer" => task'[c] = "COMPLETED"
       /\ call'[c].server = "over" => c \in history'.failed
  /\ IsTask(c) /\ rerun[call[c].to] = c =>
       \/ rerun'[call[c].to] = c \/ task'[c] = "COMPLETED" \/ c \in history'.failed

(* And to the task a server runs again. *)
RerunMoves(b) ==
  \/ rerun'[b] = rerun[b] \/ rerun'[b] = None
  \/ /\ Free(b) /\ call' = call /\ rerun'[b] \in Calls
     /\ task'[rerun'[b]] # None /\ call[rerun'[b]].to = b

(* Every action has such an effect. *)
LEMMA TaskEffect ==
  ASSUME Typed, CallInv, QueueInv, BusyInv, TaskInv, Next
  PROVE  /\ \A c \in Calls : TaskMoves(c)
         /\ \A b \in Agents : RerunMoves(b)
<1>0. /\ call \in [Calls -> CallRecord] /\ task \in [Calls -> {None, "SUBMITTED", "WORKING", "COMPLETED"}]
      /\ rerun \in [Agents -> Calls \union {None}] /\ backlog \in [Servers -> Seq(Calls)]
      /\ history \in [failed : SUBSET Calls, slow : SUBSET Calls]
      /\ None \notin {"queued", "handle", "answer", "over", "SUBMITTED", "WORKING", "COMPLETED"}
      /\ None \notin Agents /\ None \notin Calls /\ Agents \subseteq Servers
      /\ NoCall.server = None /\ NoCall.client = "new"
  BY TokensAssumption, DelegationAssumption DEF Typed, NoCall, Servers, Calls
<1>1. CASE /\ task' = task /\ rerun' = rerun
           /\ \A c \in Calls : IsTask(c) /\ call[c].server = "handle" =>
                /\ call'[c].server # "answer"
                /\ call'[c].server = "over" => c \in history'.failed
  BY <1>1 DEF TaskMoves, RerunMoves
<1>2. ASSUME NEW c \in Calls, NEW a \in Agents, NEW p \in Calls \union {None}, NEW b \in Servers,
             Send(c, a, p, b)
      PROVE  task' = task /\ rerun' = rerun /\ \A d \in Calls : call[d].server = "handle" => call'[d] = call[d]
  <2>1. call[c].server # "handle"
    BY <1>0, <1>2 DEF Send, CallInv
  <2> QED BY <1>2, <2>1 DEF Send
<1>3. ASSUME NEW c \in Calls, Timeout(c) \/ EndSendTask(c) \/ EndCallTool(c)
      PROVE  task' = task /\ rerun' = rerun /\ \A d \in Calls : call'[d].server = call[d].server
  <2>1. task' = task /\ rerun' = rerun
    BY <1>3 DEF Timeout, EndSendTask, EndCallTool
  <2>2. \/ call' = [call EXCEPT ![c].answer = "broken"]
        \/ \E how \in {"returned", "raised"} : call' = [call EXCEPT ![c].client = how]
    BY <1>3 DEF Timeout, EndSendTask, EndCallTool, SetClient
  <2> QED BY <1>0, <2>1, <2>2 DEF CallRecord
<1>4. ASSUME NEW c \in Calls, HandlerReturns(c)
      PROVE  /\ \A d \in Calls : TaskMoves(d)
             /\ \A b \in Agents : RerunMoves(b)
  <2>1. /\ rerun' = rerun /\ call[c].server = "handle"
        /\ \A b \in Agents : RerunMoves(b)
    BY <1>4 DEF HandlerReturns, Handling, RerunMoves
  <2>2. \A d \in Calls \ {c} : call'[d] = call[d]
    BY <1>0, <1>4 DEF HandlerReturns, Decide, Over
  <2>3. ~IsTask(c) => task' = task
    BY <1>4 DEF HandlerReturns
  <2>4. IsTask(c) => task' = [task EXCEPT ![c] = "COMPLETED"]
    BY <1>4 DEF HandlerReturns
  <2>5. IsTask(c) /\ call'[c].server = "over" => c \in history'.failed
    <3>1. Decide(c) => call'[c].server = "answer"
      BY <1>0 DEF Decide, CallRecord
    <3>2. Fail(c) => c \in history'.failed
      BY <1>0 DEF Fail
    <3> QED BY <1>4, <3>1, <3>2 DEF HandlerReturns
  <2>6. TaskMoves(c)
    BY <1>0, <2>1, <2>3, <2>4, <2>5 DEF TaskMoves
  <2>7. ASSUME NEW d \in Calls \ {c}
        PROVE  TaskMoves(d)
    BY <1>0, <2>1, <2>2, <2>3, <2>4 DEF TaskMoves
  <2> QED BY <2>1, <2>6, <2>7
<1>5. ASSUME NEW c \in Calls, HandlerRaises(c)
      PROVE  /\ task' = task /\ rerun' = rerun
             /\ \A d \in Calls : call[d].server = "handle" =>
                  /\ call'[d].server # "answer"
                  /\ call'[d].server = "over" => d \in history'.failed
  <2>1. /\ task' = task /\ rerun' = rerun /\ c \in history'.failed
        /\ call'[c].server = "over" /\ \A d \in Calls \ {c} : call'[d] = call[d]
    BY <1>0, <1>5 DEF HandlerRaises, Over, Fail, CallRecord
  <2> QED BY <2>1
<1>6. ASSUME NEW c \in Calls, Answer(c)
      PROVE  task' = task /\ rerun' = rerun /\ \A d \in Calls : call[d].server = "handle" => call'[d] = call[d]
  <2>1. /\ task' = task /\ rerun' = rerun /\ call[c].server = "answer"
        /\ call' = [call EXCEPT ![c].server = "over", ![c].answer = Delivered(c, "ok")]
    BY <1>6 DEF Answer, Over
  <2> QED BY ONLY <2>1, <1>0
<1>7. ASSUME NEW b \in Servers, Accept(b)
      PROVE  /\ \A d \in Calls : TaskMoves(d)
             /\ \A s \in Agents : RerunMoves(s)
  <2> DEFINE c == Head(backlog[b])
  <2>1. c \in Calls /\ call[c].server = "queued"
    <3>1. backlog[b] \in Seq(Calls) /\ backlog[b] # <<>>
      BY <1>0, <1>7 DEF Accept
    <3>2. 1 \in 1 .. Len(backlog[b]) /\ c = backlog[b][1] /\ c \in Calls
      BY <3>1
    <3> QED BY <3>1, <3>2 DEF QueueInv
  <2>2. /\ rerun' = rerun
        /\ \/ /\ ~IsTask(c) /\ call' = [call EXCEPT ![c].server = "handle"]
              /\ task' = task
           \/ /\ IsTask(c) /\ call' = [call EXCEPT ![c].server = "handle"]
              /\ task' = [task EXCEPT ![c] = "WORKING"]
           \/ /\ IsTask(c) /\ Over(c, "broken") /\ Fail(c)
              /\ task' = [task EXCEPT ![c] = "SUBMITTED"]
    BY <1>7 DEF Accept
  <2> HIDE DEF c
  <2>3. /\ \A d \in Calls \ {c} : call'[d] = call[d] /\ task'[d] = task[d]
        /\ task'[c] # task[c] => IsTask(c) /\ task'[c] # None
        /\ call'[c].server = "handle" \/ (call'[c].server = "over" /\ c \in history'.failed)
    BY <1>0, <2>1, <2>2 DEF Over, Fail, CallRecord
  <2>4. TaskMoves(c)
    BY <1>0, <2>1, <2>2, <2>3 DEF TaskMoves
  <2>5. ASSUME NEW d \in Calls \ {c}
        PROVE  TaskMoves(d)
    BY <1>0, <2>2, <2>3 DEF TaskMoves
  <2> QED BY <2>1, <2>2, <2>4, <2>5 DEF RerunMoves
<1>8. ASSUME NEW b \in Servers, Stop(b)
      PROVE  task' = task /\ rerun' = rerun /\ \A d \in Calls : call[d].server = "handle" => call'[d] = call[d]
  <2>1. task' = task /\ rerun' = rerun
    BY <1>8 DEF Stop
  <2>2. ASSUME NEW d \in Calls, call[d].server = "handle"
        PROVE  call'[d] = call[d]
    <3>1. d \notin {backlog[b][i] : i \in 1 .. Len(backlog[b])}
      BY <2>2 DEF QueueInv
    <3> QED BY <1>8, <3>1 DEF Stop
  <2> QED BY <2>1, <2>2
<1>9. ASSUME NEW b \in Agents, NEW c \in Calls, Authorize(b, c)
      PROVE  /\ \A d \in Calls : TaskMoves(d)
             /\ \A s \in Agents : RerunMoves(s)
  <2>1. /\ call' = call /\ Free(b) /\ call[c].to = b /\ task[c] # None /\ rerun[b] = None
        /\ task' = [task EXCEPT ![c] = "WORKING"] /\ rerun' = [rerun EXCEPT ![b] = c]
    BY <1>9 DEF Authorize, Free
  <2>2. TaskMoves(c)
    BY <1>0, <2>1 DEF TaskMoves, IsTask
  <2>3. ASSUME NEW d \in Calls \ {c}
        PROVE  TaskMoves(d)
    BY <1>0, <2>1 DEF TaskMoves, IsTask
  <2>4. \A s \in Agents : RerunMoves(s)
    BY <1>0, <2>1 DEF RerunMoves
  <2> QED BY <2>2, <2>3, <2>4
<1>10. ASSUME NEW b \in Agents, AuthorizedAgain(b)
       PROVE  /\ \A d \in Calls : TaskMoves(d)
              /\ \A s \in Agents : RerunMoves(s)
  <2> DEFINE c == rerun[b]
  <2>1. /\ c \in Calls /\ task[c] # None /\ call[c].to = b /\ call' = call
        /\ rerun' = [rerun EXCEPT ![b] = None]
        /\ task' = [task EXCEPT ![c] = "COMPLETED"] \/ (c \in history'.failed /\ task' = task)
    BY <1>0, <1>10 DEF AuthorizedAgain, BusyInv, Fail
  <2> HIDE DEF c
  <2>2. TaskMoves(c)
    BY <1>0, <2>1 DEF TaskMoves
  <2>3. ASSUME NEW d \in Calls \ {c}
        PROVE  TaskMoves(d)
    BY <1>0, <2>1 DEF TaskMoves, IsTask, c
  <2>4. \A s \in Agents : RerunMoves(s)
    BY <1>0, <2>1 DEF RerunMoves
  <2> QED BY <2>2, <2>3, <2>4
<1>11. ASSUME NEW b \in Servers, Start(b)
       PROVE  task' = task /\ rerun' = rerun /\ call' = call
  BY <1>11 DEF Start
<1> QED
  <2>1. CASE \E c \in Calls, a \in Agents, p \in Calls \union {None}, b \in Servers : Send(c, a, p, b)
    BY <1>0, <1>1, <1>2, <2>1
  <2>2. CASE \E c \in Calls : Timeout(c) \/ EndSendTask(c) \/ EndCallTool(c)
    BY <1>1, <1>3, <2>2
  <2>3. CASE \E c \in Calls : HandlerReturns(c)
    BY <1>4, <2>3
  <2>4. CASE \E c \in Calls : HandlerRaises(c)
    BY <1>1, <1>5, <2>4
  <2>5. CASE \E c \in Calls : Answer(c)
    BY <1>1, <1>6, <2>5
  <2>6. CASE \E b \in Servers : Accept(b)
    BY <1>7, <2>6
  <2>7. CASE \E b \in Servers : Stop(b) \/ Start(b)
    BY <1>1, <1>8, <1>11, <2>7
  <2>8. CASE \E b \in Agents, c \in Calls : Authorize(b, c)
    BY <1>9, <2>8
  <2>9. CASE \E b \in Agents : AuthorizedAgain(b)
    BY <1>10, <2>9
  <2> QED BY <2>1, <2>2, <2>3, <2>4, <2>5, <2>6, <2>7, <2>8, <2>9 DEF Next

(* A call that was made stays what it is, and goes on towards its end. *)
LEMMA Onward ==
  ASSUME Typed, CallInv, QueueInv, Next, NEW c \in Calls, call[c].client # "new"
  PROVE  /\ SameRoute(c)
         /\ call[c].answer # None => call'[c].answer = call[c].answer
         /\ call[c].client \in {"returned", "raised"} => call'[c].client = call[c].client
         /\ call[c].server = "over" => call'[c].server = "over"
         /\ call[c].server = "answer" => call'[c].server \in {"answer", "over"}
         /\ call[c].server = "handle" => call'[c].server \in {"handle", "answer", "over"}
         /\ call'[c].seq = call[c].seq \/ call[c].server = "handle"
<1>1. Moves(c) /\ None # "handle"
  BY NextEffect, TokensAssumption DEF Effect
<1> QED
  BY <1>1 DEF Moves, Made, GaveUp, Ended, Accepted, Decided, Dropped, Answered, SameRoute,
              Handling, Delivered

(* A server has one call in its hands. *)
LEMMA BusyInvNext ==
  ASSUME Typed, CallInv, QueueInv, BusyInv, TaskInv, Next
  PROVE  BusyInv'
<1>0. /\ None \notin {"queued", "handle", "answer", "over"} /\ None \notin Agents
      /\ NoCall.server = None /\ NoCall.to = None /\ Effect
  BY TokensAssumption, DelegationAssumption, NextEffect DEF NoCall
<1>1. ASSUME NEW c \in Calls, call'[c].server \in InServer
      PROVE  /\ SameRoute(c)
             /\ \/ call[c].server \in InServer
                \/ Free(call[c].to) /\ c = Head(backlog[call[c].to]) /\ Accepted(c)
  <2>1. Moves(c)
    BY <1>0 DEF Effect
  <2> QED BY <1>0, <1>1, <2>1 DEF Moves, Made, GaveUp, Ended, Accepted, Decided, Dropped, Answered,
                            SameRoute, InServer, Handling
<1>2. ASSUME NEW c \in Calls, NEW d \in Calls, call'[c].server \in InServer,
             call'[d].server \in InServer, call'[c].to = call'[d].to
      PROVE  c = d
  <2>1. call[c].to = call[d].to
    BY <1>1, <1>2 DEF SameRoute
  <2>2. CASE call[c].server \in InServer /\ call[d].server \in InServer
    BY <2>1, <2>2 DEF BusyInv
  <2>3. CASE call[c].server \notin InServer
    BY <1>1, <1>2, <2>1, <2>3 DEF Free
  <2>4. CASE call[d].server \notin InServer
    BY <1>1, <1>2, <2>1, <2>4 DEF Free
  <2> QED BY <2>2, <2>3, <2>4
<1>3. ASSUME NEW b \in Agents, rerun'[b] # None
      PROVE  /\ task'[rerun'[b]] # None /\ call'[rerun'[b]].to = b
             /\ \A c \in Calls : call'[c].to = b => call'[c].server \notin InServer
  <2>1. RerunMoves(b)
    BY TaskEffect
  <2>2. CASE rerun'[b] = rerun[b]
    <3> DEFINE t == rerun[b]
    <3>1. t \in Calls /\ task[t] # None /\ call[t].to = b /\ call[t].client # "new"
      BY <1>0, <1>3, <2>2 DEF Typed, BusyInv, CallInv
    <3>2. TaskMoves(t) /\ None # "COMPLETED"
      BY <3>1, TaskEffect, TokensAssumption
    <3>3. task'[t] # None
      BY <3>1, <3>2 DEF TaskMoves
    <3>4. call'[t].to = b
      BY <3>1, Onward DEF SameRoute
    <3>5. ASSUME NEW c \in Calls, call'[c].to = b, call'[c].server \in InServer
          PROVE  FALSE
      <4>1. call[c].to = b /\ (call[c].server \in InServer \/ Free(b))
        BY <1>1, <3>5 DEF SameRoute
      <4> QED BY <1>3, <2>2, <4>1 DEF BusyInv, Free
    <3> QED BY <2>2, <3>3, <3>4, <3>5
  <2>3. CASE rerun'[b] # rerun[b]
    BY <1>3, <2>1, <2>3 DEF RerunMoves, Free
  <2> QED BY <2>2, <2>3
<1> QED BY <1>2, <1>3 DEF BusyInv

(* The tasks. *)
LEMMA TaskInvNext ==
  ASSUME Typed, CallInv, QueueInv, BusyInv, TaskInv, LoggedInv, Next
  PROVE  TaskInv'
<1>0. /\ None \notin {"queued", "handle", "answer", "over", "COMPLETED"} /\ None \notin Agents
      /\ NoCall.server = None /\ NoCall.to = None /\ Effect
  BY TokensAssumption, DelegationAssumption, NextEffect DEF NoCall
<1> SUFFICES ASSUME NEW c \in Calls
             PROVE  /\ task'[c] # None =>
                         call'[c].to \in Agents /\ call'[c].server \in {"handle", "answer", "over"}
                    /\ task'[c] # None /\ call'[c].server = "over" /\ c \notin history'.failed =>
                         /\ Has(chain'[call'[c].to], "decision", c)
                         /\ rerun'[call'[c].to] # c => task'[c] = "COMPLETED"
                    /\ call'[c].server = "answer" /\ call'[c].to \in Agents => task'[c] = "COMPLETED"
  BY DEF TaskInv, Has, IsTask
<1>1. TaskMoves(c) /\ Moves(c) /\ history.failed \subseteq history'.failed
  BY TaskEffect, <1>0 DEF Effect
<1>2. CASE call[c].client = "new"
  <2>1. task[c] = None /\ ~IsTask(c) /\ call[c].server = None
    BY <1>0, <1>2 DEF CallInv, TaskInv, IsTask
  <2>2. task'[c] = None
    BY <1>0, <1>1, <2>1 DEF TaskMoves
  <2>3. call'[c].server # "answer"
    BY <1>0, <1>1, <2>1 DEF Moves, Made, GaveUp, Ended, Accepted, Decided, Dropped, Answered, Handling
  <2> QED BY <2>2, <2>3
<1>3. CASE call[c].client # "new"
  <2>1. /\ SameRoute(c) /\ (IsTask(c) <=> call'[c].to \in Agents)
        /\ call[c].server = "over" => call'[c].server = "over"
        /\ call[c].server = "answer" => call'[c].server \in {"answer", "over"}
        /\ call[c].server = "handle" => call'[c].server \in {"handle", "answer", "over"}
    BY <1>3, Onward DEF SameRoute, IsTask
  <2>2. task'[c] # None => IsTask(c) /\ call'[c].server \in {"handle", "answer", "over"}
    BY <1>1, <2>1 DEF TaskMoves, TaskInv
  <2>3. ASSUME task'[c] # None, call'[c].server = "over", c \notin history'.failed
        PROVE  /\ Has(chain'[call'[c].to], "decision", c)
               /\ rerun'[call'[c].to] # c => task'[c] = "COMPLETED"
    <3>1. IsTask(c) /\ call[c].server # "handle" /\ call[c].server # "queued" /\ task[c] # None
      <4>1. call[c].server = "handle" => FALSE
        BY ONLY <1>1, <2>2, <2>3 DEF TaskMoves
      <4>2. task[c] # None
        BY ONLY <1>1, <2>3, <4>1 DEF TaskMoves
      <4>3. call[c].server \in {"handle", "answer", "over"}
        BY <4>2 DEF TaskInv
      <4> QED BY <2>2, <2>3, <4>1, <4>2, <4>3
    <3>2. call[c].server \in {"answer", "over"} /\ c \notin history.failed
      BY <1>1, <2>3, <3>1 DEF TaskInv
    <3>3. Has(chain[call[c].to], "decision", c)
      BY <3>1, <3>2 DEF TaskInv, LoggedInv
    <3>4. Has(chain'[call'[c].to], "decision", c)
      <4>1. call[c].to \in Agents /\ call'[c].to = call[c].to
        BY <2>1, <3>1 DEF SameRoute, IsTask
      <4>2. Has(chain'[call[c].to], "decision", c)
        BY <3>3, <4>1, HasKept
      <4> QED BY ONLY <4>1, <4>2
    <3>5. rerun[call[c].to] # c => task[c] = "COMPLETED"
      BY <3>1, <3>2 DEF TaskInv
    <3>6. rerun'[call[c].to] # c => task'[c] = "COMPLETED"
      BY ONLY <1>1, <2>3, <3>1, <3>5, Zenon DEF TaskMoves
    <3> QED BY <2>1, <3>4, <3>6 DEF SameRoute
  <2>4. ASSUME call'[c].server = "answer", IsTask(c)
        PROVE  task'[c] = "COMPLETED"
    <3>1. call[c].server \in {"handle", "answer"}
      BY <1>1, <1>0, <1>3, <2>4 DEF Moves, Made, GaveUp, Ended, Accepted, Decided, Dropped, Answered, Handling
    <3>2. CASE call[c].server = "answer"
      <4>1. ~Free(call[c].to) /\ task[c] = "COMPLETED"
        BY <2>4, <3>2 DEF Free, InServer, TaskInv
      <4> QED BY <1>1, <3>2, <4>1 DEF TaskMoves
    <3>3. CASE call[c].server = "handle"
      BY ONLY <1>1, <2>4, <3>3, Zenon DEF TaskMoves
    <3> QED BY <3>1, <3>2, <3>3
  <2> QED BY <2>1, <2>2, <2>3, <2>4
<1> QED BY <1>2, <1>3

(* No one else has a record to make of a call that its server, or its      *)
(* client, is only now making one of.                                      *)
LEMMA AppendedIsNew ==
  ASSUME Typed, EntryInv, NEW a \in Agents, NEW what \in {"receive", "decision", "delegation", "tool"},
         NEW status \in {"SUCCESS", "ERROR"}, NEW c \in Calls, Appended(a, what, c, status),
         NEW i \in 1 .. Len(chain[a]), chain[a][i].call = c
  PROVE  chain[a][i].what # what /\ ~(chain[a][i].what \in Own /\ what \in Own)
<1>1. /\ chain[a][i].what = "receive" => call[c].server # "queued"
      /\ chain[a][i].what = "decision" => call[c].server # "handle"
      /\ chain[a][i].what \in Own => call[c].client # "waiting"
  BY DEF EntryInv, ReceiptTrue, DecisionTrue, OwnTrue
<1>2. /\ what = "receive" => call[c].server = "queued"
      /\ what = "decision" => call[c].server = "handle"
      /\ what \in Own => call[c].client = "waiting"
  BY DEF Appended, Accepted, Decided, Ended, Handling, Own
<1> QED BY <1>1, <1>2 DEF Own

(* No call is recorded twice in one role. *)
LEMMA OnceNext ==
  ASSUME Typed, CallInv, QueueInv, EntryInv, Once, Next
  PROVE  Once'
<1>1. CASE chain' = chain
  BY <1>1 DEF Once
<1>2. ASSUME NEW a \in Agents, NEW what \in {"receive", "decision", "delegation", "tool"},
             NEW status \in {"SUCCESS", "ERROR"}, NEW c \in Calls, Appended(a, what, c, status)
      PROVE  Once'
  <2>0. PICK n \in Nat : n = Len(chain[a])
    BY <1>2, AppendedChain
  <2>00. /\ Len(chain'[a]) = n + 1
         /\ chain'[a][n + 1] = [what |-> what, call |-> c, status |-> status]
         /\ \A i \in 1 .. n : chain'[a][i] = chain[a][i]
         /\ \A b \in Agents \ {a} : chain'[b] = chain[b]
    BY <1>2, <2>0, AppendedChain
  <2>1. /\ Len(chain'[a]) = n + 1
        /\ chain'[a][n + 1].call = c /\ chain'[a][n + 1].what = what
        /\ \A i \in 1 .. n : chain'[a][i] = chain[a][i]
        /\ \A b \in Agents \ {a} : chain'[b] = chain[b]
    BY ONLY <2>00
  <2>2. \A i \in 1 .. n : chain[a][i].call = c =>
          chain[a][i].what # what /\ ~(chain[a][i].what \in Own /\ what \in Own)
    BY <1>2, <2>0, AppendedIsNew
  <2>3. ASSUME NEW i \in 1 .. n + 1, NEW j \in 1 .. n + 1, chain'[a][i].call = chain'[a][j].call,
               \/ chain'[a][i].what = chain'[a][j].what
               \/ {chain'[a][i].what, chain'[a][j].what} \subseteq Own
        PROVE  i = j
    <3>1. CASE i \in 1 .. n /\ j \in 1 .. n
      <4>1. chain'[a][i] = chain[a][i] /\ chain'[a][j] = chain[a][j]
        BY <2>1, <3>1
      <4> QED BY <2>0, <2>3, <3>1, <4>1 DEF Once
    <3>2. CASE i \in 1 .. n /\ j = n + 1
      BY <2>1, <2>2, <2>3, <3>2
    <3>3. CASE i = n + 1 /\ j \in 1 .. n
      BY <2>1, <2>2, <2>3, <3>3
    <3> QED BY <2>1, <3>1, <3>2, <3>3
  <2>4. ASSUME NEW b \in Agents, NEW i \in 1 .. Len(chain'[b]), NEW j \in 1 .. Len(chain'[b]),
               chain'[b][i].call = chain'[b][j].call,
               \/ chain'[b][i].what = chain'[b][j].what
               \/ {chain'[b][i].what, chain'[b][j].what} \subseteq Own
        PROVE  i = j
    <3>1. CASE b = a
      BY <2>1, <2>3, <2>4, <3>1
    <3>2. CASE b # a
      BY <2>1, <2>4, <3>2 DEF Once
    <3> QED BY <3>1, <3>2
  <2> QED BY <2>4 DEF Once
<1> QED BY <1>1, <1>2, ChainEffect

(* What a record says of a call stays true of it. *)
LEMMA EntryKept ==
  ASSUME Typed, CallInv, QueueInv, EntryInv, Next, NEW a \in Agents, NEW i \in 1 .. Len(chain[a])
  PROVE  LET c == chain[a][i].call
         IN  /\ c \in Calls
             /\ chain[a][i].what = "receive" =>
                  call'[c].to = a /\ call'[c].server \in {"handle", "answer", "over"}
             /\ chain[a][i].what = "decision" =>
                  /\ call'[c].to = a /\ call'[c].server \in {"answer", "over"} /\ call'[c].seq = i
                  /\ call'[c].server = "over" => call'[c].answer = "ok" \/ c \in history'.slow
             /\ chain[a][i].what \in Own =>
                  /\ call'[c].from = a /\ call'[c].client = "returned"
                  /\ (chain[a][i].status = "SUCCESS") <=> (call'[c].answer = "ok")
                  /\ chain[a][i].what = "delegation" =>
                       call'[c].to \in Agents /\ call'[c].answer = "ok"
                  /\ call'[c].by = call[c].by
<1>0. /\ None \notin {"queued", "handle", "answer", "over"} /\ None \notin Agents
      /\ NoCall.to = None /\ NoCall.from = None /\ Effect
  BY TokensAssumption, DelegationAssumption, NextEffect DEF NoCall
<1> DEFINE c == chain[a][i].call
<1>1. c \in Calls
  <2>1. chain[a] \in Seq(Entry)
    BY DEF Typed
  <2>2. chain[a][i] \in Entry
    BY <2>1, ElementOfSeq
  <2> QED BY <2>2 DEF Entry
<1>2. ReceiptTrue(a, i) /\ DecisionTrue(a, i) /\ OwnTrue(a, i)
  BY DEF EntryInv
<1>3. history.slow \subseteq history'.slow /\ Moves(c)
  BY <1>0, <1>1 DEF Effect
<1> HIDE DEF c
<1>4. CASE chain[a][i].what = "receive"
  <2>1. call[c].to = a /\ call[c].server \in {"handle", "answer", "over"}
    BY <1>2, <1>4 DEF ReceiptTrue, c
  <2>2. call[c].client # "new"
    BY <1>0, <1>1, <2>1 DEF CallInv
  <2>3. call'[c].to = a /\ call'[c].server \in {"handle", "answer", "over"}
    BY <1>1, <2>1, <2>2, Onward DEF SameRoute
  <2> QED BY <1>1, <1>4, <2>3 DEF c, Own
<1>5. CASE chain[a][i].what = "decision"
  <2>1. /\ call[c].to = a /\ call[c].server \in {"answer", "over"} /\ call[c].seq = i
        /\ call[c].server = "over" => call[c].answer = "ok" \/ c \in history.slow
    BY <1>2, <1>5 DEF DecisionTrue, c
  <2>2. call[c].client # "new"
    BY <1>0, <1>1, <2>1 DEF CallInv
  <2>3. /\ call'[c].to = a /\ call'[c].server \in {"answer", "over"} /\ call'[c].seq = i
        /\ call[c].answer # None => call'[c].answer = call[c].answer
    BY <1>1, <2>1, <2>2, Onward DEF SameRoute
  <2>4. call'[c].server = "over" => call'[c].answer = "ok" \/ c \in history'.slow
    <3>1. CASE call[c].server = "over"
      BY <1>3, <2>1, <2>3, <3>1, TokensAssumption
    <3>2. CASE call[c].server = "answer" /\ call'[c].server = "over"
      <4>1. Answered(c)
        BY <1>0, <1>3, <2>2, <3>2
           DEF Moves, Made, GaveUp, Ended, Accepted, Decided, Dropped, Handling
      <4>2. call[c].answer # None => c \in history.slow
        BY <1>1, <3>2 DEF CallInv
      <4> QED BY <1>3, <4>1, <4>2 DEF Answered, Delivered
    <3> QED BY <2>1, <3>1, <3>2
  <2> QED BY <1>1, <1>5, <2>3, <2>4 DEF c, Own
<1>6. CASE chain[a][i].what \in Own
  <2>1. /\ call[c].from = a /\ call[c].client = "returned"
        /\ (chain[a][i].status = "SUCCESS") <=> (call[c].answer = "ok")
        /\ chain[a][i].what = "delegation" => IsTask(c) /\ call[c].answer = "ok"
    BY <1>2, <1>6 DEF OwnTrue, c
  <2>2. call[c].answer # None
    BY <1>1, <2>1 DEF CallInv
  <2>3. /\ SameRoute(c) /\ call'[c].answer = call[c].answer /\ call'[c].client = "returned"
    BY <1>1, <2>1, <2>2, Onward
  <2>4. /\ call'[c].from = a /\ call'[c].by = call[c].by /\ call'[c].to = call[c].to
    BY <2>1, <2>3 DEF SameRoute
  <2>5. chain[a][i].what # "receive" /\ chain[a][i].what # "decision"
    BY <1>6 DEF Own
  <2> QED BY <1>1, <2>1, <2>3, <2>4, <2>5 DEF c, IsTask
<1>7. CASE chain[a][i].what \notin Own /\ chain[a][i].what # "receive" /\ chain[a][i].what # "decision"
  BY <1>1, <1>7 DEF c
<1> QED BY <1>4, <1>5, <1>6, <1>7

(* What every record says of the call it is about. *)
LEMMA EntryInvNext ==
  ASSUME Typed, CallInv, QueueInv, EntryInv, LoggedInv, Next
  PROVE  EntryInv'
<1>0. /\ None \notin Agents /\ NoCall.to = None /\ NoCall.from = None
      /\ call \in [Calls -> CallRecord]
  BY DelegationAssumption DEF NoCall, Typed
(* A record of before. *)
<1>1. ASSUME NEW a \in Agents, NEW i \in 1 .. Len(chain[a]),
             \A k \in 1 .. Len(chain[a]) : chain'[a][k] = chain[a][k],
             Len(chain'[a]) \in Nat,
             \A k \in 1 .. Len(chain'[a]) : k \in 1 .. Len(chain[a]) \/ i < k
      PROVE  (ReceiptTrue(a, i) /\ DecisionTrue(a, i) /\ OwnTrue(a, i) /\ Inside(a, i))'
  <2> DEFINE c == chain[a][i].call
             p == call[c].by
  <2>1. chain'[a][i] = chain[a][i] /\ c \in Calls
    BY <1>1, EntryKept
  <2>2. DecisionTrue(a, i) /\ Inside(a, i) /\ OwnTrue(a, i)
    BY DEF EntryInv
  <2>3. (ReceiptTrue(a, i))'
    BY <2>1, EntryKept DEF ReceiptTrue
  <2>4. (OwnTrue(a, i))'
    BY <2>1, EntryKept DEF OwnTrue, IsTask
  <2>5. (DecisionTrue(a, i))'
    <3>1. ASSUME chain[a][i].what = "decision"
          PROVE  LastReceived(chain'[a], i - 1, c)
      <4>1. LastReceived(chain[a], i - 1, c)
        BY <2>2, <3>1 DEF DecisionTrue
      <4>2. \A k \in 1 .. i - 1 : chain'[a][k] = chain[a][k]
        BY <1>1
      <4> QED BY <4>1, <4>2 DEF LastReceived
    <3> QED BY <2>1, <3>1, EntryKept DEF DecisionTrue
  <2>6. (Inside(a, i))'
    <3> SUFFICES ASSUME chain[a][i].what \in Own, p # None, call'[p].to \in Agents
                 PROVE  /\ \E j \in 1 .. i - 1 : chain'[a][j].what = "receive" /\ chain'[a][j].call = p
                        /\ \A j \in 1 .. Len(chain'[a]) :
                             chain'[a][j].what = "decision" /\ chain'[a][j].call = p => i < j
      <4>1. chain[a][i].what \in Own => call'[c].by = p
        BY <2>1, EntryKept
      <4> QED BY <2>1, <4>1 DEF Inside, IsTask
    <3>1. IsTask(p)
      <4>1. call[c].client = "returned" /\ call[c].from \in Agents /\ p \in Calls
        BY <1>0, <2>1, <2>2 DEF OwnTrue, CallRecord
      <4>2. call[p].to = call[c].from
        BY <2>1, <4>1 DEF CallInv
      <4> QED BY <4>1, <4>2 DEF IsTask
    <3>2. /\ \E j \in 1 .. i - 1 : chain[a][j].what = "receive" /\ chain[a][j].call = p
          /\ \A j \in 1 .. Len(chain[a]) :
               chain[a][j].what = "decision" /\ chain[a][j].call = p => i < j
      BY <2>2, <3>1 DEF Inside
    <3>3. \A j \in 1 .. i - 1 : chain'[a][j] = chain[a][j]
      BY <1>1
    <3> QED BY <1>1, <3>2, <3>3
  <2> QED BY <2>3, <2>4, <2>5, <2>6
<1>2. CASE chain' = chain
  <2>1. ASSUME NEW a \in Agents, NEW i \in 1 .. Len(chain'[a])
        PROVE  (ReceiptTrue(a, i) /\ DecisionTrue(a, i) /\ OwnTrue(a, i) /\ Inside(a, i))'
    <3>1. chain[a] \in Seq(Entry) /\ Len(chain[a]) \in Nat
      BY DEF Typed
    <3>2. chain'[a] = chain[a]
      BY <1>2
    <3> QED BY ONLY <1>1, <2>1, <3>1, <3>2
  <2> QED BY <2>1 DEF EntryInv
(* The record that was appended. *)
<1>3. ASSUME NEW a \in Agents, NEW what \in {"receive", "decision", "delegation", "tool"},
             NEW status \in {"SUCCESS", "ERROR"}, NEW c \in Calls, Appended(a, what, c, status)
      PROVE  EntryInv'
  <2>0. PICK n \in Nat : n = Len(chain[a])
    BY <1>3, AppendedChain
  <2>1. /\ n \in Nat /\ Len(chain'[a]) = n + 1
        /\ chain'[a][n + 1] = [what |-> what, call |-> c, status |-> status]
        /\ \A i \in 1 .. n : chain'[a][i] = chain[a][i]
        /\ \A b \in Agents \ {a} : chain'[b] = chain[b]
        /\ \A b \in Agents : Len(chain[b]) \in Nat
    BY <1>3, <2>0, AppendedChain
  <2>2. /\ chain'[a][n + 1].what = what /\ chain'[a][n + 1].call = c
        /\ chain'[a][n + 1].status = status
    BY <2>1
  <2>3. (ReceiptTrue(a, n + 1))'
    BY <1>3, <2>2 DEF Appended, ReceiptTrue, Accepted, SameRoute, Own
  <2>4. (DecisionTrue(a, n + 1))'
    <3> SUFFICES ASSUME what = "decision"
                 PROVE  /\ call'[c].to = a /\ call'[c].server \in {"answer", "over"}
                        /\ call'[c].seq = n + 1
                        /\ call'[c].server = "over" => call'[c].answer = "ok" \/ c \in history'.slow
                        /\ LastReceived(chain'[a], n + 1 - 1, c)
      BY <2>2 DEF DecisionTrue
    <3>1. Decided(c) /\ a = call[c].to /\ IsTask(c)
      BY <1>3 DEF Appended, Own, IsTask
    <3>2. LastReceived(chain[a], n, c)
      BY <2>0, <3>1 DEF Decided, Handling, InServer, LoggedInv
    <3>3. LastReceived(chain'[a], n, c) /\ n + 1 - 1 = n
      BY <2>1, <3>2 DEF LastReceived
    <3> QED BY <2>0, <3>1, <3>3 DEF Decided, SameRoute
  <2>5. ASSUME what \in Own
        PROVE  /\ Ended(c) /\ a = call[c].from /\ call'[c].client = "returned"
               /\ call[c].client = "waiting" /\ SameRoute(c) /\ call'[c].answer = call[c].answer
               /\ what = "delegation" => IsTask(c) /\ call[c].answer = "ok"
               /\ (status = "SUCCESS") <=> (call[c].answer = "ok")
    <3>1. Ended(c) /\ a = call[c].from /\ call'[c].client = "returned"
      BY <1>3, <2>5 DEF Appended, Own
    <3>2. /\ IsTask(c) => call[c].answer = "ok"
          /\ Logs(a, IF IsTask(c) THEN "delegation" ELSE "tool", c,
                  IF call[c].answer = "ok" THEN "SUCCESS" ELSE "ERROR")
      BY <3>1 DEF Ended
    <3>3. chain'[a][n + 1] = [what |-> IF IsTask(c) THEN "delegation" ELSE "tool", call |-> c,
                              status |-> IF call[c].answer = "ok" THEN "SUCCESS" ELSE "ERROR"]
      <4> DEFINE e == [what |-> IF IsTask(c) THEN "delegation" ELSE "tool", call |-> c,
                       status |-> IF call[c].answer = "ok" THEN "SUCCESS" ELSE "ERROR"]
      <4>1. e \in Entry
        BY DEF Entry
      <4>2. chain' = [chain EXCEPT ![a] = Append(chain[a], e)] /\ chain \in [Agents -> Seq(Entry)]
        BY <3>2 DEF Logs, Typed
      <4> HIDE DEF e
      <4>3. chain'[a] = Append(chain[a], e) /\ chain[a] \in Seq(Entry)
        BY <4>2
      <4>4. chain'[a][n + 1] = e
        BY <2>0, <4>1, <4>3, AppendProperties
      <4> QED BY <4>4 DEF e
    <3>4. /\ what = IF IsTask(c) THEN "delegation" ELSE "tool"
          /\ status = IF call[c].answer = "ok" THEN "SUCCESS" ELSE "ERROR"
      BY <2>2, <3>3
    <3> QED BY <3>1, <3>2, <3>4 DEF Ended
  <2>6. (OwnTrue(a, n + 1))'
    BY <2>2, <2>5 DEF OwnTrue, SameRoute, IsTask
  <2>7. (Inside(a, n + 1))'
    <3> DEFINE p == call[c].by
    <3> SUFFICES ASSUME what \in Own, p # None
                 PROVE  /\ \E j \in 1 .. n + 1 - 1 : chain'[a][j].what = "receive" /\ chain'[a][j].call = p
                        /\ \A j \in 1 .. n + 1 :
                             chain'[a][j].what = "decision" /\ chain'[a][j].call = p => n + 1 < j
      BY <2>1, <2>2, <2>5 DEF Inside, SameRoute
    <3>1. p \in Calls /\ call[p].server = "handle" /\ call[p].to = a /\ IsTask(p)
      BY <1>0, <2>5 DEF CallRecord, CallInv, IsTask
    <3>2. LastReceived(chain[a], n, p)
      BY <2>0, <3>1 DEF LoggedInv, InServer
    <3>3. \E j \in 1 .. n : chain'[a][j].what = "receive" /\ chain'[a][j].call = p
      BY <2>1, <3>2 DEF LastReceived
    <3>4. \A j \in 1 .. n : ~(chain[a][j].what = "decision" /\ chain[a][j].call = p)
      BY <2>0, <3>1 DEF EntryInv, DecisionTrue
    <3>5. what # "decision"
      BY DEF Own
    <3>6. n + 1 - 1 = n /\ \A j \in 1 .. n + 1 : j \in 1 .. n \/ j = n + 1
      BY <2>1
    <3>7. \A j \in 1 .. n + 1 : ~(chain'[a][j].what = "decision" /\ chain'[a][j].call = p)
      BY ONLY <2>1, <2>2, <3>4, <3>5, <3>6
    <3> QED BY ONLY <3>3, <3>6, <3>7
  <2>8. ASSUME NEW b \in Agents, NEW i \in 1 .. Len(chain'[b])
        PROVE  (ReceiptTrue(b, i) /\ DecisionTrue(b, i) /\ OwnTrue(b, i) /\ Inside(b, i))'
    <3>1. CASE b # a
      BY ONLY <1>1, <2>1, <2>8, <3>1
    <3>2. CASE b = a /\ i \in 1 .. n
      <4>1. /\ Len(chain'[a]) \in Nat /\ i \in 1 .. Len(chain[a])
            /\ \A k \in 1 .. Len(chain[a]) : chain'[a][k] = chain[a][k]
            /\ \A k \in 1 .. Len(chain'[a]) : k \in 1 .. Len(chain[a]) \/ i < k
        BY ONLY <2>0, <2>1, <3>2
      <4> QED BY ONLY <1>1, <3>2, <4>1
    <3>3. CASE b = a /\ i = n + 1
      BY ONLY <2>3, <2>4, <2>6, <2>7, <3>3
    <3> QED BY <2>1, <2>8, <3>1, <3>2, <3>3
  <2> QED BY <2>8 DEF EntryInv
<1> QED BY <1>2, <1>3, ChainEffect

(* What has been recorded of every call by now. *)
LEMMA LoggedInvNext ==
  ASSUME Typed, CallInv, QueueInv, LoggedInv, Next
  PROVE  LoggedInv'
<1>0. /\ None \notin {"ok", "error", "broken", "queued", "handle", "answer", "over"} /\ None \notin Agents
      /\ NoCall.server = None /\ NoCall.to = None /\ NoCall.seq = 0 /\ NoCall.answer = None
      /\ chain \in [Agents -> Seq(Entry)] /\ call \in [Calls -> CallRecord]
      /\ Effect
  BY TokensAssumption, DelegationAssumption, NextEffect DEF NoCall, Typed
<1>1. ASSUME NEW c \in Calls
      PROVE  /\ call'[c].to \in Agents /\ call'[c].server \in InServer =>
                  LastReceived(chain'[call'[c].to], Len(chain'[call'[c].to]), c)
             /\ call'[c].to \in Agents /\ (call'[c].server = "answer" \/ call'[c].answer = "ok") =>
                  Has(chain'[call'[c].to], "decision", c)
             /\ call'[c].client = "returned" =>
                  \E i \in 1 .. Len(chain'[call'[c].from]) :
                    chain'[call'[c].from][i].call = c /\ chain'[call'[c].from][i].what \in Own
             /\ call'[c].seq # 0 => call'[c].to \in Agents /\ call'[c].seq <= Len(chain'[call'[c].to])
  <2>0. Moves(c)
    BY <1>0 DEF Effect
  <2>1. CASE call[c].client = "new"
    <3>1. call[c].server = None /\ call[c].answer = None /\ call[c].seq = 0
      BY <1>0, <2>1 DEF CallInv
    <3>2. /\ call'[c].server \notin InServer /\ call'[c].answer # "ok"
          /\ call'[c].client # "returned" /\ call'[c].seq = 0
      BY <1>0, <2>0, <2>1, <3>1
         DEF Moves, Made, GaveUp, Ended, Accepted, Decided, Dropped, Answered, Handling, InServer
    <3> QED BY ONLY <3>2 DEF InServer
  <2>2. CASE call[c].client # "new"
    <3>1. SameRoute(c)
      BY <2>2, Onward
    <3>2. ASSUME IsTask(c), call'[c].server \in InServer
          PROVE  LastReceived(chain'[call[c].to], Len(chain'[call[c].to]), c)
      <4>1. CASE Accepted(c)
        <5>1. PICK b \in Agents : b = call[c].to
          BY <3>2 DEF IsTask
        <5>2. Appended(b, "receive", c, "SUCCESS")
          BY <3>2, <4>1, <5>1 DEF Accepted, Appended
        <5>3. /\ Len(chain[b]) \in Nat /\ Len(chain'[b]) = Len(chain[b]) + 1
              /\ chain'[b][Len(chain[b]) + 1] = [what |-> "receive", call |-> c, status |-> "SUCCESS"]
          BY <5>2, AppendedChain
        <5>4. /\ chain'[b][Len(chain'[b])].what = "receive" /\ chain'[b][Len(chain'[b])].call = c
              /\ Len(chain'[b]) \in 1 .. Len(chain'[b])
              /\ \A k \in 1 .. Len(chain'[b]) : k <= Len(chain'[b])
          BY ONLY <5>3
        <5> QED BY ONLY <5>1, <5>4 DEF LastReceived
      <4>2. CASE ~Accepted(c)
        <5>1. call[c].server \in InServer
          BY <1>0, <2>0, <2>2, <3>2, <4>2
             DEF Moves, Made, GaveUp, Ended, Decided, Dropped, Answered, Handling, InServer
        <5>2. PICK b \in Agents : b = call[c].to
          BY <3>2 DEF IsTask
        <5>3. LastReceived(chain[b], Len(chain[b]), c) /\ ~Free(b)
          BY <3>2, <5>1, <5>2 DEF LoggedInv, Free
        <5>4. ASSUME NEW a \in Agents, NEW what \in {"receive", "decision", "delegation", "tool"},
                     NEW status \in {"SUCCESS", "ERROR"}, NEW d \in Calls, Appended(a, what, d, status)
              PROVE  LastReceived(chain'[b], Len(chain'[b]), c)
          <6>1. /\ Len(chain[a]) \in Nat /\ Len(chain'[a]) = Len(chain[a]) + 1
                /\ chain'[a][Len(chain[a]) + 1] = [what |-> what, call |-> d, status |-> status]
                /\ \A i \in 1 .. Len(chain[a]) : chain'[a][i] = chain[a][i]
                /\ \A s \in Agents \ {a} : chain'[s] = chain[s]
            BY <5>4, AppendedChain
          <6>2. a = b => what # "receive"
            BY <5>3, <5>4 DEF Appended, Accepted, Own
          <6>3. CASE a # b
            BY <5>3, <6>1, <6>3
          <6>4. CASE a = b
            <7>1. chain'[b][Len(chain[b]) + 1].what # "receive"
              BY <6>1, <6>2, <6>4
            <7>2. \A k \in 1 .. Len(chain'[b]) : k \in 1 .. Len(chain[b]) \/ k = Len(chain[b]) + 1
              BY <6>1, <6>4
            <7>3. PICK j \in 1 .. Len(chain[b]) :
                    /\ chain[b][j].what = "receive" /\ chain[b][j].call = c
                    /\ \A k \in 1 .. Len(chain[b]) : chain[b][k].what = "receive" => k <= j
              BY <5>3 DEF LastReceived
            <7>4. j \in 1 .. Len(chain'[b]) /\ chain'[b][j] = chain[b][j]
              BY <6>1, <6>4, <7>3
            <7>5. \A k \in 1 .. Len(chain'[b]) : chain'[b][k].what = "receive" => k <= j
              BY ONLY <6>1, <6>4, <7>1, <7>2, <7>3
            <7> QED BY ONLY <7>3, <7>4, <7>5 DEF LastReceived
          <6> QED BY <6>3, <6>4
        <5>5. LastReceived(chain'[b], Len(chain'[b]), c)
          BY <5>3, <5>4, ChainEffect
        <5> QED BY <5>2, <5>5
      <4> QED BY <4>1, <4>2
    <3>3. ASSUME IsTask(c), call'[c].server = "answer" \/ call'[c].answer = "ok"
          PROVE  Has(chain'[call[c].to], "decision", c)
      <4>1. CASE call[c].server = "answer" \/ call[c].answer = "ok"
        <5>1. call[c].to \in Agents /\ Has(chain[call[c].to], "decision", c)
          BY <3>3, <4>1 DEF LoggedInv, IsTask
        <5> QED BY <5>1, HasKept
      <4>2. CASE ~(call[c].server = "answer" \/ call[c].answer = "ok")
        <5>1. Decided(c)
          BY <1>0, <2>0, <2>2, <3>3, <4>2
             DEF Moves, Made, GaveUp, Ended, Accepted, Dropped, Answered, Delivered
        <5>2. PICK b \in Agents : b = call[c].to
          BY <3>3 DEF IsTask
        <5>3. Appended(b, "decision", c, "SUCCESS")
          BY <3>3, <5>1, <5>2 DEF Decided, Appended
        <5>4. /\ Len(chain[b]) \in Nat /\ Len(chain'[b]) = Len(chain[b]) + 1
              /\ chain'[b][Len(chain[b]) + 1] = [what |-> "decision", call |-> c, status |-> "SUCCESS"]
          BY <5>3, AppendedChain
        <5>5. /\ chain'[b][Len(chain'[b])].what = "decision" /\ chain'[b][Len(chain'[b])].call = c
              /\ Len(chain'[b]) \in 1 .. Len(chain'[b])
          BY ONLY <5>4
        <5> QED BY ONLY <5>2, <5>5 DEF Has
      <4> QED BY <4>1, <4>2
    <3>4. ASSUME call'[c].client = "returned"
          PROVE  \E i \in 1 .. Len(chain'[call[c].from]) :
                   chain'[call[c].from][i].call = c /\ chain'[call[c].from][i].what \in Own
      <4>1. CASE call[c].client = "returned"
        <5>1. PICK i \in 1 .. Len(chain[call[c].from]) :
                chain[call[c].from][i].call = c /\ chain[call[c].from][i].what \in Own
          BY <4>1 DEF LoggedInv
        <5>2. call[c].from \in Agents
          BY <2>2 DEF CallInv
        <5>3. Has(chain[call[c].from], chain[call[c].from][i].what, c)
          BY <5>1 DEF Has
        <5>4. Has(chain'[call[c].from], chain[call[c].from][i].what, c)
          BY <5>2, <5>3, HasKept
        <5> QED BY <5>1, <5>4 DEF Has
      <4>2. CASE call[c].client # "returned"
        <5>1. Ended(c)
          BY <2>0, <2>2, <3>4, <4>2 DEF Moves, Made, GaveUp, Accepted, Decided, Dropped, Answered
        <5>2. PICK a \in Agents : a = call[c].from
          BY <2>2 DEF CallInv
        <5>3. PICK what \in Own, status \in {"SUCCESS", "ERROR"} : Appended(a, what, c, status)
          <6> DEFINE what == IF IsTask(c) THEN "delegation" ELSE "tool"
                     status == IF call[c].answer = "ok" THEN "SUCCESS" ELSE "ERROR"
          <6>1. Logs(a, what, c, status)
            BY <3>4, <5>1, <5>2 DEF Ended
          <6>2. what \in Own /\ status \in {"SUCCESS", "ERROR"}
            BY DEF Own
          <6> HIDE DEF what, status
          <6>3. Appended(a, what, c, status)
            BY <3>4, <5>1, <5>2, <6>1, <6>2 DEF Appended
          <6> QED BY <6>2, <6>3
        <5>4. what \in {"receive", "decision", "delegation", "tool"}
          BY <5>3 DEF Own
        <5>5. /\ Len(chain[a]) \in Nat /\ Len(chain'[a]) = Len(chain[a]) + 1
              /\ chain'[a][Len(chain[a]) + 1] = [what |-> what, call |-> c, status |-> status]
          BY <5>3, <5>4, AppendedChain
        <5>6. /\ chain'[a][Len(chain'[a])].what \in Own /\ chain'[a][Len(chain'[a])].call = c
              /\ Len(chain'[a]) \in 1 .. Len(chain'[a])
          BY ONLY <5>3, <5>5
        <5> QED BY ONLY <5>2, <5>6
      <4> QED BY <4>1, <4>2
    <3>5. ASSUME call'[c].seq # 0
          PROVE  IsTask(c) /\ call'[c].seq <= Len(chain'[call[c].to])
      <4>1. CASE Decided(c) /\ IsTask(c)
        <5>1. PICK b \in Agents : b = call[c].to
          BY <4>1 DEF IsTask
        <5>2. Appended(b, "decision", c, "SUCCESS") /\ call'[c].seq = Len(chain[b]) + 1
          BY <4>1, <5>1 DEF Decided, Appended
        <5>3. Len(chain[b]) \in Nat /\ Len(chain'[b]) = Len(chain[b]) + 1
          BY <5>2, AppendedChain
        <5>4. call'[c].seq <= Len(chain'[b])
          BY ONLY <5>2, <5>3
        <5> QED BY <4>1, <5>1, <5>4
      <4>2. CASE ~(Decided(c) /\ IsTask(c))
        <5>1. call'[c].seq = call[c].seq
          BY <2>0, <2>2, <4>2 DEF Moves, Made, GaveUp, Ended, Accepted, Decided, Dropped, Answered
        <5>2. PICK b \in Agents : b = call[c].to
          BY <3>5, <5>1 DEF LoggedInv, IsTask
        <5>3. call[c].seq <= Len(chain[b]) /\ call[c].seq \in Nat /\ Len(chain[b]) \in Nat
          BY <1>0, <3>5, <5>1, <5>2, LenProperties DEF LoggedInv, CallRecord
        <5>4. ASSUME NEW a \in Agents, NEW what \in {"receive", "decision", "delegation", "tool"},
                     NEW status \in {"SUCCESS", "ERROR"}, NEW d \in Calls, Appended(a, what, d, status)
              PROVE  call[c].seq <= Len(chain'[b])
          <6>1. /\ Len(chain'[a]) = Len(chain[a]) + 1
                /\ \A s \in Agents \ {a} : chain'[s] = chain[s]
            BY <5>4, AppendedChain
          <6> QED BY <5>3, <6>1
        <5>5. call[c].seq <= Len(chain'[b])
          BY <5>3, <5>4, ChainEffect
        <5> QED BY <5>1, <5>2, <5>5 DEF IsTask
      <4> QED BY <4>1, <4>2
    <3> QED BY <3>1, <3>2, <3>3, <3>4, <3>5 DEF SameRoute, IsTask
  <2> QED BY <2>1, <2>2
<1> QED BY <1>1 DEF LoggedInv, IsTask, InServer

(* The invariant holds at first. *)
LEMMA InvInit == Init => IInv
<1> SUFFICES ASSUME Init PROVE IInv
  OBVIOUS
<1>0. /\ None \notin {"ok", "error", "broken", "queued", "handle", "answer", "over"} /\ None \notin Agents
      /\ MaxTroubles \in Nat /\ NoCall \in CallRecord
      /\ NoCall.client = "new" /\ NoCall.server = None /\ NoCall.to = None /\ NoCall.seq = 0
      /\ NoCall.answer = None
  BY TokensAssumption, DelegationAssumption DEF NoCall, CallRecord
<1>1. /\ \A a \in Agents : chain[a] = <<>> /\ Len(chain[a]) = 0
      /\ \A b \in Servers : backlog[b] = <<>> /\ Len(backlog[b]) = 0
      /\ \A c \in Calls : call[c] = NoCall /\ task[c] = None
      /\ \A a \in Agents : rerun[a] = None
  BY DEF Init
<1>2. Typed
  <2>1. <<>> \in Seq(Entry) /\ <<>> \in Seq(Calls)
    OBVIOUS
  <2> QED BY <1>0, <2>1 DEF Init, Typed
<1>3. CallInv
  BY <1>0, <1>1 DEF CallInv
<1>4. QueueInv
  BY <1>1 DEF QueueInv
<1>5. BusyInv
  BY <1>0, <1>1 DEF BusyInv, InServer
<1>6. TaskInv
  BY <1>0, <1>1 DEF TaskInv
<1>7. EntryInv /\ Once
  BY <1>1 DEF EntryInv, Once
<1>8. LoggedInv
  BY <1>0, <1>1 DEF LoggedInv, InServer, IsTask
<1> QED BY <1>2, <1>3, <1>4, <1>5, <1>6, <1>7, <1>8 DEF IInv

(* And every step keeps it. *)
LEMMA InvNext == IInv /\ [Next]_vars => IInv'
<1>1. CASE IInv /\ Next
  BY <1>1, TypedNext, CallInvNext, QueueInvNext, BusyInvNext, TaskInvNext, EntryInvNext, OnceNext,
     LoggedInvNext DEF IInv
<1>2. CASE IInv /\ UNCHANGED vars
  <2> USE <1>2 DEF vars, IInv
  <2>1. Typed'
    BY DEF Typed
  <2>2. CallInv' /\ QueueInv' /\ BusyInv'
    BY DEF CallInv, QueueInv, BusyInv, IsTask
  <2>3. TaskInv' /\ LoggedInv'
    BY DEF TaskInv, LoggedInv, IsTask
  <2>4. EntryInv' /\ Once'
    BY DEF EntryInv, ReceiptTrue, DecisionTrue, OwnTrue, Inside, Once, IsTask
  <2> QED BY <2>1, <2>2, <2>3, <2>4
<1> QED BY <1>1, <1>2

(* So it always holds. *)
LEMMA InvAlways == Spec => []IInv
BY InvInit, InvNext, PTL DEF Spec

-----------------------------------------------------------------------------
(* The theorems.                                                           *)

(* A call is on one chain in three roles at most, which bounds the chains. *)
LEMMA ChainBounded ==
  ASSUME Typed, Once, NEW a \in Agents
  PROVE  Len(chain[a]) \in Nat /\ Len(chain[a]) <= 3 * Cardinality(Calls)
<1> DEFINE n == Len(chain[a])
           role(i) == IF chain[a][i].what = "receive" THEN 1
                      ELSE IF chain[a][i].what = "decision" THEN 2 ELSE 3
           f == [i \in 1 .. n |-> <<role(i), chain[a][i].call>>]
<1>1. chain[a] \in Seq(Entry) /\ n \in Nat
  BY LenProperties DEF Typed
<1>2. \A i \in 1 .. n : chain[a][i] \in Entry
  BY <1>1, ElementOfSeq
<1>3. IsFiniteSet(Calls) /\ IsFiniteSet(1 .. n) /\ Cardinality(1 .. n) = n
      /\ IsFiniteSet(1 .. 3) /\ Cardinality(1 .. 3) = 3
  <2>1. IsFiniteSet(Calls)
    BY FS_Interval, DelegationAssumption DEF Calls
  <2>2. ASSUME NEW k \in Nat
        PROVE  IsFiniteSet(1 .. k) /\ Cardinality(1 .. k) = k
    <3>1. IsFiniteSet(1 .. k) /\ Cardinality(1 .. k) = IF 1 > k THEN 0 ELSE k - 1 + 1
      BY FS_Interval
    <3> QED BY <3>1
  <2>3. n \in Nat /\ 3 \in Nat
    BY <1>1
  <2> HIDE DEF n
  <2> QED BY <2>1, <2>2, <2>3
<1>4. /\ IsFiniteSet((1 .. 3) \X Calls)
      /\ Cardinality((1 .. 3) \X Calls) = 3 * Cardinality(Calls)
  BY <1>3, FS_Product
<1>5. f \in Injection(1 .. n, (1 .. 3) \X Calls)
  <2>1. \A i \in 1 .. n : role(i) \in 1 .. 3 /\ chain[a][i].call \in Calls
    BY <1>2 DEF Entry
  <2>2. \A i \in 1 .. n : f[i] = <<role(i), chain[a][i].call>>
    OBVIOUS
  <2>3. \A i \in 1 .. n : <<role(i), chain[a][i].call>> \in (1 .. 3) \X Calls
    BY <2>1
  <2>4. f \in [1 .. n -> (1 .. 3) \X Calls]
    BY <2>3
  <2>5. ASSUME NEW i \in 1 .. n, NEW j \in 1 .. n, f[i] = f[j]
        PROVE  i = j
    <3>1. role(i) = role(j) /\ chain[a][i].call = chain[a][j].call
      BY <2>2, <2>5
    <3>2. \/ chain[a][i].what = chain[a][j].what
          \/ chain[a][i].what \in Own /\ chain[a][j].what \in Own
      BY <1>2, <3>1 DEF Entry, Own
    <3> QED BY <3>1, <3>2 DEF Once
  <2> QED BY <2>4, <2>5, Zenon DEF Injection, IsInjective
<1>6. n <= 3 * Cardinality(Calls)
  BY <1>3, <1>4, <1>5, FS_Injection
<1> QED BY <1>1, <1>6

(* The types, with the bound on sequence numbers. *)
LEMMA TypesImplied == IInv => TypeOK
<1> SUFFICES ASSUME IInv PROVE TypeOK
  OBVIOUS
<1>1. ASSUME NEW a \in Agents, NEW i \in 1 .. Len(chain[a])
      PROVE  chain[a][i] \in Entry
  <2>1. chain[a] \in Seq(Entry)
    BY DEF IInv, Typed
  <2> QED BY <2>1, ElementOfSeq
<1>2. ASSUME NEW b \in Servers, NEW i \in 1 .. Len(backlog[b])
      PROVE  backlog[b][i] \in Calls
  <2>1. backlog[b] \in Seq(Calls)
    BY DEF IInv, Typed
  <2> QED BY <2>1, ElementOfSeq
<1>3. Cardinality(Calls) \in Nat
  BY FS_Interval, FS_CardinalityType, DelegationAssumption DEF Calls
<1>4. ASSUME NEW c \in Calls
      PROVE  call[c].seq \in 0 .. 3 * Cardinality(Calls)
  <2>1. call[c].seq \in Nat
    BY DEF IInv, Typed, CallRecord
  <2>2. CASE call[c].seq # 0
    <3>1. call[c].to \in Agents /\ call[c].seq <= Len(chain[call[c].to])
      BY <2>2 DEF IInv, LoggedInv, IsTask
    <3>2. Len(chain[call[c].to]) \in Nat /\ Len(chain[call[c].to]) <= 3 * Cardinality(Calls)
      BY <3>1, ChainBounded DEF IInv
    <3> QED BY <1>3, <2>1, <3>1, <3>2
  <2> QED BY <1>3, <2>1, <2>2
<1>5. call \in [Calls -> [from : Agents \union {None}, by : Calls \union {None},
                         to : Servers \union {None},
                         client : {"new", "waiting", "returned", "raised"},
                         server : InServer \union {None, "queued", "over"},
                         answer : {None, "ok", "error", "broken"},
                         seq : 0 .. 3 * Cardinality(Calls)]]
  <2>1. call \in [Calls -> CallRecord]
    BY DEF IInv, Typed
  <2> HIDE DEF IInv
  <2>2. ASSUME NEW c \in Calls
        PROVE  call[c] \in [from : Agents \union {None}, by : Calls \union {None},
                            to : Servers \union {None},
                            client : {"new", "waiting", "returned", "raised"},
                            server : InServer \union {None, "queued", "over"},
                            answer : {None, "ok", "error", "broken"},
                            seq : 0 .. 3 * Cardinality(Calls)]
    <3>1. call[c] \in CallRecord
      BY <2>1
    <3> QED BY ONLY <1>4, <3>1 DEF CallRecord
  <2> QED BY ONLY <2>1, <2>2
<1> QED BY <1>1, <1>2, <1>5 DEF IInv, Typed, TypeOK, Entry

(* Each delegation names the decision it caused. *)
LEMMA LinkImplied == IInv => DelegationLinked /\ DecisionsDelivered
<1> SUFFICES ASSUME IInv PROVE DelegationLinked /\ DecisionsDelivered
  OBVIOUS
<1>1. ASSUME NEW a \in Agents, NEW i \in 1 .. Len(chain[a])
      PROVE  /\ chain[a][i].call \in Calls
             /\ ReceiptTrue(a, i) /\ DecisionTrue(a, i) /\ OwnTrue(a, i) /\ Inside(a, i)
  <2>1. chain[a] \in Seq(Entry)
    BY DEF IInv, Typed
  <2>2. chain[a][i] \in Entry
    BY <2>1, ElementOfSeq
  <2> QED BY <2>2 DEF IInv, EntryInv, Entry
<1>2. ASSUME NEW a \in Agents, NEW i \in 1 .. Len(chain[a]), chain[a][i].what = "delegation"
      PROVE  LET c == chain[a][i].call
                 b == call[c].to
             IN  /\ At(b, "decision", c) = {call[c].seq}
                 /\ \E j \in At(b, "receive", c) : j < call[c].seq
  <2> DEFINE c == chain[a][i].call
             b == call[c].to
  <2>1. c \in Calls /\ b \in Agents /\ call[c].answer = "ok"
    BY <1>1, <1>2 DEF OwnTrue, Own, IsTask
  <2>2. \A j \in At(b, "decision", c) : j = call[c].seq
    BY <1>1, <2>1 DEF At, DecisionTrue
  <2>3. PICK d \in At(b, "decision", c) : TRUE
    BY <2>1 DEF IInv, LoggedInv, Has, At, IsTask
  <2>4. At(b, "decision", c) = {call[c].seq}
    BY <2>2, <2>3
  <2>5. d = call[c].seq /\ d \in 1 .. Len(chain[b]) /\ LastReceived(chain[b], d - 1, c)
    <3>1. /\ d \in 1 .. Len(chain[b]) /\ chain[b][d].what = "decision" /\ chain[b][d].call = c
          /\ d = call[c].seq
      BY <2>2, <2>3 DEF At
    <3>2. DecisionTrue(b, d)
      BY <1>1, <2>1, <3>1
    <3>3. LastReceived(chain[b], d - 1, c)
      BY ONLY <3>1, <3>2 DEF DecisionTrue
    <3> QED BY <3>1, <3>3
  <2>6. \E j \in At(b, "receive", c) : j < d
    <3>1. PICK j \in 1 .. d - 1 : chain[b][j].what = "receive" /\ chain[b][j].call = c
      BY <2>5 DEF LastReceived
    <3>2. j \in 1 .. Len(chain[b]) /\ j < d
      <4>1. chain[b] \in Seq(Entry)
        BY <2>1 DEF IInv, Typed
      <4>2. Len(chain[b]) \in Nat
        BY <4>1, LenProperties
      <4>3. j \in 1 .. d - 1 /\ d \in 1 .. Len(chain[b])
        BY <2>5
      <4> QED BY ONLY <4>2, <4>3
    <3> QED BY <3>1, <3>2 DEF At
  <2> QED BY <2>4, <2>5, <2>6
<1>3. DecisionsDelivered
  BY <1>1 DEF DecisionsDelivered, At, DecisionTrue
<1> QED BY <1>2, <1>3 DEF DelegationLinked

(* The records of an agent's tasks are in order. *)
LEMMA OrderImplied == IInv => TasksInOrder
<1> SUFFICES ASSUME IInv PROVE TasksInOrder
  OBVIOUS
<1>1. ASSUME NEW a \in Agents, NEW i \in 1 .. Len(chain[a])
      PROVE  /\ chain[a][i].call \in Calls /\ Len(chain[a]) \in Nat
             /\ DecisionTrue(a, i) /\ Inside(a, i)
  <2>1. chain[a] \in Seq(Entry)
    BY DEF IInv, Typed
  <2>2. chain[a][i] \in Entry
    BY <2>1, ElementOfSeq
  <2> QED BY <2>1, <2>2, LenProperties DEF IInv, EntryInv, Entry
<1>2. TasksInTurn
  <2> SUFFICES ASSUME NEW b \in Agents, NEW i \in 1 .. Len(chain[b]), chain[b][i].what = "decision"
               PROVE  LET received == {j \in 1 .. i - 1 : chain[b][j].what = "receive"}
                      IN  /\ received # {}
                          /\ chain[b][CHOOSE j \in received : \A k \in received : k <= j].call
                               = chain[b][i].call
    BY DEF TasksInTurn
  <2> DEFINE received == {j \in 1 .. i - 1 : chain[b][j].what = "receive"}
             last == CHOOSE j \in received : \A k \in received : k <= j
  <2>1. PICK j \in 1 .. i - 1 :
          /\ chain[b][j].what = "receive" /\ chain[b][j].call = chain[b][i].call
          /\ \A k \in 1 .. i - 1 : chain[b][k].what = "receive" => k <= j
    BY <1>1 DEF DecisionTrue, LastReceived
  <2>2. j \in received /\ \A k \in received : k <= j
    BY <2>1
  <2>3. last \in received /\ \A k \in received : k <= last
    BY <2>2
  <2>4. last = j
    <3> HIDE DEF last
    <3>1. last \in 1 .. i - 1 /\ last <= j /\ j <= last
      BY <2>2, <2>3
    <3> QED BY <3>1
  <2> QED BY <2>1, <2>2, <2>4
<1>3. NestedInside
  <2> SUFFICES ASSUME NEW a \in Agents, NEW i \in 1 .. Len(chain[a]),
                      chain[a][i].what \in {"delegation", "tool"},
                      call[chain[a][i].call].by # None, IsTask(call[chain[a][i].call].by)
               PROVE  /\ \E j \in At(a, "receive", call[chain[a][i].call].by) : j < i
                      /\ \A j \in At(a, "decision", call[chain[a][i].call].by) : i < j
    BY DEF NestedInside
  <2> DEFINE p == call[chain[a][i].call].by
  <2>1. /\ \E j \in 1 .. i - 1 : chain[a][j].what = "receive" /\ chain[a][j].call = p
        /\ \A j \in 1 .. Len(chain[a]) :
             chain[a][j].what = "decision" /\ chain[a][j].call = p => i < j
    BY <1>1 DEF Inside, Own
  <2>2. \A j \in 1 .. i - 1 : j \in 1 .. Len(chain[a]) /\ j < i
    BY <1>1
  <2> QED BY <2>1, <2>2 DEF At
<1>4. TasksSettled
  <2> SUFFICES ASSUME NEW c \in Calls, task[c] # None, Free(call[c].to), c \notin history.failed
               PROVE  task[c] = "COMPLETED" /\ At(call[c].to, "decision", c) # {}
    BY DEF TasksSettled
  <2>1. IsTask(c) /\ call[c].server = "over" /\ rerun[call[c].to] # c
    <3>1. IsTask(c) /\ call[c].server \in {"handle", "answer", "over"}
      BY DEF IInv, TaskInv
    <3>2. None # c
      BY DelegationAssumption DEF Calls
    <3> QED BY <3>1, <3>2 DEF Free, IsTask, InServer
  <2>2. task[c] = "COMPLETED" /\ Has(chain[call[c].to], "decision", c)
    BY <2>1 DEF IInv, TaskInv
  <2> QED BY <2>2 DEF Has, At
<1> QED BY <1>2, <1>3, <1>4 DEF TasksInOrder

(* Every call that is over for its client is recorded as it ended. *)
LEMMA ReturnedImplied == IInv => ReturnedCallsRecorded
<1> SUFFICES ASSUME IInv, NEW c \in Calls
             PROVE  LET own == IF call[c].from = None THEN {}
                               ELSE {i \in 1 .. Len(chain[call[c].from]) :
                                       /\ chain[call[c].from][i].call = c
                                       /\ chain[call[c].from][i].what \in {"delegation", "tool"}}
                    IN  /\ call[c].client = "returned" =>
                             /\ Cardinality(own) = 1
                             /\ \A i \in own : (chain[call[c].from][i].status = "SUCCESS")
                                                 <=> (call[c].answer = "ok")
                        /\ call[c].client = "raised" =>
                             /\ own = {}
                             /\ c \in history.failed \/ (IsTask(c) /\ call[c].answer = "broken")
  BY DEF ReturnedCallsRecorded
<1> DEFINE a == call[c].from
           mine == {i \in 1 .. Len(chain[a]) : chain[a][i].call = c /\ chain[a][i].what \in Own}
<1>1. ASSUME call[c].client \in {"returned", "raised"}
      PROVE  a \in Agents /\ a # None
  BY <1>1, DelegationAssumption DEF IInv, CallInv
<1>2. ASSUME a \in Agents, NEW i \in mine
      PROVE  call[c].client = "returned" /\ ((chain[a][i].status = "SUCCESS") <=> (call[c].answer = "ok"))
  BY <1>2 DEF IInv, EntryInv, OwnTrue
<1>3. ASSUME call[c].client = "returned"
      PROVE  Cardinality(mine) = 1
  <2>1. PICK i \in mine : TRUE
    BY <1>3 DEF IInv, LoggedInv
  <2>2. \A j \in mine : j = i
    BY <1>1, <1>3, <2>1 DEF IInv, Once
  <2>3. mine = {i}
    BY <2>1, <2>2
  <2> HIDE DEF mine
  <2> QED BY <2>3, FS_Singleton
<1>4. ASSUME call[c].client = "raised"
      PROVE  mine = {} /\ (c \in history.failed \/ (IsTask(c) /\ call[c].answer = "broken"))
  BY <1>1, <1>2, <1>4 DEF IInv, CallInv
<1> QED BY <1>1, <1>2, <1>3, <1>4 DEF Own

(* For any agents, tools, calls and troubles: the state is well formed;    *)
(* every delegation a client recorded is answered by exactly one decision  *)
(* on the other agent's chain, at the sequence number the client was told  *)
(* and after the receipt of the task; and a decision is only lost on its   *)
(* caller when the caller timed out.                                       *)
THEOREM ChainsLinked == Spec => []LinkInv
<1>1. IInv => LinkInv
  BY TypesImplied, LinkImplied DEF LinkInv
<1> QED BY <1>1, InvAlways, PTL

(* An agent's tasks follow each other on its chain, with what each caused  *)
(* in between, however calls nest, time out and fail.                      *)
THEOREM TasksOneByOne == Spec => []TasksInOrder
BY OrderImplied, InvAlways, PTL

(* A call that returned is recorded once, with the status its answer had;  *)
(* one that raised is not recorded, and has a reason.                      *)
THEOREM CallsRecordedAsTheyEnd == Spec => []ReturnedCallsRecorded
BY ReturnedImplied, InvAlways, PTL
===============================================================================
