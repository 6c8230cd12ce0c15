---------------------------- MODULE Instrumentation ----------------------------
(***************************************************************************)
(* What stands between an agent's calls and a recorder: the patches of     *)
(* ahp/interceptors/http_auto.py and mcp_auto.py, the gRPC interceptor,    *)
(* the decorators, the OpenAI adapter and the LangChain callbacks.  All    *)
(* are wrappers around a call: take the original and a recorder from       *)
(* somewhere, make the call, record its outcome, return or raise it.       *)
(* Threads call through them, also from decorated functions and from the   *)
(* hook on_record_written, while others install, replace and remove them.  *)
(* A recorder is only whether a record is written; it is modelled in       *)
(* Recorder and AsyncRecorder.                                             *)
(***************************************************************************)
EXTENDS Integers, Sequences, FiniteSets

CONSTANTS Threads, Recorders,
          Agents,           \* the threads that make calls
          AsyncRecorders,   \* those whose safe_record is a coroutine
          Kinds,            \* the wrappers in use
          MaxDepth          \* bound: nested calls of one thread (recursion limit)

Http    == {"urllib", "send"}   \* send: requests and httpx, blocking and asynchronous
Patched == Http \union {"mcp"}
(* function, coroutine: decorated ones; stream: an OpenAI call with stream *)
(* set, the other is like function; legacy: an LLM run of a LangChain      *)
(* handler on a ChainWriter.                                               *)
AllKinds == Patched \union {"function", "coroutine", "stream", "grpc", "langchain", "legacy"}

None == "none"

ASSUME InstrumentationAssumption ==
  /\ AsyncRecorders \subseteq Recorders /\ Agents \subseteq Threads
  /\ Kinds \subseteq AllKinds /\ None \notin Recorders \union Threads
  /\ MaxDepth \in Nat \ {0}

(* What a call comes to: an answer, an error, an answer that breaks off,   *)
(* a cancellation or interrupt; refused when the wrapper has no original   *)
(* to call, or recurses too deep.                                          *)
Outcomes == {"success", "error", "cut", "cancelled"}

VARIABLES
  attr,       \* what the library's attribute is: the original, a wrapper, or None
  bound,      \* history: what it ever was; a module may have imported it then
  orig,       \* _original_urlopen, _original_requests_send (and httpx), _original_call_tool
  recs,       \* _recorder of http_auto and of mcp_auto, _default_recorder
  lock,       \* _install_lock
  script,     \* what each thread is in the middle of installing or removing
  stack,      \* the wrapped calls each thread is in
  flag,       \* _local.in_interceptor of each thread
  disturbed,  \* history: threads in whose calls something was installed or removed
  raced       \* history: two threads were patching or unpatching MCP at once

patchVars == <<attr, bound, orig, recs, lock, script, raced>>
callVars  == <<stack, flag>>
instrVars == <<patchVars, callVars, disturbed>>

NoFrame == [kind |-> None, fn |-> None, rec |-> None, step |-> None, wrapped |-> FALSE,
            outcome |-> None, seen |-> None, recorded |-> <<>>, missed |-> FALSE, uses |-> 0]
NoScript == [op |-> None, at |-> 0, rec |-> None]

InstrInit ==
  /\ attr = [l \in Patched |-> "original"] /\ bound = [l \in Patched |-> {"original"}]
  /\ orig = [l \in Patched |-> None]
  /\ recs = [u \in {"http", "mcp", "default"} |-> None]
  /\ lock = None
  /\ script = [t \in Threads |-> NoScript]
  /\ stack = [t \in Threads |-> <<>>] /\ flag = [t \in Threads |-> FALSE]
  /\ disturbed = {} /\ raced = FALSE

-----------------------------------------------------------------------------
(* Installing and removing.                                                *)

Idle(t) == stack[t] = <<>> /\ script[t] = NoScript

SetAttr(l, fn) ==
  /\ attr' = [attr EXCEPT ![l] = fn]
  /\ bound' = [bound EXCEPT ![l] = @ \union {fn}]

OnMcp == {"patch", "unpatch"}

GoOn(t, op, at, rec) ==
  /\ script' = [script EXCEPT ![t] = IF op = None THEN NoScript
                                     ELSE [op |-> op, at |-> at, rec |-> rec]]
  /\ raced' = (raced \/ \E u \in Threads \ {t} : op \in OnMcp /\ script[u].op \in OnMcp)
Done(t) == GoOn(t, None, 0, None)

Disturb == disturbed' = {t \in Threads : stack[t] # <<>>}
Quiet == UNCHANGED callVars /\ Disturb

SetDefaultRecorder(t) ==
  /\ Idle(t)
  /\ \E r \in Recorders : recs' = [recs EXCEPT !.default = r]
  /\ Quiet /\ UNCHANGED <<attr, bound, orig, lock, script, raced>>

InstallUnguarded(t) ==
  /\ Idle(t) /\ lock = None
  /\ \E r \in Recorders : recs' = [recs EXCEPT !.http = r]
  /\ lock' = t /\ GoOn(t, "install", 1, None)
  /\ Quiet /\ UNCHANGED <<attr, bound, orig>>

(* A second install is a no-op. *)
InstallHttpInterceptor(t) ==
  /\ Idle(t) /\ lock = None
  /\ orig["urllib"] = None
  /\ \E r \in Recorders : recs' = [recs EXCEPT !.http = r]
  /\ lock' = t /\ GoOn(t, "install", 1, None)
  /\ Quiet /\ UNCHANGED <<attr, bound, orig>>

InstallLib(t, l) ==
  /\ orig' = [orig EXCEPT ![l] = attr[l]]
  /\ SetAttr(l, "wrapper")
  /\ Quiet /\ UNCHANGED recs

InstallNext(t) ==
  /\ script[t].op = "install"
  /\ \/ /\ script[t].at = 1
        /\ InstallLib(t, "urllib")
        /\ GoOn(t, "install", 2, None) /\ UNCHANGED lock
     \/ /\ script[t].at = 2
        /\ InstallLib(t, "send")
        /\ Done(t) /\ lock' = None

UninstallLib(l) ==
  /\ orig[l] # None
  /\ SetAttr(l, orig[l])
  /\ orig' = [orig EXCEPT ![l] = None]

UninstallHttpInterceptor(t) ==
  /\ Idle(t) /\ lock = None
  /\ UninstallLib("urllib")
  /\ lock' = t /\ GoOn(t, "uninstall", 1, None)
  /\ Quiet /\ UNCHANGED recs

UninstallNext(t) ==
  /\ script[t].op = "uninstall"
  /\ UninstallLib("send")
  /\ recs' = [recs EXCEPT !.http = None]
  /\ Done(t) /\ lock' = None
  /\ Quiet

(* patch_mcp_client and unpatch_mcp_client look first and hold no lock.    *)
PatchMcpClient(t) ==
  /\ Idle(t) /\ orig["mcp"] = None
  /\ \E r \in Recorders : GoOn(t, "patch", 1, r)
  /\ Quiet /\ UNCHANGED <<attr, bound, orig, recs, lock>>

PatchNext(t) ==
  /\ script[t].op = "patch"
  /\ \/ /\ script[t].at = 1
        /\ orig' = [orig EXCEPT !["mcp"] = attr["mcp"]]
        /\ recs' = [recs EXCEPT !.mcp = script[t].rec]
        /\ GoOn(t, "patch", 2, None)
        /\ UNCHANGED <<attr, bound>>
     \/ /\ script[t].at = 2
        /\ SetAttr("mcp", "wrapper")
        /\ Done(t)
        /\ UNCHANGED <<orig, recs>>
  /\ Quiet /\ UNCHANGED lock

UnpatchMcpClient(t) ==
  /\ Idle(t) /\ orig["mcp"] # None
  /\ GoOn(t, "unpatch", 1, None)
  /\ Quiet /\ UNCHANGED <<attr, bound, orig, recs, lock>>

UnpatchForgetsOriginalFirst(t) ==
  /\ script[t].op = "unpatch"
  /\ orig' = [orig EXCEPT !["mcp"] = None]
  /\ recs' = [recs EXCEPT !.mcp = None]
  /\ Done(t)
  /\ Quiet /\ UNCHANGED <<attr, bound, lock>>

UnpatchNext(t) ==
  /\ script[t].op = "unpatch"
  /\ \/ /\ script[t].at = 1
        /\ SetAttr("mcp", orig["mcp"])
        /\ GoOn(t, "unpatch", 2, None)
        /\ UNCHANGED <<orig, recs>>
     \/ /\ script[t].at = 2
        /\ orig' = [orig EXCEPT !["mcp"] = None]
        /\ recs' = [recs EXCEPT !.mcp = None]
        /\ Done(t)
        /\ UNCHANGED <<attr, bound>>
  /\ Quiet /\ UNCHANGED lock

-----------------------------------------------------------------------------
(* Calling.                                                                *)

Top(t) == stack[t][Len(stack[t])]
At(t, step) == stack[t] # <<>> /\ Top(t).step = step
Becomes(t, frame) == stack' = [stack EXCEPT ![t][Len(stack[t])] = frame]

CallOnly == UNCHANGED <<patchVars, disturbed>>

(* An agent's code calls anything; a decorated function calls libraries,   *)
(* and so does on_record_written.                                          *)
MayCall(t, k) ==
  /\ t \in Agents /\ Len(stack[t]) < MaxDepth
  /\ \/ Idle(t)
     \/ k \in Patched /\ At(t, "running") /\ Top(t).kind \in {"function", "coroutine"}
     \/ k \in Http /\ At(t, "recording")

(* Where a wrapper has its recorder from: its own, or the default one,     *)
(* when the call begins; the patches look when they record.                *)
Captured(k) ==
  CASE k \in Patched -> {None}
    [] k \in {"function", "coroutine", "stream"} -> {recs.default}
    [] k = "langchain" -> Recorders
    [] k \in {"grpc", "legacy"} -> Recorders \ AsyncRecorders

(* The attribute is looked up, or a name imported earlier is used.         *)
Call(t) ==
  /\ \E k \in Kinds :
       /\ MayCall(t, k)
       /\ \E fn \in (IF k \in Patched THEN bound[k] ELSE {None}), r \in Captured(k) :
            stack' = [stack EXCEPT ![t] = Append(@,
              [NoFrame EXCEPT !.kind = k, !.fn = fn, !.rec = r, !.wrapped = k \notin Patched,
                              !.step = IF k \in Patched THEN "enter" ELSE "running"])]
  /\ UNCHANGED flag /\ CallOnly

Refused(f, step) == [f EXCEPT !.outcome = "refused", !.seen = "refused", !.step = step]

(* The original, called without the wrapper or past it: a thread that is   *)
(* recording an HTTP call is not intercepted.                              *)
EnterOriginal(t) ==
  /\ At(t, "enter")
  /\ LET f == Top(t)
     IN  \/ f.fn = "original" /\ Becomes(t, [f EXCEPT !.step = "running"])
         \/ f.fn = None /\ Becomes(t, Refused(f, "return"))
         \/ /\ f.fn = "wrapper" /\ f.kind \in Http /\ flag[t]
            /\ IF f.kind = "urllib" /\ orig["urllib"] = None
               THEN Becomes(t, Refused(f, "return"))
               ELSE Becomes(t, [f EXCEPT !.step = "running"])
  /\ UNCHANGED flag /\ CallOnly

(* The wrapper.  Those of requests and httpx hold their original, the      *)
(* others read it from the module; the one of MCP may find itself there.   *)
EnterWrapper(t) ==
  /\ At(t, "enter") /\ Top(t).fn = "wrapper"
  /\ LET f == [Top(t) EXCEPT !.wrapped = TRUE]
         found == IF f.kind = "send" THEN "original" ELSE orig[f.kind]
     IN  /\ f.kind \in Http => ~flag[t]
         /\ \/ found = "original" /\ Becomes(t, [f EXCEPT !.step = "running"])
            \/ found = None /\ Becomes(t, Refused(f, "record"))
            \/ /\ found = "wrapper" /\ Len(stack[t]) < MaxDepth
               /\ stack' = [stack EXCEPT ![t] =
                    Append([@ EXCEPT ![Len(@)] = [f EXCEPT !.step = "inner"]],
                           [Top(t) EXCEPT !.recorded = <<>>])]
            \/ found = "wrapper" /\ Len(stack[t]) = MaxDepth /\ Becomes(t, Refused(f, "record"))
  /\ UNCHANGED flag /\ CallOnly

(* Except clauses name Exception: a cancelled call, or an interrupted one, *)
(* is not recorded, but by LangChain, which reports it.  The body of an    *)
(* answer is read where nothing catches it, but by urllib.                 *)
Recorded(k, outcome) ==
  CASE outcome = "cancelled" -> k \in {"langchain", "legacy"}
    [] outcome = "cut" -> k # "send"
    [] OTHER -> TRUE

AnswerOpensStream(f, o) == f.kind = "stream" /\ o = "success"

Answer(t) ==
  /\ At(t, "running")
  /\ \E o \in Outcomes :
       LET f == [Top(t) EXCEPT !.outcome = o, !.seen = o]
       IN  Becomes(t, [f EXCEPT !.step = IF AnswerOpensStream(f, o) THEN "open"
                                         ELSE IF f.wrapped /\ Recorded(f.kind, o) THEN "record"
                                         ELSE "return"])
  /\ UNCHANGED flag /\ CallOnly

(* Each iteration of a stream ends in a record, however it ends.           *)
Iterate(t) ==
  /\ At(t, "open") /\ Top(t).uses < 2
  /\ \E o \in Outcomes :
       Becomes(t, [Top(t) EXCEPT !.uses = @ + 1, !.outcome = o, !.seen = o, !.step = "record"])
  /\ UNCHANGED flag /\ CallOnly

DropStream(t) ==
  /\ At(t, "open")
  /\ Becomes(t, [Top(t) EXCEPT !.step = "return"])
  /\ UNCHANGED flag /\ CallOnly

RecorderOf(f) == CASE f.kind \in Http -> recs.http [] f.kind = "mcp" -> recs.mcp [] OTHER -> f.rec

(* The status: MCP ignores its success flag, an iteration of a stream and  *)
(* an LLM run on a ChainWriter are always a success.                       *)
AlwaysSuccess(f) == f.kind \in {"mcp", "legacy"} \/ f.uses > 0

Status(f) ==
  IF f.outcome = "success" \/ AlwaysSuccess(f) THEN "success" ELSE "error"

Awaits(f) == f.kind = "coroutine"
WritesDirectly(f) == f.kind \in {"grpc", "legacy"}

Writes(f, r) == r # None /\ (r \in AsyncRecorders => Awaits(f))

AfterRecord(f) == IF f.uses > 0 THEN "open" ELSE "return"

RecordRaises(t) ==
  /\ At(t, "record") /\ Writes(Top(t), RecorderOf(Top(t)))
  /\ Becomes(t, [Top(t) EXCEPT !.missed = TRUE, !.seen = "writer raised", !.step = "return"])
  /\ UNCHANGED flag /\ CallOnly

(* _record_http_call and its likes: no recorder, no record; a coroutine    *)
(* nobody awaits writes none; safe_record keeps its failures to itself, a  *)
(* ChainWriter raises.                                                     *)
RecordCall(t) ==
  /\ At(t, "record")
  /\ LET f == Top(t)
         r == RecorderOf(f)
     IN  \/ /\ ~Writes(f, r)
            /\ Becomes(t, [f EXCEPT !.step = AfterRecord(f)])
            /\ UNCHANGED flag
         \/ /\ Writes(f, r)
            /\ Becomes(t, [f EXCEPT !.recorded = Append(@, [by |-> r, status |-> Status(f)]),
                                    !.step = "recording"])
            /\ flag' = [flag EXCEPT ![t] = @ \/ f.kind \in Http]
         \/ /\ Writes(f, r)
            /\ Becomes(t, [f EXCEPT !.missed = TRUE, !.step = AfterRecord(f),
                                    !.seen = IF WritesDirectly(f) THEN "writer raised" ELSE @])
            /\ UNCHANGED flag
  /\ CallOnly

(* safe_record returns; the flag is taken back. *)
EndRecord(t) ==
  /\ At(t, "recording")
  /\ Becomes(t, [Top(t) EXCEPT !.step = AfterRecord(Top(t))])
  /\ flag' = [flag EXCEPT ![t] = @ /\ Top(t).kind \notin Http]
  /\ CallOnly

(* A wrapper within a wrapper gives its outcome to the outer one.          *)
Return(t) ==
  /\ At(t, "return")
  /\ LET below == SubSeq(stack[t], 1, Len(stack[t]) - 1)
         f == Top(t)
     IN  stack' = [stack EXCEPT ![t] =
           IF below # <<>> /\ below[Len(below)].step = "inner"
           THEN [below EXCEPT ![Len(below)] =
                   [@ EXCEPT !.outcome = f.seen, !.seen = f.seen, !.recorded = f.recorded,
                             !.missed = f.missed,
                             !.step = IF f.seen = "cancelled" THEN "return" ELSE "record"]]
           ELSE below]
  /\ disturbed' = IF Len(stack[t]) = 1 THEN disturbed \ {t} ELSE disturbed
  /\ UNCHANGED flag /\ UNCHANGED patchVars

-----------------------------------------------------------------------------
Install(t) == InstallHttpInterceptor(t) \/ InstallNext(t)
Uninstall(t) == UninstallHttpInterceptor(t) \/ UninstallNext(t)
Patch(t) == PatchMcpClient(t) \/ PatchNext(t)
Unpatch(t) == UnpatchMcpClient(t) \/ UnpatchNext(t)

InstrNext ==
  \E t \in Threads :
    \/ SetDefaultRecorder(t) \/ Install(t) \/ Uninstall(t) \/ Patch(t) \/ Unpatch(t)
    \/ Call(t) \/ EnterOriginal(t) \/ EnterWrapper(t) \/ Answer(t)
    \/ Iterate(t) \/ DropStream(t) \/ RecordCall(t) \/ EndRecord(t) \/ Return(t)

InstrSpec == InstrInit /\ [][InstrNext]_instrVars

-----------------------------------------------------------------------------
(* Every variable has its type; the originals the HTTP patches keep are    *)
(* real ones, never a wrapper, however often install and uninstall meet.   *)
InstrTypeOK ==
  /\ attr \in [Patched -> {"original", "wrapper", None}]
  /\ \A l \in Patched : attr[l] \in bound[l]
  /\ orig \in [Patched -> {"original", "wrapper", None}]
  /\ \A l \in Http : orig[l] # "wrapper" /\ attr[l] # None
  /\ recs \in [{"http", "mcp", "default"} -> Recorders \union {None}]
  /\ lock \in Threads \union {None}
  /\ \A t \in Threads : Len(stack[t]) <= MaxDepth
  /\ flag \in [Threads -> BOOLEAN]
  /\ disturbed \subseteq Threads /\ raced \in BOOLEAN

(* When nobody is installing or removing, a library is intercepted, with   *)
(* the real original kept and a recorder to record in, or it is as before  *)
(* AHP came: for MCP, only if patches and unpatches never met.             *)
PatchedOrAsBefore ==
  /\ lock = None =>
       \A l \in Http :
         \/ attr[l] = "wrapper" /\ orig[l] = "original" /\ recs.http # None
         \/ attr[l] = "original" /\ orig[l] = None /\ recs.http = None
  /\ ~raced /\ (\A t \in Threads : script[t].op \notin OnMcp) =>
       \/ attr["mcp"] = "wrapper" /\ orig["mcp"] = "original" /\ recs.mcp # None
       \/ attr["mcp"] = "original" /\ orig["mcp"] = None /\ recs.mcp = None

InHttpRecording(t) ==
  {i \in DOMAIN stack[t] : stack[t][i].kind \in Http /\ stack[t][i].step = "recording"}

(* The guard is up exactly while the thread records an HTTP call, and a    *)
(* call made meanwhile, by a hook or below the recorder, goes to the       *)
(* original and is not recorded: recording never recurses.                 *)
GuardEndsRecursion ==
  \A t \in Threads :
    /\ flag[t] <=> InHttpRecording(t) # {}
    /\ \A i \in InHttpRecording(t), j \in DOMAIN stack[t] : i < j => ~stack[t][j].wrapped

(* The patches: well formed, whole or gone, and never recording themselves. *)
PatchInv == InstrTypeOK /\ PatchedOrAsBefore /\ GuardEndsRecursion

Returns(t) == Len(stack'[t]) < Len(stack[t])

(* How many records a call that wrote all it could has in the end.         *)
Due(f) ==
  IF ~Writes(f, RecorderOf(f)) THEN 0
  ELSE IF f.uses > 0 \/ AnswerOpensStream(f, f.outcome) THEN f.uses
  ELSE IF Recorded(f.kind, f.outcome) THEN 1 ELSE 0

(* ... by the recorder it should, with the status of its outcome, and no   *)
(* fewer than that unless a record was missed.                             *)
RecordedAsDue(f) ==
  /\ Len(f.recorded) <= Due(f)
  /\ ~f.missed => Len(f.recorded) = Due(f)
  /\ \A i \in DOMAIN f.recorded :
       /\ f.recorded[i].by = RecorderOf(f)
       /\ ~AlwaysSuccess(f) =>
            (f.recorded[i].status = "success" <=> f.outcome = "success")

(* A call through a wrapper, beside which nothing is installed or removed, *)
(* has exactly one record when it returns, in the recorder that was set,   *)
(* with the status of its outcome; a stream has one for each iteration.    *)
(* The exceptions are those the code makes: statuses that are always a     *)
(* success, cancelled calls, answers of requests and httpx that break off, *)
(* a recorder that is missing, that failed, or that nobody awaits.         *)
RecordedOnce ==
  [][\A t \in Threads :
       (Returns(t) /\ Top(t).wrapped /\ t \notin disturbed /\ ~raced) =>
         RecordedAsDue(Top(t))]_instrVars

(* What the agent sees of a call is its outcome, with the two exceptions.  *)
SeenAsGiven(t, f) ==
  /\ f.seen = "refused" => f.fn = "wrapper" /\ (orig[f.kind] = None \/ t \in disturbed)
  /\ f.seen # f.outcome => WritesDirectly(f) /\ f.missed

(* The agent sees what the original would have given it.  A call is        *)
(* refused only to one who still uses a wrapper that has been removed, or  *)
(* is being removed while it is called, and a failure to record surfaces   *)
(* only where a ChainWriter is used directly.                              *)
CallsTransparent ==
  [][\A t \in Threads : (Returns(t) /\ ~raced) => SeenAsGiven(t, Top(t))]_instrVars

-----------------------------------------------------------------------------
(* Spec 11.1: "MUST emit ActionRecord for every intercepted action".       *)
InterceptedActionsRecorded ==
  [][\A t \in Threads :
       (/\ Returns(t) /\ Top(t).wrapped /\ ~Top(t).missed
        /\ RecorderOf(Top(t)) \in Recorders \ AsyncRecorders)
       => Top(t).recorded # <<>>]_instrVars
=============================================================================
