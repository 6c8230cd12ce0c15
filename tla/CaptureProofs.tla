---------------------------- MODULE CaptureProofs ----------------------------
(***************************************************************************)
(* Theorems about Instrumentation, for any threads, recorders, kinds of    *)
(* calls, faults and depths, and about Tracing, for any tasks, recorders,  *)
(* spans, runs and faults.                                                 *)
(***************************************************************************)
EXTENDS Instrumentation, Tracing, SequenceTheorems, FiniteSetTheorems, TLAPS

-----------------------------------------------------------------------------
(* The patches.                                                            *)

(* The operations on the HTTP patches, which hold the lock.                *)
OnHttp == {"install", "uninstall"}

(* A member of S, or nothing.                                              *)
NoneOr(S) == S \union {None}

(* Where a thread can be between two attribute assignments of an operation *)
(* on the patches.                                                         *)
Scripts ==
  [op: {None}, at: {0}, rec: {None}] \union [op: {"install", "unpatch"}, at: {1, 2}, rec: {None}]
  \union [op: {"uninstall"}, at: {1}, rec: {None}]
  \union [op: {"patch"}, at: {1}, rec: Recorders] \union [op: {"patch"}, at: {2}, rec: {None}]

(* The attribute is the library's own, and nothing is kept of it.          *)
AsBefore(l) == attr[l] = "original" /\ orig[l] = None

(* The attribute is the wrapper, and the original is kept.                 *)
Intercepted(l) == attr[l] = "wrapper" /\ orig[l] = "original"

(* The types of the patches, the recorders they use and the operations on  *)
(* them.                                                                   *)
PatchTypes ==
  /\ attr \in [Patched -> {"original", "wrapper", None}]
  /\ bound \in [Patched -> SUBSET {"original", "wrapper", None}]
  /\ \A l \in Patched : attr[l] \in bound[l]
  /\ orig \in [Patched -> {"original", "wrapper", None}]
  /\ recs \in [{"http", "mcp", "default"} -> NoneOr(Recorders)]
  /\ lock \in NoneOr(Threads) /\ raced \in BOOLEAN
  /\ script \in [Threads -> Scripts]

(* The lock of the HTTP patches is held by who installs or removes them,   *)
(* and the attributes are where its script says.                           *)
HttpInv ==
  /\ \A t \in Threads : lock = t <=> script[t].op \in OnHttp
  /\ \A l \in Http : bound[l] \subseteq {"original", "wrapper"}
  /\ lock = None =>
       \/ Intercepted("urllib") /\ Intercepted("send") /\ recs.http # None
       \/ AsBefore("urllib") /\ AsBefore("send") /\ recs.http = None
  /\ \A t \in Threads :
       /\ script[t].op \in OnHttp => recs.http # None
       /\ script[t].op = "install" =>
            /\ AsBefore("send")
            /\ script[t].at = 1 => AsBefore("urllib")
            /\ script[t].at = 2 => Intercepted("urllib")
       /\ script[t].op = "uninstall" => AsBefore("urllib") /\ Intercepted("send")

(* One thread at a time patches or unpatches MCP, and the attribute is     *)
(* where its script says.                                                  *)
McpAgrees ==
  /\ bound["mcp"] \subseteq {"original", "wrapper"} /\ orig["mcp"] # "wrapper"
  /\ \A t, u \in Threads : script[t].op \in OnMcp /\ script[u].op \in OnMcp => t = u
  /\ (\A t \in Threads : script[t].op \notin OnMcp) =>
       \/ Intercepted("mcp") /\ recs.mcp # None
       \/ AsBefore("mcp") /\ recs.mcp = None
  /\ \A t \in Threads :
       /\ script[t].op = "patch" /\ script[t].at = 1 => AsBefore("mcp") /\ recs.mcp = None
       /\ script[t].op = "patch" /\ script[t].at = 2 =>
            attr["mcp"] = "original" /\ orig["mcp"] = "original" /\ recs.mcp # None
       /\ script[t].op = "unpatch" /\ script[t].at = 1 => Intercepted("mcp") /\ recs.mcp # None
       /\ script[t].op = "unpatch" /\ script[t].at = 2 =>
            attr["mcp"] = "original" /\ orig["mcp"] = "original" /\ recs.mcp # None

(* ... unless two ever met. *)
McpInv == ~raced => McpAgrees

-----------------------------------------------------------------------------
(* The stacks.                                                             *)

(* Where a call can be.                                                    *)
Steps == {"enter", "running", "inner", "record", "recording", "open", "return"}

(* A call on the stack of a thread.                                        *)
Frames ==
  [kind: AllKinds, fn: {"original", "wrapper", None}, rec: NoneOr(Recorders), step: Steps,
   wrapped: BOOLEAN, outcome: Outcomes \union {None, "refused", "writer raised"},
   seen: Outcomes \union {None, "refused", "writer raised"},
   recorded: Seq([by: Recorders, status: {"success", "error"}]), missed: BOOLEAN, uses: Nat]

(* Above a call that is being recorded over HTTP there is at most one      *)
(* other, that nothing intercepts.                                         *)
Unintercepted(f) == f.kind \in Http /\ ~f.wrapped /\ f.step \in {"enter", "running", "return"}

(* The call has raised the recursion guard of its thread.                  *)
RecordsHttp(f) == f.kind \in Http /\ f.step = "recording"

(* The guard of a thread is up while one of its calls records over HTTP;   *)
(* every call but the last is running or recording, and above one that     *)
(* records over HTTP nothing is intercepted.                               *)
StackFits(s, up) ==
  /\ s \in Seq(Frames) /\ Len(s) <= MaxDepth
  /\ up \in BOOLEAN /\ (up <=> \E i \in 1..Len(s) : RecordsHttp(s[i]))
  /\ \A i \in 1..Len(s) : i < Len(s) => s[i].step \in {"running", "recording", "inner"}
  /\ \A i \in 1..Len(s) : RecordsHttp(s[i]) =>
       Len(s) = i \/ (Len(s) = i + 1 /\ Unintercepted(s[Len(s)]))

(* ... for every thread; only threads with a call are disturbed.           *)
StacksInv ==
  /\ stack = [t \in Threads |-> stack[t]] /\ flag \in [Threads -> BOOLEAN]
  /\ \A t \in Threads : StackFits(stack[t], flag[t])
  /\ disturbed \subseteq Threads /\ \A t \in disturbed : stack[t] # <<>>

-----------------------------------------------------------------------------
(* What each call has recorded.                                            *)

(* The records of a call that writes some, by the step it is in. *)
DueBy(f) ==
  CASE f.step \in {"enter", "running"} -> 0
    [] f.step = "record" -> IF f.uses = 0 THEN 0 ELSE f.uses - 1
    [] f.step = "recording" -> IF f.uses = 0 THEN 1 ELSE f.uses
    [] OTHER -> Due(f)

(* A call has recorded what it should have at its step, with the recorder  *)
(* it is to record with and the status its outcome has, unless a record    *)
(* was missed; and it is at that step only if its kind and outcome lead    *)
(* there.                                                                  *)
RecordsFit(f) ==
  /\ ~Writes(f, RecorderOf(f)) => f.recorded = <<>>
  /\ \A i \in DOMAIN f.recorded :
       /\ f.recorded[i].by = RecorderOf(f)
       /\ ~AlwaysSuccess(f) => (f.recorded[i].status = "success" <=> f.outcome = "success")
  /\ f.wrapped \/ f.step = "running" => Len(f.recorded) <= DueBy(f)
  /\ Writes(f, RecorderOf(f)) /\ ~f.missed /\ f.wrapped => Len(f.recorded) = DueBy(f)
  /\ f.step = "enter" => ~f.wrapped
  /\ f.step \in {"enter", "running"} => f.recorded = <<>> /\ ~f.missed /\ f.uses = 0
  /\ f.step \in {"record", "recording", "open"} => f.wrapped
  /\ f.step \in {"record", "recording"} /\ f.uses = 0 =>
       Recorded(f.kind, f.outcome) /\ ~AnswerOpensStream(f, f.outcome)
  /\ f.step = "open" => f.kind = "stream" /\ (f.uses = 0 => f.outcome = "success")
  /\ f.uses > 0 => f.kind = "stream"
  /\ f.kind \notin Patched => f.wrapped

(* What the agent sees is the outcome, unless a ChainWriter failed, and a  *)
(* refusal comes of a wrapper that was removed.                            *)
SeenFits(t, f) ==
  /\ f.step # "inner"
  /\ f.step = "enter" => f.kind \in Patched /\ f.fn \in {"original", "wrapper"}
  /\ SeenAsGiven(t, f)

(* Both, though a disturbed thread may have recorded anything.             *)
Fits(t, f) == SeenFits(t, f) /\ (t \notin disturbed => RecordsFit(f))

(* ... for every call on a stack, unless operations on the MCP patch met.  *)
CallsInv ==
  ~raced => \A t \in Threads : \A i \in 1..Len(stack[t]) : Fits(t, stack[t][i])

(* The inductive invariant: types, the two kinds of patches, stacks and    *)
(* calls.                                                                  *)
InstrInv == PatchTypes /\ HttpInv /\ McpInv /\ StacksInv /\ CallsInv

-----------------------------------------------------------------------------
(* Installing and removing.                                                *)

(* A step of an operation on the patches.                                  *)
Patches(t) ==
  SetDefaultRecorder(t) \/ Install(t) \/ Uninstall(t) \/ Patch(t) \/ Unpatch(t)

(* A recorder or a thread is not None. *)
LEMMA NoneIsNone ==
  /\ \A r \in Recorders : r # None
  /\ \A t \in Threads : t # None
BY InstrumentationAssumption

(* What a thread's script becomes, and whether it races. *)
LEMMA ScriptGoesOn ==
  ASSUME PatchTypes, NEW t \in Threads, NEW op, NEW at, NEW rec, GoOn(t, op, at, rec),
         op # None, [op |-> op, at |-> at, rec |-> rec] \in Scripts
  PROVE  /\ script'[t] = [op |-> op, at |-> at, rec |-> rec]
         /\ script' \in [Threads -> Scripts] /\ raced' \in BOOLEAN
         /\ \A u \in Threads : u # t => script'[u] = script[u]
         /\ ~raced' => ~raced /\ (op \in OnMcp => \A u \in Threads : u # t => script[u].op \notin OnMcp)
<1>1. script' = [script EXCEPT ![t] = [op |-> op, at |-> at, rec |-> rec]]
  BY DEF GoOn
<1>2. script' \in [Threads -> Scripts] /\ script'[t] = [op |-> op, at |-> at, rec |-> rec]
      /\ \A u \in Threads : u # t => script'[u] = script[u]
  BY <1>1 DEF PatchTypes
<1>3. /\ raced' \in BOOLEAN
      /\ ~raced' => ~raced /\ (op \in OnMcp => \A u \in Threads : u # t => script[u].op \notin OnMcp)
  BY DEF GoOn, PatchTypes
<1> QED BY <1>2, <1>3

(* A thread that is done has no script. *)
LEMMA ScriptEnds ==
  ASSUME PatchTypes, NEW t \in Threads, Done(t)
  PROVE  /\ script'[t] = NoScript
         /\ script' \in [Threads -> Scripts]
         /\ \A u \in Threads : u # t => script'[u] = script[u]
         /\ raced' = raced
<1>1. script' = [script EXCEPT ![t] = NoScript]
  BY DEF Done, GoOn
<1>2. NoScript \in Scripts
  BY DEF NoScript, Scripts
<1>3. None \notin OnMcp
  BY DEF OnMcp, None
<1>4. raced' = raced
  BY <1>3 DEF Done, GoOn, PatchTypes
<1> QED BY <1>1, <1>2, <1>4 DEF PatchTypes

(* The attribute of one library is set. *)
LEMMA AttributeSet ==
  ASSUME PatchTypes, NEW l \in Patched, NEW fn \in {"original", "wrapper", None}, SetAttr(l, fn)
  PROVE  /\ attr'[l] = fn /\ bound'[l] = bound[l] \union {fn}
         /\ \A m \in Patched : m # l => attr'[m] = attr[m] /\ bound'[m] = bound[m]
         /\ attr' \in [Patched -> {"original", "wrapper", None}]
         /\ bound' \in [Patched -> SUBSET {"original", "wrapper", None}]
         /\ \A m \in Patched : attr'[m] \in bound'[m]
BY DEF PatchTypes, SetAttr

(* What the invariant says of the patches alone.                           *)
PatchesInv == PatchTypes /\ HttpInv /\ McpInv

(* Setting the default recorder leaves the patches alone. *)
LEMMA DefaultSets ==
  ASSUME PatchesInv, NEW t \in Threads, SetDefaultRecorder(t) PROVE PatchesInv'
<1> USE DEF PatchesInv
<1>1. PICK r \in Recorders : recs' = [recs EXCEPT !.default = r]
  BY DEF SetDefaultRecorder
<1>2. UNCHANGED <<attr, bound, orig, lock, script, raced>>
  BY DEF SetDefaultRecorder
<1>3. /\ recs' \in [{"http", "mcp", "default"} -> NoneOr(Recorders)]
      /\ recs'.http = recs.http /\ recs'.mcp = recs.mcp
  BY <1>1 DEF PatchTypes, NoneOr
<1>4. PatchTypes'
  BY <1>2, <1>3 DEF PatchTypes
<1>5. HttpInv'
  BY <1>2, <1>3 DEF HttpInv, AsBefore, Intercepted
<1>6. McpInv'
  BY <1>2, <1>3 DEF McpInv, McpAgrees, AsBefore, Intercepted
<1> QED BY <1>4, <1>5, <1>6

(* The patches of MCP as the steps on HTTP leave them. *)
LEMMA McpStays ==
  ASSUME PatchTypes, McpInv, NEW t \in Threads, ~raced' => ~raced,
         attr'["mcp"] = attr["mcp"], bound'["mcp"] = bound["mcp"], orig'["mcp"] = orig["mcp"],
         recs'.mcp = recs.mcp,
         script[t].op \notin OnMcp, script'[t].op \notin OnMcp,
         \A u \in Threads : u # t => script'[u] = script[u]
  PROVE  McpInv'
<1> SUFFICES ASSUME ~raced' PROVE McpAgrees'
  BY DEF McpInv
<1>1. McpAgrees
  BY DEF McpInv
<1>2. "patch" \in OnMcp /\ "unpatch" \in OnMcp
  BY DEF OnMcp
<1> QED BY <1>1, <1>2 DEF McpAgrees, AsBefore, Intercepted

(* The patches of HTTP as the steps on MCP leave them. *)
LEMMA HttpStays ==
  ASSUME HttpInv, NEW t \in Threads, lock' = lock,
         \A l \in Http : attr'[l] = attr[l] /\ bound'[l] = bound[l] /\ orig'[l] = orig[l],
         recs'.http = recs.http,
         script[t].op \notin OnHttp, script'[t].op \notin OnHttp,
         \A u \in Threads : u # t => script'[u] = script[u]
  PROVE  HttpInv'
<1>1. "install" \in OnHttp /\ "uninstall" \in OnHttp
  BY DEF OnHttp
<1>2. "urllib" \in Http /\ "send" \in Http
  BY DEF Http
<1> QED BY <1>1, <1>2 DEF HttpInv, AsBefore, Intercepted

(* Nobody but the holder of the lock installs or removes HTTP patches. *)
LEMMA LockExcludes ==
  ASSUME HttpInv, NEW t \in Threads
  PROVE  /\ lock = None => script[t].op \notin OnHttp
         /\ script[t].op \in OnHttp => lock = t /\ \A u \in Threads : u # t => script[u].op \notin OnHttp
BY NoneIsNone DEF HttpInv

(* The steps on HTTP keep both patches where the scripts say. *)
LEMMA HttpSteps ==
  ASSUME PatchesInv, NEW t \in Threads, Install(t) \/ Uninstall(t) PROVE PatchesInv'
<1> USE DEF PatchesInv
<1>0. /\ "urllib" \in Http /\ "send" \in Http /\ Http \subseteq Patched
      /\ "mcp" \in Patched /\ "mcp" \notin Http
  BY DEF Http, Patched
<1>00. /\ "install" \in OnHttp /\ "uninstall" \in OnHttp
       /\ "install" \notin OnMcp /\ "uninstall" \notin OnMcp
       /\ None \notin OnHttp /\ None \notin OnMcp
       /\ "install" # None /\ "uninstall" # None
  BY DEF OnHttp, OnMcp, None
<1>01. Idle(t) => script[t].op = None
  BY DEF Idle, NoScript
<1>02. /\ [op |-> "install", at |-> 1, rec |-> None] \in Scripts
       /\ [op |-> "install", at |-> 2, rec |-> None] \in Scripts
       /\ [op |-> "uninstall", at |-> 1, rec |-> None] \in Scripts
  BY DEF Scripts
<1>03. t # None
  BY NoneIsNone
<1>1. CASE InstallHttpInterceptor(t)
  <2>1. PICK r \in Recorders : recs' = [recs EXCEPT !.http = r]
    BY <1>1 DEF InstallHttpInterceptor
  <2>2. /\ lock = None /\ lock' = t /\ Idle(t) /\ orig["urllib"] = None
        /\ UNCHANGED <<attr, bound, orig>> /\ GoOn(t, "install", 1, None)
    BY <1>1 DEF InstallHttpInterceptor
  <2>3. /\ script'[t] = [op |-> "install", at |-> 1, rec |-> None]
        /\ script' \in [Threads -> Scripts] /\ raced' \in BOOLEAN
        /\ \A u \in Threads : u # t => script'[u] = script[u]
        /\ ~raced' => ~raced
    BY <1>00, <1>02, <2>2, ScriptGoesOn
  <2>4. /\ recs' \in [{"http", "mcp", "default"} -> NoneOr(Recorders)]
        /\ recs'.http = r /\ recs'.mcp = recs.mcp /\ r # None
    BY <2>1, NoneIsNone DEF PatchTypes, NoneOr
  <2>5. PatchTypes'
    BY <2>2, <2>3, <2>4 DEF PatchTypes, NoneOr
  <2>6. McpInv'
    BY <1>00, <1>01, <2>2, <2>3, <2>4, McpStays
  <2>7. AsBefore("urllib") /\ AsBefore("send")
    BY <2>2 DEF HttpInv, Intercepted, None
  <2>8. HttpInv'
    <3>1. \A u \in Threads : lock' = u <=> script'[u].op \in OnHttp
      BY <1>00, <2>2, <2>3, LockExcludes
    <3>2. \A u \in Threads : u # t => script'[u].op \notin OnHttp
      BY <2>2, <2>3, LockExcludes
    <3>3. AsBefore("urllib")' /\ AsBefore("send")'
      BY <2>2, <2>7 DEF AsBefore
    <3>4. \A l \in Http : bound'[l] \subseteq {"original", "wrapper"}
      BY <2>2 DEF HttpInv
    <3>5. script'[t].op = "install" /\ script'[t].at = 1
      BY <2>3
    <3> QED BY <1>00, <1>03, <2>2, <2>4, <3>1, <3>2, <3>3, <3>4, <3>5 DEF HttpInv
  <2> QED BY <2>5, <2>6, <2>8
<1>2. CASE InstallNext(t) /\ script[t].at = 1
  <2>1. /\ script[t].op = "install" /\ script[t].at = 1
        /\ UNCHANGED <<lock, recs>> /\ GoOn(t, "install", 2, None)
        /\ orig' = [orig EXCEPT !["urllib"] = attr["urllib"]] /\ SetAttr("urllib", "wrapper")
    BY <1>2 DEF InstallNext, InstallLib
  <2>2. /\ script'[t] = [op |-> "install", at |-> 2, rec |-> None]
        /\ script' \in [Threads -> Scripts] /\ raced' \in BOOLEAN
        /\ \A u \in Threads : u # t => script'[u] = script[u]
        /\ ~raced' => ~raced
    BY <1>00, <1>02, <2>1, ScriptGoesOn
  <2>3. /\ attr'["urllib"] = "wrapper" /\ bound'["urllib"] = bound["urllib"] \union {"wrapper"}
        /\ \A m \in Patched : m # "urllib" => attr'[m] = attr[m] /\ bound'[m] = bound[m]
        /\ attr' \in [Patched -> {"original", "wrapper", None}]
        /\ bound' \in [Patched -> SUBSET {"original", "wrapper", None}]
        /\ \A m \in Patched : attr'[m] \in bound'[m]
    BY <1>0, <2>1, AttributeSet
  <2>4. AsBefore("urllib") /\ AsBefore("send") /\ lock = t
    BY <1>00, <2>1 DEF HttpInv
  <2>5. /\ orig' \in [Patched -> {"original", "wrapper", None}] /\ orig'["urllib"] = "original"
        /\ \A m \in Patched : m # "urllib" => orig'[m] = orig[m]
    BY <1>0, <2>1, <2>4 DEF PatchTypes, AsBefore
  <2>6. PatchTypes'
    BY <2>1, <2>2, <2>3, <2>5 DEF PatchTypes
  <2>7. McpInv'
    BY <1>0, <1>00, <2>1, <2>2, <2>3, <2>5, McpStays DEF Http
  <2>8. HttpInv'
    <3>1. \A u \in Threads : lock' = u <=> script'[u].op \in OnHttp
      BY <1>00, <2>1, <2>2 DEF HttpInv
    <3>2. \A u \in Threads : u # t => script'[u].op \notin OnHttp
      BY <1>00, <2>1, <2>2, LockExcludes
    <3>3. Intercepted("urllib")' /\ AsBefore("send")'
      BY <1>0, <2>3, <2>4, <2>5 DEF AsBefore, Intercepted
    <3>4. \A l \in Http : bound'[l] \subseteq {"original", "wrapper"}
      BY <1>0, <2>3 DEF HttpInv
    <3>5. script'[t].op = "install" /\ script'[t].at = 2
      BY <2>2
    <3>6. recs'.http # None
      BY <1>00, <2>1 DEF HttpInv
    <3> QED BY <1>00, <1>03, <2>1, <2>4, <3>1, <3>2, <3>3, <3>4, <3>5, <3>6 DEF HttpInv
  <2> QED BY <2>6, <2>7, <2>8
<1>3. CASE InstallNext(t) /\ script[t].at = 2
  <2>1. /\ script[t].op = "install" /\ script[t].at = 2
        /\ UNCHANGED recs /\ Done(t) /\ lock' = None
        /\ orig' = [orig EXCEPT !["send"] = attr["send"]] /\ SetAttr("send", "wrapper")
    BY <1>3 DEF InstallNext, InstallLib
  <2>2. /\ script'[t] = NoScript /\ script' \in [Threads -> Scripts] /\ raced' = raced
        /\ \A u \in Threads : u # t => script'[u] = script[u]
    BY <2>1, ScriptEnds
  <2>3. /\ attr'["send"] = "wrapper" /\ bound'["send"] = bound["send"] \union {"wrapper"}
        /\ \A m \in Patched : m # "send" => attr'[m] = attr[m] /\ bound'[m] = bound[m]
        /\ attr' \in [Patched -> {"original", "wrapper", None}]
        /\ bound' \in [Patched -> SUBSET {"original", "wrapper", None}]
        /\ \A m \in Patched : attr'[m] \in bound'[m]
    BY <1>0, <2>1, AttributeSet
  <2>4. Intercepted("urllib") /\ AsBefore("send") /\ recs.http # None
    BY <1>00, <2>1 DEF HttpInv
  <2>5. /\ orig' \in [Patched -> {"original", "wrapper", None}] /\ orig'["send"] = "original"
        /\ \A m \in Patched : m # "send" => orig'[m] = orig[m]
    BY <1>0, <2>1, <2>4 DEF PatchTypes, AsBefore
  <2>6. PatchTypes'
    BY <2>1, <2>2, <2>3, <2>5 DEF PatchTypes, NoneOr
  <2>7. script'[t].op = None
    BY <2>2 DEF NoScript
  <2>8. McpInv'
    BY <1>0, <1>00, <2>1, <2>2, <2>3, <2>5, <2>7, McpStays DEF Http
  <2>9. HttpInv'
    <3>1. \A u \in Threads : script'[u].op \notin OnHttp
      BY <1>00, <2>1, <2>2, <2>7, LockExcludes
    <3>2. Intercepted("urllib")' /\ Intercepted("send")'
      BY <1>0, <2>3, <2>4, <2>5 DEF Intercepted
    <3>3. \A l \in Http : bound'[l] \subseteq {"original", "wrapper"}
      BY <1>0, <2>3 DEF HttpInv
    <3>4. \A u \in Threads : lock' # u
      BY <2>1, NoneIsNone
    <3> QED BY <1>00, <2>1, <2>4, <3>1, <3>2, <3>3, <3>4 DEF HttpInv
  <2> QED BY <2>6, <2>8, <2>9
<1>4. CASE UninstallHttpInterceptor(t)
  <2>1. /\ lock = None /\ lock' = t /\ Idle(t) /\ UNCHANGED recs
        /\ orig["urllib"] # None /\ SetAttr("urllib", orig["urllib"])
        /\ orig' = [orig EXCEPT !["urllib"] = None] /\ GoOn(t, "uninstall", 1, None)
    BY <1>4 DEF UninstallHttpInterceptor, UninstallLib
  <2>2. /\ script'[t] = [op |-> "uninstall", at |-> 1, rec |-> None]
        /\ script' \in [Threads -> Scripts] /\ raced' \in BOOLEAN
        /\ \A u \in Threads : u # t => script'[u] = script[u]
        /\ ~raced' => ~raced
    BY <1>00, <1>02, <2>1, ScriptGoesOn
  <2>3. Intercepted("urllib") /\ Intercepted("send") /\ recs.http # None
    BY <2>1 DEF HttpInv, AsBefore
  <2>4. /\ attr'["urllib"] = "original" /\ bound'["urllib"] = bound["urllib"] \union {"original"}
        /\ \A m \in Patched : m # "urllib" => attr'[m] = attr[m] /\ bound'[m] = bound[m]
        /\ attr' \in [Patched -> {"original", "wrapper", None}]
        /\ bound' \in [Patched -> SUBSET {"original", "wrapper", None}]
        /\ \A m \in Patched : attr'[m] \in bound'[m]
    <3>1. SetAttr("urllib", "original")
      BY <2>1, <2>3 DEF Intercepted
    <3> QED BY <1>0, <3>1, AttributeSet
  <2>5. /\ orig' \in [Patched -> {"original", "wrapper", None}] /\ orig'["urllib"] = None
        /\ \A m \in Patched : m # "urllib" => orig'[m] = orig[m]
    BY <1>0, <2>1 DEF PatchTypes
  <2>6. PatchTypes'
    BY <2>1, <2>2, <2>4, <2>5 DEF PatchTypes, NoneOr
  <2>7. McpInv'
    BY <1>0, <1>00, <1>01, <2>1, <2>2, <2>4, <2>5, McpStays DEF Http
  <2>8. HttpInv'
    <3>1. \A u \in Threads : lock' = u <=> script'[u].op \in OnHttp
      BY <1>00, <2>1, <2>2, LockExcludes
    <3>2. \A u \in Threads : u # t => script'[u].op \notin OnHttp
      BY <2>1, <2>2, LockExcludes
    <3>3. AsBefore("urllib")' /\ Intercepted("send")'
      BY <1>0, <2>3, <2>4, <2>5 DEF AsBefore, Intercepted
    <3>4. \A l \in Http : bound'[l] \subseteq {"original", "wrapper"}
      BY <1>0, <2>4 DEF HttpInv
    <3>5. script'[t].op = "uninstall"
      BY <2>2
    <3> QED BY <1>00, <1>03, <2>1, <2>3, <3>1, <3>2, <3>3, <3>4, <3>5 DEF HttpInv
  <2> QED BY <2>6, <2>7, <2>8
<1>5. CASE UninstallNext(t)
  <2>1. /\ script[t].op = "uninstall" /\ Done(t) /\ lock' = None
        /\ recs' = [recs EXCEPT !.http = None] /\ SetAttr("send", orig["send"])
        /\ orig' = [orig EXCEPT !["send"] = None]
    BY <1>5 DEF UninstallNext, UninstallLib
  <2>2. /\ script'[t] = NoScript /\ script' \in [Threads -> Scripts] /\ raced' = raced
        /\ \A u \in Threads : u # t => script'[u] = script[u]
    BY <2>1, ScriptEnds
  <2>3. AsBefore("urllib") /\ Intercepted("send")
    BY <1>00, <2>1 DEF HttpInv
  <2>4. /\ attr'["send"] = "original" /\ bound'["send"] = bound["send"] \union {"original"}
        /\ \A m \in Patched : m # "send" => attr'[m] = attr[m] /\ bound'[m] = bound[m]
        /\ attr' \in [Patched -> {"original", "wrapper", None}]
        /\ bound' \in [Patched -> SUBSET {"original", "wrapper", None}]
        /\ \A m \in Patched : attr'[m] \in bound'[m]
    <3>1. SetAttr("send", "original")
      BY <2>1, <2>3 DEF Intercepted
    <3> QED BY <1>0, <3>1, AttributeSet
  <2>5. /\ orig' \in [Patched -> {"original", "wrapper", None}] /\ orig'["send"] = None
        /\ \A m \in Patched : m # "send" => orig'[m] = orig[m]
    BY <1>0, <2>1 DEF PatchTypes
  <2>6. /\ recs' \in [{"http", "mcp", "default"} -> NoneOr(Recorders)]
        /\ recs'.http = None /\ recs'.mcp = recs.mcp
    BY <2>1 DEF PatchTypes, NoneOr
  <2>7. PatchTypes'
    BY <2>1, <2>2, <2>4, <2>5, <2>6 DEF PatchTypes, NoneOr
  <2>8. script'[t].op = None
    BY <2>2 DEF NoScript
  <2>9. McpInv'
    BY <1>0, <1>00, <2>1, <2>2, <2>4, <2>5, <2>6, <2>8, McpStays DEF Http
  <2>10. HttpInv'
    <3>1. \A u \in Threads : script'[u].op \notin OnHttp
      BY <1>00, <2>1, <2>2, <2>8, LockExcludes
    <3>2. AsBefore("urllib")' /\ AsBefore("send")'
      BY <1>0, <2>3, <2>4, <2>5 DEF AsBefore
    <3>3. \A l \in Http : bound'[l] \subseteq {"original", "wrapper"}
      BY <1>0, <2>4 DEF HttpInv
    <3>4. \A u \in Threads : lock' # u
      BY <2>1, NoneIsNone
    <3> QED BY <1>00, <2>1, <2>6, <3>1, <3>2, <3>3, <3>4 DEF HttpInv
  <2> QED BY <2>7, <2>9, <2>10
<1> QED BY <1>1, <1>2, <1>3, <1>4, <1>5 DEF Install, Uninstall, InstallNext

(* The steps on MCP keep both patches where the scripts say. *)
LEMMA McpSteps ==
  ASSUME PatchesInv, NEW t \in Threads, Patch(t) \/ Unpatch(t) PROVE PatchesInv'
<1> USE DEF PatchesInv
<1>0. "mcp" \in Patched /\ \A l \in Http : l \in Patched /\ l # "mcp"
  BY DEF Http, Patched
<1>00. /\ "patch" \in OnMcp /\ "unpatch" \in OnMcp
       /\ "patch" \notin OnHttp /\ "unpatch" \notin OnHttp
       /\ None \notin OnHttp /\ None \notin OnMcp
       /\ "patch" # None /\ "unpatch" # None
  BY DEF OnHttp, OnMcp, None
<1>01. Idle(t) => script[t].op = None
  BY DEF Idle, NoScript
<1>02. /\ \A r \in Recorders : [op |-> "patch", at |-> 1, rec |-> r] \in Scripts
       /\ [op |-> "patch", at |-> 2, rec |-> None] \in Scripts
       /\ [op |-> "unpatch", at |-> 1, rec |-> None] \in Scripts
       /\ [op |-> "unpatch", at |-> 2, rec |-> None] \in Scripts
  BY DEF Scripts
<1>1. CASE PatchMcpClient(t)
  <2>1. /\ Idle(t) /\ orig["mcp"] = None /\ UNCHANGED <<attr, bound, orig, recs, lock>>
        /\ \E r \in Recorders : GoOn(t, "patch", 1, r)
    BY <1>1 DEF PatchMcpClient
  <2>2. PICK r \in Recorders : GoOn(t, "patch", 1, r)
    BY <2>1
  <2>3. /\ script'[t] = [op |-> "patch", at |-> 1, rec |-> r]
        /\ script' \in [Threads -> Scripts] /\ raced' \in BOOLEAN
        /\ \A u \in Threads : u # t => script'[u] = script[u]
        /\ ~raced' => ~raced /\ \A u \in Threads : u # t => script[u].op \notin OnMcp
    BY <1>00, <1>02, <2>2, ScriptGoesOn
  <2>4. script'[t].op = "patch" /\ script'[t].at = 1
    BY <2>3
  <2>5. PatchTypes'
    BY <2>1, <2>3 DEF PatchTypes
  <2>6. HttpInv'
    BY <1>00, <1>01, <2>1, <2>3, <2>4, HttpStays
  <2>7. ASSUME ~raced' PROVE McpAgrees'
    <3>1. McpAgrees /\ \A u \in Threads : script[u].op \notin OnMcp
      BY <1>00, <1>01, <2>1, <2>3, <2>7 DEF McpInv
    <3>2. AsBefore("mcp") /\ recs.mcp = None
      BY <2>1, <3>1 DEF McpAgrees, Intercepted, None
    <3>3. \A u \in Threads : u # t => script'[u].op \notin OnMcp
      BY <2>3, <3>1
    <3> QED BY <1>00, <2>1, <2>4, <3>1, <3>2, <3>3 DEF McpAgrees, AsBefore
  <2> QED BY <2>5, <2>6, <2>7 DEF McpInv
<1>2. CASE PatchNext(t) /\ script[t].at = 1
  <2>1. /\ script[t].op = "patch" /\ script[t].at = 1 /\ UNCHANGED <<attr, bound, lock>>
        /\ orig' = [orig EXCEPT !["mcp"] = attr["mcp"]]
        /\ recs' = [recs EXCEPT !.mcp = script[t].rec]
        /\ GoOn(t, "patch", 2, None)
    BY <1>2 DEF PatchNext
  <2>2. /\ script'[t] = [op |-> "patch", at |-> 2, rec |-> None]
        /\ script' \in [Threads -> Scripts] /\ raced' \in BOOLEAN
        /\ \A u \in Threads : u # t => script'[u] = script[u]
        /\ ~raced' => ~raced /\ \A u \in Threads : u # t => script[u].op \notin OnMcp
    BY <1>00, <1>02, <2>1, ScriptGoesOn
  <2>3. script'[t].op = "patch" /\ script'[t].at = 2
    BY <2>2
  <2>4. script[t].rec \in Recorders
    <3>1. script[t] \in Scripts
      BY DEF PatchTypes
    <3> QED BY <2>1, <3>1 DEF Scripts, None
  <2>5. /\ recs' \in [{"http", "mcp", "default"} -> NoneOr(Recorders)]
        /\ recs'.http = recs.http /\ recs'.mcp = script[t].rec /\ recs'.mcp # None
    BY <2>1, <2>4, NoneIsNone DEF PatchTypes, NoneOr
  <2>6. /\ orig' \in [Patched -> {"original", "wrapper", None}] /\ orig'["mcp"] = attr["mcp"]
        /\ \A m \in Patched : m # "mcp" => orig'[m] = orig[m]
    BY <1>0, <2>1 DEF PatchTypes
  <2>7. PatchTypes'
    BY <2>1, <2>2, <2>5, <2>6 DEF PatchTypes
  <2>8. HttpInv'
    BY <1>0, <1>00, <2>1, <2>2, <2>3, <2>5, <2>6, HttpStays
  <2>9. ASSUME ~raced' PROVE McpAgrees'
    <3>1. McpAgrees /\ \A u \in Threads : u # t => script'[u].op \notin OnMcp
      BY <2>2, <2>9 DEF McpInv
    <3>2. AsBefore("mcp")
      BY <2>1, <3>1 DEF McpAgrees
    <3>3. attr'["mcp"] = "original" /\ orig'["mcp"] = "original"
      BY <2>1, <2>6, <3>2 DEF AsBefore
    <3>4. bound'["mcp"] \subseteq {"original", "wrapper"}
      BY <2>1, <3>1 DEF McpAgrees
    <3> QED BY <1>00, <2>3, <2>5, <3>1, <3>3, <3>4 DEF McpAgrees
  <2> QED BY <2>7, <2>8, <2>9 DEF McpInv
<1>3. CASE PatchNext(t) /\ script[t].at = 2
  <2>1. /\ script[t].op = "patch" /\ script[t].at = 2 /\ UNCHANGED <<orig, recs, lock>>
        /\ SetAttr("mcp", "wrapper") /\ Done(t)
    BY <1>3 DEF PatchNext
  <2>2. /\ script'[t] = NoScript /\ script' \in [Threads -> Scripts] /\ raced' = raced
        /\ \A u \in Threads : u # t => script'[u] = script[u]
    BY <2>1, ScriptEnds
  <2>3. script'[t].op = None
    BY <2>2 DEF NoScript
  <2>4. /\ attr'["mcp"] = "wrapper" /\ bound'["mcp"] = bound["mcp"] \union {"wrapper"}
        /\ \A m \in Patched : m # "mcp" => attr'[m] = attr[m] /\ bound'[m] = bound[m]
        /\ attr' \in [Patched -> {"original", "wrapper", None}]
        /\ bound' \in [Patched -> SUBSET {"original", "wrapper", None}]
        /\ \A m \in Patched : attr'[m] \in bound'[m]
    BY <1>0, <2>1, AttributeSet
  <2>5. PatchTypes'
    BY <2>1, <2>2, <2>4 DEF PatchTypes
  <2>6. HttpInv'
    BY <1>0, <1>00, <2>1, <2>2, <2>3, <2>4, HttpStays
  <2>7. ASSUME ~raced' PROVE McpAgrees'
    <3>1. McpAgrees
      BY <2>2, <2>7 DEF McpInv
    <3>2. \A u \in Threads : script'[u].op \notin OnMcp
      BY <1>00, <2>1, <2>2, <2>3, <3>1 DEF McpAgrees
    <3>3. Intercepted("mcp")' /\ recs'.mcp # None
      BY <2>1, <2>4, <3>1 DEF McpAgrees, Intercepted
    <3>4. bound'["mcp"] \subseteq {"original", "wrapper"} /\ orig'["mcp"] # "wrapper"
      BY <2>1, <2>4, <3>1 DEF McpAgrees
    <3> QED BY <1>00, <3>2, <3>3, <3>4 DEF McpAgrees
  <2> QED BY <2>5, <2>6, <2>7 DEF McpInv
<1>4. CASE UnpatchMcpClient(t)
  <2>1. /\ Idle(t) /\ orig["mcp"] # None /\ UNCHANGED <<attr, bound, orig, recs, lock>>
        /\ GoOn(t, "unpatch", 1, None)
    BY <1>4 DEF UnpatchMcpClient
  <2>2. /\ script'[t] = [op |-> "unpatch", at |-> 1, rec |-> None]
        /\ script' \in [Threads -> Scripts] /\ raced' \in BOOLEAN
        /\ \A u \in Threads : u # t => script'[u] = script[u]
        /\ ~raced' => ~raced /\ \A u \in Threads : u # t => script[u].op \notin OnMcp
    BY <1>00, <1>02, <2>1, ScriptGoesOn
  <2>3. script'[t].op = "unpatch" /\ script'[t].at = 1
    BY <2>2
  <2>4. PatchTypes'
    BY <2>1, <2>2 DEF PatchTypes
  <2>5. HttpInv'
    BY <1>00, <1>01, <2>1, <2>2, <2>3, HttpStays
  <2>6. ASSUME ~raced' PROVE McpAgrees'
    <3>1. McpAgrees /\ \A u \in Threads : script[u].op \notin OnMcp
      BY <1>00, <1>01, <2>1, <2>2, <2>6 DEF McpInv
    <3>2. Intercepted("mcp") /\ recs.mcp # None
      BY <2>1, <3>1 DEF McpAgrees, AsBefore
    <3>3. \A u \in Threads : u # t => script'[u].op \notin OnMcp
      BY <2>2, <3>1
    <3> QED BY <1>00, <2>1, <2>3, <3>1, <3>2, <3>3 DEF McpAgrees, Intercepted
  <2> QED BY <2>4, <2>5, <2>6 DEF McpInv
<1>5. CASE UnpatchNext(t) /\ script[t].at = 1
  <2>1. /\ script[t].op = "unpatch" /\ script[t].at = 1 /\ UNCHANGED <<orig, recs, lock>>
        /\ SetAttr("mcp", orig["mcp"]) /\ GoOn(t, "unpatch", 2, None)
    BY <1>5 DEF UnpatchNext
  <2>2. /\ script'[t] = [op |-> "unpatch", at |-> 2, rec |-> None]
        /\ script' \in [Threads -> Scripts] /\ raced' \in BOOLEAN
        /\ \A u \in Threads : u # t => script'[u] = script[u]
        /\ ~raced' => ~raced /\ \A u \in Threads : u # t => script[u].op \notin OnMcp
    BY <1>00, <1>02, <2>1, ScriptGoesOn
  <2>3. script'[t].op = "unpatch" /\ script'[t].at = 2
    BY <2>2
  <2>4. /\ attr'["mcp"] = orig["mcp"] /\ bound'["mcp"] = bound["mcp"] \union {orig["mcp"]}
        /\ \A m \in Patched : m # "mcp" => attr'[m] = attr[m] /\ bound'[m] = bound[m]
        /\ attr' \in [Patched -> {"original", "wrapper", None}]
        /\ bound' \in [Patched -> SUBSET {"original", "wrapper", None}]
        /\ \A m \in Patched : attr'[m] \in bound'[m]
    <3>1. orig["mcp"] \in {"original", "wrapper", None}
      BY <1>0 DEF PatchTypes
    <3> QED BY <1>0, <2>1, <3>1, AttributeSet
  <2>5. PatchTypes'
    BY <2>1, <2>2, <2>4 DEF PatchTypes
  <2>6. HttpInv'
    BY <1>0, <1>00, <2>1, <2>2, <2>3, <2>4, HttpStays
  <2>7. ASSUME ~raced' PROVE McpAgrees'
    <3>1. McpAgrees /\ \A u \in Threads : u # t => script'[u].op \notin OnMcp
      BY <2>2, <2>7 DEF McpInv
    <3>2. Intercepted("mcp") /\ recs.mcp # None
      BY <2>1, <3>1 DEF McpAgrees
    <3>3. attr'["mcp"] = "original" /\ orig'["mcp"] = "original" /\ recs'.mcp # None
      BY <2>1, <2>4, <3>2 DEF Intercepted
    <3>4. bound'["mcp"] \subseteq {"original", "wrapper"}
      BY <2>4, <3>1, <3>2 DEF McpAgrees, Intercepted
    <3> QED BY <1>00, <2>3, <3>1, <3>3, <3>4 DEF McpAgrees
  <2> QED BY <2>5, <2>6, <2>7 DEF McpInv
<1>6. CASE UnpatchNext(t) /\ script[t].at = 2
  <2>1. /\ script[t].op = "unpatch" /\ script[t].at = 2 /\ UNCHANGED <<attr, bound, lock>>
        /\ orig' = [orig EXCEPT !["mcp"] = None] /\ recs' = [recs EXCEPT !.mcp = None] /\ Done(t)
    BY <1>6 DEF UnpatchNext
  <2>2. /\ script'[t] = NoScript /\ script' \in [Threads -> Scripts] /\ raced' = raced
        /\ \A u \in Threads : u # t => script'[u] = script[u]
    BY <2>1, ScriptEnds
  <2>3. script'[t].op = None
    BY <2>2 DEF NoScript
  <2>4. /\ recs' \in [{"http", "mcp", "default"} -> NoneOr(Recorders)]
        /\ recs'.http = recs.http /\ recs'.mcp = None
    BY <2>1 DEF PatchTypes, NoneOr
  <2>5. /\ orig' \in [Patched -> {"original", "wrapper", None}] /\ orig'["mcp"] = None
        /\ \A m \in Patched : m # "mcp" => orig'[m] = orig[m]
    BY <1>0, <2>1 DEF PatchTypes
  <2>6. PatchTypes'
    BY <2>1, <2>2, <2>4, <2>5 DEF PatchTypes
  <2>7. HttpInv'
    BY <1>0, <1>00, <2>1, <2>2, <2>3, <2>4, <2>5, HttpStays
  <2>8. ASSUME ~raced' PROVE McpAgrees'
    <3>1. McpAgrees
      BY <2>2, <2>8 DEF McpInv
    <3>2. \A u \in Threads : script'[u].op \notin OnMcp
      BY <1>00, <2>1, <2>2, <2>3, <3>1 DEF McpAgrees
    <3>3. AsBefore("mcp")' /\ recs'.mcp = None
      BY <2>1, <2>4, <2>5, <3>1 DEF McpAgrees, AsBefore
    <3>4. bound'["mcp"] \subseteq {"original", "wrapper"} /\ orig'["mcp"] # "wrapper"
      BY <2>1, <2>5, <3>1 DEF McpAgrees, None
    <3> QED BY <1>00, <3>2, <3>3, <3>4 DEF McpAgrees
  <2> QED BY <2>6, <2>7, <2>8 DEF McpInv
<1> QED BY <1>1, <1>2, <1>3, <1>4, <1>5, <1>6 DEF Patch, Unpatch, PatchNext, UnpatchNext

(* Every step on the patches keeps them, and leaves the calls to be        *)
(* disturbed.                                                              *)
LEMMA PatchesStep ==
  ASSUME PatchesInv, NEW t \in Threads, Patches(t)
  PROVE  PatchesInv' /\ Quiet
<1>1. PatchesInv'
  BY DefaultSets, HttpSteps, McpSteps DEF Patches
<1>2. SetDefaultRecorder(t) => Quiet
  BY DEF SetDefaultRecorder
<1>3. Install(t) => Quiet
  BY DEF Install, InstallHttpInterceptor, InstallNext, InstallLib
<1>4. Uninstall(t) => Quiet
  BY DEF Uninstall, UninstallHttpInterceptor, UninstallNext
<1>5. Patch(t) => Quiet
  BY DEF Patch, PatchMcpClient, PatchNext
<1>6. Unpatch(t) => Quiet
  BY DEF Unpatch, UnpatchMcpClient, UnpatchNext
<1> QED BY <1>1, <1>2, <1>3, <1>4, <1>5, <1>6 DEF Patches

-----------------------------------------------------------------------------
(* One call, as its wrapper goes on.                                       *)

(* How a call can look to its caller.                                      *)
Ends == Outcomes \union {None, "refused", "writer raised"}

(* Fields of a call that are set when it begins. *)
SameCallee(f, g) == g.kind = f.kind /\ g.fn = f.fn /\ g.rec = f.rec

(* A call that comes to an end, or to a step, is still one. *)
LEMMA FrameGoesOn ==
  ASSUME NEW f \in Frames, NEW step \in Steps
  PROVE  LET g == [f EXCEPT !.step = step]
         IN  /\ g \in Frames /\ SameCallee(f, g) /\ g.step = step
             /\ g.wrapped = f.wrapped /\ g.outcome = f.outcome /\ g.seen = f.seen
             /\ g.recorded = f.recorded /\ g.missed = f.missed /\ g.uses = f.uses
BY DEF Frames, SameCallee

(* A call whose wrapper has been entered.                                  *)
LEMMA FrameWrapped ==
  ASSUME NEW f \in Frames
  PROVE  LET g == [f EXCEPT !.wrapped = TRUE]
         IN  /\ g \in Frames /\ SameCallee(f, g) /\ g.step = f.step
             /\ g.wrapped /\ g.outcome = f.outcome /\ g.seen = f.seen
             /\ g.recorded = f.recorded /\ g.missed = f.missed /\ g.uses = f.uses
BY DEF Frames, SameCallee

(* A call that is refused. *)
LEMMA FrameRefused ==
  ASSUME NEW f \in Frames, NEW step \in Steps
  PROVE  /\ Refused(f, step) \in Frames /\ SameCallee(f, Refused(f, step))
         /\ Refused(f, step).step = step /\ Refused(f, step).wrapped = f.wrapped
         /\ Refused(f, step).outcome = "refused" /\ Refused(f, step).seen = "refused"
         /\ Refused(f, step).recorded = f.recorded /\ Refused(f, step).missed = f.missed
         /\ Refused(f, step).uses = f.uses
BY DEF Frames, SameCallee, Refused

(* One more iteration of a stream. *)
LEMMA FrameIterates ==
  ASSUME NEW f \in Frames, NEW o \in Ends
  PROVE  LET g == [f EXCEPT !.uses = @ + 1, !.outcome = o, !.seen = o, !.step = "record"]
         IN  /\ g \in Frames /\ SameCallee(f, g) /\ g.step = "record"
             /\ g.wrapped = f.wrapped /\ g.outcome = o /\ g.seen = o
             /\ g.recorded = f.recorded /\ g.missed = f.missed /\ g.uses = f.uses + 1
<1>1. PICK n \in Nat : n = f.uses + 1
  <2>1. f.uses \in Nat
    BY DEF Frames
  <2>2. f.uses + 1 \in Nat
    BY <2>1
  <2> QED BY <2>2
<1>2. [f EXCEPT !.uses = @ + 1, !.outcome = o, !.seen = o, !.step = "record"]
        = [f EXCEPT !.uses = n, !.outcome = o, !.seen = o, !.step = "record"]
  BY <1>1
<1> DEFINE g == [f EXCEPT !.uses = n, !.outcome = o, !.seen = o, !.step = "record"]
<1>3. g \in Frames /\ SameCallee(f, g) /\ g.step = "record"
      /\ g.wrapped = f.wrapped /\ g.outcome = o /\ g.seen = o
      /\ g.recorded = f.recorded /\ g.missed = f.missed /\ g.uses = n
  BY DEF Frames, SameCallee, Ends, Steps
<1> QED BY <1>1, <1>2, <1>3

(* A call with one record more, which is being written. *)
Recording(f, r, status) ==
  [f EXCEPT !.recorded = Append(@, [by |-> r, status |-> status]), !.step = "recording"]

(* All that has become of the call f in g. *)
BecomesRecording(f, g, r, status) ==
  /\ g \in Frames /\ SameCallee(f, g) /\ g.step = "recording"
  /\ g.wrapped = f.wrapped /\ g.outcome = f.outcome /\ g.seen = f.seen
  /\ g.recorded = Append(f.recorded, [by |-> r, status |-> status])
  /\ g.missed = f.missed /\ g.uses = f.uses

(* A call is being recorded. *)
LEMMA FrameRecords ==
  ASSUME NEW f \in Frames, NEW r \in Recorders, NEW status \in {"success", "error"},
         NEW g, g = Recording(f, r, status)
  PROVE  BecomesRecording(f, g, r, status)
<1> DEFINE R == [by: Recorders, status: {"success", "error"}]
<1>1. f.recorded \in Seq(R) /\ [by |-> r, status |-> status] \in R
  BY DEF Frames
<1>2. PICK rs \in Seq(R) : rs = Append(f.recorded, [by |-> r, status |-> status])
  <2>1. ASSUME NEW S, NEW q \in Seq(S), NEW e \in S PROVE Append(q, e) \in Seq(S)
    OBVIOUS
  <2>2. Append(f.recorded, [by |-> r, status |-> status]) \in Seq(R)
    <3> HIDE DEF R
    <3> QED BY <1>1, <2>1
  <2> HIDE DEF R
  <2> QED BY <2>2
<1>3. g = [f EXCEPT !.recorded = rs, !.step = "recording"]
  BY <1>2 DEF Recording
<1>4. g \in Frames /\ SameCallee(f, g) /\ g.step = "recording"
      /\ g.wrapped = f.wrapped /\ g.outcome = f.outcome /\ g.seen = f.seen
      /\ g.recorded = rs /\ g.missed = f.missed /\ g.uses = f.uses
  BY <1>3 DEF Frames, SameCallee, Steps
<1> QED BY <1>2, <1>4 DEF BecomesRecording

(* The inner one of two wrappers begins with no record. *)
LEMMA FrameUnrecorded ==
  ASSUME NEW f \in Frames
  PROVE  LET g == [f EXCEPT !.recorded = <<>>]
         IN  g \in Frames /\ g.kind = f.kind /\ g.step = f.step
<1> DEFINE R == [by: Recorders, status: {"success", "error"}]
<1>1. <<>> \in Seq(R)
  OBVIOUS
<1> HIDE DEF R
<1> QED BY <1>1 DEF Frames, R

-----------------------------------------------------------------------------
(* The calls of one thread, as a sequence, and its flag.                   *)

(* The call on top goes on: the flag follows the recording of HTTP calls,  *)
(* and a call above one that is being recorded stays unintercepted.        *)
LEMMA StackReplaced ==
  ASSUME NEW s, NEW b, StackFits(s, b), s # <<>>, NEW g \in Frames,
         b /\ Unintercepted(s[Len(s)]) => Unintercepted(g),
         NEW c \in BOOLEAN,
         c <=> RecordsHttp(g) \/ (b /\ ~RecordsHttp(s[Len(s)]))
  PROVE  /\ StackFits([s EXCEPT ![Len(s)] = g], c)
         /\ Len([s EXCEPT ![Len(s)] = g]) = Len(s)
         /\ [s EXCEPT ![Len(s)] = g][Len(s)] = g
         /\ \A i \in 1..Len(s) : i # Len(s) => [s EXCEPT ![Len(s)] = g][i] = s[i]
<1>1. s \in Seq(Frames) /\ Len(s) \in Nat /\ Len(s) \in 1..Len(s)
  BY DEF StackFits
<1> DEFINE q == [s EXCEPT ![Len(s)] = g]
<1>2. q \in Seq(Frames) /\ Len(q) = Len(s) /\ q[Len(s)] = g
      /\ \A i \in 1..Len(s) : i # Len(s) => q[i] = s[i]
  BY <1>1, ExceptSeq
<1> HIDE DEF q
<1>3. Len(q) <= MaxDepth
      /\ \A i \in 1..Len(q) : i < Len(q) => q[i].step \in {"running", "recording", "inner"}
  BY <1>1, <1>2 DEF StackFits
<1>4. ASSUME RecordsHttp(g)
     PROVE  StackFits(q, c)
  <2>1. ~(b /\ Unintercepted(s[Len(s)]))
    BY <1>4 DEF Unintercepted, RecordsHttp
  <2>2. \A i \in 1..Len(s) : i # Len(s) => ~RecordsHttp(s[i])
    BY <1>1, <2>1 DEF StackFits
  <2> QED BY <1>1, <1>2, <1>3, <1>4, <2>2 DEF StackFits
<1>5. ASSUME ~RecordsHttp(g) /\ RecordsHttp(s[Len(s)])
     PROVE  StackFits(q, c)
  <2>1. ~Unintercepted(s[Len(s)])
    BY <1>5 DEF Unintercepted, RecordsHttp
  <2>2. \A i \in 1..Len(s) : i # Len(s) => ~RecordsHttp(s[i])
    BY <1>1, <2>1 DEF StackFits
  <2>3. c = FALSE
    BY <1>5
  <2> QED BY <1>1, <1>2, <1>3, <1>5, <2>2, <2>3 DEF StackFits
<1>6. ASSUME ~RecordsHttp(g) /\ ~RecordsHttp(s[Len(s)])
     PROVE  StackFits(q, c)
  <2>1. c <=> b
    BY <1>6
  <2>2. c <=> \E i \in 1..Len(q) : RecordsHttp(q[i])
    BY <1>1, <1>2, <1>6, <2>1 DEF StackFits
  <2>3. \A i \in 1..Len(q) : RecordsHttp(q[i]) =>
          Len(q) = i \/ (Len(q) = i + 1 /\ Unintercepted(q[Len(q)]))
    <3> SUFFICES ASSUME NEW i \in 1..Len(q), RecordsHttp(q[i])
                 PROVE  Len(q) = i + 1 /\ Unintercepted(q[Len(q)])
      OBVIOUS
    <3>1. i # Len(s) /\ RecordsHttp(s[i])
      BY <1>1, <1>2, <1>6
    <3>2. Len(s) = i + 1 /\ Unintercepted(s[Len(s)]) /\ b
      BY <1>2, <3>1 DEF StackFits
    <3> QED BY <1>2, <3>2
  <2> QED BY <1>2, <1>3, <2>2, <2>3 DEF StackFits
<1>7. StackFits(q, c)
  BY <1>4, <1>5, <1>6
<1> QED BY <1>2, <1>7 DEF q

(* A call begins on top of the others. *)
LEMMA StackPushed ==
  ASSUME NEW s, NEW b, StackFits(s, b), NEW g \in Frames, Len(s) < MaxDepth, ~RecordsHttp(g),
         s # <<>> => s[Len(s)].step \in {"running", "recording", "inner"},
         s # <<>> => ~(b /\ Unintercepted(s[Len(s)])),
         s # <<>> /\ RecordsHttp(s[Len(s)]) => Unintercepted(g)
  PROVE  /\ StackFits(Append(s, g), b)
         /\ Len(Append(s, g)) = Len(s) + 1
         /\ Append(s, g)[Len(s) + 1] = g
         /\ \A i \in 1..Len(s) : Append(s, g)[i] = s[i]
<1>1. s \in Seq(Frames) /\ Len(s) \in Nat
  BY DEF StackFits
<1> DEFINE q == Append(s, g)
<1>2. q \in Seq(Frames) /\ Len(q) = Len(s) + 1 /\ q[Len(s) + 1] = g
      /\ \A i \in 1..Len(s) : q[i] = s[i]
  BY <1>1
<1> HIDE DEF q
<1>3. Len(q) <= MaxDepth
  BY <1>1, <1>2, InstrumentationAssumption
<1>4. \A i \in 1..Len(q) : i < Len(q) => q[i].step \in {"running", "recording", "inner"}
  BY <1>1, <1>2 DEF StackFits
<1>5. b <=> \E i \in 1..Len(q) : RecordsHttp(q[i])
  BY <1>1, <1>2 DEF StackFits
<1>6. \A i \in 1..Len(q) : RecordsHttp(q[i]) =>
        Len(q) = i \/ (Len(q) = i + 1 /\ Unintercepted(q[Len(q)]))
  <2> SUFFICES ASSUME NEW i \in 1..Len(q), RecordsHttp(q[i])
               PROVE  Len(q) = i + 1 /\ Unintercepted(q[Len(q)])
    OBVIOUS
  <2>1. i # Len(s) + 1 /\ i \in 1..Len(s) /\ RecordsHttp(s[i]) /\ s # <<>>
    BY <1>1, <1>2
  <2>2. Len(s) = i \/ (Len(s) = i + 1 /\ Unintercepted(s[Len(s)]) /\ b)
    BY <2>1 DEF StackFits
  <2>3. Len(s) = i
    BY <2>1, <2>2
  <2> QED BY <1>2, <2>1, <2>3
<1>7. StackFits(q, b)
  BY <1>2, <1>3, <1>4, <1>5, <1>6 DEF StackFits
<1> QED BY <1>2, <1>7 DEF q

(* What is left of a sequence without its last element. *)
LEMMA FrontOf ==
  ASSUME NEW S, NEW s \in Seq(S), s # <<>>
  PROVE  /\ SubSeq(s, 1, Len(s) - 1) \in Seq(S)
         /\ Len(SubSeq(s, 1, Len(s) - 1)) = Len(s) - 1
         /\ \A i \in 1..(Len(s) - 1) : SubSeq(s, 1, Len(s) - 1)[i] = s[i]
<1>1. PICK m \in Nat : m = Len(s) - 1
  <2>1. Len(s) - 1 \in Nat
    OBVIOUS
  <2> QED BY <2>1
<1>2. \A i \in 1..m : s[i] \in S
  BY <1>1
<1>3. /\ SubSeq(s, 1, m) \in Seq(S)
      /\ Len(SubSeq(s, 1, m)) = IF 1 <= m THEN m - 1 + 1 ELSE 0
      /\ \A i \in 1..(m - 1 + 1) : SubSeq(s, 1, m)[i] = s[1 + i - 1]
  BY <1>2, SubSeqProperties
<1>4. m - 1 + 1 = m
  OBVIOUS
<1>5. m = 0 \/ 1 <= m
  OBVIOUS
<1>6. \A i \in 1..m : 1 + i - 1 = i
  OBVIOUS
<1>7. Len(SubSeq(s, 1, m)) = m
  BY <1>3, <1>4, <1>5
<1>8. \A i \in 1..m : SubSeq(s, 1, m)[i] = s[i]
  BY <1>3, <1>4, <1>6
<1> QED BY <1>1, <1>3, <1>7, <1>8

(* A call returns, and was not being recorded. *)
LEMMA StackPopped ==
  ASSUME NEW s, NEW b, StackFits(s, b), s # <<>>, ~RecordsHttp(s[Len(s)])
  PROVE  /\ StackFits(SubSeq(s, 1, Len(s) - 1), b)
         /\ Len(SubSeq(s, 1, Len(s) - 1)) = Len(s) - 1
         /\ \A i \in 1..(Len(s) - 1) : SubSeq(s, 1, Len(s) - 1)[i] = s[i]
<1>1. s \in Seq(Frames) /\ Len(s) \in Nat /\ Len(s) >= 1
  BY DEF StackFits
<1> DEFINE q == SubSeq(s, 1, Len(s) - 1)
<1>2. q \in Seq(Frames) /\ Len(q) = Len(s) - 1 /\ \A i \in 1..(Len(s) - 1) : q[i] = s[i]
  BY <1>1, FrontOf
<1> HIDE DEF q
<1>3. Len(q) <= MaxDepth
  BY <1>1, <1>2, InstrumentationAssumption DEF StackFits
<1>4. \A i \in 1..Len(q) : i < Len(q) => q[i].step \in {"running", "recording", "inner"}
  BY <1>1, <1>2 DEF StackFits
<1>5. b <=> \E i \in 1..Len(q) : RecordsHttp(q[i])
  BY <1>1, <1>2 DEF StackFits
<1>6. \A i \in 1..Len(q) : RecordsHttp(q[i]) => Len(q) = i
  BY <1>1, <1>2 DEF StackFits
<1>7. StackFits(q, b)
  BY <1>2, <1>3, <1>4, <1>5, <1>6 DEF StackFits
<1> QED BY <1>2, <1>7 DEF q

-----------------------------------------------------------------------------
(* Steps of calls, and what they leave to prove.                           *)

(* What is right of a call stays right while nothing is patched. *)
LEMMA FitsStays ==
  ASSUME NEW t, NEW f, orig' = orig, recs' = recs, t \in disturbed' <=> t \in disturbed,
         Fits(t, f)
  PROVE  Fits(t, f)'
<1>1. SeenFits(t, f)'
  BY DEF Fits, SeenFits, SeenAsGiven
<1>2. RecorderOf(f)' = RecorderOf(f)
  BY DEF RecorderOf
<1>3. Due(f)' = Due(f)
  BY <1>2 DEF Due
<1>4. DueBy(f)' = DueBy(f)
  BY <1>3 DEF DueBy
<1>5. RecordsFit(f) => RecordsFit(f)'
  BY <1>2, <1>4 DEF RecordsFit
<1> QED BY <1>1, <1>5 DEF Fits

(* The calls of one thread change; they fit again if the new ones do.      *)
LEMMA CallsStep ==
  ASSUME StacksInv, CallsInv, UNCHANGED patchVars, NEW t \in Threads, NEW s, NEW up,
         stack' = [stack EXCEPT ![t] = s], flag' = [flag EXCEPT ![t] = up],
         StackFits(s, up),
         disturbed' = IF s = <<>> THEN disturbed \ {t} ELSE disturbed,
         ~raced => \A i \in 1..Len(s) : Fits(t, s[i])
  PROVE  StacksInv' /\ CallsInv'
<1>1. /\ stack' = [u \in Threads |-> stack'[u]] /\ stack'[t] = s
      /\ \A u \in Threads : u # t => stack'[u] = stack[u]
  BY DEF StacksInv
<1>2. up \in BOOLEAN
  BY DEF StackFits
<1>3. /\ flag' \in [Threads -> BOOLEAN] /\ flag'[t] = up
      /\ \A u \in Threads : u # t => flag'[u] = flag[u]
  BY <1>2 DEF StacksInv
<1>4. \A u \in Threads : StackFits(stack'[u], flag'[u])
  BY <1>1, <1>3 DEF StacksInv
<1>5. disturbed' \subseteq Threads /\ \A u \in disturbed' : stack'[u] # <<>>
  BY <1>1 DEF StacksInv
<1>6. StacksInv'
  BY <1>1, <1>3, <1>4, <1>5 DEF StacksInv
<1>7. ASSUME ~raced, NEW u \in Threads, NEW i \in 1..Len(stack'[u])
      PROVE  Fits(u, stack[u][i])'
  <2>1. Fits(u, stack'[u][i])
    BY <1>1, <1>7 DEF CallsInv
  <2>2. s # <<>> \/ u # t
    <3>1. ASSUME s = <<>>, u = t PROVE FALSE
      BY <1>1, <1>7, <3>1
    <3> QED BY <3>1
  <2>3. u \in disturbed' <=> u \in disturbed
    BY <2>2
  <2>4. orig' = orig /\ recs' = recs
    BY DEF patchVars
  <2> QED BY <2>1, <2>3, <2>4, FitsStays
<1>8. CallsInv'
  BY <1>7 DEF CallsInv, patchVars
<1> QED BY <1>6, <1>8

(* The call on top of a thread goes on. *)
LEMMA TopStep ==
  ASSUME StacksInv, CallsInv, UNCHANGED patchVars, disturbed' = disturbed,
         NEW t \in Threads, stack[t] # <<>>, NEW g \in Frames, Becomes(t, g),
         flag[t] /\ Unintercepted(Top(t)) => Unintercepted(g),
         NEW up \in BOOLEAN, flag' = [flag EXCEPT ![t] = up],
         up <=> RecordsHttp(g) \/ (flag[t] /\ ~RecordsHttp(Top(t))),
         ~raced => Fits(t, g)
  PROVE  StacksInv' /\ CallsInv'
<1> DEFINE s == [stack[t] EXCEPT ![Len(stack[t])] = g]
<1>1. StackFits(stack[t], flag[t])
  BY DEF StacksInv
<1>2. /\ StackFits(s, up) /\ Len(s) = Len(stack[t]) /\ s[Len(stack[t])] = g
      /\ \A i \in 1..Len(stack[t]) : i # Len(stack[t]) => s[i] = stack[t][i]
  BY <1>1, StackReplaced DEF Top
<1>3. stack' = [stack EXCEPT ![t] = s]
  BY DEF Becomes
<1> HIDE DEF s
<1>4. s # <<>>
  <2>1. Len(stack[t]) # 0
    BY <1>1 DEF StackFits
  <2> QED BY <1>2, <2>1
<1>5. ~raced => \A i \in 1..Len(s) : Fits(t, s[i])
  BY <1>2 DEF CallsInv
<1> QED BY <1>2, <1>3, <1>4, <1>5, CallsStep

(* The call on top of a thread. *)
LEMMA TopFits ==
  ASSUME StacksInv, CallsInv, NEW t \in Threads, stack[t] # <<>>
  PROVE  /\ Top(t) \in Frames /\ flag[t] \in BOOLEAN /\ (~raced => Fits(t, Top(t)))
         /\ flag' = flag => flag' = [flag EXCEPT ![t] = flag[t]]
         /\ RecordsHttp(Top(t)) => flag[t]
<1>1. StackFits(stack[t], flag[t]) /\ flag \in [Threads -> BOOLEAN]
  BY DEF StacksInv
<1>2. stack[t] \in Seq(Frames) /\ Len(stack[t]) \in 1..Len(stack[t])
  BY <1>1 DEF StackFits
<1>3. RecordsHttp(Top(t)) => flag[t]
  BY <1>1, <1>2 DEF StackFits, Top
<1> QED BY <1>1, <1>2, <1>3 DEF CallsInv, Top

(* Where a call is recorded is settled when it begins. *)
LEMMA SameRecorder ==
  ASSUME NEW f, NEW g, SameCallee(f, g)
  PROVE  /\ RecorderOf(g) = RecorderOf(f)
         /\ Writes(g, RecorderOf(g)) <=> Writes(f, RecorderOf(f))
         /\ WritesDirectly(g) <=> WritesDirectly(f)
<1>1. RecorderOf(g) = RecorderOf(f)
  BY DEF RecorderOf, SameCallee
<1> QED BY <1>1 DEF SameCallee, Writes, Awaits, WritesDirectly

(* What a call that has just been let through, or refused, has recorded. *)
LEMMA EnteredFits ==
  ASSUME NEW t, NEW f \in Frames, NEW g \in Frames, SameCallee(f, g), f.step = "enter", Fits(t, f),
         g.recorded = f.recorded, g.missed = f.missed, g.uses = f.uses,
         \/ g.step = "running" /\ g.outcome = f.outcome /\ g.seen = f.seen
         \/ /\ g.step = "return" /\ g.wrapped = f.wrapped
            /\ g.outcome = "refused" /\ g.seen = "refused"
            /\ g.fn = "wrapper" /\ orig[g.kind] = None
         \/ /\ g.step = "record" /\ g.wrapped
            /\ g.outcome = "refused" /\ g.seen = "refused"
            /\ g.fn = "wrapper" /\ orig[g.kind] = None
  PROVE  Fits(t, g)
<1>1. SeenFits(t, g)
  BY DEF Fits, SeenFits, SeenAsGiven, SameCallee, WritesDirectly
<1>2. ASSUME t \notin disturbed PROVE RecordsFit(g)
  <2>1. RecordsFit(f)
    BY <1>2 DEF Fits
  <2>2. g.recorded = <<>> /\ ~g.missed /\ g.uses = 0 /\ ~f.wrapped /\ g.kind \in Patched
    BY <2>1 DEF RecordsFit, Fits, SeenFits, SeenAsGiven, SameCallee
  <2>3. Len(g.recorded) = 0 /\ DOMAIN g.recorded = {}
    BY <2>2
  <2>4. g.step \in {"running", "record"} => DueBy(g) = 0
    BY <2>2 DEF DueBy
  <2>5. g.step = "record" => Recorded(g.kind, g.outcome) /\ ~AnswerOpensStream(g, g.outcome)
    BY DEF Recorded, AnswerOpensStream
  <2>6. g.step \in {"running", "record"} \/ (g.step = "return" /\ ~g.wrapped)
    BY <2>2
  <2> QED BY <2>2, <2>3, <2>4, <2>5, <2>6 DEF RecordsFit
<1> QED BY <1>1, <1>2 DEF Fits

(* The original is called, or refused to one who was let past the wrapper. *)
LEMMA EnterOriginalStep ==
  ASSUME PatchesInv, StacksInv, CallsInv, NEW t \in Threads, EnterOriginal(t)
  PROVE  StacksInv' /\ CallsInv'
<1>1. /\ stack[t] # <<>> /\ Top(t).step = "enter"
      /\ UNCHANGED patchVars /\ disturbed' = disturbed /\ flag' = flag
  BY DEF EnterOriginal, At, CallOnly
<1> DEFINE f == Top(t)
<1>2. /\ f \in Frames /\ flag[t] \in BOOLEAN /\ (~raced => Fits(t, f))
      /\ flag' = [flag EXCEPT ![t] = flag[t]]
  BY <1>1, TopFits
<1>3. ~RecordsHttp(f) /\ "running" \in Steps /\ "return" \in Steps /\ "refused" \in Ends
  BY <1>1 DEF RecordsHttp, Steps, Ends
<1>4. ASSUME NEW g \in Frames, Becomes(t, g), SameCallee(f, g), g.wrapped = f.wrapped,
             g.step \in {"running", "return"}, ~raced => Fits(t, g)
      PROVE  StacksInv' /\ CallsInv'
  <2>1. ~RecordsHttp(g)
    BY <1>4 DEF RecordsHttp
  <2>2. Unintercepted(f) => Unintercepted(g)
    BY <1>4 DEF Unintercepted, SameCallee
  <2> QED BY <1>1, <1>2, <1>3, <1>4, <2>1, <2>2, TopStep
<1>5. CASE Becomes(t, [f EXCEPT !.step = "running"])
  <2> DEFINE g == [f EXCEPT !.step = "running"]
  <2>1. /\ g \in Frames /\ SameCallee(f, g) /\ g.step = "running"
        /\ g.wrapped = f.wrapped /\ g.outcome = f.outcome /\ g.seen = f.seen
        /\ g.recorded = f.recorded /\ g.missed = f.missed /\ g.uses = f.uses
    BY <1>2, <1>3, FrameGoesOn
  <2>2. Becomes(t, g)
    BY <1>5
  <2> HIDE DEF f, g
  <2>3. ~raced => Fits(t, g)
    BY <1>1, <1>2, <2>1, EnteredFits DEF f
  <2> QED BY <1>4, <2>1, <2>2, <2>3
<1>6. CASE /\ Becomes(t, Refused(f, "return"))
           /\ f.fn = None \/ (f.fn = "wrapper" /\ f.kind = "urllib" /\ orig["urllib"] = None)
  <2> DEFINE g == Refused(f, "return")
  <2>1. /\ g \in Frames /\ SameCallee(f, g) /\ g.step = "return"
        /\ g.wrapped = f.wrapped /\ g.outcome = "refused" /\ g.seen = "refused"
        /\ g.recorded = f.recorded /\ g.missed = f.missed /\ g.uses = f.uses
    BY <1>2, <1>3, FrameRefused
  <2>2. Becomes(t, g)
    BY <1>6
  <2>3. ~raced => g.fn = "wrapper" /\ orig[g.kind] = None
    <3>1. ~raced => f.fn # None
      BY <1>1, <1>2 DEF Fits, SeenFits, SeenAsGiven, None
    <3> QED BY <1>6, <2>1, <3>1 DEF SameCallee
  <2> HIDE DEF f, g
  <2>4. ~raced => Fits(t, g)
    BY <1>1, <1>2, <2>1, <2>3, EnteredFits DEF f
  <2> QED BY <1>4, <2>1, <2>2, <2>4
<1>7. \/ Becomes(t, [f EXCEPT !.step = "running"])
      \/ /\ Becomes(t, Refused(f, "return"))
         /\ f.fn = None \/ (f.fn = "wrapper" /\ f.kind = "urllib" /\ orig["urllib"] = None)
  BY DEF EnterOriginal
<1> QED BY <1>5, <1>6, <1>7

(* The HTTP patches keep real originals, whoever installs or removes them. *)
LEMMA HttpOriginals ==
  ASSUME PatchTypes, HttpInv, NEW l \in Http
  PROVE  orig[l] \in {"original", None} /\ attr[l] # None
<1>0. l \in Patched /\ l \in {"urllib", "send"}
  BY DEF Http, Patched
<1>1. attr[l] # None
  BY <1>0 DEF PatchTypes, HttpInv, None
<1>2. orig[l] \in {"original", None}
  <2>1. CASE lock = None
    <3>1. \/ Intercepted("urllib") /\ Intercepted("send")
          \/ AsBefore("urllib") /\ AsBefore("send")
      BY <2>1 DEF HttpInv
    <3> QED BY <1>0, <3>1 DEF AsBefore, Intercepted
  <2>2. CASE lock # None
    <3>1. PICK t \in Threads : t = lock
      BY <2>2 DEF PatchTypes, NoneOr
    <3>2. script[t] \in Scripts /\ script[t].op \in OnHttp
      BY <3>1 DEF PatchTypes, HttpInv
    <3>3. script[t].op = "install" => script[t].at \in {1, 2}
      BY <3>2 DEF Scripts, None
    <3>4. script[t].op = "install" =>
            AsBefore("send") /\ (AsBefore("urllib") \/ Intercepted("urllib"))
      BY <3>3 DEF HttpInv
    <3>5. script[t].op = "uninstall" => AsBefore("urllib") /\ Intercepted("send")
      BY DEF HttpInv
    <3> QED BY <1>0, <3>2, <3>4, <3>5 DEF AsBefore, Intercepted, OnHttp
  <2> QED BY <2>1, <2>2
<1> QED BY <1>1, <1>2

(* The wrapper finds an original, or none; only that of MCP may find       *)
(* itself, when patches met.                                               *)
LEMMA FoundOriginal ==
  ASSUME PatchesInv, NEW k \in Patched, ~raced
  PROVE  orig[k] # "wrapper"
<1>1. k \in Http => orig[k] # "wrapper"
  BY HttpOriginals DEF PatchesInv, None
<1>2. k = "mcp" => orig[k] # "wrapper"
  BY DEF PatchesInv, McpInv, McpAgrees
<1> QED BY <1>1, <1>2 DEF Patched

(* Entering a wrapper: it records the call, passes it on unrecorded, or    *)
(* refuses it when its original is gone.                                   *)
LEMMA EnterWrapperStep ==
  ASSUME PatchesInv, StacksInv, CallsInv, NEW t \in Threads, EnterWrapper(t)
  PROVE  StacksInv' /\ CallsInv'
<1> DEFINE top == Top(t)
           f == [top EXCEPT !.wrapped = TRUE]
<1>1. /\ stack[t] # <<>> /\ top.step = "enter" /\ top.fn = "wrapper"
      /\ UNCHANGED patchVars /\ disturbed' = disturbed /\ flag' = flag
      /\ top.kind \in Http => ~flag[t]
  BY DEF EnterWrapper, At, CallOnly
<1>2. /\ top \in Frames /\ flag[t] \in BOOLEAN /\ (~raced => Fits(t, top))
      /\ flag' = [flag EXCEPT ![t] = flag[t]]
  BY <1>1, TopFits
<1>3. /\ f \in Frames /\ SameCallee(top, f) /\ f.step = "enter" /\ f.wrapped
      /\ f.outcome = top.outcome /\ f.seen = top.seen
      /\ f.recorded = top.recorded /\ f.missed = top.missed /\ f.uses = top.uses
  BY <1>1, <1>2, FrameWrapped
<1>4. ~RecordsHttp(top) /\ "running" \in Steps /\ "record" \in Steps /\ "inner" \in Steps
  BY <1>1 DEF RecordsHttp, Steps
<1>5. \/ Becomes(t, [f EXCEPT !.step = "running"])
      \/ Becomes(t, Refused(f, "record")) /\ f.kind # "send" /\ orig[f.kind] = None
      \/ /\ f.kind # "send" /\ orig[f.kind] = "wrapper" /\ Len(stack[t]) < MaxDepth
         /\ stack' = [stack EXCEPT ![t] =
              Append([stack[t] EXCEPT ![Len(stack[t])] = [f EXCEPT !.step = "inner"]],
                     [top EXCEPT !.recorded = <<>>])]
      \/ Becomes(t, Refused(f, "record")) /\ f.kind # "send" /\ orig[f.kind] = "wrapper"
  BY DEF EnterWrapper, None
<1> HIDE DEF f
<1>6. f.kind = top.kind /\ f.fn = "wrapper"
  BY <1>1, <1>3 DEF SameCallee
<1>7. ~raced => orig[f.kind] # "wrapper"
  BY <1>1, <1>2, <1>6, FoundOriginal DEF Fits, SeenFits, SeenAsGiven
<1>8. flag[t] => ~Unintercepted(top)
  BY <1>1 DEF Unintercepted
<1>9. ASSUME NEW g \in Frames, Becomes(t, g), SameCallee(top, g),
             g.step \in {"running", "record"}, ~raced => Fits(t, g)
      PROVE  StacksInv' /\ CallsInv'
  <2>1. ~RecordsHttp(g)
    BY <1>9 DEF RecordsHttp
  <2> QED BY <1>1, <1>2, <1>4, <1>8, <1>9, <2>1, TopStep
<1>10. CASE Becomes(t, [f EXCEPT !.step = "running"])
  <2> DEFINE g == [f EXCEPT !.step = "running"]
  <2>1. /\ g \in Frames /\ SameCallee(f, g) /\ g.step = "running"
        /\ g.wrapped = f.wrapped /\ g.outcome = f.outcome /\ g.seen = f.seen
        /\ g.recorded = f.recorded /\ g.missed = f.missed /\ g.uses = f.uses
    BY <1>3, <1>4, FrameGoesOn
  <2>2. Becomes(t, g)
    BY <1>10
  <2> HIDE DEF top, g
  <2>3. SameCallee(top, g)
    BY <1>3, <2>1 DEF SameCallee
  <2>4. ~raced => Fits(t, g)
    BY <1>1, <1>2, <1>3, <2>1, <2>3, EnteredFits
  <2> QED BY <1>9, <2>1, <2>2, <2>3, <2>4
<1>11. CASE /\ Becomes(t, Refused(f, "record")) /\ f.kind # "send"
            /\ orig[f.kind] = None \/ orig[f.kind] = "wrapper"
  <2> DEFINE g == Refused(f, "record")
  <2>1. /\ g \in Frames /\ SameCallee(f, g) /\ g.step = "record"
        /\ g.wrapped = f.wrapped /\ g.outcome = "refused" /\ g.seen = "refused"
        /\ g.recorded = f.recorded /\ g.missed = f.missed /\ g.uses = f.uses
    BY <1>3, <1>4, FrameRefused
  <2>2. Becomes(t, g)
    BY <1>11
  <2> HIDE DEF top, g
  <2>3. SameCallee(top, g) /\ g.kind = f.kind /\ g.fn = "wrapper"
    BY <1>3, <1>6, <2>1 DEF SameCallee
  <2>4. ~raced => orig[g.kind] = None
    BY <1>7, <1>11, <2>3
  <2>5. ~raced => Fits(t, g)
    BY <1>1, <1>2, <1>3, <2>1, <2>3, <2>4, EnteredFits
  <2> QED BY <1>9, <2>1, <2>2, <2>3, <2>5
<1>12. CASE /\ f.kind # "send" /\ orig[f.kind] = "wrapper" /\ Len(stack[t]) < MaxDepth
            /\ stack' = [stack EXCEPT ![t] =
                 Append([stack[t] EXCEPT ![Len(stack[t])] = [f EXCEPT !.step = "inner"]],
                        [top EXCEPT !.recorded = <<>>])]
  <2> DEFINE g == [f EXCEPT !.step = "inner"]
             h == [top EXCEPT !.recorded = <<>>]
             q == [stack[t] EXCEPT ![Len(stack[t])] = g]
             s == Append(q, h)
  <2>1. raced /\ f.kind \notin Http
    <3>1. f.kind \in Http => orig[f.kind] # "wrapper"
      BY HttpOriginals DEF PatchesInv, None
    <3> QED BY <1>7, <1>12, <3>1 DEF PatchesInv, PatchTypes
  <2>2. g \in Frames /\ g.kind = f.kind /\ g.step = "inner"
    BY <1>3, <1>4, FrameGoesOn DEF SameCallee
  <2>3. h \in Frames /\ h.kind = f.kind /\ h.step = "enter"
    BY <1>1, <1>2, <1>6, FrameUnrecorded
  <2>4. ~RecordsHttp(g) /\ ~RecordsHttp(h) /\ ~Unintercepted(g) /\ ~Unintercepted(top)
    BY <1>6, <2>1, <2>2, <2>3 DEF RecordsHttp, Unintercepted
  <2>5. StackFits(stack[t], flag[t])
    BY DEF StacksInv
  <2> HIDE DEF g, h
  <2>6. StackFits(q, flag[t]) /\ Len(q) = Len(stack[t]) /\ q[Len(stack[t])] = g
    BY <1>1, <1>2, <1>4, <2>2, <2>4, <2>5, StackReplaced DEF top, Top
  <2> HIDE DEF q
  <2>7. q[Len(q)] = g /\ Len(q) < MaxDepth
    BY <1>12, <2>6
  <2>8. StackFits(s, flag[t]) /\ Len(s) = Len(q) + 1
    BY <2>2, <2>3, <2>4, <2>6, <2>7, StackPushed
  <2>9. s # <<>>
    BY <2>3 DEF s
  <2>10. stack' = [stack EXCEPT ![t] = s]
    BY <1>12 DEF s, q, g, h
  <2> QED BY <1>1, <1>2, <2>1, <2>8, <2>9, <2>10, CallsStep
<1> QED BY <1>5, <1>10, <1>11, <1>12

(* What a call has recorded, when it has its answer. *)
LEMMA AnsweredFits ==
  ASSUME NEW t, NEW f \in Frames, NEW g \in Frames, NEW o \in Outcomes,
         SameCallee(f, g), f.step = "running", Fits(t, f),
         g.wrapped = f.wrapped, g.outcome = o, g.seen = o,
         g.recorded = f.recorded, g.missed = f.missed, g.uses = f.uses,
         g.step = IF AnswerOpensStream(g, o) THEN "open"
                  ELSE IF g.wrapped /\ Recorded(g.kind, o) THEN "record" ELSE "return"
  PROVE  Fits(t, g)
<1>1. SeenFits(t, g)
  BY DEF Fits, SeenFits, SeenAsGiven, Outcomes
<1>2. ASSUME t \notin disturbed PROVE RecordsFit(g)
  <2>1. RecordsFit(f)
    BY <1>2 DEF Fits
  <2>2. /\ g.recorded = <<>> /\ ~g.missed /\ g.uses = 0
        /\ g.kind \notin Patched => g.wrapped
    BY <2>1 DEF RecordsFit, SameCallee
  <2>3. Len(g.recorded) = 0 /\ DOMAIN g.recorded = {}
    BY <2>2
  <2>4. AnswerOpensStream(g, o) => g.kind = "stream" /\ g.wrapped /\ o = "success"
    BY <2>2 DEF AnswerOpensStream, Patched, Http
  <2>5. g.wrapped => DueBy(g) = 0
    BY <2>2 DEF DueBy, Due
  <2>6. g.step \in {"open", "record", "return"}
    OBVIOUS
  <2> QED BY <2>2, <2>3, <2>4, <2>5, <2>6 DEF RecordsFit
<1> QED BY <1>1, <1>2 DEF Fits

(* The original answers: its wrapper records, hands out a stream, or has   *)
(* nothing to record.                                                      *)
LEMMA AnswerStep ==
  ASSUME StacksInv, CallsInv, NEW t \in Threads, Answer(t)
  PROVE  StacksInv' /\ CallsInv'
<1> DEFINE f == Top(t)
<1>1. /\ stack[t] # <<>> /\ f.step = "running"
      /\ UNCHANGED patchVars /\ disturbed' = disturbed /\ flag' = flag
  BY DEF Answer, At, CallOnly
<1>2. /\ f \in Frames /\ flag[t] \in BOOLEAN /\ (~raced => Fits(t, f))
      /\ flag' = [flag EXCEPT ![t] = flag[t]]
  BY <1>1, TopFits
<1>3. PICK o \in Outcomes :
        LET h == [f EXCEPT !.outcome = o, !.seen = o]
        IN  Becomes(t, [h EXCEPT !.step = IF AnswerOpensStream(h, o) THEN "open"
                                          ELSE IF h.wrapped /\ Recorded(h.kind, o) THEN "record"
                                          ELSE "return"])
  BY DEF Answer
<1> DEFINE next == IF AnswerOpensStream(f, o) THEN "open"
                   ELSE IF f.wrapped /\ Recorded(f.kind, o) THEN "record" ELSE "return"
           g == [f EXCEPT !.outcome = o, !.seen = o, !.step = next]
           h == [f EXCEPT !.outcome = o, !.seen = o]
<1>4. /\ h.kind = f.kind /\ h.wrapped = f.wrapped
      /\ [h EXCEPT !.step = next] = g
  BY <1>2 DEF Frames
<1>5. Becomes(t, g)
  BY <1>3, <1>4 DEF AnswerOpensStream
<1>6. next \in {"open", "record", "return"} /\ next \in Steps /\ o \in Ends
  BY DEF Steps, Ends
<1>7. next = "return" \/ f.wrapped \/ f.kind = "stream"
  BY DEF AnswerOpensStream
<1>8. next = IF AnswerOpensStream(f, o) THEN "open"
             ELSE IF f.wrapped /\ Recorded(f.kind, o) THEN "record" ELSE "return"
  OBVIOUS
<1> HIDE DEF next, h
<1>9. /\ g \in Frames /\ SameCallee(f, g) /\ g.step = next
      /\ g.wrapped = f.wrapped /\ g.outcome = o /\ g.seen = o
      /\ g.recorded = f.recorded /\ g.missed = f.missed /\ g.uses = f.uses
  <2>1. g = [f EXCEPT !.outcome = o, !.seen = o, !.step = next]
    OBVIOUS
  <2> HIDE DEF f, g
  <2>2. f \in Frames /\ o \in Ends /\ next \in Steps
    BY <1>2, <1>6
  <2> QED BY <2>1, <2>2 DEF Frames, SameCallee, Ends
<1> HIDE DEF f, g
<1>10. g.kind = f.kind
  BY <1>9 DEF SameCallee
<1>11. ~RecordsHttp(f) /\ ~RecordsHttp(g)
  BY <1>1, <1>6, <1>9 DEF RecordsHttp
<1>12. Unintercepted(f) => Unintercepted(g)
  BY <1>7, <1>9, <1>10 DEF Unintercepted, Http
<1>13. g.step = IF AnswerOpensStream(g, o) THEN "open"
                ELSE IF g.wrapped /\ Recorded(g.kind, o) THEN "record" ELSE "return"
  BY <1>8, <1>9, <1>10 DEF AnswerOpensStream
<1>14. ~raced => Fits(t, g)
  BY <1>1, <1>2, <1>9, <1>13, AnsweredFits
<1> QED BY <1>1, <1>2, <1>5, <1>9, <1>11, <1>12, <1>14, TopStep DEF f

(* What a stream has recorded, when one more iteration is to be, and when  *)
(* it is dropped.                                                          *)
LEMMA IteratedFits ==
  ASSUME NEW t, NEW f \in Frames, NEW g \in Frames, NEW o \in Outcomes,
         SameCallee(f, g), f.step = "open", Fits(t, f), g.step = "record",
         g.wrapped = f.wrapped, g.outcome = o, g.seen = o,
         g.recorded = f.recorded, g.missed = f.missed, g.uses = f.uses + 1
  PROVE  Fits(t, g)
<1>1. SeenFits(t, g)
  BY DEF Fits, SeenFits, SeenAsGiven, Outcomes
<1>2. ASSUME t \notin disturbed PROVE RecordsFit(g)
  <2>1. RecordsFit(f)
    BY <1>2 DEF Fits
  <2>2. f.uses \in Nat /\ g.kind = f.kind
    BY DEF Frames, SameCallee
  <2>3. g.wrapped /\ f.wrapped /\ g.kind = "stream"
    BY <2>1, <2>2 DEF RecordsFit
  <2>4. g.uses > 0 /\ g.uses # 0 /\ g.uses - 1 = f.uses
    BY <2>2
  <2>5. DueBy(g) = f.uses
    BY <2>4 DEF DueBy
  <2>6. Due(f) = IF Writes(f, RecorderOf(f)) THEN f.uses ELSE 0
    <3>1. f.uses > 0 \/ AnswerOpensStream(f, f.outcome)
      BY <2>1, <2>2, <2>3 DEF RecordsFit, AnswerOpensStream
    <3>2. CASE Writes(f, RecorderOf(f))
      BY <3>1, <3>2 DEF Due
    <3>3. CASE ~Writes(f, RecorderOf(f))
      BY <3>3 DEF Due
    <3> QED BY <3>2, <3>3
  <2>7. DueBy(f) = Due(f)
    BY DEF DueBy
  <2>8. /\ RecorderOf(g) = RecorderOf(f)
        /\ Writes(g, RecorderOf(g)) <=> Writes(f, RecorderOf(f))
    BY SameRecorder
  <2>9. AlwaysSuccess(g)
    BY <2>4 DEF AlwaysSuccess
  <2>10. Len(g.recorded) <= DueBy(g)
    BY <2>1, <2>2, <2>3, <2>5, <2>6, <2>7 DEF RecordsFit
  <2>11. Writes(g, RecorderOf(g)) /\ ~g.missed => Len(g.recorded) = DueBy(g)
    BY <2>1, <2>3, <2>5, <2>6, <2>7, <2>8 DEF RecordsFit
  <2>12. /\ ~Writes(g, RecorderOf(g)) => g.recorded = <<>>
         /\ \A i \in DOMAIN g.recorded : g.recorded[i].by = RecorderOf(g)
    BY <2>1, <2>8 DEF RecordsFit
  <2> QED BY <2>3, <2>4, <2>9, <2>10, <2>11, <2>12 DEF RecordsFit
<1> QED BY <1>1, <1>2 DEF Fits

(* A stream that is consumed once more is recorded once more.              *)
LEMMA IterateStep ==
  ASSUME StacksInv, CallsInv, NEW t \in Threads, Iterate(t)
  PROVE  StacksInv' /\ CallsInv'
<1> DEFINE f == Top(t)
<1>1. /\ stack[t] # <<>> /\ f.step = "open"
      /\ UNCHANGED patchVars /\ disturbed' = disturbed /\ flag' = flag
  BY DEF Iterate, At, CallOnly
<1>2. /\ f \in Frames /\ flag[t] \in BOOLEAN /\ (~raced => Fits(t, f))
      /\ flag' = [flag EXCEPT ![t] = flag[t]]
  BY <1>1, TopFits
<1>3. PICK o \in Outcomes :
        Becomes(t, [f EXCEPT !.uses = @ + 1, !.outcome = o, !.seen = o, !.step = "record"])
  BY DEF Iterate
<1> DEFINE g == [f EXCEPT !.uses = @ + 1, !.outcome = o, !.seen = o, !.step = "record"]
<1>4. o \in Ends
  BY DEF Ends
<1>5. /\ g \in Frames /\ SameCallee(f, g) /\ g.step = "record"
      /\ g.wrapped = f.wrapped /\ g.outcome = o /\ g.seen = o
      /\ g.recorded = f.recorded /\ g.missed = f.missed /\ g.uses = f.uses + 1
  BY <1>2, <1>4, FrameIterates
<1> HIDE DEF f, g
<1>6. ~RecordsHttp(f) /\ ~RecordsHttp(g) /\ ~Unintercepted(f)
  BY <1>1, <1>5 DEF RecordsHttp, Unintercepted
<1>7. ~raced => Fits(t, g)
  BY <1>1, <1>2, <1>5, IteratedFits
<1> QED BY <1>1, <1>2, <1>3, <1>5, <1>6, <1>7, TopStep DEF f, g

(* A stream that is dropped returns with the records it has.               *)
LEMMA DropStreamStep ==
  ASSUME StacksInv, CallsInv, NEW t \in Threads, DropStream(t)
  PROVE  StacksInv' /\ CallsInv'
<1> DEFINE f == Top(t)
           g == [f EXCEPT !.step = "return"]
<1>1. /\ stack[t] # <<>> /\ f.step = "open" /\ Becomes(t, g)
      /\ UNCHANGED patchVars /\ disturbed' = disturbed /\ flag' = flag
  BY DEF DropStream, At, CallOnly
<1>2. /\ f \in Frames /\ flag[t] \in BOOLEAN /\ (~raced => Fits(t, f))
      /\ flag' = [flag EXCEPT ![t] = flag[t]]
  BY <1>1, TopFits
<1>3. "return" \in Steps
  BY DEF Steps
<1>4. /\ g \in Frames /\ SameCallee(f, g) /\ g.step = "return"
      /\ g.wrapped = f.wrapped /\ g.outcome = f.outcome /\ g.seen = f.seen
      /\ g.recorded = f.recorded /\ g.missed = f.missed /\ g.uses = f.uses
  BY <1>2, <1>3, FrameGoesOn
<1> HIDE DEF f, g
<1>5. ~RecordsHttp(f) /\ ~RecordsHttp(g) /\ ~Unintercepted(f)
  BY <1>1, <1>4 DEF RecordsHttp, Unintercepted
<1>6. g.kind = f.kind /\ g.fn = f.fn
  BY <1>4 DEF SameCallee
<1>7. ASSUME ~raced PROVE Fits(t, g)
  <2>1. SeenFits(t, g)
    BY <1>1, <1>2, <1>4, <1>6, <1>7 DEF Fits, SeenFits, SeenAsGiven, WritesDirectly
  <2>2. ASSUME t \notin disturbed PROVE RecordsFit(g)
    <3>1. RecordsFit(f)
      BY <1>2, <1>7, <2>2 DEF Fits
    <3>2. /\ RecorderOf(g) = RecorderOf(f)
          /\ Writes(g, RecorderOf(g)) <=> Writes(f, RecorderOf(f))
      BY <1>4, SameRecorder
    <3>3. DueBy(g) = Due(f) /\ DueBy(f) = Due(f)
      BY <1>1, <1>4, <1>6, <3>2 DEF DueBy, Due, AnswerOpensStream
    <3>4. AlwaysSuccess(g) <=> AlwaysSuccess(f)
      BY <1>4, <1>6 DEF AlwaysSuccess
    <3> QED BY <1>1, <1>4, <1>6, <3>1, <3>2, <3>3, <3>4 DEF RecordsFit
  <2> QED BY <2>1, <2>2 DEF Fits
<1> QED BY <1>1, <1>2, <1>4, <1>5, <1>7, TopStep DEF f

(* A record of the call was missed.                                        *)
Missed(f) == f.missed

(* What the agent sees is as before, or the failure of a writer that is    *)
(* called without safe_record.                                             *)
SeenOrRaised(f, g) ==
  g.seen = f.seen \/ (g.seen = "writer raised" /\ WritesDirectly(f) /\ g.missed)

(* What a call has recorded, when it is done with recording. *)
LEMMA AfterRecordFits ==
  ASSUME NEW t, NEW f \in Frames, NEW g \in Frames, SameCallee(f, g), Fits(t, f),
         f.step \in {"record", "recording"},
         f.step = "record" /\ Writes(f, RecorderOf(f)) => Missed(g),
         Missed(f) => Missed(g), f.step = "recording" => (Missed(g) <=> Missed(f)),
         g.step = AfterRecord(f), g.wrapped = f.wrapped, g.outcome = f.outcome,
         g.recorded = f.recorded, g.uses = f.uses,
         SeenOrRaised(f, g)
  PROVE  Fits(t, g)
<1>1. g.kind = f.kind /\ g.fn = f.fn /\ f.uses \in Nat
  BY DEF SameCallee, Frames
<1>2. g.step = IF f.uses > 0 THEN "open" ELSE "return"
  BY DEF AfterRecord
<1>3. SeenFits(t, g)
  BY <1>1, <1>2 DEF Fits, SeenFits, SeenAsGiven, WritesDirectly, Missed, SeenOrRaised
<1>4. ASSUME t \notin disturbed PROVE RecordsFit(g)
  <2>1. RecordsFit(f)
    BY <1>4 DEF Fits
  <2>2. /\ RecorderOf(g) = RecorderOf(f)
        /\ Writes(g, RecorderOf(g)) <=> Writes(f, RecorderOf(f))
    BY SameRecorder
  <2>3. AlwaysSuccess(g) <=> AlwaysSuccess(f)
    BY <1>1 DEF AlwaysSuccess
  <2>4. f.wrapped /\ g.wrapped /\ Len(f.recorded) <= DueBy(f)
    BY <2>1 DEF RecordsFit
  <2>5. f.uses = 0 => Recorded(g.kind, g.outcome) /\ ~AnswerOpensStream(g, g.outcome)
    BY <1>1, <2>1 DEF RecordsFit, AnswerOpensStream
  <2>6. /\ f.step = "record" => DueBy(f) = IF f.uses = 0 THEN 0 ELSE f.uses - 1
        /\ f.step = "recording" => DueBy(f) = IF f.uses = 0 THEN 1 ELSE f.uses
    BY DEF DueBy
  <2>7. DueBy(g) = Due(g)
    BY <1>2 DEF DueBy
  <2>8. Due(g) = IF ~Writes(f, RecorderOf(f)) THEN 0 ELSE IF f.uses = 0 THEN 1 ELSE f.uses
    <3>1. CASE ~Writes(f, RecorderOf(f))
      BY <2>2, <3>1 DEF Due
    <3>2. CASE Writes(f, RecorderOf(f)) /\ f.uses = 0
      <4>1. ~(g.uses > 0 \/ AnswerOpensStream(g, g.outcome)) /\ Recorded(g.kind, g.outcome)
        BY <2>5, <3>2
      <4> QED BY <2>2, <3>2, <4>1 DEF Due
    <3>3. CASE Writes(f, RecorderOf(f)) /\ f.uses # 0
      <4>1. g.uses > 0 /\ g.uses = f.uses
        BY <1>1, <3>3
      <4> QED BY <2>2, <3>3, <4>1 DEF Due
    <3> QED BY <3>1, <3>2, <3>3
  <2>9. ~Writes(f, RecorderOf(f)) => Len(g.recorded) = 0
    <3>1. ~Writes(f, RecorderOf(f)) => g.recorded = <<>>
      BY <2>1 DEF RecordsFit
    <3> QED BY <3>1
  <2>10. Len(g.recorded) <= DueBy(g)
    <3>1. CASE ~Writes(f, RecorderOf(f))
      <4>1. Len(g.recorded) = 0 /\ DueBy(g) = 0
        BY <2>7, <2>8, <2>9, <3>1
      <4> QED BY <4>1
    <3>2. CASE Writes(f, RecorderOf(f))
      <4>1. DueBy(g) = IF f.uses = 0 THEN 1 ELSE f.uses
        BY <2>7, <2>8, <3>2
      <4>2. Len(g.recorded) \in Nat
        <5>1. PICK R : g.recorded \in Seq(R)
          BY DEF Frames
        <5> QED BY <5>1
      <4>3. Len(g.recorded) <= DueBy(f)
        BY <2>4
      <4>4. \/ DueBy(f) = IF f.uses = 0 THEN 0 ELSE f.uses - 1
            \/ DueBy(f) = IF f.uses = 0 THEN 1 ELSE f.uses
        BY <2>6
      <4> QED BY <1>1, <4>1, <4>2, <4>3, <4>4
    <3> QED BY <3>1, <3>2
  <2>11. Writes(g, RecorderOf(g)) /\ ~g.missed => Len(g.recorded) = DueBy(g)
    BY <2>1, <2>2, <2>4, <2>6, <2>7, <2>8 DEF RecordsFit, Missed
  <2>12. /\ ~Writes(g, RecorderOf(g)) => g.recorded = <<>>
         /\ \A i \in DOMAIN g.recorded :
              /\ g.recorded[i].by = RecorderOf(g)
              /\ ~AlwaysSuccess(g) =>
                   (g.recorded[i].status = "success" <=> g.outcome = "success")
    BY <2>1, <2>2, <2>3 DEF RecordsFit
  <2>13. g.uses > 0 => g.kind = "stream"
    BY <1>1, <2>1 DEF RecordsFit
  <2>14. g.step = "open" => g.kind = "stream" /\ g.uses # 0
    BY <1>1, <1>2, <2>13
  <2> QED BY <1>2, <2>4, <2>10, <2>11, <2>12, <2>13, <2>14 DEF RecordsFit
<1> QED BY <1>3, <1>4 DEF Fits

(* What a call has recorded, while its record is on its way. *)
LEMMA RecordingFits ==
  ASSUME NEW t, NEW f \in Frames, NEW g \in Frames, SameCallee(f, g), Fits(t, f),
         f.step = "record", Writes(f, RecorderOf(f)), g.step = "recording",
         g.wrapped = f.wrapped, g.outcome = f.outcome, g.seen = f.seen,
         g.recorded = Append(f.recorded, [by |-> RecorderOf(f), status |-> Status(f)]),
         g.missed = f.missed, g.uses = f.uses
  PROVE  Fits(t, g)
<1>1. g.kind = f.kind /\ g.fn = f.fn /\ f.uses \in Nat
  BY DEF SameCallee, Frames
<1>2. SeenFits(t, g)
  BY <1>1 DEF Fits, SeenFits, SeenAsGiven, WritesDirectly
<1>3. ASSUME t \notin disturbed PROVE RecordsFit(g)
  <2>1. RecordsFit(f)
    BY <1>3 DEF Fits
  <2>2. /\ RecorderOf(g) = RecorderOf(f)
        /\ Writes(g, RecorderOf(g)) <=> Writes(f, RecorderOf(f))
    BY SameRecorder
  <2>3. AlwaysSuccess(g) <=> AlwaysSuccess(f)
    BY <1>1 DEF AlwaysSuccess
  <2>4. f.wrapped /\ g.wrapped /\ Len(f.recorded) <= DueBy(f)
    BY <2>1 DEF RecordsFit
  <2>5. DueBy(f) = (IF f.uses = 0 THEN 0 ELSE f.uses - 1) /\ DueBy(g) = DueBy(f) + 1
    BY <1>1 DEF DueBy
  <2> DEFINE last == [by |-> RecorderOf(f), status |-> Status(f)]
  <2>6. PICK R : f.recorded \in Seq(R) /\ last \in R
    <3> DEFINE R == [by: Recorders, status: {"success", "error"}] \union {last}
    <3>1. f.recorded \in Seq([by: Recorders, status: {"success", "error"}])
      BY DEF Frames
    <3>2. \A A, B : A \subseteq B => Seq(A) \subseteq Seq(B)
      OBVIOUS
    <3>3. f.recorded \in Seq(R)
      BY <3>1, <3>2
    <3> QED BY <3>3
  <2>7. /\ Len(f.recorded) \in Nat /\ Len(g.recorded) = Len(f.recorded) + 1
        /\ \A i \in DOMAIN g.recorded :
             (i \in DOMAIN f.recorded /\ g.recorded[i] = f.recorded[i]) \/ g.recorded[i] = last
    <3> HIDE DEF last
    <3>1. \A q \in Seq(R) : \A e \in R :
            /\ Len(q) \in Nat /\ Len(Append(q, e)) = Len(q) + 1
            /\ \A i \in DOMAIN Append(q, e) :
                 (i \in DOMAIN q /\ Append(q, e)[i] = q[i]) \/ Append(q, e)[i] = e
      OBVIOUS
    <3> QED BY <2>6, <3>1 DEF last
  <2>8. last.by = RecorderOf(g)
    BY <2>2
  <2>9. ~AlwaysSuccess(g) => (last.status = "success" <=> g.outcome = "success")
    BY <2>3 DEF Status
  <2> HIDE DEF last
  <2>10. \A i \in DOMAIN g.recorded :
           /\ g.recorded[i].by = RecorderOf(g)
           /\ ~AlwaysSuccess(g) =>
                (g.recorded[i].status = "success" <=> g.outcome = "success")
    <3> TAKE i \in DOMAIN g.recorded
    <3>1. CASE g.recorded[i] = last
      BY <2>8, <2>9, <3>1
    <3>2. CASE i \in DOMAIN f.recorded /\ g.recorded[i] = f.recorded[i]
      <4>1. /\ f.recorded[i].by = RecorderOf(f)
            /\ ~AlwaysSuccess(f) =>
                 (f.recorded[i].status = "success" <=> f.outcome = "success")
        BY <2>1, <3>2 DEF RecordsFit
      <4> QED BY <2>2, <2>3, <3>2, <4>1
    <3> QED BY <2>7, <3>1, <3>2
  <2>11. Len(g.recorded) <= DueBy(g)
    BY <1>1, <2>4, <2>5, <2>7
  <2>12. ~g.missed => Len(g.recorded) = DueBy(g)
    <3>1. ~f.missed => Len(f.recorded) = DueBy(f)
      BY <2>1, <2>4 DEF RecordsFit
    <3> QED BY <1>1, <2>5, <2>7, <3>1
  <2>13. g.uses = 0 => Recorded(g.kind, g.outcome) /\ ~AnswerOpensStream(g, g.outcome)
    BY <1>1, <2>1 DEF RecordsFit, AnswerOpensStream
  <2>14. g.uses > 0 => g.kind = "stream"
    BY <1>1, <2>1 DEF RecordsFit
  <2> QED BY <2>2, <2>4, <2>10, <2>11, <2>12, <2>13, <2>14 DEF RecordsFit
<1> QED BY <1>2, <1>3 DEF Fits

(* The recorder of a call, if it has one, is one of the recorders. *)
LEMMA RecorderTyped ==
  ASSUME PatchTypes, NEW f \in Frames
  PROVE  RecorderOf(f) \in NoneOr(Recorders)
<1>1. f.kind \in Http => RecorderOf(f) = recs.http
  BY DEF RecorderOf, Http
<1>2. f.kind = "mcp" => RecorderOf(f) = recs.mcp
  BY DEF RecorderOf, Http
<1>3. f.kind \notin Http /\ f.kind # "mcp" => RecorderOf(f) = f.rec
  BY DEF RecorderOf
<1>4. f.rec \in NoneOr(Recorders)
  BY DEF Frames
<1>5. recs.http \in NoneOr(Recorders) /\ recs.mcp \in NoneOr(Recorders)
  BY DEF PatchTypes
<1> QED BY <1>1, <1>2, <1>3, <1>4, <1>5

(* Recording a call: with a recorder of its own, over HTTP, in a wrapper   *)
(* that only sees the call again, or not at all.                           *)
LEMMA RecordCallStep ==
  ASSUME PatchTypes, StacksInv, CallsInv, NEW t \in Threads, RecordCall(t)
  PROVE  StacksInv' /\ CallsInv'
<1> DEFINE f == Top(t)
           r == RecorderOf(f)
           raised == IF WritesDirectly(f) THEN "writer raised" ELSE f.seen
<1>1. /\ stack[t] # <<>> /\ f.step = "record"
      /\ UNCHANGED patchVars /\ disturbed' = disturbed
  BY DEF RecordCall, At, CallOnly
<1>2. /\ f \in Frames /\ flag[t] \in BOOLEAN /\ (~raced => Fits(t, f))
      /\ flag' = flag => flag' = [flag EXCEPT ![t] = flag[t]]
  BY <1>1, TopFits
<1>3. \/ /\ ~Writes(f, r) /\ Becomes(t, [f EXCEPT !.step = AfterRecord(f)]) /\ flag' = flag
      \/ /\ Writes(f, r)
         /\ Becomes(t, [f EXCEPT !.recorded = Append(@, [by |-> r, status |-> Status(f)]),
                                 !.step = "recording"])
         /\ flag' = [flag EXCEPT ![t] = flag[t] \/ f.kind \in Http]
      \/ /\ Writes(f, r)
         /\ Becomes(t, [f EXCEPT !.missed = TRUE, !.step = AfterRecord(f), !.seen = raised])
         /\ flag' = flag
  BY DEF RecordCall
<1>4. AfterRecord(f) \in {"open", "return"} /\ AfterRecord(f) \in Steps
  BY DEF AfterRecord, Steps
<1>5. r \in NoneOr(Recorders)
  BY <1>2, RecorderTyped
<1>6. raised \in Ends
  BY <1>2 DEF Frames, Ends
<1> HIDE DEF f, raised
<1>7. ~RecordsHttp(f) /\ ~Unintercepted(f)
  BY <1>1 DEF RecordsHttp, Unintercepted
<1>8. CASE ~Writes(f, r) /\ Becomes(t, [f EXCEPT !.step = AfterRecord(f)]) /\ flag' = flag
  <2> DEFINE g == [f EXCEPT !.step = AfterRecord(f)]
  <2>1. /\ g \in Frames /\ SameCallee(f, g) /\ g.step = AfterRecord(f)
        /\ g.wrapped = f.wrapped /\ g.outcome = f.outcome /\ g.seen = f.seen
        /\ g.recorded = f.recorded /\ g.missed = f.missed /\ g.uses = f.uses
    BY <1>2, <1>4, FrameGoesOn
  <2>2. Becomes(t, g)
    BY <1>8
  <2> HIDE DEF g
  <2>3. ~RecordsHttp(g)
    BY <1>4, <2>1 DEF RecordsHttp
  <2>4. SeenOrRaised(f, g) /\ (Missed(g) <=> Missed(f))
    BY <2>1 DEF SeenOrRaised, Missed
  <2>5. ~raced => Fits(t, g)
    BY <1>1, <1>2, <1>8, <2>1, <2>4, AfterRecordFits
  <2> QED BY <1>1, <1>2, <1>7, <1>8, <2>1, <2>2, <2>3, <2>5, TopStep DEF f
<1>9. CASE /\ Writes(f, r)
           /\ Becomes(t, [f EXCEPT !.recorded = Append(@, [by |-> r, status |-> Status(f)]),
                                   !.step = "recording"])
           /\ flag' = [flag EXCEPT ![t] = flag[t] \/ f.kind \in Http]
  <2> DEFINE g == [f EXCEPT !.recorded = Append(@, [by |-> r, status |-> Status(f)]),
                            !.step = "recording"]
             up == flag[t] \/ f.kind \in Http
  <2>1. r \in Recorders
    BY <1>5, <1>9 DEF Writes, NoneOr
  <2>2. Status(f) \in {"success", "error"}
    BY DEF Status
  <2>3. /\ g \in Frames /\ SameCallee(f, g) /\ g.step = "recording"
        /\ g.wrapped = f.wrapped /\ g.outcome = f.outcome /\ g.seen = f.seen
        /\ g.recorded = Append(f.recorded, [by |-> r, status |-> Status(f)])
        /\ g.missed = f.missed /\ g.uses = f.uses
    <3> DEFINE status == Status(f)
    <3>1. g = Recording(f, r, status)
      BY DEF Recording
    <3>2. f \in Frames /\ status \in {"success", "error"}
      BY <1>2, <2>2
    <3> HIDE DEF g, f, r, status, up
    <3>3. BecomesRecording(f, g, r, status)
      BY <2>1, <3>1, <3>2, FrameRecords
    <3> QED BY <3>3 DEF BecomesRecording, status
  <2>4. Becomes(t, g)
    BY <1>9
  <2> HIDE DEF g
  <2>5. RecordsHttp(g) <=> f.kind \in Http
    BY <2>3 DEF RecordsHttp, SameCallee
  <2>6. ~raced => Fits(t, g)
    BY <1>1, <1>2, <1>9, <2>3, RecordingFits
  <2>7. flag' = [flag EXCEPT ![t] = up] /\ up \in BOOLEAN
    BY <1>9
  <2>8. up <=> RecordsHttp(g) \/ (flag[t] /\ ~RecordsHttp(f))
    BY <1>7, <2>5
  <2> HIDE DEF up
  <2> QED BY <1>1, <1>2, <1>7, <2>3, <2>4, <2>6, <2>7, <2>8, TopStep DEF f
<1>10. CASE /\ Writes(f, r)
            /\ Becomes(t, [f EXCEPT !.missed = TRUE, !.step = AfterRecord(f), !.seen = raised])
            /\ flag' = flag
  <2> DEFINE g == [f EXCEPT !.missed = TRUE, !.step = AfterRecord(f), !.seen = raised]
  <2>1. /\ g \in Frames /\ SameCallee(f, g) /\ g.step = AfterRecord(f)
        /\ g.wrapped = f.wrapped /\ g.outcome = f.outcome /\ g.seen = raised
        /\ g.recorded = f.recorded /\ g.missed /\ g.uses = f.uses
    <3>1. PICK next \in Steps : next = AfterRecord(f)
      BY <1>4
    <3>2. g = [f EXCEPT !.missed = TRUE, !.step = next, !.seen = raised]
      BY <3>1
    <3> HIDE DEF g
    <3> QED BY <1>2, <1>6, <3>1, <3>2 DEF Frames, SameCallee, Ends
  <2>2. Becomes(t, g)
    BY <1>10
  <2> HIDE DEF g
  <2>3. ~RecordsHttp(g)
    BY <1>4, <2>1 DEF RecordsHttp
  <2>4. SeenOrRaised(f, g) /\ Missed(g)
    BY <2>1 DEF SeenOrRaised, Missed, raised
  <2>5. ~raced => Fits(t, g)
    <3>1. f.step # "recording" /\ f.step \in {"record", "recording"}
      BY <1>1
    <3> QED BY <1>2, <2>1, <2>4, <3>1, AfterRecordFits
  <2> QED BY <1>1, <1>2, <1>7, <1>10, <2>1, <2>2, <2>3, <2>5, TopStep DEF f
<1> QED BY <1>3, <1>8, <1>9, <1>10

(* The end of a recording takes the guard down again.                      *)
LEMMA EndRecordStep ==
  ASSUME StacksInv, CallsInv, NEW t \in Threads, EndRecord(t)
  PROVE  StacksInv' /\ CallsInv'
<1> DEFINE f == Top(t)
           g == [f EXCEPT !.step = AfterRecord(f)]
           up == flag[t] /\ f.kind \notin Http
<1>1. /\ stack[t] # <<>> /\ f.step = "recording" /\ Becomes(t, g)
      /\ UNCHANGED patchVars /\ disturbed' = disturbed /\ flag' = [flag EXCEPT ![t] = up]
  BY DEF EndRecord, At, CallOnly
<1>2. f \in Frames /\ flag[t] \in BOOLEAN /\ (~raced => Fits(t, f))
  BY <1>1, TopFits
<1>3. AfterRecord(f) \in {"open", "return"} /\ AfterRecord(f) \in Steps
  BY DEF AfterRecord, Steps
<1>4. /\ g \in Frames /\ SameCallee(f, g) /\ g.step = AfterRecord(f)
      /\ g.wrapped = f.wrapped /\ g.outcome = f.outcome /\ g.seen = f.seen
      /\ g.recorded = f.recorded /\ g.missed = f.missed /\ g.uses = f.uses
  BY <1>2, <1>3, FrameGoesOn
<1>5. up \in BOOLEAN
  BY <1>2
<1> HIDE DEF f, g
<1>6. ~RecordsHttp(g) /\ ~Unintercepted(f) /\ (RecordsHttp(f) <=> f.kind \in Http)
  BY <1>1, <1>3, <1>4 DEF RecordsHttp, Unintercepted
<1>7. up <=> RecordsHttp(g) \/ (flag[t] /\ ~RecordsHttp(f))
  BY <1>6
<1> HIDE DEF up
<1>8. SeenOrRaised(f, g) /\ (Missed(g) <=> Missed(f))
  BY <1>4 DEF SeenOrRaised, Missed
<1>9. ~raced => Fits(t, g)
  <2>1. f.step # "record" /\ f.step \in {"record", "recording"}
    BY <1>1
  <2> QED BY <1>2, <1>4, <1>8, <2>1, AfterRecordFits
<1> QED BY <1>1, <1>2, <1>4, <1>5, <1>6, <1>7, <1>9, TopStep DEF f

(* What a call that begins has recorded: nothing. *)
LEMMA BegunFits ==
  ASSUME NEW t, NEW g \in Frames, g.outcome = None, g.seen = None,
         g.recorded = <<>>, ~g.missed, g.uses = 0,
         \/ /\ g.step = "enter" /\ g.kind \in Patched /\ ~g.wrapped
            /\ g.fn \in {"original", "wrapper"}
         \/ g.step = "running" /\ g.wrapped
  PROVE  Fits(t, g)
<1>1. SeenFits(t, g)
  BY DEF SeenFits, SeenAsGiven, None
<1>2. DueBy(g) = 0
  BY DEF DueBy
<1>3. Len(g.recorded) = 0 /\ DOMAIN g.recorded = {}
  OBVIOUS
<1>4. g.kind \in Patched \/ g.wrapped
  OBVIOUS
<1>5. RecordsFit(g)
  BY <1>2, <1>3, <1>4 DEF RecordsFit
<1> QED BY <1>1, <1>5 DEF Fits

(* The agent, or a recorder, makes a call.                                 *)
LEMMA CallStep ==
  ASSUME PatchesInv, StacksInv, CallsInv, NEW t \in Threads, Call(t)
  PROVE  StacksInv' /\ CallsInv'
<1>1. PICK k \in Kinds :
        /\ MayCall(t, k)
        /\ \E fn \in (IF k \in Patched THEN bound[k] ELSE {None}), r \in Captured(k) :
             stack' = [stack EXCEPT ![t] = Append(@,
               [NoFrame EXCEPT !.kind = k, !.fn = fn, !.rec = r, !.wrapped = k \notin Patched,
                               !.step = IF k \in Patched THEN "enter" ELSE "running"])]
  BY DEF Call
<1>2. PICK fn \in (IF k \in Patched THEN bound[k] ELSE {None}), r \in Captured(k) :
        stack' = [stack EXCEPT ![t] = Append(@,
          [NoFrame EXCEPT !.kind = k, !.fn = fn, !.rec = r, !.wrapped = k \notin Patched,
                          !.step = IF k \in Patched THEN "enter" ELSE "running"])]
  BY <1>1
<1>3. UNCHANGED patchVars /\ disturbed' = disturbed /\ flag' = flag
  BY DEF Call, CallOnly
<1> DEFINE calls == stack[t]
           wrapped == k \notin Patched
           first == IF k \in Patched THEN "enter" ELSE "running"
           g == [NoFrame EXCEPT !.kind = k, !.fn = fn, !.rec = r, !.wrapped = wrapped,
                                !.step = first]
<1>4. k \in AllKinds
  BY InstrumentationAssumption
<1>5. fn \in {"original", "wrapper", None} /\ (~raced /\ k \in Patched => fn \in {"original", "wrapper"})
  <2>1. CASE k \in Patched
    <3>1. fn \in bound[k] /\ bound[k] \subseteq {"original", "wrapper", None}
      BY <2>1 DEF PatchesInv, PatchTypes
    <3>2. k \in Http => bound[k] \subseteq {"original", "wrapper"}
      BY DEF PatchesInv, HttpInv
    <3>3. ~raced /\ k = "mcp" => bound[k] \subseteq {"original", "wrapper"}
      BY DEF PatchesInv, McpInv, McpAgrees
    <3>4. k \in Http \/ k = "mcp"
      BY <2>1 DEF Patched
    <3> QED BY <3>1, <3>2, <3>3, <3>4
  <2>2. CASE k \notin Patched
    BY <2>2
  <2> QED BY <2>1, <2>2
<1>6. r \in NoneOr(Recorders)
  <2>1. recs.default \in NoneOr(Recorders)
    BY DEF PatchesInv, PatchTypes
  <2>2. CASE k \in Patched
    <3>1. r = None
      BY <2>2 DEF Captured, Patched, Http
    <3> QED BY <3>1 DEF NoneOr
  <2>3. CASE k \in {"function", "coroutine", "stream"}
    BY <2>1, <2>3 DEF Captured, Patched, Http
  <2>4. CASE k = "langchain"
    BY <2>4 DEF Captured, Patched, Http, NoneOr
  <2>5. CASE k \in {"grpc", "legacy"}
    BY <2>5 DEF Captured, Patched, Http, NoneOr
  <2> QED BY <1>4, <2>2, <2>3, <2>4, <2>5 DEF AllKinds
<1>7. wrapped \in BOOLEAN /\ first \in Steps
  BY DEF Steps
<1>8. /\ wrapped <=> k \notin Patched
      /\ k \in Patched => first = "enter"
      /\ k \notin Patched => first = "running"
  OBVIOUS
<1>9. stack' = [stack EXCEPT ![t] = Append(calls, g)]
  BY <1>2
<1> HIDE DEF wrapped, first
<1>10. /\ g \in Frames /\ g.kind = k /\ g.fn = fn /\ g.rec = r /\ g.step = first
       /\ g.wrapped = wrapped /\ g.outcome = None /\ g.seen = None
       /\ g.recorded = <<>> /\ ~g.missed /\ g.uses = 0
  <2> DEFINE R == [by: Recorders, status: {"success", "error"}]
  <2>1. <<>> \in Seq(R)
    OBVIOUS
  <2>2. g = [NoFrame EXCEPT !.kind = k, !.fn = fn, !.rec = r, !.wrapped = wrapped, !.step = first]
    OBVIOUS
  <2> HIDE DEF R, g
  <2> QED BY <1>4, <1>5, <1>6, <1>7, <2>1, <2>2 DEF Frames, NoFrame, R
<1> HIDE DEF g
<1>11. StackFits(calls, flag[t]) /\ flag' = [flag EXCEPT ![t] = flag[t]]
  BY <1>3 DEF StacksInv
<1>12. /\ Len(calls) < MaxDepth
       /\ \/ calls = <<>>
          \/ /\ calls # <<>> /\ Top(t).step = "running" /\ Top(t).kind \in {"function", "coroutine"}
          \/ calls # <<>> /\ Top(t).step = "recording" /\ k \in Http
  BY <1>1 DEF MayCall, Idle, At
<1>13. ~RecordsHttp(g)
  BY <1>8, <1>10 DEF RecordsHttp
<1>14. calls # <<>> =>
         /\ calls[Len(calls)].step \in {"running", "recording", "inner"}
         /\ ~Unintercepted(calls[Len(calls)])
         /\ RecordsHttp(calls[Len(calls)]) => Unintercepted(g)
  <2>1. ASSUME Top(t).step = "running", Top(t).kind \in {"function", "coroutine"}
        PROVE  ~Unintercepted(Top(t)) /\ ~RecordsHttp(Top(t))
    BY <2>1 DEF Unintercepted, RecordsHttp, Http
  <2>2. ASSUME Top(t).step = "recording", k \in Http
        PROVE  ~Unintercepted(Top(t)) /\ Unintercepted(g)
    <3>1. k \in Patched
      BY <2>2 DEF Patched
    <3> QED BY <1>8, <1>10, <2>2, <3>1 DEF Unintercepted
  <2>3. Top(t) = calls[Len(calls)]
    BY DEF Top
  <2> HIDE DEF calls
  <2> QED BY <1>12, <2>1, <2>2, <2>3
<1> HIDE DEF calls
<1> DEFINE s == Append(calls, g)
<1>15. /\ StackFits(s, flag[t]) /\ Len(s) = Len(calls) + 1 /\ s[Len(calls) + 1] = g
       /\ \A i \in 1..Len(calls) : s[i] = calls[i]
  BY <1>10, <1>11, <1>12, <1>13, <1>14, StackPushed
<1>16. ASSUME ~raced PROVE Fits(t, g)
  BY <1>5, <1>8, <1>10, <1>16, BegunFits
<1>17. Len(calls) \in Nat
  BY <1>11 DEF StackFits
<1>18. ASSUME ~raced PROVE \A i \in 1..Len(s) : Fits(t, s[i])
  <2>1. \A i \in 1..Len(calls) : Fits(t, calls[i])
    BY <1>18 DEF CallsInv, calls
  <2> HIDE DEF s
  <2> QED BY <1>15, <1>16, <1>17, <1>18, <2>1
<1> HIDE DEF s
<1>19. s # <<>>
  BY <1>15, <1>17
<1>20. stack' = [stack EXCEPT ![t] = s]
  BY <1>9 DEF s
<1> QED BY <1>3, <1>11, <1>15, <1>18, <1>19, <1>20, CallsStep

(* A call returns to the agent, to the wrapper it was made in, or to the   *)
(* recorder that made it.                                                  *)
LEMMA ReturnStep ==
  ASSUME StacksInv, CallsInv, NEW t \in Threads, Return(t)
  PROVE  StacksInv' /\ CallsInv'
<1> DEFINE calls == stack[t]
           f == Top(t)
           below == SubSeq(stack[t], 1, Len(stack[t]) - 1)
           next == IF f.seen = "cancelled" THEN "return" ELSE "record"
           g == [below[Len(below)] EXCEPT
                   !.outcome = f.seen, !.seen = f.seen, !.recorded = f.recorded,
                   !.missed = f.missed, !.step = next]
<1>1. /\ calls # <<>> /\ f.step = "return" /\ flag' = flag /\ UNCHANGED patchVars
      /\ disturbed' = IF Len(calls) = 1 THEN disturbed \ {t} ELSE disturbed
  BY DEF Return, At
<1>2. stack' = [stack EXCEPT ![t] =
        IF below # <<>> /\ below[Len(below)].step = "inner"
        THEN [below EXCEPT ![Len(below)] = g] ELSE below]
  BY DEF Return
<1>3. StackFits(calls, flag[t]) /\ flag' = [flag EXCEPT ![t] = flag[t]] /\ flag[t] \in BOOLEAN
  BY <1>1 DEF StacksInv
<1>4. f \in Frames /\ calls[Len(calls)] = f
  BY <1>1, TopFits DEF Top
<1>5. next \in {"record", "return"} /\ next \in Steps
  BY DEF Steps
<1> HIDE DEF f, next
<1>6. ~RecordsHttp(f)
  BY <1>1 DEF RecordsHttp
<1>7. /\ StackFits(below, flag[t]) /\ Len(below) = Len(calls) - 1
      /\ \A i \in 1..(Len(calls) - 1) : below[i] = calls[i]
  BY <1>1, <1>3, <1>4, <1>6, StackPopped
<1> HIDE DEF below
<1>8. below \in Seq(Frames) /\ Len(below) \in Nat /\ Len(calls) \in Nat
  BY <1>3, <1>7 DEF StackFits
<1>9. below = <<>> <=> Len(calls) = 1
  <2>1. below = <<>> <=> Len(below) = 0
    BY <1>8
  <2> HIDE DEF calls
  <2> QED BY <1>7, <1>8, <2>1
<1>10. ASSUME ~raced PROVE \A i \in 1..Len(below) : Fits(t, below[i])
  <2>1. \A i \in 1..Len(calls) : Fits(t, calls[i])
    BY <1>10 DEF CallsInv
  <2> HIDE DEF calls
  <2> QED BY <1>7, <1>8, <2>1
<1>11. CASE below # <<>> /\ below[Len(below)].step = "inner"
  <2> DEFINE s == [below EXCEPT ![Len(below)] = g]
  <2>1. Len(below) \in 1..Len(below) /\ below[Len(below)] \in Frames
    BY <1>8, <1>11
  <2>2. raced
    <3>1. ASSUME ~raced PROVE FALSE
      <4>1. Fits(t, below[Len(below)])
        BY <1>10, <2>1, <3>1
      <4> QED BY <1>11, <4>1 DEF Fits, SeenFits, SeenAsGiven
    <3> QED BY <3>1
  <2>3. g \in Frames /\ g.kind = below[Len(below)].kind /\ g.step = next
    <3> HIDE DEF g
    <3>1. g = [below[Len(below)] EXCEPT
                 !.outcome = f.seen, !.seen = f.seen, !.recorded = f.recorded,
                 !.missed = f.missed, !.step = next]
      BY DEF g
    <3>2. PICK h \in Frames : h = below[Len(below)]
      BY <2>1
    <3>3. g = [h EXCEPT !.outcome = f.seen, !.seen = f.seen, !.recorded = f.recorded,
                        !.missed = f.missed, !.step = next]
      BY <3>1, <3>2
    <3> QED BY <1>4, <1>5, <3>2, <3>3 DEF Frames
  <2> HIDE DEF g
  <2>4. ~RecordsHttp(g) /\ ~RecordsHttp(below[Len(below)]) /\ ~Unintercepted(below[Len(below)])
    BY <1>5, <1>11, <2>3 DEF RecordsHttp, Unintercepted
  <2>5. StackFits(s, flag[t]) /\ Len(s) = Len(below)
    BY <1>3, <1>7, <1>11, <2>3, <2>4, StackReplaced
  <2> HIDE DEF s
  <2>6. s # <<>> /\ Len(calls) # 1
    BY <1>8, <1>9, <1>11, <2>5
  <2>7. disturbed' = disturbed
    BY <1>1, <2>6
  <2>8. stack' = [stack EXCEPT ![t] = s]
    BY <1>2, <1>11 DEF s
  <2> QED BY <1>1, <1>3, <2>2, <2>5, <2>6, <2>7, <2>8, CallsStep
<1>12. CASE ~(below # <<>> /\ below[Len(below)].step = "inner")
  <2>1. stack' = [stack EXCEPT ![t] = below]
    BY <1>2, <1>12
  <2>2. disturbed' = IF below = <<>> THEN disturbed \ {t} ELSE disturbed
    BY <1>1, <1>9
  <2> HIDE DEF calls
  <2> QED BY <1>1, <1>3, <1>7, <1>10, <2>1, <2>2, CallsStep
<1> QED BY <1>11, <1>12

-----------------------------------------------------------------------------
(* The invariant.                                                          *)

(* Installing and removing leaves the calls as they are, and notes whose   *)
(* calls it disturbs.                                                      *)
LEMMA QuietStep ==
  ASSUME StacksInv, CallsInv, Quiet, ~raced' => ~raced
  PROVE  StacksInv' /\ CallsInv'
<1>1. stack' = stack /\ flag' = flag /\ disturbed' = {t \in Threads : stack[t] # <<>>}
  BY DEF Quiet, callVars, Disturb
<1>2. StacksInv'
  BY <1>1 DEF StacksInv
<1>3. ASSUME ~raced', NEW t \in Threads, NEW i \in 1..Len(stack[t])
      PROVE  Fits(t, stack[t][i])'
  <2>1. stack[t] # <<>>
    BY <1>3
  <2>2. t \in disturbed'
    BY <1>1, <2>1
  <2>3. SeenFits(t, stack[t][i])
    BY <1>3 DEF CallsInv, Fits
  <2>4. SeenFits(t, stack[t][i])'
    BY <1>1, <2>2, <2>3 DEF SeenFits, SeenAsGiven
  <2> QED BY <2>2, <2>4 DEF Fits
<1>4. CallsInv'
  BY <1>1, <1>3 DEF CallsInv
<1> QED BY <1>2, <1>4

(* Patches that met never unmeet. *)
LEMMA RacedStays ==
  ASSUME PatchTypes, NEW t \in Threads, Patches(t) PROVE ~raced' => ~raced
<1>1. \A op, at, rec : GoOn(t, op, at, rec) => (~raced' => ~raced)
  BY DEF GoOn, PatchTypes
<1>2. Done(t) => (~raced' => ~raced)
  BY <1>1 DEF Done
<1>3. SetDefaultRecorder(t) => raced' = raced
  BY DEF SetDefaultRecorder
<1>4. Install(t) => \E op, at, rec : GoOn(t, op, at, rec)
  BY DEF Install, InstallHttpInterceptor, InstallNext, Done
<1>5. Uninstall(t) => \E op, at, rec : GoOn(t, op, at, rec)
  BY DEF Uninstall, UninstallHttpInterceptor, UninstallNext, Done
<1>6. Patch(t) => \E op, at, rec : GoOn(t, op, at, rec)
  BY DEF Patch, PatchMcpClient, PatchNext, Done
<1>7. Unpatch(t) => \E op, at, rec : GoOn(t, op, at, rec)
  BY DEF Unpatch, UnpatchMcpClient, UnpatchNext, Done
<1> QED BY <1>1, <1>3, <1>4, <1>5, <1>6, <1>7 DEF Patches

(* Calls leave the patches as they are. *)
LEMMA PatchesStay ==
  ASSUME PatchesInv, UNCHANGED patchVars PROVE PatchesInv'
<1>1. PatchTypes'
  BY DEF PatchesInv, PatchTypes, patchVars
<1>2. HttpInv'
  BY DEF PatchesInv, HttpInv, patchVars, AsBefore, Intercepted
<1>3. McpInv'
  BY DEF PatchesInv, McpInv, McpAgrees, patchVars, AsBefore, Intercepted
<1> QED BY <1>1, <1>2, <1>3 DEF PatchesInv

(* A step of a call.                                                       *)
Calls(t) ==
  Call(t) \/ EnterOriginal(t) \/ EnterWrapper(t) \/ Answer(t)
  \/ Iterate(t) \/ DropStream(t) \/ RecordCall(t) \/ EndRecord(t) \/ Return(t)

(* A step of a call keeps what is right of all of them. *)
LEMMA CallsKeep ==
  ASSUME InstrInv, NEW t \in Threads, Calls(t) PROVE InstrInv'
<1>1. PatchesInv /\ PatchTypes /\ StacksInv /\ CallsInv
  BY DEF InstrInv, PatchesInv
<1>2. StacksInv' /\ CallsInv'
  BY <1>1, CallStep, EnterOriginalStep, EnterWrapperStep, AnswerStep, IterateStep,
     DropStreamStep, RecordCallStep, EndRecordStep, ReturnStep DEF Calls
<1>3. UNCHANGED patchVars
  BY DEF Calls, Call, EnterOriginal, EnterWrapper, Answer, Iterate, DropStream, RecordCall,
         EndRecord, Return, CallOnly
<1>4. PatchesInv'
  BY <1>1, <1>3, PatchesStay
<1> QED BY <1>2, <1>4 DEF InstrInv, PatchesInv

(* Nothing is patched and nobody calls at first. *)
LEMMA InstrInvInit == InstrInit => InstrInv
<1> SUFFICES ASSUME InstrInit PROVE InstrInv
  OBVIOUS
<1> USE DEF InstrInit
<1>1. NoScript \in Scripts /\ NoScript.op = None /\ None \notin OnMcp /\ None \notin OnHttp
  BY DEF NoScript, Scripts, OnMcp, OnHttp, None
<1>2. \A t \in Threads : script[t] = NoScript
  OBVIOUS
<1>3. PatchTypes
  <2>1. script \in [Threads -> Scripts]
    BY <1>1
  <2> QED BY <2>1 DEF PatchTypes, NoneOr
<1>4. HttpInv
  <2>1. \A t \in Threads : script[t].op \notin OnHttp /\ lock # t
    BY <1>1, <1>2, NoneIsNone
  <2>2. "install" \in OnHttp /\ "uninstall" \in OnHttp
    BY DEF OnHttp
  <2>3. AsBefore("urllib") /\ AsBefore("send") /\ recs.http = None
    BY DEF AsBefore, Patched, Http
  <2>4. \A l \in Http : bound[l] \subseteq {"original", "wrapper"}
    BY DEF Patched
  <2> QED BY <2>1, <2>2, <2>3, <2>4 DEF HttpInv
<1>5. McpAgrees
  <2>1. \A t \in Threads : script[t].op \notin OnMcp
    BY <1>1, <1>2
  <2>2. "patch" \in OnMcp /\ "unpatch" \in OnMcp
    BY DEF OnMcp
  <2>3. AsBefore("mcp") /\ recs.mcp = None /\ bound["mcp"] = {"original"} /\ orig["mcp"] = None
    BY DEF AsBefore, Patched
  <2> QED BY <2>1, <2>2, <2>3 DEF McpAgrees, None
<1>6. StacksInv
  <2>1. StackFits(<<>>, FALSE)
    <3>1. <<>> \in Seq(Frames) /\ Len(<<>>) = 0
      OBVIOUS
    <3>2. 0 <= MaxDepth
      BY InstrumentationAssumption
    <3> QED BY <3>1, <3>2 DEF StackFits
  <2>2. stack = [t \in Threads |-> stack[t]] /\ flag \in [Threads -> BOOLEAN]
    OBVIOUS
  <2>3. \A t \in Threads : StackFits(stack[t], flag[t])
    BY <2>1
  <2> QED BY <2>2, <2>3 DEF StacksInv
<1>7. CallsInv
  <2>1. \A t \in Threads : 1..Len(stack[t]) = {}
    OBVIOUS
  <2> QED BY <2>1 DEF CallsInv
<1> QED BY <1>3, <1>4, <1>5, <1>6, <1>7 DEF InstrInv, McpInv

(* Every step keeps it. *)
LEMMA InstrInvNext == InstrInv /\ [InstrNext]_instrVars => InstrInv'
<1> SUFFICES ASSUME InstrInv, [InstrNext]_instrVars PROVE InstrInv'
  OBVIOUS
<1>1. PatchesInv /\ PatchTypes /\ StacksInv /\ CallsInv
  BY DEF InstrInv, PatchesInv
<1>2. CASE InstrNext
  <2>1. PICK t \in Threads : Patches(t) \/ Calls(t)
    BY <1>2 DEF InstrNext, Patches, Calls
  <2>2. CASE Patches(t)
    <3>1. PatchesInv' /\ Quiet /\ (~raced' => ~raced)
      BY <1>1, <2>2, PatchesStep, RacedStays
    <3>2. StacksInv' /\ CallsInv'
      BY <1>1, <3>1, QuietStep
    <3> QED BY <3>1, <3>2 DEF InstrInv, PatchesInv
  <2>3. CASE Calls(t)
    BY <2>3, CallsKeep
  <2> QED BY <2>1, <2>2, <2>3
<1>3. CASE UNCHANGED instrVars
  <2>1. UNCHANGED patchVars /\ stack' = stack /\ flag' = flag /\ disturbed' = disturbed
    BY <1>3 DEF instrVars, callVars
  <2>2. PatchesInv'
    BY <1>1, <2>1, PatchesStay
  <2>3. StacksInv'
    BY <1>1, <2>1 DEF StacksInv
  <2>4. raced' = raced /\ orig' = orig /\ recs' = recs
    BY <2>1 DEF patchVars
  <2>5. ASSUME ~raced, NEW t \in Threads, NEW i \in 1..Len(stack[t])
        PROVE  Fits(t, stack[t][i])'
    <3>1. Fits(t, stack[t][i])
      BY <1>1, <2>5 DEF CallsInv
    <3>2. stack'[t][i] = stack[t][i]
      BY <2>1
    <3> QED BY <2>1, <2>4, <3>1, <3>2, FitsStays
  <2>6. CallsInv'
    BY <2>1, <2>4, <2>5 DEF CallsInv
  <2> QED BY <2>2, <2>3, <2>6 DEF InstrInv, PatchesInv
<1> QED BY <1>2, <1>3

(* The invariant is one. *)
LEMMA InstrInvHolds == InstrSpec => []InstrInv
BY InstrInvInit, InstrInvNext, PTL DEF InstrSpec

-----------------------------------------------------------------------------
(* What follows from it.                                                   *)

(* Outside an operation, an attribute is patched with its original kept,   *)
(* or is the library's own.                                                *)
LEMMA PatchesWhole == InstrInv => PatchedOrAsBefore
<1> SUFFICES ASSUME InstrInv PROVE PatchedOrAsBefore
  OBVIOUS
<1>1. HttpInv /\ McpInv
  BY DEF InstrInv
<1>2. Http = {"urllib", "send"}
  BY DEF Http
<1>3. lock = None =>
        \A l \in Http :
          \/ attr[l] = "wrapper" /\ orig[l] = "original" /\ recs.http # None
          \/ attr[l] = "original" /\ orig[l] = None /\ recs.http = None
  BY <1>1, <1>2 DEF HttpInv, AsBefore, Intercepted
<1>4. ~raced /\ (\A t \in Threads : script[t].op \notin OnMcp) =>
        \/ attr["mcp"] = "wrapper" /\ orig["mcp"] = "original" /\ recs.mcp # None
        \/ attr["mcp"] = "original" /\ orig["mcp"] = None /\ recs.mcp = None
  BY <1>1 DEF McpInv, McpAgrees, AsBefore, Intercepted
<1> QED BY <1>3, <1>4 DEF PatchedOrAsBefore

(* The guard is up exactly while a record is sent over HTTP, and no call   *)
(* made there is intercepted.                                              *)
LEMMA GuardWorks == InstrInv => GuardEndsRecursion
<1> SUFFICES ASSUME InstrInv, NEW t \in Threads
             PROVE  /\ flag[t] <=> InHttpRecording(t) # {}
                    /\ \A i \in InHttpRecording(t), j \in DOMAIN stack[t] :
                         i < j => ~stack[t][j].wrapped
  BY DEF GuardEndsRecursion
<1>1. StackFits(stack[t], flag[t])
  BY DEF InstrInv, StacksInv
<1>2. DOMAIN stack[t] = 1..Len(stack[t]) /\ Len(stack[t]) \in Nat
  BY <1>1 DEF StackFits
<1>3. InHttpRecording(t) = {i \in 1..Len(stack[t]) : RecordsHttp(stack[t][i])}
  BY <1>2 DEF InHttpRecording, RecordsHttp
<1>4. flag[t] <=> InHttpRecording(t) # {}
  BY <1>1, <1>3 DEF StackFits
<1>5. ASSUME NEW i \in InHttpRecording(t), NEW j \in DOMAIN stack[t], i < j
      PROVE  ~stack[t][j].wrapped
  <2>1. i \in 1..Len(stack[t]) /\ RecordsHttp(stack[t][i]) /\ j \in 1..Len(stack[t])
    BY <1>2, <1>3, <1>5
  <2>2. Len(stack[t]) = i \/ (Len(stack[t]) = i + 1 /\ Unintercepted(stack[t][Len(stack[t])]))
    BY <1>1, <2>1 DEF StackFits
  <2>3. Len(stack[t]) = j /\ Unintercepted(stack[t][Len(stack[t])])
    BY <1>2, <1>5, <2>1, <2>2
  <2> QED BY <2>3 DEF Unintercepted
<1> QED BY <1>4, <1>5

(* The invariant is well typed.                                            *)
LEMMA InstrTyped == InstrInv => InstrTypeOK
<1> SUFFICES ASSUME InstrInv PROVE InstrTypeOK
  OBVIOUS
<1>1. PatchTypes /\ HttpInv /\ StacksInv
  BY DEF InstrInv
<1>2. \A l \in Http : orig[l] # "wrapper" /\ attr[l] # None
  BY <1>1, HttpOriginals DEF None
<1>3. \A t \in Threads : Len(stack[t]) <= MaxDepth
  BY <1>1 DEF StacksInv, StackFits
<1>4. flag \in [Threads -> BOOLEAN] /\ disturbed \subseteq Threads
  BY <1>1 DEF StacksInv
<1> QED BY <1>1, <1>2, <1>3, <1>4 DEF InstrTypeOK, PatchTypes, NoneOr

(* PatchInv, of the patches of http_auto.py and mcp_auto.py: whatever      *)
(* threads install, remove and call, the HTTP libraries are intercepted    *)
(* with the real original kept or as they were, MCP too unless patches     *)
(* met, and recording a call over HTTP never records another.              *)
THEOREM PatchesHold == InstrSpec => []PatchInv
<1>1. InstrInv => PatchInv
  BY PatchesWhole, GuardWorks, InstrTyped DEF PatchInv
<1> QED BY <1>1, InstrInvHolds, PTL

(* A call that goes on is still one call. *)
LEMMA LengthKept ==
  ASSUME NEW s \in Seq(Frames), NEW g, s # <<>>
  PROVE  [s EXCEPT ![Len(s)] = g] # <<>> /\ Len([s EXCEPT ![Len(s)] = g]) = Len(s)
<1> DEFINE S == Frames \union {g}
<1>1. s \in Seq(S) /\ g \in S /\ Len(s) \in 1..Len(s)
  <2>1. \A A, B : A \subseteq B => Seq(A) \subseteq Seq(B)
    OBVIOUS
  <2>2. s \in Seq(S)
    BY <2>1
  <2> QED BY <2>2
<1> HIDE DEF S
<1>2. [s EXCEPT ![Len(s)] = g] \in Seq(S) /\ Len([s EXCEPT ![Len(s)] = g]) = Len(s)
  BY <1>1, ExceptSeq
<1> QED BY <1>1, <1>2

(* Only a call that is at its end returns. *)
LEMMA ReturnsAtEnd ==
  ASSUME InstrInv, [InstrNext]_instrVars, NEW t \in Threads, Returns(t)
  PROVE  stack[t] # <<>> /\ Top(t).step = "return" /\ (~raced => Fits(t, Top(t)))
<1>1. StacksInv /\ CallsInv
  BY DEF InstrInv
<1>2. \A u \in Threads : stack[u] \in Seq(Frames) /\ Len(stack[u]) \in Nat
  BY <1>1 DEF StacksInv, StackFits
<1>3. Len(stack'[t]) < Len(stack[t])
  BY DEF Returns
<1>4. stack' # stack /\ Len(stack'[t]) # Len(stack[t])
  BY <1>2, <1>3
<1>5. stack = [u \in Threads |-> stack[u]]
  BY <1>1 DEF StacksInv
<1>6. ASSUME NEW u \in Threads, NEW g, Becomes(u, g), stack[u] # <<>> PROVE FALSE
  <2>1. stack'[u] = [stack[u] EXCEPT ![Len(stack[u])] = g]
        /\ \A v \in Threads : v # u => stack'[v] = stack[v]
    BY <1>5, <1>6 DEF Becomes
  <2>2. Len(stack'[u]) = Len(stack[u])
    BY <1>2, <1>6, <2>1, LengthKept
  <2> QED BY <1>4, <2>1, <2>2
<1>7. ASSUME NEW u \in Threads, NEW s, NEW g, stack' = [stack EXCEPT ![u] = Append(s, g)],
             s \in Seq(Frames), Len(s) = Len(stack[u])
      PROVE  FALSE
  <2>1. stack'[u] = Append(s, g) /\ \A v \in Threads : v # u => stack'[v] = stack[v]
    BY <1>5, <1>7
  <2>2. Len(Append(s, g)) = Len(s) + 1
    BY <1>7
  <2>3. u = t
    BY <1>4, <2>1
  <2>4. Len(stack'[t]) = Len(stack[t]) + 1
    BY <1>7, <2>1, <2>2, <2>3
  <2> QED BY <1>2, <1>3, <2>4
<1>8. PICK u \in Threads : Patches(u) \/ Calls(u)
  <2>1. instrVars' # instrVars
    BY <1>4 DEF instrVars, callVars
  <2> QED BY <2>1 DEF InstrNext, Patches, Calls
<1>9. ~Patches(u)
  <2>1. PatchesInv
    BY DEF InstrInv, PatchesInv
  <2> QED BY <1>4, <2>1, PatchesStep DEF Quiet, callVars
<1>10. ~Call(u)
  BY <1>2, <1>7 DEF Call
<1>11. ~EnterOriginal(u)
  BY <1>6 DEF EnterOriginal, At
<1>12. ~EnterWrapper(u)
  <2> SUFFICES ASSUME EnterWrapper(u) PROVE FALSE
    OBVIOUS
  <2> DEFINE f == [Top(u) EXCEPT !.wrapped = TRUE]
             g == [f EXCEPT !.step = "inner"]
             q == [stack[u] EXCEPT ![Len(stack[u])] = g]
  <2>1. /\ stack[u] # <<>>
        /\ \/ \E h : Becomes(u, h)
           \/ stack' = [stack EXCEPT ![u] = Append(q, [Top(u) EXCEPT !.recorded = <<>>])]
    BY DEF EnterWrapper, At
  <2>2. q \in Seq(Frames) /\ Len(q) = Len(stack[u])
    <3>1. Top(u) \in Frames
      BY <1>1, <2>1, TopFits
    <3>2. f \in Frames
      BY <3>1, FrameWrapped
    <3>3. "inner" \in Steps
      BY DEF Steps
    <3>4. g \in Frames
      <4> HIDE DEF f
      <4> QED BY <3>2, <3>3, FrameGoesOn
    <3>5. stack[u] \in Seq(Frames) /\ Len(stack[u]) \in 1..Len(stack[u])
      BY <1>2, <2>1
    <3> HIDE DEF g
    <3> QED BY <3>4, <3>5, ExceptSeq
  <2> HIDE DEF q
  <2> QED BY <1>6, <1>7, <2>1, <2>2
<1>13. ~Answer(u)
  BY <1>6 DEF Answer, At
<1>14. ~Iterate(u)
  BY <1>6 DEF Iterate, At
<1>15. ~DropStream(u)
  BY <1>6 DEF DropStream, At
<1>16. ~RecordCall(u)
  BY <1>6 DEF RecordCall, At
<1>17. ~EndRecord(u)
  BY <1>6 DEF EndRecord, At
<1>18. Return(u)
  BY <1>8, <1>9, <1>10, <1>11, <1>12, <1>13, <1>14, <1>15, <1>16, <1>17 DEF Calls
<1>19. u = t
  <2>1. \A v \in Threads : v # u => stack'[v] = stack[v]
    BY <1>5, <1>18 DEF Return
  <2> QED BY <1>4, <2>1
<1>20. stack[t] # <<>> /\ Top(t).step = "return"
  BY <1>18, <1>19 DEF Return, At
<1> QED BY <1>1, <1>20, TopFits

(* RecordedOnce, of the wrappers of the interceptors, decorators and       *)
(* adapters: a call beside which nothing was patched has, when it returns, *)
(* the records it is due, no fewer and no more, where and as they should   *)
(* be.                                                                     *)
THEOREM RecordedOnceHolds == InstrSpec => RecordedOnce
<1>1. ASSUME InstrInv, [InstrNext]_instrVars, NEW t \in Threads,
             Returns(t), Top(t).wrapped, t \notin disturbed, ~raced
      PROVE  RecordedAsDue(Top(t))
  <2> DEFINE f == Top(t)
  <2>1. RecordsFit(f) /\ f.step = "return"
    BY <1>1, ReturnsAtEnd DEF Fits
  <2>2. f.wrapped
    BY <1>1
  <2> HIDE DEF f
  <2>3. DueBy(f) = Due(f)
    BY <2>1 DEF DueBy
  <2>4. Len(f.recorded) <= Due(f)
    BY <2>1, <2>2, <2>3 DEF RecordsFit
  <2>5. ~f.missed => Len(f.recorded) = Due(f)
    <3>1. CASE Writes(f, RecorderOf(f))
      BY <2>1, <2>2, <2>3, <3>1 DEF RecordsFit
    <3>2. CASE ~Writes(f, RecorderOf(f))
      <4>1. f.recorded = <<>> /\ Due(f) = 0
        BY <2>1, <3>2 DEF RecordsFit, Due
      <4> QED BY <4>1
    <3> QED BY <3>1, <3>2
  <2>6. \A i \in DOMAIN f.recorded :
          /\ f.recorded[i].by = RecorderOf(f)
          /\ ~AlwaysSuccess(f) =>
               (f.recorded[i].status = "success" <=> f.outcome = "success")
    BY <2>1 DEF RecordsFit
  <2> QED BY <2>4, <2>5, <2>6 DEF RecordedAsDue, f
<1>2. InstrInv /\ [InstrNext]_instrVars =>
        [\A t \in Threads :
           (Returns(t) /\ Top(t).wrapped /\ t \notin disturbed /\ ~raced) =>
             RecordedAsDue(Top(t))]_instrVars
  BY <1>1
<1> QED BY <1>2, InstrInvHolds, PTL DEF InstrSpec, RecordedOnce

(* CallsTransparent, of the same: an agent sees what the original would    *)
(* have given it, but where a ChainWriter failed to write or a wrapper had *)
(* been removed.                                                           *)
THEOREM CallsTransparentHolds == InstrSpec => CallsTransparent
<1>1. ASSUME InstrInv, [InstrNext]_instrVars, NEW t \in Threads, Returns(t), ~raced
      PROVE  SeenAsGiven(t, Top(t))
  BY <1>1, ReturnsAtEnd DEF Fits, SeenFits
<1>2. InstrInv /\ [InstrNext]_instrVars =>
        [\A t \in Threads :
           (Returns(t) /\ ~raced) => SeenAsGiven(t, Top(t))]_instrVars
  BY <1>1
<1> QED BY <1>2, InstrInvHolds, PTL DEF InstrSpec, CallsTransparent

-----------------------------------------------------------------------------
(* Tracing: the inductive invariant.                                       *)

(* A record of a chain. *)
Entries ==
  [type: {"boot", "gap", "action"}, parent: 0 .. MaxUses, span: Spans \union {Nil},
   run: Runs \union {Nil}, input: Runs \union {Nil}, id: {-1} \union 1 .. MaxUses,
   seq: Nat, returned: BOOLEAN]

(* A token, a span and the recording of a task. *)
Tokens == [thread: Tasks \union {Nil}, prev: Spans \union {Nil}, used: BOOLEAN]
SpanRecords ==
  [made: BOOLEAN, session: AllRecorders \union {Nil}, parent: Spans \union {Nil},
   recordId: 0 .. MaxUses, token: Tokens]
Recordings ==
  {NoCall} \union [at: {"record", "check", "set"}, span: Spans, rec: AllRecorders,
                   parent: 0 .. MaxUses, result: 0 .. MaxUses]

(* The types of the variables. *)
TracingTypes ==
  /\ default \in AllRecorders \union {Nil}
  /\ chain \in [AllRecorders -> Seq(Entries)]
  /\ sequence \in [AllRecorders -> Nat \ {0}] /\ pendingGap \in [AllRecorders -> BOOLEAN]
  /\ span \in [Spans -> SpanRecords]
  /\ current \in [Tasks -> Spans \union {Nil}] /\ withs \in [Tasks -> Seq(Spans)]
  /\ call \in [Tasks -> Recordings]
  /\ run \in [Runs -> [at: {"new", "on", "done"}, given: BOOLEAN]]
  /\ spent \in [records: Nat, faults: 0 .. MaxFaults, others: Nat]
  /\ history \in [contended: SUBSET Spans, users: [Spans -> SUBSET Tasks],
                  reentered: BOOLEAN, raised: BOOLEAN]

(* Those who have been promised a record. *)
Waiting == {t \in Tasks : call[t].at = "record"}

(* What is used, and what that bounds. *)
Bounds ==
  /\ spent.records + spent.others + Cardinality(Waiting) <= MaxUses
  /\ \A r \in AllRecorders : sequence[r] <= 2 * spent.records + 1
  /\ \A t \in Tasks : Len(withs[t]) <= spent.others

(* While no span is entered twice, each is in one place at most, and its   *)
(* token leads from there to the span around it.                           *)
Outer(t, i) == IF i = 1 THEN Nil ELSE withs[t][i - 1]
Nested ==
  ~history.reentered =>
    /\ ~history.raised
    /\ \A t, u \in Tasks : \A i \in 1 .. Len(withs[t]), j \in 1 .. Len(withs[u]) :
         withs[t][i] = withs[u][j] => t = u /\ i = j
    /\ \A t \in Tasks : \A i \in 1 .. Len(withs[t]) :
         /\ span[withs[t][i]].token.thread = t /\ ~span[withs[t][i]].token.used
         /\ span[withs[t][i]].token.prev = Outer(t, i)
    /\ \A t \in Tasks : current[t] = Outer(t, Len(withs[t]) + 1)

(* Only spans there are have been entered.                                 *)
WithsInv == Nested /\ \A t \in Tasks : \A i \in 1 .. Len(withs[t]) : Exists(withs[t][i])

(* A record is of a span there is, or of a run that is over. *)
EntriesInv ==
  \A e \in Written : /\ e.id <= spent.records
                     /\ e.span # Nil => Exists(e.span)
                     /\ e.run # Nil => run[e.run].at = "done"

(* A record with the id was returned, at a number that stays below those   *)
(* that follow.                                                            *)
OnChain(id) ==
  \E r \in AllRecorders : \E i \in 1 .. Len(chain[r]) :
    chain[r][i].id = id /\ chain[r][i].seq <= sequence[r]

(* The id a span has, the parent a recording goes under and the result it  *)
(* has come to are ids of records that were returned.                      *)
IdsInv ==
  /\ \A s \in Spans : span[s].recordId # 0 => OnChain(span[s].recordId)
  /\ \A t \in Tasks : call[t].parent # 0 => OnChain(call[t].parent)
  /\ \A t \in Tasks : call[t].at \in {"check", "set"} => call[t].result # 0 /\ OnChain(call[t].result)

(* A task that is recording in a span is among the users of it and of its  *)
(* parent, which exist.                                                    *)
UsersInv ==
  \A t \in Tasks : call[t] # NoCall =>
    /\ Exists(call[t].span) /\ t \in history.users[call[t].span]
    /\ call[t].at \in {"check", "set"} =>
         \E f \in Given(call[t].span) : f.id = call[t].result

(* The first record of a span has its id, once the one task that is        *)
(* recording in it has set it.                                             *)
Finishing(t, p) == call[t].span = p /\ call[t].at \in {"check", "set"}
FirstInv(p) ==
  /\ span[p].recordId = 0 =>
       /\ \A t, u \in Tasks : call[t].span = p /\ call[u].span = p => t = u
       /\ \A f \in Given(p) : \E t \in Tasks : Finishing(t, p) /\ call[t].result = f.id
  /\ span[p].recordId # 0 =>
       /\ \E f \in Given(p) : f.id = span[p].recordId
       /\ \A f \in Given(p) : span[p].recordId <= f.id
       /\ \A t \in Tasks : call[t].span = p => call[t].at # "set"

(* What a recording goes under is the id its parent has, or the parent had *)
(* none then; what has come since is from another task.                    *)
UnderInv(t, p) ==
  /\ call[t].parent # 0 => call[t].parent = span[p].recordId
  /\ call[t].parent = 0 => Given(p) = {} \/ Cardinality(history.users[p]) > 1
  /\ t \in history.users[p]

ParentsInv ==
  \A p \in Spans : p \notin history.contended =>
    /\ FirstInv(p)
    /\ \A t \in Tasks :
         call[t].at = "record" /\ ParentOf(call[t].span) = p => UnderInv(t, p)

(* The input of a run with an id is kept under the id from its start to    *)
(* its end.                                                                *)
InputsInv ==
  /\ \A e \in inputs : \E x \in Runs : e = <<StartKey(x, run[x].given), x>> /\ run[x].at # "new"
  /\ \A x \in Runs : run[x].given => (run[x].at = "on" <=> <<<<"run", x>>, x>> \in inputs)

TracingInv ==
  /\ TracingTypes /\ Bounds /\ WithsInv /\ EntriesInv /\ IdsInv /\ UsersInv /\ ParentsInv
  /\ InputsInv /\ ChildrenHangUnderFirst /\ ParentsComeFirst /\ RunsKeepApart

-----------------------------------------------------------------------------
(* Tracing: records.                                                       *)

(* What has been written is what stands in the chains. *)
LEMMA WrittenIs ==
  ASSUME NEW e
  PROVE  e \in Written <=> \E r \in AllRecorders : \E i \in 1 .. Len(chain[r]) : e = chain[r][i]
BY DEF Written

(* The records of typed chains. *)
LEMMA WrittenTyped ==
  ASSUME TracingTypes, NEW e \in Written PROVE e \in Entries
<1>1. PICK r \in AllRecorders : \E i \in 1 .. Len(chain[r]) : e = chain[r][i]
  BY WrittenIs
<1>2. chain[r] \in Seq(Entries)
  BY DEF TracingTypes
<1> QED BY <1>1, <1>2, ElementOfSeq

(* A record of no span and no run, and under none. *)
Plain(e) == e.parent = 0 /\ e.span = Nil /\ e.run = Nil /\ e.id = -1

(* A record that safe_record was asked for. *)
Asked(e, entry) ==
  /\ e.parent = entry.parent /\ e.span = entry.span /\ e.run = entry.run
  /\ e.input = entry.input /\ e.id = NextId

(* The chains grow at their ends. *)
Grow ==
  \A q \in AllRecorders :
    /\ Len(chain[q]) <= Len(chain'[q])
    /\ \A i \in 1 .. Len(chain[q]) : chain'[q][i] = chain[q][i]
    /\ sequence[q] <= sequence'[q]

(* safe_record appends to one chain: perhaps a plain record, and perhaps   *)
(* the record itself, with a number higher than what the writer had.  A    *)
(* record that is returned is there, and the writer has its number.        *)
LEMMA SafeRecordWrites ==
  ASSUME TracingTypes, NEW r \in AllRecorders, NEW entry \in Entries, NEW how \in AllFaults \union {"ok"},
         NextId <= MaxUses, SafeRecord(r, entry, how)
  PROVE  /\ Grow /\ chain' \in [AllRecorders -> Seq(Entries)]
         /\ \A q \in AllRecorders : sequence'[q] <= sequence[q] + 2
         /\ \A q \in AllRecorders : \A i \in 1 .. Len(chain'[q]) : i > Len(chain[q]) =>
              \/ Plain(chain'[q][i]) /\ ~chain'[q][i].returned
              \/ /\ q = r /\ Asked(chain'[q][i], entry) /\ chain'[q][i].seq > sequence[q]
                 /\ chain'[q][i].returned => how \in {"ok", "invalid"}
         /\ how \in {"ok", "invalid"} =>
              LET n == Len(chain'[r])
              IN  /\ n \in 1 .. Len(chain'[r]) /\ Asked(chain'[r][n], entry)
                  /\ chain'[r][n].returned /\ chain'[r][n].seq <= sequence'[r]
<1> DEFINE gap == [Entry("gap", ZERO_UUID, Nil, Nil, Nil) EXCEPT !.seq = sequence[r] + 1]
           due == IF pendingGap[r] THEN <<gap>> ELSE <<>>
           base == sequence[r] + Len(due)
           new == [entry EXCEPT !.type = IF how = "invalid" THEN "gap" ELSE @, !.id = NextId,
                                !.seq = base + 1, !.returned = how \in {"ok", "invalid"}]
           tail == IF how = "lost" THEN <<>> ELSE <<new>>
<1>1. /\ chain' = [chain EXCEPT ![r] = @ \o due \o tail]
      /\ sequence' = [sequence EXCEPT ![r] = IF how \in {"kept", "lost"} THEN base ELSE base + 1]
  BY DEF SafeRecord
<1>2. gap \in Entries /\ Plain(gap) /\ ~gap.returned
  <2>1. sequence[r] + 1 \in Nat /\ 0 \in 0 .. MaxUses
    BY TracingAssumption DEF TracingTypes
  <2> DEFINE first == Entry("gap", ZERO_UUID, Nil, Nil, Nil)
  <2>2. first \in Entries /\ Plain(first)
    BY <2>1 DEF Entries, Entry, ZERO_UUID, Plain
  <2>3. ~first.returned
    BY DEF Entry
  <2>4. gap = [first EXCEPT !.seq = sequence[r] + 1]
    OBVIOUS
  <2> HIDE DEF first, gap
  <2>5. gap \in Entries /\ Plain(gap)
    BY <2>1, <2>2, <2>4 DEF Entries, Plain
  <2>6. ~gap.returned
    BY <2>2, <2>3, <2>4 DEF Entries
  <2> QED BY <2>5, <2>6
<1>3. Len(due) \in 0 .. 1 /\ due \in Seq(Entries) /\ \A i \in 1 .. Len(due) : due[i] = gap
  BY <1>2
<1>4. base \in Nat /\ base >= sequence[r] /\ base <= sequence[r] + 1
  <2> HIDE DEF due
  <2>1. sequence[r] \in Nat
    BY DEF TracingTypes
  <2> QED BY <1>3, <2>1
<1>5. /\ new \in Entries /\ Asked(new, entry) /\ new.seq = base + 1
      /\ new.returned <=> how \in {"ok", "invalid"}
  <2> HIDE DEF base
  <2>1. NextId \in 1 .. MaxUses
    BY DEF NextId, TracingTypes
  <2> DEFINE told == how \in {"ok", "invalid"}
             type == IF how = "invalid" THEN "gap" ELSE entry.type
  <2>2. told \in BOOLEAN /\ type \in {"boot", "gap", "action"}
    BY DEF Entries
  <2>3. new = [entry EXCEPT !.type = type, !.id = NextId, !.seq = base + 1, !.returned = told]
    OBVIOUS
  <2>4. base + 1 \in Nat
    BY <1>4
  <2> HIDE DEF told, type, base, new
  <2>5. new \in Entries /\ Asked(new, entry) /\ new.seq = base + 1 /\ new.returned = told
    BY <2>1, <2>2, <2>3, <2>4 DEF Entries, Asked
  <2> QED BY <2>5 DEF told
<1>6. Len(tail) \in 0 .. 1 /\ tail \in Seq(Entries) /\ \A i \in 1 .. Len(tail) : tail[i] = new
  <2> HIDE DEF new
  <2> QED BY <1>5
<1>7. how \in {"ok", "invalid"} => Len(tail) = 1
  OBVIOUS
<1> HIDE DEF gap, due, base, new, tail
<1>8. /\ chain[r] \in Seq(Entries) /\ chain'[r] = chain[r] \o due \o tail
      /\ \A q \in AllRecorders : q # r => chain'[q] = chain[q]
  BY <1>1 DEF TracingTypes
<1>9. /\ chain'[r] \in Seq(Entries) /\ Len(chain'[r]) = Len(chain[r]) + Len(due) + Len(tail)
      /\ \A i \in 1 .. Len(chain[r]) : chain'[r][i] = chain[r][i]
      /\ \A i \in Len(chain[r]) + 1 .. Len(chain[r]) + Len(due) : chain'[r][i] = gap
      /\ \A i \in Len(chain[r]) + Len(due) + 1 .. Len(chain'[r]) : chain'[r][i] = new
  BY <1>3, <1>6, <1>8
<1>10. /\ sequence'[r] = IF how \in {"kept", "lost"} THEN base ELSE base + 1
       /\ \A q \in AllRecorders : q # r => sequence'[q] = sequence[q]
       /\ \A q \in AllRecorders : sequence[q] \in Nat
  BY <1>1 DEF TracingTypes
<1>11. Grow /\ \A q \in AllRecorders : sequence'[q] <= sequence[q] + 2
  <2>1. \A q \in AllRecorders : sequence[q] <= sequence'[q] /\ sequence'[q] <= sequence[q] + 2
    BY <1>4, <1>10
  <2>2. \A q \in AllRecorders : Len(chain[q]) \in Nat
    BY DEF TracingTypes
  <2>3. \A q \in AllRecorders :
          /\ Len(chain[q]) <= Len(chain'[q])
          /\ \A i \in 1 .. Len(chain[q]) : chain'[q][i] = chain[q][i]
    BY <1>3, <1>6, <1>8, <1>9, <2>2
  <2> QED BY <2>1, <2>3 DEF Grow
<1>12. chain' \in [AllRecorders -> Seq(Entries)]
  <2> DEFINE S == Seq(Entries)
  <2>1. chain \in [AllRecorders -> S] /\ chain[r] \o due \o tail \in S
    BY <1>8, <1>9 DEF TracingTypes
  <2> HIDE DEF S
  <2>2. chain' \in [AllRecorders -> S]
    BY <1>1, <2>1
  <2> QED BY <2>2 DEF S
<1>13. ASSUME NEW q \in AllRecorders, NEW i \in 1 .. Len(chain'[q]), i > Len(chain[q])
       PROVE  \/ Plain(chain'[q][i]) /\ ~chain'[q][i].returned
              \/ /\ q = r /\ Asked(chain'[q][i], entry) /\ chain'[q][i].seq > sequence[q]
                 /\ chain'[q][i].returned => how \in {"ok", "invalid"}
  <2>1. q = r
    <3>1. Len(chain[q]) \in Nat
      BY DEF TracingTypes
    <3> QED BY <1>8, <1>13, <3>1
  <2>2. Len(chain[r]) \in Nat /\ Len(due) \in Nat /\ i \in Nat
    BY <1>3, <1>8
  <2>3. chain'[q][i] = gap \/ chain'[q][i] = new
    BY <1>9, <1>13, <2>1, <2>2
  <2>4. new.seq > sequence[r]
    BY <1>4, <1>5, <1>10
  <2> QED BY <1>2, <1>5, <2>1, <2>3, <2>4, Zenon
<1>14. ASSUME how \in {"ok", "invalid"}
       PROVE  LET n == Len(chain'[r])
              IN  /\ n \in 1 .. Len(chain'[r]) /\ Asked(chain'[r][n], entry)
                  /\ chain'[r][n].returned /\ chain'[r][n].seq <= sequence'[r]
  <2>1. Len(chain[r]) \in Nat /\ Len(due) \in Nat /\ Len(tail) = 1
    BY <1>3, <1>7, <1>8, <1>14
  <2>2. /\ Len(chain'[r]) \in 1 .. Len(chain'[r])
        /\ chain'[r][Len(chain'[r])] = new
    BY <1>9, <2>1
  <2>3. new.seq <= sequence'[r]
    BY <1>4, <1>5, <1>10, <1>14
  <2>4. new.returned
    BY <1>5, <1>14
  <2> QED BY <1>5, <2>2, <2>3, <2>4, Zenon
<1>15. \A q \in AllRecorders : \A i \in 1 .. Len(chain'[q]) : i > Len(chain[q]) =>
              \/ Plain(chain'[q][i]) /\ ~chain'[q][i].returned
              \/ /\ q = r /\ Asked(chain'[q][i], entry) /\ chain'[q][i].seq > sequence[q]
                 /\ chain'[q][i].returned => how \in {"ok", "invalid"}
  BY <1>13
<1> QED BY <1>11, <1>12, <1>14, <1>15, Zenon

(* What is written stays, and what comes is as SafeRecordWrites says. *)
LEMMA WrittenThen ==
  ASSUME TracingTypes, NEW r \in AllRecorders, NEW entry \in Entries, NEW how \in AllFaults \union {"ok"},
         NextId <= MaxUses, SafeRecord(r, entry, how)
  PROVE  /\ \A e \in Written : e \in Written'
         /\ \A e \in Written' :
              \/ e \in Written
              \/ Plain(e) /\ ~e.returned
              \/ Asked(e, entry) /\ (e.returned => how \in {"ok", "invalid"})
         /\ how \in {"ok", "invalid"} => \E e \in Written' : Asked(e, entry) /\ e.returned
         /\ how \in {"ok", "invalid"} =>
              \E q \in AllRecorders : \E i \in 1 .. Len(chain'[q]) :
                chain'[q][i].id = NextId /\ chain'[q][i].seq <= sequence'[q]
<1>1. \A e : e \in Written' <=>
               \E q \in AllRecorders : \E i \in 1 .. Len(chain'[q]) : e = chain'[q][i]
  BY DEF Written
<1>2. Grow /\ chain' \in [AllRecorders -> Seq(Entries)]
  BY SafeRecordWrites
<1>3. \A q \in AllRecorders : Len(chain[q]) \in Nat /\ Len(chain'[q]) \in Nat
  BY <1>2 DEF TracingTypes
<1>4. ASSUME NEW e \in Written PROVE e \in Written'
  <2>1. PICK q \in AllRecorders : \E i \in 1 .. Len(chain[q]) : e = chain[q][i]
    BY WrittenIs
  <2>2. PICK i \in 1 .. Len(chain[q]) : e = chain[q][i]
    BY <2>1
  <2>3. i \in 1 .. Len(chain'[q]) /\ e = chain'[q][i]
    BY <1>2, <1>3, <2>2 DEF Grow
  <2> QED BY <1>1, <2>3
<1>5. ASSUME NEW e \in Written'
      PROVE  \/ e \in Written
             \/ Plain(e) /\ ~e.returned
             \/ Asked(e, entry) /\ (e.returned => how \in {"ok", "invalid"})
  <2>1. PICK q \in AllRecorders : \E i \in 1 .. Len(chain'[q]) : e = chain'[q][i]
    BY <1>1
  <2>2. PICK i \in 1 .. Len(chain'[q]) : e = chain'[q][i]
    BY <2>1
  <2>3. CASE i > Len(chain[q])
    <3>1. \/ Plain(chain'[q][i]) /\ ~chain'[q][i].returned
          \/ /\ q = r /\ Asked(chain'[q][i], entry) /\ chain'[q][i].seq > sequence[q]
             /\ chain'[q][i].returned => how \in {"ok", "invalid"}
      BY <2>3, SafeRecordWrites
    <3> QED BY <2>2, <3>1, Zenon
  <2>4. CASE i \in 1 .. Len(chain[q])
    <3>1. e = chain[q][i]
      BY <1>2, <2>2, <2>4 DEF Grow
    <3>2. e \in Written
      BY <2>4, <3>1, WrittenIs
    <3> QED BY <3>2
  <2> QED BY <1>3, <2>3, <2>4
<1>6. ASSUME how \in {"ok", "invalid"}
      PROVE  /\ \E e \in Written' : Asked(e, entry) /\ e.returned
             /\ \E q \in AllRecorders : \E i \in 1 .. Len(chain'[q]) :
                  chain'[q][i].id = NextId /\ chain'[q][i].seq <= sequence'[q]
  <2> DEFINE n == Len(chain'[r])
             e == chain'[r][n]
  <2>1. /\ n \in 1 .. Len(chain'[r]) /\ Asked(e, entry)
        /\ e.returned /\ e.seq <= sequence'[r]
    BY <1>6, SafeRecordWrites
  <2>2. e \in Written'
    BY <1>1, <2>1
  <2>3. \E q \in AllRecorders : \E i \in 1 .. Len(chain'[q]) :
          chain'[q][i].id = NextId /\ chain'[q][i].seq <= sequence'[q]
    BY <2>1 DEF Asked
  <2>4. \E f \in Written' : Asked(f, entry) /\ f.returned
    BY <2>1, <2>2, Zenon
  <2> QED BY <2>3, <2>4
<1> QED BY <1>4, <1>5, <1>6

(* An id on a chain stays there. *)
LEMMA OnChainStays ==
  ASSUME TracingTypes, Grow, chain' \in [AllRecorders -> Seq(Entries)],
         sequence' \in [AllRecorders -> Nat \ {0}], NEW id, OnChain(id)
  PROVE  OnChain(id)'
<1>1. PICK q \in AllRecorders : \E i \in 1 .. Len(chain[q]) :
        chain[q][i].id = id /\ chain[q][i].seq <= sequence[q]
  BY DEF OnChain
<1>2. PICK i \in 1 .. Len(chain[q]) : chain[q][i].id = id /\ chain[q][i].seq <= sequence[q]
  BY <1>1
<1>3. Len(chain[q]) \in Nat /\ Len(chain'[q]) \in Nat /\ chain[q] \in Seq(Entries)
  BY DEF TracingTypes
<1>4. chain[q][i].seq \in Nat
  <2>1. chain[q][i] \in Entries
    BY <1>3, ElementOfSeq
  <2> QED BY <2>1 DEF Entries
<1>5. i \in 1 .. Len(chain'[q]) /\ chain'[q][i] = chain[q][i] /\ sequence[q] <= sequence'[q]
  BY <1>3 DEF Grow
<1>6. chain'[q][i].seq <= sequence'[q]
  BY <1>2, <1>4, <1>5 DEF TracingTypes
<1> QED BY <1>2, <1>5, <1>6 DEF OnChain

-----------------------------------------------------------------------------
(* Tracing: types.                                                         *)

(* Where there is room for a use, there is for a record.                   *)
LEMMA RoomForOne ==
  ASSUME TracingTypes, Bounds
  PROVE  /\ IsFiniteSet(Waiting) /\ Cardinality(Waiting) \in Nat
         /\ Waiting # {} => NextId <= MaxUses /\ Cardinality(Waiting) >= 1
         /\ Room => NextId <= MaxUses /\ spent.records + spent.others + Cardinality(Waiting) < MaxUses
<1>1. IsFiniteSet(Waiting) /\ Cardinality(Waiting) \in Nat
  BY TracingAssumption, FS_Subset, FS_CardinalityType DEF Waiting
<1>2. spent.records \in Nat /\ spent.others \in Nat
  BY DEF TracingTypes
<1>3. ASSUME Waiting # {} PROVE NextId <= MaxUses /\ Cardinality(Waiting) >= 1
  <2>1. Cardinality(Waiting) # 0
    BY <1>1, <1>3, FS_EmptySet
  <2> QED BY <1>1, <1>2, <2>1, TracingAssumption DEF NextId, Bounds
<1>4. ASSUME Room
      PROVE  NextId <= MaxUses /\ spent.records + spent.others + Cardinality(Waiting) < MaxUses
  BY <1>1, <1>2, <1>4, TracingAssumption DEF NextId, Room, Waiting
<1> QED BY <1>1, <1>3, <1>4

(* A record in a span, and the record of a run.                            *)
Wanted(t) == Entry("action", call[t].parent, call[t].span, Nil, Nil)

LEMMA WriteRecords ==
  ASSUME TracingTypes, Bounds, NEW t \in Tasks, Write(t)
  PROVE  \E how \in AllFaults \union {"ok"} :
           /\ SafeRecord(call[t].rec, Wanted(t), how)
           /\ call[t].rec \in AllRecorders /\ Wanted(t) \in Entries /\ NextId <= MaxUses
           /\ how # "ok" => spent.faults < MaxFaults
           /\ call' = [call EXCEPT ![t] =
                         IF how \in {"ok", "invalid"}
                         THEN [@ EXCEPT !.at = "check", !.result = NextId] ELSE NoCall]
<1>1. PICK how \in Ways :
        /\ SafeRecord(call[t].rec, Wanted(t), how)
        /\ call' = [call EXCEPT ![t] =
                      IF how \in {"ok", "invalid"}
                      THEN [@ EXCEPT !.at = "check", !.result = NextId] ELSE NoCall]
  BY DEF Write, Wanted
<1>2. how \in AllFaults \union {"ok"} /\ (how # "ok" => spent.faults < MaxFaults)
  BY TracingAssumption DEF Ways
<1>3. call[t].at = "record" /\ call[t] \in Recordings
  BY DEF Write, TracingTypes
<1>4. call[t].rec \in AllRecorders /\ call[t].parent \in 0 .. MaxUses /\ call[t].span \in Spans
  BY <1>3 DEF Recordings, NoCall, Nil
<1>5. Wanted(t) \in Entries
  <2>1. -1 \in {-1} \union 1 .. MaxUses /\ FALSE \in BOOLEAN /\ 1 \in Nat
    OBVIOUS
  <2> QED BY <1>4, <2>1 DEF Entries, Wanted, Entry
<1>6. NextId <= MaxUses
  <2>1. t \in Waiting
    BY <1>3 DEF Waiting
  <2> QED BY <2>1, RoomForOne
<1> QED BY <1>1, <1>2, <1>4, <1>5, <1>6

RunInput(x) == IF Kept(x) = {} THEN Nil ELSE (CHOOSE e \in Kept(x) : TRUE)[2]
RunEntry(x) == Entry("action", ZERO_UUID, Nil, x, RunInput(x))

(* The input of a run is a run, or nothing.                                *)
LEMMA RunInputTyped ==
  ASSUME InputsInv, NEW x \in Runs PROVE RunInput(x) \in Runs \union {Nil}
<1>1. CASE Kept(x) = {}
  BY <1>1 DEF RunInput
<1>2. CASE Kept(x) # {}
  <2> DEFINE e == CHOOSE f \in Kept(x) : TRUE
  <2>1. e \in Kept(x)
    BY <1>2
  <2> HIDE DEF e
  <2>2. e \in inputs
    BY <2>1 DEF Kept
  <2>3. PICK y \in Runs : e = <<StartKey(y, run[y].given), y>>
    BY <2>2 DEF InputsInv
  <2>4. e[2] = y
    BY <2>3
  <2>5. RunInput(x) = e[2]
    BY <1>2 DEF RunInput, e
  <2> QED BY <2>4, <2>5
<1> QED BY <1>1, <1>2

LEMMA RunEndRecords ==
  ASSUME TracingTypes, Bounds, InputsInv, NEW x \in Runs, RunEnd(x)
  PROVE  \E how \in AllFaults \union {"ok"} :
           /\ SafeRecord(HandlerRecorder, RunEntry(x), how)
           /\ HandlerRecorder \in AllRecorders /\ RunEntry(x) \in Entries /\ NextId <= MaxUses
           /\ how # "ok" => spent.faults < MaxFaults
<1>1. PICK how \in Ways : SafeRecord(HandlerRecorder, RunEntry(x), how)
  BY DEF RunEnd, RecordRun, RunEntry, RunInput
<1>2. how \in AllFaults \union {"ok"} /\ (how # "ok" => spent.faults < MaxFaults)
  BY TracingAssumption DEF Ways
<1>3. RunEntry(x) \in Entries
  <2>1. -1 \in {-1} \union 1 .. MaxUses /\ FALSE \in BOOLEAN /\ 1 \in Nat /\ 0 \in 0 .. MaxUses
    BY TracingAssumption
  <2>2. RunInput(x) \in Runs \union {Nil}
    BY RunInputTyped
  <2> QED BY <2>1, <2>2 DEF Entries, RunEntry, Entry, ZERO_UUID
<1>4. NextId <= MaxUses
  BY RoomForOne DEF RunEnd
<1> QED BY <1>1, <1>2, <1>3, <1>4, TracingAssumption

(* What safe_record leaves typed.                                          *)
LEMMA FilesTyped ==
  ASSUME TracingTypes, NEW r \in AllRecorders, NEW entry \in Entries, NEW how \in AllFaults \union {"ok"},
         NextId <= MaxUses, SafeRecord(r, entry, how), how # "ok" => spent.faults < MaxFaults
  PROVE  /\ chain' \in [AllRecorders -> Seq(Entries)]
         /\ sequence' \in [AllRecorders -> Nat \ {0}] /\ pendingGap' \in [AllRecorders -> BOOLEAN]
         /\ spent' \in [records: Nat, faults: 0 .. MaxFaults, others: Nat]
         /\ spent'.records = NextId /\ spent'.others = spent.others
         /\ \A q \in AllRecorders : sequence'[q] <= sequence[q] + 2
<1>1. chain' \in [AllRecorders -> Seq(Entries)] /\ \A q \in AllRecorders : sequence'[q] <= sequence[q] + 2
  BY SafeRecordWrites
<1> DEFINE gap == [Entry("gap", ZERO_UUID, Nil, Nil, Nil) EXCEPT !.seq = sequence[r] + 1]
           due == IF pendingGap[r] THEN <<gap>> ELSE <<>>
           base == sequence[r] + Len(due)
           raised == how \in {"late", "kept", "lost"}
<1>2. sequence' = [sequence EXCEPT ![r] = IF how \in {"kept", "lost"} THEN base ELSE base + 1]
  BY DEF SafeRecord
<1>3. base \in Nat \ {0}
  <2>1. Len(due) \in Nat
    OBVIOUS
  <2>2. sequence[r] \in Nat \ {0}
    BY DEF TracingTypes
  <2> HIDE DEF due
  <2> QED BY <2>1, <2>2
<1>4. sequence' \in [AllRecorders -> Nat \ {0}]
  <2> HIDE DEF base
  <2> QED BY <1>2, <1>3 DEF TracingTypes
<1>5. pendingGap' = [pendingGap EXCEPT ![r] = raised] /\ raised \in BOOLEAN
  BY DEF SafeRecord
<1>6. pendingGap' \in [AllRecorders -> BOOLEAN]
  <2> HIDE DEF raised
  <2> QED BY <1>5 DEF TracingTypes
<1>7. spent' = [spent EXCEPT !.records = @ + 1, !.faults = IF how = "ok" THEN @ ELSE @ + 1]
  BY DEF SafeRecord
<1>8. /\ spent' \in [records: Nat, faults: 0 .. MaxFaults, others: Nat]
      /\ spent'.records = NextId /\ spent'.others = spent.others
  <2> DEFINE faults == IF how = "ok" THEN spent.faults ELSE spent.faults + 1
  <2>1. spent \in [records: Nat, faults: 0 .. MaxFaults, others: Nat]
    BY DEF TracingTypes
  <2>2. faults \in 0 .. MaxFaults
    BY <2>1, TracingAssumption
  <2>3. spent' = [spent EXCEPT !.records = spent.records + 1, !.faults = faults]
    BY <1>7
  <2> HIDE DEF faults
  <2> DEFINE one == [spent EXCEPT !.records = spent.records + 1]
  <2>4. one \in [records: Nat, faults: 0 .. MaxFaults, others: Nat] /\ one.records = spent.records + 1
        /\ one.others = spent.others
    BY <2>1
  <2>5. spent' = [one EXCEPT !.faults = faults]
    BY <2>3
  <2> HIDE DEF one
  <2>6. spent' \in [records: Nat, faults: 0 .. MaxFaults, others: Nat]
    BY <2>2, <2>4, <2>5
  <2>7. spent'.records = one.records /\ spent'.others = one.others
    BY <2>4, <2>5
  <2> QED BY <2>4, <2>6, <2>7 DEF NextId
<1> QED BY <1>1, <1>4, <1>6, <1>8

(* A field of the histories that is set.                                   *)
LEMMA HistorySet ==
  ASSUME TracingTypes, NEW b \in BOOLEAN,
         history' = [history EXCEPT !.raised = b] \/ history' = [history EXCEPT !.reentered = b]
  PROVE  /\ history' \in [contended: SUBSET Spans, users: [Spans -> SUBSET Tasks],
                          reentered: BOOLEAN, raised: BOOLEAN]
         /\ history'.contended = history.contended /\ history'.users = history.users
         /\ history' = [history EXCEPT !.raised = b] => history'.raised = b /\ history'.reentered = history.reentered
         /\ history' = [history EXCEPT !.reentered = b] => history'.reentered = b /\ history'.raised = history.raised
BY DEF TracingTypes

(* What Log notes.                                                         *)
LEMMA LogNotes ==
  ASSUME TracingTypes, NEW t \in Tasks, NEW s \in Spans, Log(t, s)
  PROVE  /\ history' \in [contended: SUBSET Spans, users: [Spans -> SUBSET Tasks],
                          reentered: BOOLEAN, raised: BOOLEAN]
         /\ history'.reentered = history.reentered /\ history'.raised = history.raised
         /\ history.contended \subseteq history'.contended
         /\ span[s].recordId = 0 /\ (\E u \in Tasks : call[u].span = s) => s \in history'.contended
         /\ \A p \in Spans : /\ history.users[p] \subseteq history'.users[p]
                             /\ p \in {s, ParentOf(s)} => t \in history'.users[p]
<1> DEFINE met == IF span[s].recordId = ZERO_UUID /\ \E u \in Tasks : call[u].span = s
                  THEN history.contended \union {s} ELSE history.contended
           users == [q \in Spans |-> IF q \in {s, span[s].parent}
                                     THEN history.users[q] \union {t} ELSE history.users[q]]
<1>1. history' = [history EXCEPT !.contended = met, !.users = users]
  BY DEF Log
<1>2. /\ history.contended \subseteq Spans /\ history.users \in [Spans -> SUBSET Tasks]
  BY DEF TracingTypes
<1>3. met \subseteq Spans /\ users \in [Spans -> SUBSET Tasks]
  BY <1>2
<1>4. history \in [contended: SUBSET Spans, users: [Spans -> SUBSET Tasks],
                   reentered: BOOLEAN, raised: BOOLEAN]
  BY DEF TracingTypes
<1>5. /\ history.contended \subseteq met
      /\ span[s].recordId = 0 /\ (\E u \in Tasks : call[u].span = s) => s \in met
      /\ \A p \in Spans : /\ history.users[p] \subseteq users[p]
                          /\ p \in {s, ParentOf(s)} => t \in users[p]
  BY DEF ZERO_UUID, ParentOf
<1> HIDE DEF met, users
<1> DEFINE one == [history EXCEPT !.contended = met]
<1>6. /\ one \in [contended: SUBSET Spans, users: [Spans -> SUBSET Tasks],
                  reentered: BOOLEAN, raised: BOOLEAN]
      /\ one.contended = met
      /\ one.reentered = history.reentered /\ one.raised = history.raised
  BY <1>3, <1>4
<1>7. history' = [one EXCEPT !.users = users]
  BY <1>1
<1> HIDE DEF one
<1>8. history' \in [contended: SUBSET Spans, users: [Spans -> SUBSET Tasks],
                    reentered: BOOLEAN, raised: BOOLEAN]
  BY <1>3, <1>6, <1>7
<1>9. /\ history'.contended = met /\ history'.users = users
      /\ history'.reentered = one.reentered /\ history'.raised = one.raised
  BY <1>6, <1>7
<1> QED BY <1>5, <1>6, <1>8, <1>9, Zenon

(* A new span.                                                             *)
LEMMA SpanMade ==
  ASSUME TracingTypes, NEW s \in Spans, NEW r \in AllRecorders \union {Nil},
         NEW p \in Spans \union {Nil}, NewSpan(s, r, p)
  PROVE  /\ span' \in [Spans -> SpanRecords] /\ ~span[s].made /\ span'[s].made
         /\ span'[s].recordId = 0 /\ span'[s].parent = p
         /\ \A q \in Spans : q # s => span'[q] = span[q]
<1> DEFINE one == [NoSpan EXCEPT !.made = TRUE]
           two == [one EXCEPT !.session = r]
           three == [two EXCEPT !.parent = p]
<1>1. NoSpan \in SpanRecords /\ NoSpan.recordId = 0
  BY TracingAssumption DEF NoSpan, SpanRecords, NoToken, Tokens, ZERO_UUID
<1>2. one \in SpanRecords /\ one.made /\ one.recordId = 0
  BY <1>1 DEF SpanRecords
<1> HIDE DEF one
<1>3. two \in SpanRecords /\ two.made /\ two.recordId = 0
  BY <1>2 DEF SpanRecords
<1> HIDE DEF two
<1>4. three \in SpanRecords /\ three.made /\ three.recordId = 0 /\ three.parent = p
  BY <1>3 DEF SpanRecords
<1>5. span' = [span EXCEPT ![s] = three] /\ ~span[s].made
  BY DEF NewSpan, Exists, one, two
<1> HIDE DEF three
<1> QED BY <1>4, <1>5 DEF TracingTypes

LEMMA SpanIsMade ==
  ASSUME TracingTypes, RootSpan \/ ChildSpan
  PROVE  \E s \in Spans, r \in AllRecorders \union {Nil}, p \in Spans \union {Nil} :
           NewSpan(s, r, p) /\ (p # Nil => Exists(p))
<1>1. CASE RootSpan
  BY <1>1, TracingAssumption DEF RootSpan
<1>2. CASE ChildSpan
  <2>1. PICK s \in Spans, p \in Spans : Exists(p) /\ NewSpan(s, span[p].session, p)
    BY <1>2 DEF ChildSpan
  <2>2. span[p].session \in AllRecorders \union {Nil}
    BY DEF TracingTypes, SpanRecords
  <2> QED BY <2>1, <2>2
<1> QED BY <1>1, <1>2

(* The token of a span is set, and nothing else of it.                     *)
LEMMA TokenSet ==
  ASSUME TracingTypes, NEW s \in Spans, NEW token \in Tokens,
         span' = [span EXCEPT ![s].token = token]
  PROVE  /\ span' \in [Spans -> SpanRecords] /\ span'[s].token = token
         /\ \A q \in Spans : q # s => span'[q] = span[q]
         /\ \A q \in Spans : /\ span'[q].made = span[q].made /\ span'[q].parent = span[q].parent
                             /\ span'[q].recordId = span[q].recordId
<1> DEFINE g == [span[s] EXCEPT !.token = token]
<1>1. span[s] \in SpanRecords
  BY DEF TracingTypes
<1>2. /\ g \in SpanRecords /\ g.token = token /\ g.made = span[s].made
      /\ g.parent = span[s].parent /\ g.recordId = span[s].recordId
  BY <1>1 DEF SpanRecords
<1>3. span' = [span EXCEPT ![s] = g]
  BY DEF TracingTypes
<1> HIDE DEF g
<1> QED BY <1>2, <1>3 DEF TracingTypes

(* The token a task leaves with.                                           *)
LEMMA ExitToken ==
  ASSUME TracingTypes, NEW t \in Tasks, Exit(t)
  PROVE  LET s == withs[t][Len(withs[t])]
             token == span[s].token
             fails == token.used \/ token.thread # t
         IN  /\ s \in Spans /\ Len(withs[t]) \in Nat \ {0} /\ fails \in BOOLEAN
             /\ history' = [history EXCEPT !.raised = history.raised \/ fails]
             /\ (history.raised \/ fails) \in BOOLEAN
             /\ current' = [current EXCEPT ![t] = IF fails THEN current[t] ELSE token.prev]
             /\ \E new \in Tokens : span' = [span EXCEPT ![s].token = new]
             /\ withs' = [withs EXCEPT ![t] = Front(@)]
             /\ token.prev \in Spans \union {Nil}
<1> DEFINE s == withs[t][Len(withs[t])]
           token == span[s].token
           fails == token.used \/ token.thread # t
<1>1. withs[t] \in Seq(Spans) /\ withs[t] # <<>>
  BY DEF TracingTypes, Exit
<1>2. Len(withs[t]) \in Nat \ {0} /\ s \in Spans /\ s = Last(withs[t])
  BY <1>1 DEF Last
<1>3. token \in Tokens
  BY <1>2 DEF TracingTypes, SpanRecords
<1>4. token.used \in BOOLEAN /\ token.prev \in Spans \union {Nil}
  BY <1>3 DEF Tokens
<1>5. NoToken \in Tokens /\ [token EXCEPT !.used = TRUE] \in Tokens
  BY <1>3 DEF Tokens, NoToken
<1>6. /\ history' = [history EXCEPT !.raised = history.raised \/ fails]
      /\ current' = [current EXCEPT ![t] = IF fails THEN current[t] ELSE token.prev]
      /\ withs' = [withs EXCEPT ![t] = Front(@)]
  BY <1>2 DEF Exit
<1>7. \E new \in Tokens : span' = [span EXCEPT ![s].token = new]
  <2>1. \/ span' = [span EXCEPT ![s].token = NoToken]
        \/ span' = [span EXCEPT ![s].token = [span[s].token EXCEPT !.used = TRUE]]
    BY <1>2 DEF Exit
  <2> HIDE DEF s
  <2> QED BY <1>5, <2>1
<1>8. fails \in BOOLEAN /\ (history.raised \/ fails) \in BOOLEAN
  OBVIOUS
<1> HIDE DEF fails, token, s
<1> QED BY <1>2, <1>4, <1>6, <1>7, <1>8 DEF fails, token, s

LEMMA FrontTyped ==
  ASSUME NEW S, NEW q \in Seq(S), q # <<>>
  PROVE  /\ Front(q) \in Seq(S) /\ Len(Front(q)) = Len(q) - 1 /\ Len(q) \in Nat \ {0}
         /\ \A i \in 1 .. Len(q) - 1 : Front(q)[i] = q[i]
<1>1. Len(q) \in Nat \ {0}
  OBVIOUS
<1>2. \A i \in 1 .. Len(q) - 1 : q[i] \in S
  BY <1>1, ElementOfSeq
<1>3. Front(q) = [i \in 1 .. Len(q) - 1 |-> q[i]]
  BY <1>1 DEF Front
<1>4. Front(q) \in Seq(S) /\ Len(Front(q)) = Len(q) - 1
  <2> DEFINE n == Len(q) - 1
             f == [i \in 1 .. n |-> q[i]]
  <2>1. n \in Nat
    BY <1>1
  <2>2. f \in [1 .. n -> S]
    BY <1>2
  <2> HIDE DEF n, f
  <2>3. f \in Seq(S) /\ Len(f) = n
    BY <2>1, <2>2
  <2> QED BY <1>3, <2>3 DEF n, f
<1> QED BY <1>1, <1>3, <1>4

(* A with statement, or a run, is spent.                                   *)
LEMMA OtherSpent ==
  ASSUME TracingTypes, spent' = [spent EXCEPT !.others = @ + 1]
  PROVE  /\ spent' \in [records: Nat, faults: 0 .. MaxFaults, others: Nat]
         /\ spent'.records = spent.records /\ spent'.others = spent.others + 1
<1>1. spent \in [records: Nat, faults: 0 .. MaxFaults, others: Nat]
  BY DEF TracingTypes
<1> QED BY <1>1

LEMMA TypesNext ==
  ASSUME TracingTypes, Bounds, InputsInv, [TracingNext]_tracingVars
  PROVE  TracingTypes'
<1> USE DEF fileVars
<1>1. CASE ChangeDefault
  BY <1>1 DEF ChangeDefault, TracingTypes
<1>2. CASE RootSpan \/ ChildSpan
  <2>1. PICK s \in Spans, r \in AllRecorders \union {Nil}, p \in Spans \union {Nil} : NewSpan(s, r, p)
    BY <1>2, SpanIsMade
  <2>2. span' \in [Spans -> SpanRecords]
    BY <2>1, SpanMade
  <2>3. UNCHANGED <<default, fileVars, current, withs, call, run, inputs, spent, history>>
    BY <2>1 DEF NewSpan
  <2> QED BY <2>2, <2>3 DEF TracingTypes
<1>3. ASSUME NEW t \in Tasks, NEW s \in Spans, Enter(t, s) PROVE TracingTypes'
  <2> DEFINE token == [thread |-> t, prev |-> current[t], used |-> FALSE]
             again == history.reentered \/ Active(s)
  <2>1. token \in Tokens
    BY DEF Tokens, TracingTypes
  <2>2. span' = [span EXCEPT ![s].token = token] /\ again \in BOOLEAN
    BY <1>3 DEF Enter
  <2>3. history' = [history EXCEPT !.reentered = again]
    BY <1>3 DEF Enter
  <2> HIDE DEF token, again
  <2>4. span' \in [Spans -> SpanRecords]
    BY <2>1, <2>2, TokenSet
  <2>5. history' \in [contended: SUBSET Spans, users: [Spans -> SUBSET Tasks],
                      reentered: BOOLEAN, raised: BOOLEAN]
    BY <2>2, <2>3, HistorySet
  <2>6. /\ current' \in [Tasks -> Spans \union {Nil}] /\ withs' \in [Tasks -> Seq(Spans)]
        /\ spent' \in [records: Nat, faults: 0 .. MaxFaults, others: Nat]
    <3>1. spent' = [spent EXCEPT !.others = @ + 1]
      BY <1>3 DEF Enter
    <3>2. current' \in [Tasks -> Spans \union {Nil}]
      BY <1>3 DEF Enter, TracingTypes
    <3>3. withs' \in [Tasks -> Seq(Spans)]
      BY <1>3 DEF Enter, TracingTypes
    <3> QED BY <3>1, <3>2, <3>3, OtherSpent
  <2>7. UNCHANGED <<default, fileVars, call, run, inputs>>
    BY <1>3 DEF Enter
  <2> QED BY <2>4, <2>5, <2>6, <2>7 DEF TracingTypes
<1>4. ASSUME NEW t \in Tasks, NEW s \in Spans, Log(t, s) PROVE TracingTypes'
  <2> DEFINE new == [at |-> "record", span |-> s, rec |-> GetRecorder(s),
                     parent |-> ParentActionId(s), result |-> ZERO_UUID]
  <2>1. span[s].session \in AllRecorders \union {Nil} /\ span[s].parent \in Spans \union {Nil}
    BY DEF TracingTypes, SpanRecords
  <2>2. GetRecorder(s) \in AllRecorders
    BY <1>4, <2>1 DEF Log, GetRecorder, TracingTypes
  <2>3. ParentActionId(s) \in 0 .. MaxUses
    BY <2>1, TracingAssumption DEF ParentActionId, ZERO_UUID, TracingTypes, SpanRecords
  <2>4. new \in Recordings
    BY <2>2, <2>3, TracingAssumption DEF Recordings, ZERO_UUID
  <2>5. call' = [call EXCEPT ![t] = new]
    BY <1>4 DEF Log
  <2> HIDE DEF new
  <2>6. call' \in [Tasks -> Recordings]
    BY <2>4, <2>5 DEF TracingTypes
  <2>7. history' \in [contended: SUBSET Spans, users: [Spans -> SUBSET Tasks],
                      reentered: BOOLEAN, raised: BOOLEAN]
    BY <1>4, LogNotes
  <2>8. UNCHANGED <<default, fileVars, span, current, withs, run, inputs, spent>>
    BY <1>4 DEF Log
  <2> QED BY <2>6, <2>7, <2>8 DEF TracingTypes
<1>5. ASSUME NEW t \in Tasks, Exit(t) PROVE TracingTypes'
  <2> DEFINE s == withs[t][Len(withs[t])]
             token == span[s].token
             fails == token.used \/ token.thread # t
             raises == history.raised \/ fails
  <2>1. /\ s \in Spans /\ raises \in BOOLEAN
        /\ history' = [history EXCEPT !.raised = raises]
        /\ current' = [current EXCEPT ![t] = IF fails THEN current[t] ELSE token.prev]
        /\ withs' = [withs EXCEPT ![t] = Front(@)]
        /\ token.prev \in Spans \union {Nil}
    BY <1>5, ExitToken
  <2>2. PICK new \in Tokens : span' = [span EXCEPT ![s].token = new]
    BY <1>5, ExitToken
  <2> HIDE DEF fails, token, s, raises
  <2>3. span' \in [Spans -> SpanRecords]
    BY <2>1, <2>2, TokenSet
  <2>4. history' \in [contended: SUBSET Spans, users: [Spans -> SUBSET Tasks],
                      reentered: BOOLEAN, raised: BOOLEAN]
    BY <2>1, HistorySet
  <2>5. current' \in [Tasks -> Spans \union {Nil}]
    BY <2>1 DEF TracingTypes
  <2>6. withs[t] \in Seq(Spans) /\ withs[t] # <<>>
    BY <1>5 DEF Exit, TracingTypes
  <2>7. Front(withs[t]) \in Seq(Spans)
    BY <2>6, FrontTyped
  <2>8. withs' \in [Tasks -> Seq(Spans)]
    BY <2>1, <2>7 DEF TracingTypes
  <2>9. UNCHANGED <<default, fileVars, call, run, inputs, spent>>
    BY <1>5 DEF Exit
  <2> QED BY <2>3, <2>4, <2>5, <2>8, <2>9 DEF TracingTypes
<1>6. ASSUME NEW t \in Tasks, Write(t) PROVE TracingTypes'
  <2>1. PICK how \in AllFaults \union {"ok"} :
           /\ SafeRecord(call[t].rec, Wanted(t), how)
           /\ call[t].rec \in AllRecorders /\ Wanted(t) \in Entries /\ NextId <= MaxUses
           /\ how # "ok" => spent.faults < MaxFaults
           /\ call' = [call EXCEPT ![t] =
                         IF how \in {"ok", "invalid"}
                         THEN [@ EXCEPT !.at = "check", !.result = NextId] ELSE NoCall]
    BY <1>6, WriteRecords
  <2>2. /\ chain' \in [AllRecorders -> Seq(Entries)]
        /\ sequence' \in [AllRecorders -> Nat \ {0}] /\ pendingGap' \in [AllRecorders -> BOOLEAN]
        /\ spent' \in [records: Nat, faults: 0 .. MaxFaults, others: Nat]
    BY <2>1, FilesTyped
  <2>3. call[t] \in Recordings /\ call[t].at = "record"
    BY <1>6 DEF Write, TracingTypes
  <2>4. NextId \in 0 .. MaxUses
    BY <2>1 DEF NextId, TracingTypes
  <2> DEFINE checked == [call[t] EXCEPT !.at = "check"]
             done == [checked EXCEPT !.result = NextId]
  <2>5. checked \in Recordings \ {NoCall}
    BY <2>3 DEF Recordings, NoCall, Nil
  <2> HIDE DEF checked
  <2>6. done \in Recordings
    BY <2>4, <2>5 DEF Recordings
  <2>7. call' = [call EXCEPT ![t] = done] \/ call' = [call EXCEPT ![t] = NoCall]
    BY <2>1 DEF checked
  <2> HIDE DEF done
  <2>8. call' \in [Tasks -> Recordings]
    BY <2>6, <2>7 DEF TracingTypes, Recordings
  <2>9. UNCHANGED <<default, span, current, withs, run, inputs, history>>
    BY <1>6 DEF Write
  <2> QED BY <2>2, <2>8, <2>9 DEF TracingTypes
<1>7. ASSUME NEW t \in Tasks, Check(t) PROVE TracingTypes'
  <2>1. call[t] \in Recordings /\ call[t].at = "check"
    BY <1>7 DEF Check, TracingTypes
  <2>2. [call[t] EXCEPT !.at = "set"] \in Recordings
    BY <2>1 DEF Recordings, NoCall, Nil
  <2>3. call' = [call EXCEPT ![t] = [call[t] EXCEPT !.at = "set"]] \/ call' = [call EXCEPT ![t] = NoCall]
    BY <1>7 DEF Check, TracingTypes
  <2>4. call' \in [Tasks -> Recordings]
    BY <2>2, <2>3 DEF TracingTypes, Recordings
  <2>5. UNCHANGED <<default, fileVars, span, current, withs, run, inputs, spent, history>>
    BY <1>7 DEF Check
  <2> QED BY <2>4, <2>5 DEF TracingTypes
<1>8. ASSUME NEW t \in Tasks, SetRecordId(t) PROVE TracingTypes'
  <2>1. call[t] \in Recordings /\ call[t].at = "set"
    BY <1>8 DEF SetRecordId, TracingTypes
  <2>2. call[t].span \in Spans /\ call[t].result \in 0 .. MaxUses
    BY <2>1 DEF Recordings, NoCall, Nil
  <2> DEFINE s == call[t].span
  <2>3. [span[s] EXCEPT !.recordId = call[t].result] \in SpanRecords
    <3>1. span[s] \in SpanRecords
      BY <2>2 DEF TracingTypes
    <3> QED BY <2>2, <3>1 DEF SpanRecords
  <2>4. span' = [span EXCEPT ![s] = [span[s] EXCEPT !.recordId = call[t].result]]
    BY <1>8, <2>2 DEF SetRecordId, TracingTypes
  <2>5. span' \in [Spans -> SpanRecords]
    BY <2>2, <2>3, <2>4 DEF TracingTypes
  <2>6. call' \in [Tasks -> Recordings]
    BY <1>8 DEF SetRecordId, TracingTypes, Recordings
  <2>7. UNCHANGED <<default, fileVars, current, withs, run, inputs, spent, history>>
    BY <1>8 DEF SetRecordId
  <2> QED BY <2>5, <2>6, <2>7 DEF TracingTypes
<1>9. ASSUME NEW x \in Runs, RunStart(x) PROVE TracingTypes'
  <2>1. PICK given \in BOOLEAN : run' = [run EXCEPT ![x] = [at |-> "on", given |-> given]]
    BY <1>9 DEF RunStart
  <2>2. run' \in [Runs -> [at: {"new", "on", "done"}, given: BOOLEAN]]
    BY <2>1 DEF TracingTypes
  <2>3. spent' \in [records: Nat, faults: 0 .. MaxFaults, others: Nat]
    BY <1>9, OtherSpent DEF RunStart
  <2>4. UNCHANGED <<default, fileVars, span, current, withs, call, history>>
    BY <1>9 DEF RunStart
  <2> QED BY <2>2, <2>3, <2>4 DEF TracingTypes
<1>10. ASSUME NEW x \in Runs, RunEnd(x) PROVE TracingTypes'
  <2>1. PICK how \in AllFaults \union {"ok"} :
           /\ SafeRecord(HandlerRecorder, RunEntry(x), how)
           /\ HandlerRecorder \in AllRecorders /\ RunEntry(x) \in Entries /\ NextId <= MaxUses
           /\ how # "ok" => spent.faults < MaxFaults
    BY <1>10, RunEndRecords
  <2>2. /\ chain' \in [AllRecorders -> Seq(Entries)]
        /\ sequence' \in [AllRecorders -> Nat \ {0}] /\ pendingGap' \in [AllRecorders -> BOOLEAN]
        /\ spent' \in [records: Nat, faults: 0 .. MaxFaults, others: Nat]
    BY <2>1, FilesTyped
  <2>3. run' \in [Runs -> [at: {"new", "on", "done"}, given: BOOLEAN]]
    BY <1>10 DEF RunEnd, TracingTypes
  <2>4. UNCHANGED <<default, span, current, withs, call, history>>
    BY <1>10 DEF RunEnd
  <2> QED BY <2>2, <2>3, <2>4 DEF TracingTypes
<1>11. CASE UNCHANGED tracingVars
  BY <1>11 DEF tracingVars, TracingTypes
<1> QED BY <1>1, <1>2, <1>3, <1>4, <1>5, <1>6, <1>7, <1>8, <1>9, <1>10, <1>11 DEF TracingNext

-----------------------------------------------------------------------------
(* Tracing: bounds.                                                        *)

(* Who waits for a record after a step of one task's recording.            *)
LEMMA WaitingThen ==
  ASSUME TracingTypes, NEW t \in Tasks,
         Log(t, call'[t].span) \/ Write(t) \/ Check(t) \/ SetRecordId(t)
  PROVE  /\ Log(t, call'[t].span) => t \notin Waiting /\ Waiting' = Waiting \union {t}
         /\ Write(t) => t \in Waiting /\ Waiting' = Waiting \ {t}
         /\ Check(t) \/ SetRecordId(t) => Waiting' = Waiting
<1>1. call \in [Tasks -> Recordings] /\ NoCall.at # "record"
  BY DEF TracingTypes, NoCall, Nil
<1>2. ASSUME Log(t, call'[t].span) PROVE t \notin Waiting /\ Waiting' = Waiting \union {t}
  BY <1>1, <1>2 DEF Log, Waiting
<1>3. ASSUME Write(t) PROVE t \in Waiting /\ Waiting' = Waiting \ {t}
  <2>1. PICK how \in Ways :
          call' = [call EXCEPT ![t] =
                      IF how \in {"ok", "invalid"}
                      THEN [@ EXCEPT !.at = "check", !.result = NextId] ELSE NoCall]
    BY <1>3 DEF Write
  <2> DEFINE checked == [call[t] EXCEPT !.at = "check"]
             done == [checked EXCEPT !.result = NextId]
  <2>2. call[t].at = "record"
    BY <1>3 DEF Write
  <2>3. call[t] \in Recordings \ {NoCall}
    BY <1>1, <2>2 DEF TracingTypes
  <2>4. checked \in Recordings \ {NoCall} /\ checked.at = "check"
    BY <2>3 DEF Recordings, NoCall, Nil
  <2> HIDE DEF checked
  <2>5. done.at = "check"
    BY <2>4 DEF Recordings
  <2>6. call' = [call EXCEPT ![t] = done] \/ call' = [call EXCEPT ![t] = NoCall]
    BY <2>1 DEF checked
  <2> HIDE DEF done
  <2> QED BY <1>1, <2>2, <2>5, <2>6 DEF Waiting
<1>4. ASSUME Check(t) \/ SetRecordId(t) PROVE Waiting' = Waiting
  <2>1. call[t].at \in {"check", "set"}
    BY <1>4 DEF Check, SetRecordId
  <2>2. call[t] \in Recordings \ {NoCall}
    BY <1>1, <2>1 DEF NoCall, Nil
  <2>3. [call[t] EXCEPT !.at = "set"].at = "set"
    BY <2>2 DEF Recordings
  <2>4. \/ call' = [call EXCEPT ![t] = [call[t] EXCEPT !.at = "set"]]
        \/ call' = [call EXCEPT ![t] = NoCall]
    BY <1>1, <1>4 DEF Check, SetRecordId
  <2> QED BY <1>1, <2>1, <2>3, <2>4 DEF Waiting
<1> QED BY <1>2, <1>3, <1>4

(* The bounds hold when records, others and those who wait change so.      *)
LEMMA BoundsThen ==
  ASSUME TracingTypes, TracingTypes', Bounds,
         spent'.records + spent'.others + Cardinality(Waiting') <= MaxUses,
         spent'.records >= spent.records,
         \A q \in AllRecorders : sequence'[q] <= sequence[q] + 2 * (spent'.records - spent.records),
         \A t \in Tasks : Len(withs'[t]) <= Len(withs[t]) + spent'.others - spent.others
  PROVE  Bounds'
<1>1. /\ spent.records \in Nat /\ spent'.records \in Nat
      /\ spent.others \in Nat /\ spent'.others \in Nat
  BY DEF TracingTypes
<1>2. \A q \in AllRecorders : sequence[q] \in Nat /\ sequence'[q] \in Nat
  BY DEF TracingTypes
<1>3. \A t \in Tasks : Len(withs[t]) \in Nat /\ Len(withs'[t]) \in Nat
  <2>1. withs \in [Tasks -> Seq(Spans)] /\ withs' \in [Tasks -> Seq(Spans)]
    BY DEF TracingTypes
  <2> QED BY <2>1
<1>4. \A q \in AllRecorders : sequence'[q] <= 2 * spent'.records + 1
  BY <1>1, <1>2 DEF Bounds
<1>5. \A t \in Tasks : Len(withs'[t]) <= spent'.others
  BY <1>1, <1>3 DEF Bounds
<1> QED BY <1>4, <1>5 DEF Bounds

LEMMA BoundsNext ==
  ASSUME TracingTypes, TracingTypes', Bounds, InputsInv, [TracingNext]_tracingVars
  PROVE  Bounds'
<1> USE DEF fileVars
<1>1. /\ IsFiniteSet(Waiting) /\ Cardinality(Waiting) \in Nat
      /\ Waiting # {} => NextId <= MaxUses /\ Cardinality(Waiting) >= 1
      /\ Room => NextId <= MaxUses /\ spent.records + spent.others + Cardinality(Waiting) < MaxUses
  BY RoomForOne
<1>2. spent.records \in Nat /\ spent.others \in Nat /\ MaxUses \in Nat
  BY TracingAssumption DEF TracingTypes
<1>3. \A t \in Tasks : Len(withs[t]) \in Nat
  BY DEF TracingTypes
<1>4. \A q \in AllRecorders : sequence[q] \in Nat
  BY DEF TracingTypes
<1>5. /\ spent.records + spent.others + Cardinality(Waiting) <= MaxUses
  BY DEF Bounds
<1>6. CASE UNCHANGED <<spent, sequence, withs>> /\ Waiting' = Waiting
  <2>1. spent' = spent /\ sequence' = sequence /\ withs' = withs /\ Waiting' = Waiting
    BY <1>6
  <2> QED BY <1>2, <1>3, <1>4, <1>5, <2>1, BoundsThen
<1>7. ASSUME UNCHANGED call PROVE Waiting' = Waiting
  BY <1>7 DEF Waiting
<1>8. CASE ChangeDefault
  BY <1>6, <1>7, <1>8 DEF ChangeDefault
<1>9. CASE RootSpan \/ ChildSpan
  BY <1>6, <1>7, <1>9 DEF RootSpan, ChildSpan, NewSpan
<1>10. ASSUME NEW t \in Tasks, NEW s \in Spans, Enter(t, s) PROVE Bounds'
  <2>1. Waiting' = Waiting /\ sequence' = sequence
    BY <1>7, <1>10 DEF Enter
  <2>2. spent' = [spent EXCEPT !.others = @ + 1]
    BY <1>10 DEF Enter
  <2>3. spent'.records = spent.records /\ spent'.others = spent.others + 1
    BY <2>2, OtherSpent
  <2>4. \A u \in Tasks : Len(withs'[u]) <= Len(withs[u]) + 1
    <3>1. withs' = [withs EXCEPT ![t] = Append(withs[t], s)] /\ withs \in [Tasks -> Seq(Spans)]
      BY <1>10 DEF Enter, TracingTypes
    <3>2. Len(Append(withs[t], s)) = Len(withs[t]) + 1
      BY <3>1
    <3> QED BY <1>3, <3>1, <3>2
  <2>5. Room
    BY <1>10 DEF Enter
  <2> QED BY <1>1, <1>2, <1>3, <1>4, <2>1, <2>3, <2>4, <2>5, BoundsThen
<1>11. ASSUME NEW t \in Tasks, NEW s \in Spans, Log(t, s) PROVE Bounds'
  <2>1. s = call'[t].span
    BY <1>11 DEF Log, TracingTypes
  <2>2. t \notin Waiting /\ Waiting' = Waiting \union {t}
    BY <1>11, <2>1, WaitingThen
  <2>3. Cardinality(Waiting') = Cardinality(Waiting) + 1
    BY <1>1, <2>2, FS_AddElement
  <2>4. Room /\ spent' = spent /\ sequence' = sequence /\ withs' = withs
    BY <1>11 DEF Log
  <2> QED BY <1>1, <1>2, <1>3, <1>4, <2>3, <2>4, BoundsThen
<1>12. ASSUME NEW t \in Tasks, Exit(t) PROVE Bounds'
  <2>1. Waiting' = Waiting /\ sequence' = sequence /\ spent' = spent
    BY <1>7, <1>12 DEF Exit
  <2>2. withs[t] \in Seq(Spans) /\ withs[t] # <<>>
    BY <1>12 DEF Exit, TracingTypes
  <2>3. Len(Front(withs[t])) = Len(withs[t]) - 1
    BY <2>2, FrontTyped
  <2>4. withs' = [withs EXCEPT ![t] = Front(withs[t])] /\ withs \in [Tasks -> Seq(Spans)]
    BY <1>12 DEF Exit, TracingTypes
  <2>5. \A u \in Tasks : Len(withs'[u]) <= Len(withs[u])
    BY <1>3, <2>3, <2>4
  <2> QED BY <1>2, <1>3, <1>4, <1>5, <2>1, <2>5, BoundsThen
<1>13. ASSUME NEW t \in Tasks, Write(t) PROVE Bounds'
  <2>1. PICK how \in AllFaults \union {"ok"} :
           /\ SafeRecord(call[t].rec, Wanted(t), how)
           /\ call[t].rec \in AllRecorders /\ Wanted(t) \in Entries /\ NextId <= MaxUses
           /\ how # "ok" => spent.faults < MaxFaults
    BY <1>13, WriteRecords
  <2>2. /\ spent'.records = NextId /\ spent'.others = spent.others
        /\ \A q \in AllRecorders : sequence'[q] <= sequence[q] + 2
    BY <2>1, FilesTyped
  <2>3. t \in Waiting /\ Waiting' = Waiting \ {t}
    BY <1>13, WaitingThen
  <2>4. Cardinality(Waiting') = Cardinality(Waiting) - 1
    BY <1>1, <2>3, FS_RemoveElement
  <2>5. withs' = withs
    BY <1>13 DEF Write
  <2> QED BY <1>1, <1>2, <1>3, <1>4, <1>5, <2>2, <2>4, <2>5, BoundsThen DEF NextId
<1>14. ASSUME NEW t \in Tasks, Check(t) \/ SetRecordId(t) PROVE Bounds'
  <2>1. Waiting' = Waiting
    BY <1>14, WaitingThen
  <2>2. UNCHANGED <<spent, sequence, withs>>
    BY <1>14 DEF Check, SetRecordId
  <2> QED BY <1>6, <2>1, <2>2
<1>15. ASSUME NEW x \in Runs, RunStart(x) PROVE Bounds'
  <2>1. Waiting' = Waiting /\ sequence' = sequence /\ withs' = withs
    BY <1>7, <1>15 DEF RunStart
  <2>2. Room /\ spent' = [spent EXCEPT !.others = @ + 1]
    BY <1>15 DEF RunStart
  <2>3. spent'.records = spent.records /\ spent'.others = spent.others + 1
    BY <2>2, OtherSpent
  <2> QED BY <1>1, <1>2, <1>3, <1>4, <2>1, <2>2, <2>3, BoundsThen
<1>16. ASSUME NEW x \in Runs, RunEnd(x) PROVE Bounds'
  <2>1. PICK how \in AllFaults \union {"ok"} :
           /\ SafeRecord(HandlerRecorder, RunEntry(x), how)
           /\ HandlerRecorder \in AllRecorders /\ RunEntry(x) \in Entries /\ NextId <= MaxUses
           /\ how # "ok" => spent.faults < MaxFaults
    BY <1>16, RunEndRecords
  <2>2. /\ spent'.records = NextId /\ spent'.others = spent.others
        /\ \A q \in AllRecorders : sequence'[q] <= sequence[q] + 2
    BY <2>1, FilesTyped
  <2>3. Room /\ Waiting' = Waiting /\ withs' = withs
    BY <1>7, <1>16 DEF RunEnd
  <2> QED BY <1>1, <1>2, <1>3, <1>4, <2>2, <2>3, BoundsThen DEF NextId
<1>17. CASE UNCHANGED tracingVars
  BY <1>6, <1>7, <1>17 DEF tracingVars
<1> QED BY <1>8, <1>9, <1>10, <1>11, <1>12, <1>13, <1>14, <1>15, <1>16, <1>17 DEF TracingNext

-----------------------------------------------------------------------------
(* Tracing: the with statements.                                           *)

(* The record id of a span is set, and nothing else of it.                 *)
LEMMA IdSet ==
  ASSUME TracingTypes, NEW t \in Tasks, SetRecordId(t)
  PROVE  /\ call[t].span \in Spans /\ call[t].result \in 0 .. MaxUses /\ call[t].at = "set"
         /\ span'[call[t].span].recordId = call[t].result
         /\ \A q \in Spans : q # call[t].span => span'[q] = span[q]
         /\ \A q \in Spans : /\ span'[q].made = span[q].made /\ span'[q].parent = span[q].parent
                             /\ span'[q].token = span[q].token
<1> DEFINE s == call[t].span
           g == [span[s] EXCEPT !.recordId = call[t].result]
<1>1. call[t] \in Recordings /\ call[t].at = "set"
  BY DEF SetRecordId, TracingTypes
<1>2. call[t].span \in Spans /\ call[t].result \in 0 .. MaxUses
  BY <1>1 DEF Recordings, NoCall, Nil
<1>3. span[s] \in SpanRecords
  BY <1>2 DEF TracingTypes
<1>4. /\ g.recordId = call[t].result /\ g.made = span[s].made
      /\ g.parent = span[s].parent /\ g.token = span[s].token
  BY <1>3 DEF SpanRecords
<1>5. span' = [span EXCEPT ![s] = g]
  BY DEF SetRecordId, TracingTypes
<1> HIDE DEF g
<1> QED BY <1>1, <1>2, <1>4, <1>5 DEF TracingTypes

(* A span that is there stays, with its parent; and its token stays unless *)
(* it is entered or left.                                                  *)
LEMMA SpansStay ==
  ASSUME TracingTypes, [TracingNext]_tracingVars
  PROVE  /\ \A q \in Spans : Exists(q) => Exists(q)' /\ ParentOf(q)' = ParentOf(q)
         /\ \/ \E t \in Tasks, s \in Spans : Enter(t, s)
            \/ \E t \in Tasks : Exit(t)
            \/ /\ withs' = withs /\ current' = current
               /\ history'.reentered = history.reentered /\ history'.raised = history.raised
               /\ \A q \in Spans : Exists(q) => span'[q].token = span[q].token
<1> DEFINE Old == \A q \in Spans : Exists(q) => Exists(q)' /\ ParentOf(q)' = ParentOf(q)
           Kept1 == /\ withs' = withs /\ current' = current
                    /\ history'.reentered = history.reentered /\ history'.raised = history.raised
                    /\ \A q \in Spans : Exists(q) => span'[q].token = span[q].token
<1>1. CASE UNCHANGED <<span, withs, current, history>>
  BY <1>1 DEF Exists, ParentOf
<1>2. CASE ChangeDefault
  BY <1>1, <1>2 DEF ChangeDefault
<1>3. CASE RootSpan \/ ChildSpan
  <2>1. PICK s \in Spans, r \in AllRecorders \union {Nil}, p \in Spans \union {Nil} : NewSpan(s, r, p)
    BY <1>3, SpanIsMade
  <2>2. ~span[s].made /\ \A q \in Spans : q # s => span'[q] = span[q]
    BY <2>1, SpanMade
  <2>3. UNCHANGED <<withs, current, history>>
    BY <2>1 DEF NewSpan
  <2> QED BY <2>2, <2>3 DEF Exists, ParentOf
<1>4. ASSUME NEW t \in Tasks, NEW s \in Spans, Enter(t, s) PROVE Old
  <2> DEFINE token == [thread |-> t, prev |-> current[t], used |-> FALSE]
  <2>1. token \in Tokens
    BY DEF Tokens, TracingTypes
  <2>2. span' = [span EXCEPT ![s].token = token]
    BY <1>4 DEF Enter
  <2> HIDE DEF token
  <2> QED BY <2>1, <2>2, TokenSet DEF Exists, ParentOf
<1>5. ASSUME NEW t \in Tasks, NEW s \in Spans, Log(t, s) PROVE Old /\ Kept1
  <2>1. UNCHANGED <<span, current, withs>>
    BY <1>5 DEF Log
  <2>2. history'.reentered = history.reentered /\ history'.raised = history.raised
    BY <1>5, LogNotes
  <2> QED BY <2>1, <2>2 DEF Exists, ParentOf
<1>6. ASSUME NEW t \in Tasks, Exit(t) PROVE Old
  <2> DEFINE s == withs[t][Len(withs[t])]
  <2>1. s \in Spans /\ \E new \in Tokens : span' = [span EXCEPT ![s].token = new]
    BY <1>6, ExitToken
  <2> HIDE DEF s
  <2> QED BY <2>1, TokenSet DEF Exists, ParentOf
<1>7. ASSUME NEW t \in Tasks, Write(t) \/ Check(t) PROVE Old /\ Kept1
  BY <1>1, <1>7 DEF Write, Check
<1>8. ASSUME NEW t \in Tasks, SetRecordId(t) PROVE Old /\ Kept1
  <2>1. UNCHANGED <<withs, current, history>>
    BY <1>8 DEF SetRecordId
  <2> QED BY <1>8, <2>1, IdSet DEF Exists, ParentOf
<1>9. ASSUME NEW x \in Runs, RunStart(x) \/ RunEnd(x) PROVE Old /\ Kept1
  BY <1>1, <1>9 DEF RunStart, RunEnd
<1>10. CASE UNCHANGED tracingVars
  BY <1>1, <1>10 DEF tracingVars
<1> QED BY <1>2, <1>3, <1>4, <1>5, <1>6, <1>7, <1>8, <1>9, <1>10 DEF TracingNext

(* A with statement is entered in a span that nobody is in.                *)
LEMMA EnterNests ==
  ASSUME TracingTypes, WithsInv, NEW t \in Tasks, NEW s \in Spans, Enter(t, s)
  PROVE  Nested'
<1> SUFFICES ASSUME ~history'.reentered PROVE Nested'
  BY DEF Nested
<1> DEFINE token == [thread |-> t, prev |-> current[t], used |-> FALSE]
           again == history.reentered \/ Active(s)
<1>0. PICK n \in Nat : n = Len(withs[t])
  BY DEF TracingTypes
<1>1. /\ span' = [span EXCEPT ![s].token = token] /\ history' = [history EXCEPT !.reentered = again]
      /\ current' = [current EXCEPT ![t] = s] /\ withs' = [withs EXCEPT ![t] = Append(withs[t], s)]
  BY DEF Enter
<1>2. token \in Tokens /\ again \in BOOLEAN
  BY DEF Tokens, TracingTypes
<1>3. token.thread = t /\ token.prev = current[t] /\ ~token.used
  OBVIOUS
<1>4. ~history.reentered /\ ~Active(s) /\ history'.raised = history.raised
  <2> HIDE DEF again
  <2>1. history'.reentered = again /\ history'.raised = history.raised
    BY <1>1, <1>2, HistorySet
  <2> QED BY <2>1 DEF again
<1> HIDE DEF token
<1>5. span'[s].token = token /\ \A q \in Spans : q # s => span'[q] = span[q]
  BY <1>1, <1>2, TokenSet
<1>6. /\ withs \in [Tasks -> Seq(Spans)] /\ n \in Nat /\ n = Len(withs[t])
      /\ current \in [Tasks -> Spans \union {Nil}]
  BY <1>0 DEF TracingTypes
<1>7. /\ \A u \in Tasks : u # t => withs'[u] = withs[u]
      /\ Len(withs'[t]) = n + 1 /\ withs'[t][n + 1] = s
      /\ \A i \in 1 .. n : withs'[t][i] = withs[t][i]
  BY <1>1, <1>6
<1>8. \A u \in Tasks : \A i \in 1 .. Len(withs[u]) : withs[u][i] # s /\ withs[u][i] \in Spans
  BY <1>4, <1>6, ElementOfSeq DEF Active
<1>9. /\ ~history.raised
      /\ \A v, u \in Tasks : \A i \in 1 .. Len(withs[v]), j \in 1 .. Len(withs[u]) :
           withs[v][i] = withs[u][j] => v = u /\ i = j
      /\ \A u \in Tasks : \A i \in 1 .. Len(withs[u]) :
           /\ span[withs[u][i]].token.thread = u /\ ~span[withs[u][i]].token.used
           /\ span[withs[u][i]].token.prev = Outer(u, i)
      /\ \A u \in Tasks : current[u] = Outer(u, Len(withs[u]) + 1)
  BY <1>4 DEF WithsInv, Nested
<1>10. ASSUME NEW u \in Tasks, NEW i \in 1 .. Len(withs'[u])
       PROVE  \/ u = t /\ i = n + 1 /\ withs'[u][i] = s
              \/ i \in 1 .. Len(withs[u]) /\ withs'[u][i] = withs[u][i]
  BY <1>6, <1>7
<1>11. ASSUME NEW v \in Tasks, NEW u \in Tasks, NEW i \in 1 .. Len(withs'[v]), NEW j \in 1 .. Len(withs'[u]),
              withs'[v][i] = withs'[u][j]
       PROVE  v = u /\ i = j
  <2>1. \/ v = t /\ i = n + 1 /\ withs'[v][i] = s
        \/ i \in 1 .. Len(withs[v]) /\ withs'[v][i] = withs[v][i]
    BY <1>10
  <2>2. \/ u = t /\ j = n + 1 /\ withs'[u][j] = s
        \/ j \in 1 .. Len(withs[u]) /\ withs'[u][j] = withs[u][j]
    BY <1>10
  <2> QED BY <1>8, <1>9, <1>11, <2>1, <2>2
<1>12. ASSUME NEW u \in Tasks, NEW i \in 1 .. Len(withs'[u])
       PROVE  /\ span'[withs'[u][i]].token.thread = u /\ ~span'[withs'[u][i]].token.used
              /\ span'[withs'[u][i]].token.prev = Outer(u, i)'
  <2>1. CASE u = t /\ i = n + 1 /\ withs'[u][i] = s
    <3>1. current[t] = IF n + 1 = 1 THEN Nil ELSE withs[t][n]
      BY <1>6, <1>9 DEF Outer
    <3>2. Outer(u, i)' = IF n + 1 = 1 THEN Nil ELSE withs'[t][n]
      BY <1>6, <2>1 DEF Outer
    <3>3. n + 1 # 1 => n \in 1 .. n
      BY <1>6
    <3>4. Outer(u, i)' = current[t]
      BY <1>7, <3>1, <3>2, <3>3
    <3> QED BY <1>3, <1>5, <2>1, <3>4
  <2>2. CASE i \in 1 .. Len(withs[u]) /\ withs'[u][i] = withs[u][i]
    <3>1. span'[withs'[u][i]] = span[withs[u][i]]
      BY <1>5, <1>8, <2>2
    <3>2. Outer(u, i)' = Outer(u, i)
      <4>1. Len(withs[u]) \in Nat
        BY <1>6
      <4>2. i # 1 => i - 1 \in 1 .. Len(withs[u]) /\ i - 1 \in 1 .. Len(withs'[u])
        BY <1>6, <1>7, <2>2, <4>1
      <4>3. i # 1 => withs'[u][i - 1] = withs[u][i - 1]
        BY <1>7, <4>2
      <4> QED BY <4>3 DEF Outer
    <3> QED BY <1>9, <2>2, <3>1, <3>2
  <2> QED BY <1>10, <2>1, <2>2
<1>13. ASSUME NEW u \in Tasks PROVE current'[u] = Outer(u, Len(withs[u]) + 1)'
  <2>1. CASE u = t
    <3>1. Outer(t, n + 2)' = s
      BY <1>6, <1>7 DEF Outer
    <3>2. current'[t] = s /\ Len(withs'[t]) + 1 = n + 2
      BY <1>1, <1>6, <1>7
    <3> QED BY <2>1, <3>1, <3>2 DEF Outer
  <2>2. CASE u # t
    <3>1. current'[u] = current[u] /\ withs'[u] = withs[u]
      BY <1>1, <1>6, <1>7, <2>2
    <3> QED BY <1>9, <3>1 DEF Outer
  <2> QED BY <2>1, <2>2
<1> QED BY <1>4, <1>9, <1>11, <1>12, <1>13 DEF Nested

(* Leaving the innermost with statement leads to the span around it.       *)
LEMMA ExitNests ==
  ASSUME TracingTypes, WithsInv, NEW t \in Tasks, Exit(t)
  PROVE  Nested'
<1>0. PICK n \in Nat : n = Len(withs[t])
  BY DEF TracingTypes
<1> DEFINE s == withs[t][n]
           token == span[s].token
           fails == token.used \/ token.thread # t
           raises == history.raised \/ fails
<1>1. /\ s \in Spans /\ n \in Nat \ {0} /\ raises \in BOOLEAN
      /\ history' = [history EXCEPT !.raised = raises]
      /\ current' = [current EXCEPT ![t] = IF fails THEN current[t] ELSE token.prev]
      /\ withs' = [withs EXCEPT ![t] = Front(@)]
  BY <1>0, ExitToken
<1>2. PICK new \in Tokens : span' = [span EXCEPT ![s].token = new]
  BY <1>0, ExitToken
<1>3. \A q \in Spans : q # s => span'[q] = span[q]
  <2> HIDE DEF s
  <2> QED BY <1>1, <1>2, TokenSet
<1>4. history'.reentered = history.reentered /\ history'.raised = raises
  <2> HIDE DEF raises
  <2> QED BY <1>1, HistorySet
<1> SUFFICES ASSUME ~history'.reentered PROVE Nested'
  BY DEF Nested
<1>5. /\ ~history.raised
      /\ \A v, u \in Tasks : \A i \in 1 .. Len(withs[v]), j \in 1 .. Len(withs[u]) :
           withs[v][i] = withs[u][j] => v = u /\ i = j
      /\ \A u \in Tasks : \A i \in 1 .. Len(withs[u]) :
           /\ span[withs[u][i]].token.thread = u /\ ~span[withs[u][i]].token.used
           /\ span[withs[u][i]].token.prev = Outer(u, i)
      /\ \A u \in Tasks : current[u] = Outer(u, Len(withs[u]) + 1)
  BY <1>4 DEF WithsInv, Nested
<1>16. n \in Nat \ {0}
  BY <1>1
<1>6. n \in 1 .. Len(withs[t])
  BY <1>0, <1>16
<1>7. ~fails /\ token.prev = Outer(t, n) /\ ~history'.raised
  <2>1. token.thread = t /\ ~token.used /\ token.prev = Outer(t, n)
    BY <1>5, <1>6
  <2> HIDE DEF token
  <2>2. ~fails
    BY <2>1
  <2>3. ~raises
    BY <1>5, <2>2
  <2> QED BY <1>4, <2>1, <2>2, <2>3, Zenon
<1>8. withs[t] \in Seq(Spans) /\ withs[t] # <<>> /\ withs \in [Tasks -> Seq(Spans)]
      /\ current \in [Tasks -> Spans \union {Nil}]
  BY DEF Exit, TracingTypes
<1>9. Len(Front(withs[t])) = n - 1 /\ \A i \in 1 .. n - 1 : Front(withs[t])[i] = withs[t][i]
  BY <1>0, <1>8, FrontTyped
<1>10. /\ \A u \in Tasks : u # t => withs'[u] = withs[u]
       /\ withs'[t] = Front(withs[t]) /\ Len(withs'[t]) = n - 1
       /\ \A i \in 1 .. n - 1 : withs'[t][i] = withs[t][i]
  BY <1>1, <1>8, <1>9
<1>11. /\ current'[t] = Outer(t, n) /\ \A u \in Tasks : u # t => current'[u] = current[u]
  BY <1>1, <1>7, <1>8
<1>12. ASSUME NEW u \in Tasks, NEW i \in 1 .. Len(withs'[u])
       PROVE  /\ i \in 1 .. Len(withs[u]) /\ withs'[u][i] = withs[u][i]
              /\ (u = t => i # n) /\ withs[u][i] \in Spans
  <2>1. i \in 1 .. Len(withs[u]) /\ withs'[u][i] = withs[u][i] /\ (u = t => i # n)
    <3>1. CASE u = t
      <4>1. i \in 1 .. n - 1
        BY <1>10, <3>1
      <4>2. i \in 1 .. n /\ i # n
        BY <1>16, <4>1
      <4> QED BY <1>0, <1>10, <3>1, <4>1, <4>2
    <3>2. CASE u # t
      BY <1>10, <3>2
    <3> QED BY <3>1, <3>2
  <2>2. withs[u] \in Seq(Spans)
    BY <1>8
  <2> QED BY <2>1, <2>2, ElementOfSeq
<1> HIDE DEF s, fails, token, raises
<1>13. ASSUME NEW u \in Tasks, NEW i \in 1 .. Len(withs'[u])
       PROVE  /\ span'[withs'[u][i]].token.thread = u /\ ~span'[withs'[u][i]].token.used
              /\ span'[withs'[u][i]].token.prev = Outer(u, i)'
  <2>1. /\ i \in 1 .. Len(withs[u]) /\ withs'[u][i] = withs[u][i]
        /\ (u = t => i # n) /\ withs[u][i] \in Spans
    BY <1>12
  <2>2. withs[u][i] # s
    BY <1>5, <1>6, <2>1 DEF s
  <2>3. span'[withs'[u][i]] = span[withs[u][i]]
    BY <1>3, <2>1, <2>2
  <2>4. i # 1 => i - 1 \in 1 .. Len(withs'[u])
    <3>1. Len(withs'[u]) \in Nat
      BY <1>1, <1>8, <1>10
    <3> QED BY <3>1
  <2>5. i # 1 => withs'[u][i - 1] = withs[u][i - 1]
    BY <1>12, <2>4
  <2>6. Outer(u, i)' = Outer(u, i)
    BY <2>5 DEF Outer
  <2> QED BY <1>5, <2>1, <2>3, <2>6
<1>14. ASSUME NEW u \in Tasks PROVE current'[u] = Outer(u, Len(withs[u]) + 1)'
  <2>1. CASE u = t
    <3>1. Len(withs'[t]) + 1 = n
      BY <1>1, <1>10
    <3>2. n # 1 => n - 1 \in 1 .. n - 1
      BY <1>16
    <3>3. n # 1 => withs'[t][n - 1] = withs[t][n - 1]
      BY <1>10, <3>2
    <3>4. Outer(t, n)' = IF n - 1 + 1 = 1 THEN Nil ELSE withs'[t][n - 1]
      BY <1>1, <1>10 DEF Outer
    <3> QED BY <1>1, <1>10, <1>11, <2>1, <3>1, <3>3, <3>4 DEF Outer
  <2>2. CASE u # t
    BY <1>5, <1>10, <1>11, <2>2 DEF Outer
  <2> QED BY <2>1, <2>2
<1>15. ASSUME NEW v \in Tasks, NEW u \in Tasks, NEW i \in 1 .. Len(withs'[v]), NEW j \in 1 .. Len(withs'[u]),
              withs'[v][i] = withs'[u][j]
       PROVE  v = u /\ i = j
  BY <1>5, <1>12, <1>15
<1> QED BY <1>7, <1>13, <1>14, <1>15 DEF Nested

LEMMA WithsNext ==
  ASSUME TracingTypes, WithsInv, [TracingNext]_tracingVars
  PROVE  WithsInv'
<1>1. /\ withs \in [Tasks -> Seq(Spans)]
      /\ \A t \in Tasks : \A i \in 1 .. Len(withs[t]) : Exists(withs[t][i]) /\ withs[t][i] \in Spans
  BY ElementOfSeq DEF TracingTypes, WithsInv
<1>2. \A q \in Spans : Exists(q) => Exists(q)'
  BY SpansStay
<1>3. ASSUME NEW t \in Tasks, NEW s \in Spans, Enter(t, s) PROVE WithsInv'
  <2>1. Nested'
    BY <1>3, EnterNests
  <2>2. withs' = [withs EXCEPT ![t] = Append(withs[t], s)] /\ Exists(s)
    BY <1>3 DEF Enter
  <2>3. ASSUME NEW u \in Tasks, NEW i \in 1 .. Len(withs'[u]) PROVE Exists(withs[u][i])'
    <3>1. withs'[u][i] = s \/ (i \in 1 .. Len(withs[u]) /\ withs'[u][i] = withs[u][i])
      BY <1>1, <2>2
    <3>2. withs'[u][i] \in Spans /\ Exists(withs'[u][i])
      BY <1>1, <2>2, <3>1
    <3> QED BY <1>2, <3>2 DEF Exists
  <2> QED BY <2>1, <2>3 DEF WithsInv
<1>4. ASSUME NEW t \in Tasks, Exit(t) PROVE WithsInv'
  <2>1. Nested'
    BY <1>4, ExitNests
  <2>2. withs' = [withs EXCEPT ![t] = Front(withs[t])] /\ withs[t] # <<>> /\ withs[t] \in Seq(Spans)
    BY <1>1, <1>4 DEF Exit
  <2>3. Len(Front(withs[t])) = Len(withs[t]) - 1 /\ Len(withs[t]) \in Nat \ {0}
        /\ \A i \in 1 .. Len(withs[t]) - 1 : Front(withs[t])[i] = withs[t][i]
    BY <2>2, FrontTyped
  <2>4. ASSUME NEW u \in Tasks, NEW i \in 1 .. Len(withs'[u]) PROVE Exists(withs[u][i])'
    <3>1. i \in 1 .. Len(withs[u]) /\ withs'[u][i] = withs[u][i]
      <4>1. CASE u = t
        <5>1. i \in 1 .. Len(withs[t]) - 1 /\ withs'[t] = Front(withs[t])
          BY <1>1, <2>2, <2>3, <4>1
        <5> QED BY <2>3, <4>1, <5>1
      <4>2. CASE u # t
        BY <1>1, <2>2, <4>2
      <4> QED BY <4>1, <4>2
    <3> QED BY <1>1, <1>2, <3>1 DEF Exists
  <2> QED BY <2>1, <2>4 DEF WithsInv
<1>5. CASE /\ withs' = withs /\ current' = current
           /\ history'.reentered = history.reentered /\ history'.raised = history.raised
           /\ \A q \in Spans : Exists(q) => span'[q].token = span[q].token
  <2>1. \A t \in Tasks : \A i \in 1 .. Len(withs[t]) : span'[withs[t][i]].token = span[withs[t][i]].token
    BY <1>1, <1>5
  <2>2. ASSUME ~history'.reentered
        PROVE  /\ ~history'.raised
               /\ \A t, u \in Tasks : \A i \in 1 .. Len(withs'[t]), j \in 1 .. Len(withs'[u]) :
                    withs'[t][i] = withs'[u][j] => t = u /\ i = j
               /\ \A t \in Tasks : \A i \in 1 .. Len(withs'[t]) :
                    /\ span'[withs'[t][i]].token.thread = t /\ ~span'[withs'[t][i]].token.used
                    /\ span'[withs'[t][i]].token.prev = Outer(t, i)'
               /\ \A t \in Tasks : current'[t] = Outer(t, Len(withs[t]) + 1)'
    <3>1. /\ ~history.raised
          /\ \A t, u \in Tasks : \A i \in 1 .. Len(withs[t]), j \in 1 .. Len(withs[u]) :
               withs[t][i] = withs[u][j] => t = u /\ i = j
          /\ \A t \in Tasks : \A i \in 1 .. Len(withs[t]) :
               /\ span[withs[t][i]].token.thread = t /\ ~span[withs[t][i]].token.used
               /\ span[withs[t][i]].token.prev = Outer(t, i)
          /\ \A t \in Tasks : current[t] = Outer(t, Len(withs[t]) + 1)
      BY <1>5, <2>2 DEF WithsInv, Nested
    <3>2. \A t, i : Outer(t, i)' = Outer(t, i)
      BY <1>5 DEF Outer
    <3> QED BY <1>5, <2>1, <3>1, <3>2
  <2>3. Nested'
    BY <2>2 DEF Nested
  <2>4. \A t \in Tasks : \A i \in 1 .. Len(withs'[t]) : Exists(withs[t][i])'
    BY <1>1, <1>2, <1>5 DEF Exists
  <2> QED BY <2>3, <2>4 DEF WithsInv
<1> QED BY <1>3, <1>4, <1>5, SpansStay

-----------------------------------------------------------------------------
(* Tracing: what steps do to records, spans and recordings.                *)

(* The record with the next id, which those who asked for it are given.    *)
LEMMA WriteEffect ==
  ASSUME TracingTypes, Bounds, NEW t \in Tasks, Write(t)
  PROVE  /\ Grow /\ UNCHANGED <<span, history, run, inputs>>
         /\ call[t].at = "record" /\ call[t].span \in Spans /\ \A u \in Tasks : u # t => call'[u] = call[u]
         /\ spent'.records = NextId
         /\ Written \subseteq Written'
         /\ \A e \in Written' :
              \/ e \in Written
              \/ Plain(e) /\ ~e.returned
              \/ /\ e.id = NextId /\ e.span = call[t].span /\ e.parent = call[t].parent /\ e.run = Nil
                 /\ e.returned => call'[t] # NoCall
         /\ \/ call'[t] = NoCall
            \/ /\ call'[t].at = "check" /\ call'[t].result = NextId /\ call'[t].span = call[t].span
               /\ call'[t].parent = call[t].parent
               /\ \E f \in Written' : f.span = call[t].span /\ f.returned /\ f.id = NextId
               /\ \E q \in AllRecorders : \E i \in 1 .. Len(chain'[q]) :
                    chain'[q][i].id = NextId /\ chain'[q][i].seq <= sequence'[q]
<1>1. PICK how \in AllFaults \union {"ok"} :
         /\ SafeRecord(call[t].rec, Wanted(t), how)
         /\ call[t].rec \in AllRecorders /\ Wanted(t) \in Entries /\ NextId <= MaxUses
         /\ how # "ok" => spent.faults < MaxFaults
         /\ call' = [call EXCEPT ![t] =
                       IF how \in {"ok", "invalid"}
                       THEN [@ EXCEPT !.at = "check", !.result = NextId] ELSE NoCall]
  BY WriteRecords
<1>2. Grow /\ spent'.records = NextId /\ UNCHANGED <<span, history, run, inputs>>
  BY <1>1, SafeRecordWrites, FilesTyped DEF Write
<1>3. call \in [Tasks -> Recordings] /\ call[t].at = "record"
  BY DEF Write, TracingTypes
<1>4. call[t] \in Recordings \ {NoCall} /\ call[t].span \in Spans
  BY <1>3 DEF Recordings, NoCall, Nil
<1> DEFINE checked == [call[t] EXCEPT !.at = "check"]
           done == [checked EXCEPT !.result = NextId]
<1>5. /\ checked \in Recordings \ {NoCall} /\ checked.at = "check"
      /\ checked.span = call[t].span /\ checked.parent = call[t].parent
  BY <1>4 DEF Recordings, NoCall, Nil
<1>6. call' = [call EXCEPT ![t] = IF how \in {"ok", "invalid"} THEN done ELSE NoCall]
  BY <1>1
<1> HIDE DEF checked
<1>7. /\ done.at = "check" /\ done.result = NextId
      /\ done.span = call[t].span /\ done.parent = call[t].parent
  BY <1>5 DEF Recordings
<1>8. done # NoCall
  BY <1>7 DEF NoCall, Nil
<1> HIDE DEF done
<1>9. /\ how \in {"ok", "invalid"} => call'[t] = done
      /\ how \notin {"ok", "invalid"} => call'[t] = NoCall
      /\ \A u \in Tasks : u # t => call'[u] = call[u]
  BY <1>3, <1>6
<1>10. \A e : Asked(e, Wanted(t)) => /\ e.id = NextId /\ e.span = call[t].span
                                    /\ e.parent = call[t].parent /\ e.run = Nil
  BY DEF Asked, Wanted, Entry
<1>11. Written \subseteq Written'
  BY <1>1, WrittenThen
<1>12. ASSUME NEW e \in Written'
       PROVE  \/ e \in Written
              \/ Plain(e) /\ ~e.returned
              \/ /\ e.id = NextId /\ e.span = call[t].span /\ e.parent = call[t].parent /\ e.run = Nil
                 /\ e.returned => call'[t] # NoCall
  <2>1. \/ e \in Written
        \/ Plain(e) /\ ~e.returned
        \/ Asked(e, Wanted(t)) /\ (e.returned => how \in {"ok", "invalid"})
    BY <1>1, WrittenThen
  <2> QED BY <1>8, <1>9, <1>10, <2>1
<1>13. ASSUME how \in {"ok", "invalid"}
       PROVE  /\ \E f \in Written' : f.span = call[t].span /\ f.returned /\ f.id = NextId
              /\ \E q \in AllRecorders : \E i \in 1 .. Len(chain'[q]) :
                    chain'[q][i].id = NextId /\ chain'[q][i].seq <= sequence'[q]
  <2>1. \E e \in Written' : Asked(e, Wanted(t)) /\ e.returned
    BY <1>1, <1>13, WrittenThen
  <2>2. \E q \in AllRecorders : \E i \in 1 .. Len(chain'[q]) :
          chain'[q][i].id = NextId /\ chain'[q][i].seq <= sequence'[q]
    BY <1>1, <1>13, WrittenThen
  <2> QED BY <1>10, <2>1, <2>2
<1>14. \/ call'[t] = NoCall
       \/ /\ call'[t].at = "check" /\ call'[t].result = NextId /\ call'[t].span = call[t].span
          /\ call'[t].parent = call[t].parent
          /\ \E f \in Written' : f.span = call[t].span /\ f.returned /\ f.id = NextId
          /\ \E q \in AllRecorders : \E i \in 1 .. Len(chain'[q]) :
               chain'[q][i].id = NextId /\ chain'[q][i].seq <= sequence'[q]
  BY <1>7, <1>9, <1>13
<1> QED BY <1>2, <1>3, <1>4, <1>9, <1>11, <1>12, <1>14

(* The record of a run that ends.                                          *)
LEMMA RunEndEffect ==
  ASSUME TracingTypes, Bounds, InputsInv, NEW x \in Runs, RunEnd(x)
  PROVE  /\ Grow /\ UNCHANGED <<span, history, call>>
         /\ run[x].at = "on" /\ run'[x].at = "done" /\ run'[x].given = run[x].given
         /\ \A y \in Runs : y # x => run'[y] = run[y]
         /\ inputs' = inputs \ Kept(x)
         /\ spent'.records = NextId
         /\ Written \subseteq Written'
         /\ \A e \in Written' :
              \/ e \in Written
              \/ Plain(e) /\ ~e.returned
              \/ /\ e.id = NextId /\ e.span = Nil /\ e.parent = 0 /\ e.run = x /\ e.input = RunInput(x)
<1>1. PICK how \in AllFaults \union {"ok"} :
         /\ SafeRecord(HandlerRecorder, RunEntry(x), how)
         /\ HandlerRecorder \in AllRecorders /\ RunEntry(x) \in Entries /\ NextId <= MaxUses
         /\ how # "ok" => spent.faults < MaxFaults
  BY RunEndRecords
<1>2. Grow /\ spent'.records = NextId /\ UNCHANGED <<span, history, call>>
  BY <1>1, SafeRecordWrites, FilesTyped DEF RunEnd
<1>3. /\ run[x].at = "on" /\ run'[x].at = "done" /\ run'[x].given = run[x].given
      /\ \A y \in Runs : y # x => run'[y] = run[y]
      /\ inputs' = inputs \ Kept(x)
  BY DEF RunEnd, TracingTypes
<1>4. \A e : Asked(e, RunEntry(x)) => /\ e.id = NextId /\ e.span = Nil /\ e.parent = 0
                                    /\ e.run = x /\ e.input = RunInput(x)
  BY DEF Asked, RunEntry, Entry, ZERO_UUID
<1>5. Written \subseteq Written'
  BY <1>1, WrittenThen
<1>6. ASSUME NEW e \in Written'
      PROVE  \/ e \in Written
             \/ Plain(e) /\ ~e.returned
             \/ /\ e.id = NextId /\ e.span = Nil /\ e.parent = 0 /\ e.run = x /\ e.input = RunInput(x)
  <2>1. \/ e \in Written
        \/ Plain(e) /\ ~e.returned
        \/ Asked(e, RunEntry(x)) /\ (e.returned => how \in {"ok", "invalid"})
    BY <1>1, WrittenThen
  <2> QED BY <1>4, <2>1
<1> QED BY <1>2, <1>3, <1>5, <1>6

(* Any other step writes nothing, and the chains grow at most.             *)
LEMMA ChainsGrow ==
  ASSUME TracingTypes, Bounds, InputsInv, [TracingNext]_tracingVars
  PROVE  /\ Grow /\ spent.records <= spent'.records /\ Written \subseteq Written'
         /\ \/ \E t \in Tasks : Write(t)
            \/ \E x \in Runs : RunEnd(x)
            \/ chain' = chain /\ sequence' = sequence /\ Written' = Written /\ spent'.records = spent.records
<1> USE DEF fileVars
<1>1. spent.records \in Nat
  BY DEF TracingTypes
<1>2. CASE \E t \in Tasks : Write(t)
  <2>1. PICK t \in Tasks : Write(t)
    BY <1>2
  <2>2. Grow /\ spent'.records = NextId /\ Written \subseteq Written'
    BY <2>1, WriteEffect
  <2> QED BY <1>1, <1>2, <2>2 DEF NextId
<1>3. CASE \E x \in Runs : RunEnd(x)
  <2>1. PICK x \in Runs : RunEnd(x)
    BY <1>3
  <2>2. Grow /\ spent'.records = NextId /\ Written \subseteq Written'
    BY <2>1, RunEndEffect
  <2> QED BY <1>1, <1>3, <2>2 DEF NextId
<1>4. CASE UNCHANGED <<chain, sequence>> /\ spent'.records = spent.records
  <2>1. Written' = Written
    BY <1>4 DEF Written
  <2>2. chain \in [AllRecorders -> Seq(Entries)] /\ \A q \in AllRecorders : sequence[q] \in Nat
    BY DEF TracingTypes
  <2>3. \A q \in AllRecorders : Len(chain[q]) \in Nat
    BY <2>2
  <2>4. Grow
    BY <1>4, <2>2, <2>3 DEF Grow
  <2> QED BY <1>1, <1>4, <2>1, <2>4
<1>5. CASE ChangeDefault \/ RootSpan \/ ChildSpan
  BY <1>4, <1>5 DEF ChangeDefault, RootSpan, ChildSpan, NewSpan
<1>6. ASSUME NEW t \in Tasks, NEW s \in Spans, Enter(t, s)
      PROVE  UNCHANGED <<chain, sequence>> /\ spent'.records = spent.records
  <2>1. spent' = [spent EXCEPT !.others = @ + 1] /\ UNCHANGED <<chain, sequence>>
    BY <1>6 DEF Enter
  <2> QED BY <2>1, OtherSpent
<1>7. ASSUME NEW x \in Runs, RunStart(x)
      PROVE  UNCHANGED <<chain, sequence>> /\ spent'.records = spent.records
  <2>1. spent' = [spent EXCEPT !.others = @ + 1] /\ UNCHANGED <<chain, sequence>>
    BY <1>7 DEF RunStart
  <2> QED BY <2>1, OtherSpent
<1>8. ASSUME NEW t \in Tasks, NEW s \in Spans, Log(t, s)
      PROVE  UNCHANGED <<chain, sequence>> /\ spent'.records = spent.records
  BY <1>8 DEF Log
<1>9. ASSUME NEW t \in Tasks, Exit(t) \/ Check(t) \/ SetRecordId(t)
      PROVE  UNCHANGED <<chain, sequence>> /\ spent'.records = spent.records
  BY <1>9 DEF Exit, Check, SetRecordId
<1>10. CASE UNCHANGED tracingVars
  BY <1>4, <1>10 DEF tracingVars
<1> QED BY <1>2, <1>3, <1>4, <1>5, <1>6, <1>7, <1>8, <1>9, <1>10 DEF TracingNext

(* A run that is over stays as it is, and no run forgets that it has an id *)
(* once it was started.                                                    *)
LEMMA RunsStay ==
  ASSUME TracingTypes, [TracingNext]_tracingVars, NEW x \in Runs
  PROVE  /\ run[x].at = "done" => run'[x] = run[x]
         /\ run[x].at # "new" => run'[x].given = run[x].given
<1>1. CASE \E y \in Runs : RunStart(y)
  BY <1>1 DEF RunStart, TracingTypes
<1>2. CASE \E y \in Runs : RunEnd(y)
  BY <1>2 DEF RunEnd, TracingTypes
<1>3. CASE UNCHANGED run
  BY <1>3
<1>4. CASE ChangeDefault \/ RootSpan \/ ChildSpan
  BY <1>3, <1>4 DEF ChangeDefault, RootSpan, ChildSpan, NewSpan
<1>5. ASSUME NEW t \in Tasks, NEW s \in Spans, Enter(t, s) \/ Log(t, s) PROVE UNCHANGED run
  BY <1>5 DEF Enter, Log
<1>6. ASSUME NEW t \in Tasks, Exit(t) \/ Write(t) \/ Check(t) \/ SetRecordId(t) PROVE UNCHANGED run
  BY <1>6 DEF Exit, Write, Check, SetRecordId
<1>7. CASE UNCHANGED tracingVars
  BY <1>3, <1>7 DEF tracingVars
<1> QED BY <1>1, <1>2, <1>3, <1>4, <1>5, <1>6, <1>7 DEF TracingNext

(* The recording of a task changes only in its own steps.                  *)
LEMMA CallsStay ==
  ASSUME TracingTypes, [TracingNext]_tracingVars, NEW t \in Tasks
  PROVE  \/ call'[t] = call[t]
         \/ \E s \in Spans : Log(t, s)
         \/ Write(t)
         \/ Check(t)
         \/ SetRecordId(t)
<1> USE DEF TracingTypes
<1>1. CASE UNCHANGED call
  BY <1>1
<1>2. CASE ChangeDefault \/ RootSpan \/ ChildSpan
  BY <1>1, <1>2 DEF ChangeDefault, RootSpan, ChildSpan, NewSpan
<1>3. ASSUME NEW u \in Tasks, NEW s \in Spans, Enter(u, s) PROVE UNCHANGED call
  BY <1>3 DEF Enter
<1>4. ASSUME NEW u \in Tasks, NEW s \in Spans, Log(u, s) PROVE u = t \/ call'[t] = call[t]
  BY <1>4 DEF Log
<1>5. ASSUME NEW u \in Tasks, Exit(u) PROVE UNCHANGED call
  BY <1>5 DEF Exit
<1>6. ASSUME NEW u \in Tasks, Write(u) PROVE u = t \/ call'[t] = call[t]
  BY <1>6 DEF Write
<1>7. ASSUME NEW u \in Tasks, Check(u) PROVE u = t \/ call'[t] = call[t]
  BY <1>7 DEF Check
<1>8. ASSUME NEW u \in Tasks, SetRecordId(u) PROVE u = t \/ call'[t] = call[t]
  BY <1>8 DEF SetRecordId
<1>9. ASSUME NEW x \in Runs, RunStart(x) \/ RunEnd(x) PROVE UNCHANGED call
  BY <1>9 DEF RunStart, RunEnd
<1>10. CASE UNCHANGED tracingVars
  BY <1>1, <1>10 DEF tracingVars
<1> QED BY <1>1, <1>2, <1>3, <1>4, <1>5, <1>6, <1>7, <1>8, <1>9, <1>10 DEF TracingNext

(* The record id of a span stays, or is the result of a recording.         *)
LEMMA RecordIdsStay ==
  ASSUME TracingTypes, [TracingNext]_tracingVars, NEW q \in Spans
  PROVE  \/ span'[q].recordId = span[q].recordId
         \/ span'[q].recordId = 0 /\ ~Exists(q)
         \/ \E t \in Tasks : SetRecordId(t) /\ call[t].span = q
<1>1. CASE UNCHANGED span
  BY <1>1
<1>2. CASE ChangeDefault
  BY <1>1, <1>2 DEF ChangeDefault
<1>3. CASE RootSpan \/ ChildSpan
  <2>1. PICK s \in Spans, r \in AllRecorders \union {Nil}, p \in Spans \union {Nil} : NewSpan(s, r, p)
    BY <1>3, SpanIsMade
  <2>2. /\ ~span[s].made /\ span'[s].recordId = 0
        /\ \A u \in Spans : u # s => span'[u] = span[u]
    BY <2>1, SpanMade
  <2> QED BY <2>2 DEF Exists
<1>4. ASSUME NEW t \in Tasks, NEW s \in Spans, Enter(t, s) PROVE span'[q].recordId = span[q].recordId
  <2> DEFINE token == [thread |-> t, prev |-> current[t], used |-> FALSE]
  <2>1. token \in Tokens
    BY DEF Tokens, TracingTypes
  <2>2. span' = [span EXCEPT ![s].token = token]
    BY <1>4 DEF Enter
  <2> HIDE DEF token
  <2> QED BY <2>1, <2>2, TokenSet
<1>5. ASSUME NEW t \in Tasks, NEW s \in Spans, Log(t, s) PROVE UNCHANGED span
  BY <1>5 DEF Log
<1>6. ASSUME NEW t \in Tasks, Exit(t) PROVE span'[q].recordId = span[q].recordId
  <2> DEFINE s == withs[t][Len(withs[t])]
  <2>1. s \in Spans /\ \E new \in Tokens : span' = [span EXCEPT ![s].token = new]
    BY <1>6, ExitToken
  <2> HIDE DEF s
  <2> QED BY <2>1, TokenSet
<1>7. ASSUME NEW t \in Tasks, Write(t) \/ Check(t) PROVE UNCHANGED span
  BY <1>7 DEF Write, Check
<1>8. ASSUME NEW t \in Tasks, SetRecordId(t)
      PROVE  call[t].span = q \/ span'[q].recordId = span[q].recordId
  BY <1>8, IdSet
<1>9. ASSUME NEW x \in Runs, RunStart(x) \/ RunEnd(x) PROVE UNCHANGED span
  BY <1>9 DEF RunStart, RunEnd
<1>10. CASE UNCHANGED tracingVars
  BY <1>1, <1>10 DEF tracingVars
<1> QED BY <1>1, <1>2, <1>3, <1>4, <1>5, <1>6, <1>7, <1>8, <1>9, <1>10 DEF TracingNext

-----------------------------------------------------------------------------
(* Tracing: what records and ids are of.                                   *)

LEMMA EntriesNext ==
  ASSUME TracingTypes, Bounds, InputsInv, EntriesInv, UsersInv, [TracingNext]_tracingVars
  PROVE  EntriesInv'
<1>1. spent.records \in Nat /\ spent.records <= spent'.records
  BY ChainsGrow DEF TracingTypes
<1>2. \A q \in Spans : Exists(q) => Exists(q)'
  BY SpansStay
<1>3. \A x \in Runs : run[x].at = "done" => run'[x] = run[x]
  BY RunsStay
<1>4. ASSUME NEW e \in Written
      PROVE  e.id <= spent'.records /\ (e.span # Nil => Exists(e.span)') /\ (e.run # Nil => run'[e.run].at = "done")
  <2>1. e \in Entries
    BY <1>4, WrittenTyped
  <2>2. e.id \in Int /\ e.span \in Spans \union {Nil} /\ e.run \in Runs \union {Nil}
    BY <2>1 DEF Entries
  <2>3. e.id <= spent.records /\ (e.span # Nil => Exists(e.span)) /\ (e.run # Nil => run[e.run].at = "done")
    BY <1>4 DEF EntriesInv
  <2>4. e.id <= spent'.records
    <3>1. spent'.records >= spent.records /\ e.id <= spent.records /\ e.id \in Int /\ spent.records \in Nat
      BY <1>1, <2>2, <2>3
    <3>2. spent'.records \in Int
      <4>1. CASE spent'.records = spent.records
        BY <1>1, <4>1
      <4>2. CASE spent'.records = NextId
        BY <1>1, <4>2 DEF NextId
      <4> QED BY <4>1, <4>2, ChainsGrow, WriteEffect, RunEndEffect
    <3> QED BY <3>1, <3>2
  <2>5. e.span # Nil => Exists(e.span)'
    BY <1>2, <2>2, <2>3 DEF Exists
  <2>6. e.run # Nil => run'[e.run].at = "done"
    BY <1>3, <2>2, <2>3
  <2> QED BY <2>4, <2>5, <2>6
<1>5. CASE \E t \in Tasks : Write(t)
  <2>1. PICK t \in Tasks : Write(t)
    BY <1>5
  <2>2. /\ call[t].at = "record" /\ call[t].span \in Spans
        /\ spent'.records = NextId
        /\ \A e \in Written' :
              \/ e \in Written
              \/ Plain(e) /\ ~e.returned
              \/ /\ e.id = NextId /\ e.span = call[t].span /\ e.parent = call[t].parent /\ e.run = Nil
                 /\ e.returned => call'[t] # NoCall
    BY <2>1, WriteEffect
  <2>3. Exists(call[t].span)
    BY <2>2 DEF UsersInv, NoCall, Nil
  <2>4. ASSUME NEW e \in Written'
        PROVE  e.id <= spent'.records /\ (e.span # Nil => Exists(e.span)') /\ (e.run # Nil => run'[e.run].at = "done")
    <3>1. CASE e \in Written
      BY <1>4, <3>1
    <3>2. CASE Plain(e)
      <4>1. NextId \in Nat
        BY <1>1 DEF NextId
      <4> QED BY <2>2, <3>2, <4>1 DEF Plain
    <3>3. CASE e.id = NextId /\ e.span = call[t].span /\ e.parent = call[t].parent /\ e.run = Nil
      <4>1. NextId \in Nat
        BY <1>1 DEF NextId
      <4>2. Exists(e.span)'
        BY <1>2, <2>2, <2>3, <3>3 DEF Exists
      <4> QED BY <2>2, <3>3, <4>1, <4>2
    <3> QED BY <2>2, <3>1, <3>2, <3>3
  <2> QED BY <2>4 DEF EntriesInv
<1>6. CASE \E x \in Runs : RunEnd(x)
  <2>1. PICK x \in Runs : RunEnd(x)
    BY <1>6
  <2>2. /\ run'[x].at = "done"
        /\ spent'.records = NextId
        /\ \A e \in Written' :
              \/ e \in Written
              \/ Plain(e) /\ ~e.returned
              \/ /\ e.id = NextId /\ e.span = Nil /\ e.parent = 0 /\ e.run = x /\ e.input = RunInput(x)
    BY <2>1, RunEndEffect
  <2>3. NextId \in Nat
    BY <1>1 DEF NextId
  <2>4. ASSUME NEW e \in Written'
        PROVE  e.id <= spent'.records /\ (e.span # Nil => Exists(e.span)') /\ (e.run # Nil => run'[e.run].at = "done")
    <3>1. CASE e \in Written
      BY <1>4, <3>1
    <3>2. CASE Plain(e)
      BY <2>2, <2>3, <3>2 DEF Plain
    <3>3. CASE e.id = NextId /\ e.span = Nil /\ e.run = x
      BY <2>2, <2>3, <3>3
    <3> QED BY <2>2, <3>1, <3>2, <3>3
  <2> QED BY <2>4 DEF EntriesInv
<1>7. CASE Written' = Written
  BY <1>4, <1>7 DEF EntriesInv
<1> QED BY <1>5, <1>6, <1>7, ChainsGrow

LEMMA IdsNext ==
  ASSUME TracingTypes, TracingTypes', Bounds, InputsInv, IdsInv, [TracingNext]_tracingVars
  PROVE  IdsInv'
<1>1. \A id : OnChain(id) => OnChain(id)'
  <2>1. /\ Grow /\ chain' \in [AllRecorders -> Seq(Entries)]
        /\ sequence' \in [AllRecorders -> Nat \ {0}]
    BY ChainsGrow DEF TracingTypes
  <2> QED BY <2>1, OnChainStays
<1>2. ASSUME NEW s \in Spans, span'[s].recordId # 0 PROVE OnChain(span[s].recordId)'
  <2>1. CASE span'[s].recordId = span[s].recordId
    <3>1. OnChain(span[s].recordId)
      BY <1>2, <2>1 DEF IdsInv
    <3>2. PICK id : id = span[s].recordId
      OBVIOUS
    <3>3. OnChain(id)'
      BY <1>1, <3>1, <3>2
    <3> QED BY <2>1, <3>2, <3>3 DEF OnChain
  <2>2. CASE \E t \in Tasks : SetRecordId(t) /\ call[t].span = s
    <3>1. PICK t \in Tasks : SetRecordId(t) /\ call[t].span = s
      BY <2>2
    <3>2. span'[s].recordId = call[t].result /\ call[t].at = "set"
      BY <3>1, IdSet
    <3>3. PICK id : id = call[t].result
      OBVIOUS
    <3>4. OnChain(id)
      BY <3>2, <3>3 DEF IdsInv
    <3>5. OnChain(id)'
      BY <1>1, <3>4
    <3> QED BY <3>2, <3>3, <3>5 DEF OnChain
  <2> QED BY <1>2, <2>1, <2>2, RecordIdsStay
<1>3. ASSUME NEW t \in Tasks
      PROVE  /\ call'[t].parent # 0 => OnChain(call[t].parent)'
             /\ call'[t].at \in {"check", "set"} => call'[t].result # 0 /\ OnChain(call[t].result)'
  <2>1. ASSUME call'[t].parent = call[t].parent, call'[t].parent # 0 PROVE OnChain(call[t].parent)'
    <3>1. PICK id : id = call[t].parent
      OBVIOUS
    <3>2. OnChain(id)'
      BY <1>1, <2>1, <3>1 DEF IdsInv
    <3> QED BY <2>1, <3>1, <3>2 DEF OnChain
  <2>2. ASSUME call'[t].result = call[t].result, call[t].at \in {"check", "set"}
        PROVE  call'[t].result # 0 /\ OnChain(call[t].result)'
    <3>1. PICK id : id = call[t].result
      OBVIOUS
    <3>2. OnChain(id)' /\ call[t].result # 0
      BY <1>1, <2>2, <3>1 DEF IdsInv
    <3> QED BY <2>2, <3>1, <3>2 DEF OnChain
  <2>3. CASE call'[t] = NoCall
    BY <2>3 DEF NoCall, Nil, ZERO_UUID
  <2>4. CASE call'[t] = call[t]
    BY <2>1, <2>2, <2>4
  <2>5. ASSUME NEW s \in Spans, Log(t, s)
        PROVE  /\ call'[t].parent # 0 => OnChain(call[t].parent)'
               /\ call'[t].at \in {"check", "set"} => call'[t].result # 0 /\ OnChain(call[t].result)'
    <3>1. call'[t].at = "record" /\ call'[t].parent = ParentActionId(s)
      BY <2>5 DEF Log, TracingTypes
    <3>2. ASSUME call'[t].parent # 0 PROVE OnChain(call[t].parent)'
      <4>1. PICK id : id = ParentActionId(s)
        OBVIOUS
      <4>2. span[s].parent \in Spans /\ id = span[span[s].parent].recordId
        BY <3>1, <3>2, <4>1 DEF ParentActionId, ZERO_UUID, TracingTypes, SpanRecords
      <4>3. OnChain(id)
        BY <3>1, <3>2, <4>1, <4>2 DEF IdsInv
      <4>4. OnChain(id)'
        BY <1>1, <4>3
      <4> QED BY <3>1, <4>1, <4>4 DEF OnChain
    <3> QED BY <3>1, <3>2
  <2>6. CASE Write(t)
    <3>1. \/ call'[t] = NoCall
          \/ /\ call'[t].result = NextId /\ call'[t].parent = call[t].parent
             /\ \E q \in AllRecorders : \E i \in 1 .. Len(chain'[q]) :
                  chain'[q][i].id = NextId /\ chain'[q][i].seq <= sequence'[q]
      BY <2>6, WriteEffect
    <3>2. NextId # 0
      BY DEF NextId, TracingTypes
    <3> QED BY <2>1, <2>3, <3>1, <3>2 DEF OnChain
  <2>7. CASE Check(t)
    <3>1. call[t] \in Recordings /\ call[t].at = "check"
      BY <2>7 DEF Check, TracingTypes
    <3> DEFINE set == [call[t] EXCEPT !.at = "set"]
    <3>2. set.parent = call[t].parent /\ set.result = call[t].result
      BY <3>1 DEF Recordings, NoCall, Nil
    <3>3. call'[t] = NoCall \/ call'[t] = set
      BY <2>7 DEF Check, TracingTypes
    <3> HIDE DEF set
    <3> QED BY <2>1, <2>2, <2>3, <3>1, <3>2, <3>3
  <2>8. CASE SetRecordId(t)
    BY <2>3, <2>8 DEF SetRecordId, TracingTypes
  <2> QED BY <2>4, <2>5, <2>6, <2>7, <2>8, CallsStay
<1> QED BY <1>2, <1>3 DEF IdsInv

(* Spans that were contended stay so, and users stay users.                *)
LEMMA UsersStay ==
  ASSUME TracingTypes, [TracingNext]_tracingVars
  PROVE  /\ history.contended \subseteq history'.contended
         /\ \A p \in Spans : history.users[p] \subseteq history'.users[p]
<1> DEFINE Stay == /\ history.contended \subseteq history'.contended
                   /\ \A p \in Spans : history.users[p] \subseteq history'.users[p]
<1>1. CASE UNCHANGED history
  BY <1>1
<1>2. CASE ChangeDefault \/ RootSpan \/ ChildSpan
  BY <1>1, <1>2 DEF ChangeDefault, RootSpan, ChildSpan, NewSpan
<1>3. ASSUME NEW t \in Tasks, NEW s \in Spans, Enter(t, s) PROVE Stay
  <2> DEFINE again == history.reentered \/ Active(s)
  <2>1. again \in BOOLEAN /\ history' = [history EXCEPT !.reentered = again]
    BY <1>3 DEF Enter
  <2> HIDE DEF again
  <2>2. history'.contended = history.contended /\ history'.users = history.users
    BY <2>1, HistorySet
  <2> QED BY <2>2
<1>4. ASSUME NEW t \in Tasks, NEW s \in Spans, Log(t, s) PROVE Stay
  BY <1>4, LogNotes
<1>5. ASSUME NEW t \in Tasks, Exit(t) PROVE Stay
  <2> DEFINE fails == span[withs[t][Len(withs[t])]].token.used
                        \/ span[withs[t][Len(withs[t])]].token.thread # t
             raises == history.raised \/ fails
  <2>1. raises \in BOOLEAN /\ history' = [history EXCEPT !.raised = raises]
    BY <1>5, ExitToken
  <2> HIDE DEF raises
  <2>2. history'.contended = history.contended /\ history'.users = history.users
    BY <2>1, HistorySet
  <2> QED BY <2>2
<1>6. ASSUME NEW t \in Tasks, Write(t) \/ Check(t) \/ SetRecordId(t) PROVE UNCHANGED history
  BY <1>6 DEF Write, Check, SetRecordId
<1>7. ASSUME NEW x \in Runs, RunStart(x) \/ RunEnd(x) PROVE UNCHANGED history
  BY <1>7 DEF RunStart, RunEnd
<1>8. CASE UNCHANGED tracingVars
  BY <1>1, <1>8 DEF tracingVars
<1> QED BY <1>1, <1>2, <1>3, <1>4, <1>5, <1>6, <1>7, <1>8 DEF TracingNext

(* A recording is of a span.                                               *)
LEMMA CallSpan ==
  ASSUME TracingTypes, NEW t \in Tasks
  PROVE  (call[t] = NoCall /\ call[t].span = Nil) \/ (call[t] # NoCall /\ call[t].span \in Spans)
<1>1. call[t] \in Recordings
  BY DEF TracingTypes
<1>2. CASE call[t] = NoCall
  BY <1>2 DEF NoCall
<1>3. CASE call[t] # NoCall
  BY <1>1, <1>3 DEF Recordings
<1> QED BY <1>2, <1>3

LEMMA UsersNext ==
  ASSUME TracingTypes, TracingTypes', Bounds, InputsInv, UsersInv, [TracingNext]_tracingVars
  PROVE  UsersInv'
<1> SUFFICES ASSUME NEW t \in Tasks, call'[t] # NoCall
             PROVE  /\ Exists(call[t].span)' /\ t \in history'.users[call'[t].span]
                    /\ call'[t].at \in {"check", "set"} =>
                         \E f \in Given(call[t].span)' : f.id = call'[t].result
  BY DEF UsersInv
<1>1. /\ Written \subseteq Written' /\ \A q \in Spans : Exists(q) => Exists(q)'
      /\ \A p \in Spans : history.users[p] \subseteq history'.users[p]
  BY ChainsGrow, SpansStay, UsersStay
<1>2. ASSUME call[t] # NoCall, call'[t].span = call[t].span
      PROVE  Exists(call[t].span)' /\ t \in history'.users[call'[t].span]
  <2>1. call[t].span \in Spans /\ Exists(call[t].span) /\ t \in history.users[call[t].span]
    BY <1>2, CallSpan DEF UsersInv
  <2> QED BY <1>1, <1>2, <2>1 DEF Exists
<1>3. ASSUME call[t] # NoCall, call'[t].span = call[t].span, call'[t].result = call[t].result,
             call[t].at \in {"check", "set"}
      PROVE  \E f \in Given(call[t].span)' : f.id = call'[t].result
  <2>1. PICK f \in Given(call[t].span) : f.id = call[t].result
    BY <1>3 DEF UsersInv
  <2>2. f \in Written' /\ f.span = call'[t].span /\ f.returned
    BY <1>1, <1>3, <2>1 DEF Given
  <2> QED BY <1>3, <2>1, <2>2 DEF Given
<1>4. CASE call'[t] = call[t]
  BY <1>2, <1>3, <1>4
<1>5. ASSUME NEW s \in Spans, Log(t, s)
      PROVE  /\ Exists(call[t].span)' /\ t \in history'.users[call'[t].span]
             /\ call'[t].at \notin {"check", "set"}
  <2>1. call'[t].at = "record" /\ call'[t].span = s /\ Exists(s)
    BY <1>5 DEF Log, TracingTypes
  <2>2. t \in history'.users[s]
    BY <1>5, LogNotes
  <2> QED BY <1>1, <2>1, <2>2 DEF Exists
<1>6. CASE Write(t)
  <2>1. /\ call[t].at = "record"
        /\ call'[t].result = NextId /\ call'[t].span = call[t].span
        /\ \E f \in Written' : f.span = call[t].span /\ f.returned /\ f.id = NextId
    BY <1>6, WriteEffect
  <2>2. call[t] # NoCall
    BY <2>1 DEF NoCall, Nil
  <2>3. \E f \in Given(call[t].span)' : f.id = call'[t].result
    BY <2>1 DEF Given
  <2> QED BY <1>2, <2>1, <2>2, <2>3
<1>7. CASE Check(t)
  <2>1. call[t] \in Recordings /\ call[t].at = "check"
    BY <1>7 DEF Check, TracingTypes
  <2> DEFINE set == [call[t] EXCEPT !.at = "set"]
  <2>2. set.span = call[t].span /\ set.result = call[t].result
    BY <2>1 DEF Recordings, NoCall, Nil
  <2>3. call'[t] = set
    BY <1>7 DEF Check, TracingTypes
  <2>4. call[t] # NoCall
    BY <2>1 DEF NoCall, Nil
  <2> HIDE DEF set
  <2> QED BY <1>2, <1>3, <2>1, <2>2, <2>3, <2>4
<1>8. CASE SetRecordId(t)
  BY <1>8 DEF SetRecordId, TracingTypes
<1> QED BY <1>4, <1>5, <1>6, <1>7, <1>8, CallsStay

-----------------------------------------------------------------------------
(* Tracing: what recordings go under.                                      *)

(* Two tasks are more than one, and more than one stay so.                 *)
LEMMA TwoTasks ==
  ASSUME NEW A, A \subseteq Tasks, NEW t \in A, NEW u \in A, t # u PROVE Cardinality(A) > 1
<1>1. IsFiniteSet(A) /\ {t, u} \subseteq A
  BY TracingAssumption, FS_Subset
<1>2. Cardinality({t, u}) = 2
  <2>1. IsFiniteSet({t}) /\ Cardinality({t}) = 1
    BY FS_Singleton
  <2>2. Cardinality({t} \union {u}) = Cardinality({t}) + 1
    BY <2>1, FS_AddElement
  <2>3. {t} \union {u} = {t, u}
    OBVIOUS
  <2> QED BY <2>1, <2>2, <2>3
<1>3. Cardinality({t, u}) <= Cardinality(A) /\ Cardinality(A) \in Nat
  BY <1>1, FS_Subset, FS_CardinalityType
<1> QED BY <1>2, <1>3

LEMMA MoreTasks ==
  ASSUME NEW A, NEW B, A \subseteq B, B \subseteq Tasks, Cardinality(A) > 1 PROVE Cardinality(B) > 1
<1>1. IsFiniteSet(B)
  BY TracingAssumption, FS_Subset
<1>2. Cardinality(A) <= Cardinality(B) /\ Cardinality(A) \in Nat /\ Cardinality(B) \in Nat
  BY <1>1, FS_Subset, FS_CardinalityType
<1> QED BY <1>2

(* What was returned of a span is returned by a record of it.              *)
LEMMA GivenExists ==
  ASSUME TracingTypes, EntriesInv, NEW p \in Spans, NEW f \in Given(p)
  PROVE  Exists(p) /\ f \in Written /\ f.id <= spent.records /\ f.id \in Int
<1>1. f \in Written /\ f.span = p
  BY DEF Given
<1>2. f \in Entries
  BY <1>1, WrittenTyped
<1>3. p # Nil
  BY TracingAssumption
<1> QED BY <1>1, <1>2, <1>3 DEF EntriesInv, Entries

(* The record id of a span stays but for a recording in it that sets it.   *)
LEMMA IdKept ==
  ASSUME TracingTypes, EntriesInv, ParentsInv, NEW p \in Spans, p \notin history.contended,
         [TracingNext]_tracingVars, \A t \in Tasks : SetRecordId(t) => call[t].span # p
  PROVE  span'[p].recordId = span[p].recordId
<1>1. CASE span'[p].recordId = 0 /\ ~Exists(p)
  <2>1. ASSUME span[p].recordId # 0 PROVE FALSE
    <3>1. FirstInv(p)
      BY DEF ParentsInv
    <3>2. \E f \in Given(p) : f.id = span[p].recordId
      BY <2>1, <3>1 DEF FirstInv
    <3> QED BY <1>1, <3>2, GivenExists
  <2> QED BY <1>1, <2>1
<1> QED BY <1>1, RecordIdsStay

(* A recording of another task goes on under what it went under; others    *)
(* may have recorded in the parent since.                                  *)
LEMMA UnderKept ==
  ASSUME TracingTypes, TracingTypes', NEW p \in Spans, NEW t \in Tasks, UnderInv(t, p),
         call'[t] = call[t], history.users[p] \subseteq history'.users[p],
         call[t].parent # 0 => span'[p].recordId = span[p].recordId,
         Given(p)' = Given(p) \/ (\E u \in history.users[p] : u # t)
  PROVE  UnderInv(t, p)'
<1>1. history'.users[p] \subseteq Tasks /\ history.users[p] \subseteq Tasks
  BY DEF TracingTypes
<1>2. call'[t].parent # 0 => call'[t].parent = span'[p].recordId
  BY DEF UnderInv
<1>3. t \in history'.users[p]
  BY DEF UnderInv
<1>4. ASSUME call'[t].parent = 0 PROVE Given(p)' = {} \/ Cardinality(history'.users[p]) > 1
  <2>1. CASE \E u \in history.users[p] : u # t
    <3>1. PICK u \in history.users[p] : u # t
      BY <2>1
    <3>2. u \in history'.users[p]
      BY <3>1
    <3> QED BY <1>1, <1>3, <3>1, <3>2, TwoTasks
  <2>2. CASE Given(p)' = Given(p)
    <3>1. Given(p) = {} \/ Cardinality(history.users[p]) > 1
      BY <1>4 DEF UnderInv
    <3>2. Cardinality(history.users[p]) > 1 => Cardinality(history'.users[p]) > 1
      BY <1>1, MoreTasks
    <3> QED BY <2>2, <3>1, <3>2
  <2> QED BY <2>1, <2>2
<1> QED BY <1>2, <1>3, <1>4 DEF UnderInv

(* A span nobody records in.                                               *)
LEMMA ParentsKept ==
  ASSUME TracingTypes, TracingTypes', UsersInv, ParentsInv, NEW p \in Spans, p \notin history.contended,
         call' = call, Given(p)' = Given(p), span'[p].recordId = span[p].recordId,
         history.users[p] \subseteq history'.users[p],
         \A q \in Spans : Exists(q) => Exists(q)' /\ ParentOf(q)' = ParentOf(q)
  PROVE  /\ FirstInv(p)'
         /\ \A t \in Tasks :
              call'[t].at = "record" /\ ParentOf(call[t].span)' = p => UnderInv(t, p)'
<1>1. FirstInv(p)
  BY DEF ParentsInv
<1>2. FirstInv(p)'
  BY <1>1 DEF FirstInv, Finishing
<1>3. ASSUME NEW t \in Tasks, call'[t].at = "record", ParentOf(call[t].span)' = p PROVE UnderInv(t, p)'
  <2>1. call[t] # NoCall /\ call[t].at = "record"
    BY <1>3 DEF NoCall, Nil
  <2>2. call[t].span \in Spans /\ Exists(call[t].span)
    BY <2>1, CallSpan DEF UsersInv
  <2>3. ParentOf(call[t].span) = p
    BY <1>3, <2>2 DEF ParentOf
  <2>4. UnderInv(t, p)
    BY <2>1, <2>3 DEF ParentsInv
  <2> QED BY <2>4, UnderKept
<1> QED BY <1>2, <1>3

(* Nothing is returned of a span before it has a user that is still        *)
(* recording, or a record id.                                              *)
LEMMA GivenHasUser ==
  ASSUME TracingTypes, UsersInv, NEW p \in Spans, FirstInv(p), span[p].recordId = 0, NEW f \in Given(p)
  PROVE  \E v \in Tasks : /\ Finishing(v, p) /\ call[v].result = f.id
                          /\ call[v] # NoCall /\ v \in history.users[p]
<1>1. PICK v \in Tasks : Finishing(v, p) /\ call[v].result = f.id
  BY DEF FirstInv
<1>2. call[v] # NoCall /\ call[v].span = p
  BY <1>1 DEF Finishing, NoCall, Nil
<1> QED BY <1>1, <1>2 DEF UsersInv

LEMMA LogParents ==
  ASSUME TracingTypes, TracingTypes', EntriesInv, UsersInv, ParentsInv, NEW t \in Tasks, NEW s \in Spans, Log(t, s),
         NEW p \in Spans, p \notin history'.contended
  PROVE  /\ FirstInv(p)'
         /\ \A u \in Tasks :
              call'[u].at = "record" /\ ParentOf(call[u].span)' = p => UnderInv(u, p)'
<1>1. /\ history.contended \subseteq history'.contended
      /\ span[s].recordId = 0 /\ (\E u \in Tasks : call[u].span = s) => s \in history'.contended
      /\ \A q \in Spans : /\ history.users[q] \subseteq history'.users[q]
                          /\ q \in {s, ParentOf(s)} => t \in history'.users[q]
  BY LogNotes
<1>2. /\ call[t] = NoCall /\ span' = span /\ Given(p)' = Given(p)
      /\ call'[t].at = "record" /\ call'[t].span = s /\ call'[t].parent = ParentActionId(s)
      /\ \A u \in Tasks : u # t => call'[u] = call[u]
  <2>1. call[t] = NoCall /\ span' = span /\ chain' = chain
    BY DEF Log, fileVars
  <2>2. Given(p)' = Given(p)
    BY <2>1 DEF Given, Written
  <2>3. /\ call'[t].at = "record" /\ call'[t].span = s /\ call'[t].parent = ParentActionId(s)
        /\ \A u \in Tasks : u # t => call'[u] = call[u]
    BY DEF Log, TracingTypes
  <2> QED BY <2>1, <2>2, <2>3
<1>3. FirstInv(p) /\ p \notin history.contended
  BY <1>1 DEF ParentsInv
<1>4. call[t].span # p /\ p # Nil
  BY <1>2, TracingAssumption DEF NoCall
<1>5. FirstInv(p)'
  <2>1. ASSUME span'[p].recordId = 0
        PROVE  /\ \A u, v \in Tasks : call'[u].span = p /\ call'[v].span = p => u = v
               /\ \A f \in Given(p)' : \E v \in Tasks : Finishing(v, p)' /\ call'[v].result = f.id
    <3>1. span[p].recordId = 0
      BY <1>2, <2>1
    <3>2. \A u, v \in Tasks : call[u].span = p /\ call[v].span = p => u = v
      BY <1>3, <3>1 DEF FirstInv
    <3>3. \A u, v \in Tasks : call'[u].span = p /\ call'[v].span = p => u = v
      <4>1. CASE p = s
        BY <1>1, <1>2, <3>1, <4>1
      <4>2. CASE p # s
        BY <1>2, <3>2, <4>2
      <4> QED BY <4>1, <4>2
    <3>4. ASSUME NEW f \in Given(p) PROVE \E v \in Tasks : Finishing(v, p)' /\ call'[v].result = f.id
      <4>1. PICK v \in Tasks : Finishing(v, p) /\ call[v].result = f.id
        BY <1>3, <3>1 DEF FirstInv
      <4>2. v # t
        BY <1>4, <4>1 DEF Finishing
      <4> QED BY <1>2, <4>1, <4>2 DEF Finishing
    <3> QED BY <1>2, <3>3, <3>4
  <2>2. ASSUME span'[p].recordId # 0
        PROVE  /\ \E f \in Given(p)' : f.id = span'[p].recordId
               /\ \A f \in Given(p)' : span'[p].recordId <= f.id
               /\ \A u \in Tasks : call'[u].span = p => call'[u].at # "set"
    BY <1>2, <1>3, <2>2 DEF FirstInv
  <2> QED BY <2>1, <2>2 DEF FirstInv
<1>6. ASSUME NEW u \in Tasks, call'[u].at = "record", ParentOf(call[u].span)' = p PROVE UnderInv(u, p)'
  <2>1. CASE u # t
    <3>1. call'[u] = call[u] /\ ParentOf(call[u].span) = p /\ call[u].at = "record"
      BY <1>2, <1>6, <2>1 DEF ParentOf
    <3>2. UnderInv(u, p)
      BY <1>3, <3>1 DEF ParentsInv
    <3> QED BY <1>1, <1>2, <3>1, <3>2, UnderKept
  <2>2. CASE u = t
    <3>1. ParentOf(s) = p
      BY <1>2, <1>6, <2>2 DEF ParentOf
    <3>2. call'[t].parent = span[p].recordId
      BY <1>2, <1>4, <3>1 DEF ParentActionId, ParentOf
    <3>3. t \in history'.users[p]
      BY <1>1, <3>1
    <3>4. ASSUME call'[t].parent = 0, Given(p) # {} PROVE Cardinality(history'.users[p]) > 1
      <4>1. PICK f \in Given(p) : TRUE
        BY <3>4
      <4>2. PICK v \in Tasks : v \in history.users[p] /\ call[v] # NoCall
        BY <1>3, <3>2, <3>4, <4>1, GivenHasUser
      <4>3. v # t /\ v \in history'.users[p]
        BY <1>1, <1>2, <4>2
      <4>4. history'.users[p] \subseteq Tasks
        BY DEF TracingTypes
      <4> QED BY <3>3, <4>3, <4>4, TwoTasks
    <3> QED BY <1>2, <2>2, <3>2, <3>3, <3>4 DEF UnderInv
  <2> QED BY <2>1, <2>2
<1> QED BY <1>5, <1>6

LEMMA WriteParents ==
  ASSUME TracingTypes, TracingTypes', Bounds, EntriesInv, UsersInv, ParentsInv, NEW t \in Tasks, Write(t),
         NEW p \in Spans, p \notin history'.contended,
         \A q \in Spans : Exists(q) => Exists(q)' /\ ParentOf(q)' = ParentOf(q)
  PROVE  /\ FirstInv(p)'
         /\ \A u \in Tasks :
              call'[u].at = "record" /\ ParentOf(call[u].span)' = p => UnderInv(u, p)'
<1>1. /\ span' = span /\ history' = history
      /\ call[t].at = "record" /\ call[t].span \in Spans /\ \A u \in Tasks : u # t => call'[u] = call[u]
      /\ Written \subseteq Written'
      /\ \A e \in Written' :
           \/ e \in Written
           \/ Plain(e) /\ ~e.returned
           \/ /\ e.id = NextId /\ e.span = call[t].span /\ e.parent = call[t].parent /\ e.run = Nil
              /\ e.returned => call'[t] # NoCall
      /\ \/ call'[t] = NoCall
         \/ /\ call'[t].at = "check" /\ call'[t].result = NextId /\ call'[t].span = call[t].span
  BY WriteEffect
<1>2. FirstInv(p) /\ p \notin history.contended /\ p # Nil
  BY <1>1, TracingAssumption DEF ParentsInv
<1>3. \A e \in Given(p)' : \/ e \in Given(p)
                           \/ e.id = NextId /\ call[t].span = p /\ call'[t] # NoCall
  <2>1. \A e : e \in Given(p)' <=> e \in Written' /\ e.span = p /\ e.returned
    BY DEF Given
  <2>2. \A e : e \in Given(p) <=> e \in Written /\ e.span = p /\ e.returned
    BY DEF Given
  <2> QED BY <1>1, <2>1, <2>2
<1>4. Given(p) \subseteq Given(p)'
  BY <1>1 DEF Given
<1>5. call[t] # NoCall /\ NextId = spent.records + 1 /\ spent.records \in Nat
  BY <1>1 DEF NoCall, Nil, NextId, TracingTypes
<1>6. ASSUME span'[p].recordId = 0
      PROVE  /\ \A u, v \in Tasks : call'[u].span = p /\ call'[v].span = p => u = v
             /\ \A f \in Given(p)' : \E v \in Tasks : Finishing(v, p)' /\ call'[v].result = f.id
  <2>1. /\ \A u, v \in Tasks : call[u].span = p /\ call[v].span = p => u = v
        /\ \A f \in Given(p) : \E v \in Tasks : Finishing(v, p) /\ call[v].result = f.id
    BY <1>1, <1>2, <1>6 DEF FirstInv
  <2>2. \A u \in Tasks : call'[u].span = p => call[u].span = p
    <3>1. NoCall.span # p
      BY <1>2 DEF NoCall
    <3> QED BY <1>1, <3>1
  <2>3. ASSUME NEW f \in Given(p)' PROVE \E v \in Tasks : Finishing(v, p)' /\ call'[v].result = f.id
    <3>1. CASE f \in Given(p)
      <4>1. PICK v \in Tasks : Finishing(v, p) /\ call[v].result = f.id
        BY <2>1, <3>1
      <4>2. v # t
        BY <1>1, <4>1 DEF Finishing
      <4> QED BY <1>1, <4>1, <4>2 DEF Finishing
    <3>2. CASE f.id = NextId /\ call[t].span = p /\ call'[t] # NoCall
      BY <1>1, <3>2 DEF Finishing
    <3> QED BY <1>3, <3>1, <3>2
  <2> QED BY <2>1, <2>2, <2>3
<1>7. ASSUME span'[p].recordId # 0
      PROVE  /\ \E f \in Given(p)' : f.id = span'[p].recordId
             /\ \A f \in Given(p)' : span'[p].recordId <= f.id
             /\ \A u \in Tasks : call'[u].span = p => call'[u].at # "set"
  <2>1. /\ \E f \in Given(p) : f.id = span[p].recordId
        /\ \A f \in Given(p) : span[p].recordId <= f.id
        /\ \A u \in Tasks : call[u].span = p => call[u].at # "set"
    BY <1>1, <1>2, <1>7 DEF FirstInv
  <2>2. span[p].recordId <= spent.records /\ span[p].recordId \in Int
    <3>1. PICK f \in Given(p) : f.id = span[p].recordId
      BY <2>1
    <3> QED BY <3>1, GivenExists
  <2>3. span[p].recordId <= NextId
    BY <1>5, <2>2
  <2>4. \A f \in Given(p)' : span[p].recordId <= f.id
    BY <1>3, <2>1, <2>3
  <2>5. \A u \in Tasks : call'[u].span = p => call'[u].at # "set"
    <3>1. NoCall.at # "set"
      BY DEF NoCall, Nil
    <3> QED BY <1>1, <2>1, <3>1
  <2> QED BY <1>1, <1>4, <2>1, <2>4, <2>5
<1>8. FirstInv(p)'
  BY <1>6, <1>7 DEF FirstInv
<1>9. ASSUME NEW u \in Tasks, call'[u].at = "record", ParentOf(call[u].span)' = p PROVE UnderInv(u, p)'
  <2>1. u # t /\ call'[u] = call[u]
    <3>1. NoCall.at # "record"
      BY DEF NoCall, Nil
    <3> QED BY <1>1, <1>9, <3>1
  <2>2. ParentOf(call[u].span) = p
    BY <1>1, <1>9, <2>1 DEF ParentOf
  <2>3. UnderInv(u, p)
    BY <1>2, <1>9, <2>1, <2>2 DEF ParentsInv
  <2>4. Given(p)' = Given(p) \/ (\E v \in history.users[p] : v # u)
    <3>1. CASE call[t].span = p
      <4>1. t \in history.users[p]
        BY <1>5, <3>1 DEF UsersInv
      <4> QED BY <2>1, <4>1
    <3>2. CASE call[t].span # p
      <4>1. \A e \in Given(p)' : e \in Given(p)
        BY <1>3, <3>2
      <4> QED BY <1>4, <4>1
    <3> QED BY <3>1, <3>2
  <2> QED BY <1>1, <2>1, <2>3, <2>4, UnderKept
<1> QED BY <1>8, <1>9

LEMMA CheckParents ==
  ASSUME TracingTypes, TracingTypes', EntriesInv, UsersInv, ParentsInv, NEW t \in Tasks, Check(t),
         NEW p \in Spans, p \notin history'.contended
  PROVE  /\ FirstInv(p)'
         /\ \A u \in Tasks :
              call'[u].at = "record" /\ ParentOf(call[u].span)' = p => UnderInv(u, p)'
<1>1. call \in [Tasks -> Recordings] /\ call[t].at = "check"
  BY DEF Check, TracingTypes
<1> DEFINE set == [call[t] EXCEPT !.at = "set"]
<1>2. set.span = call[t].span /\ set.result = call[t].result /\ set.at = "set"
  <2>1. call[t] \in Recordings \ {NoCall}
    BY <1>1 DEF NoCall, Nil
  <2> QED BY <2>1 DEF Recordings
<1>3. call' = [call EXCEPT ![t] = IF span[call[t].span].recordId = 0 THEN set ELSE NoCall]
  BY <1>1 DEF Check, ZERO_UUID
<1>4. span' = span /\ history' = history /\ Given(p)' = Given(p)
  <2>1. span' = span /\ history' = history /\ chain' = chain
    BY DEF Check, fileVars
  <2> QED BY <2>1 DEF Given, Written
<1> HIDE DEF set
<1>5. /\ \A u \in Tasks : u # t => call'[u] = call[u]
      /\ span[call[t].span].recordId = 0 => call'[t] = set
      /\ span[call[t].span].recordId # 0 => call'[t] = NoCall
  BY <1>1, <1>3
<1>6. FirstInv(p) /\ p # Nil /\ NoCall.span # p
  BY <1>4, TracingAssumption DEF ParentsInv, NoCall
<1>7. ASSUME span'[p].recordId = 0
      PROVE  /\ \A u, v \in Tasks : call'[u].span = p /\ call'[v].span = p => u = v
             /\ \A f \in Given(p)' : \E v \in Tasks : Finishing(v, p)' /\ call'[v].result = f.id
  <2>1. /\ \A u, v \in Tasks : call[u].span = p /\ call[v].span = p => u = v
        /\ \A f \in Given(p) : \E v \in Tasks : Finishing(v, p) /\ call[v].result = f.id
    BY <1>4, <1>6, <1>7 DEF FirstInv
  <2>2. \A u \in Tasks : call'[u].span = p => call[u].span = p
    BY <1>2, <1>5, <1>6
  <2>3. \A v \in Tasks : Finishing(v, p) => Finishing(v, p)' /\ call'[v].result = call[v].result
    BY <1>2, <1>4, <1>5, <1>7 DEF Finishing
  <2> QED BY <1>4, <2>1, <2>2, <2>3
<1>8. ASSUME span'[p].recordId # 0
      PROVE  /\ \E f \in Given(p)' : f.id = span'[p].recordId
             /\ \A f \in Given(p)' : span'[p].recordId <= f.id
             /\ \A u \in Tasks : call'[u].span = p => call'[u].at # "set"
  <2>1. /\ \E f \in Given(p) : f.id = span[p].recordId
        /\ \A f \in Given(p) : span[p].recordId <= f.id
        /\ \A u \in Tasks : call[u].span = p => call[u].at # "set"
    BY <1>4, <1>6, <1>8 DEF FirstInv
  <2>2. \A u \in Tasks : call'[u].span = p => call'[u].at # "set"
    BY <1>2, <1>4, <1>5, <1>6, <1>8, <2>1
  <2> QED BY <1>4, <2>1, <2>2
<1>9. FirstInv(p)'
  BY <1>7, <1>8 DEF FirstInv
<1>10. ASSUME NEW u \in Tasks, call'[u].at = "record", ParentOf(call[u].span)' = p PROVE UnderInv(u, p)'
  <2>1. u # t /\ call'[u] = call[u]
    <3>1. NoCall.at # "record"
      BY DEF NoCall, Nil
    <3> QED BY <1>2, <1>5, <1>10, <3>1
  <2>2. ParentOf(call[u].span) = p
    BY <1>4, <1>10, <2>1 DEF ParentOf
  <2>3. UnderInv(u, p)
    BY <1>4, <1>10, <2>1, <2>2 DEF ParentsInv
  <2> QED BY <1>4, <2>1, <2>3, UnderKept
<1> QED BY <1>9, <1>10

LEMMA SetParents ==
  ASSUME TracingTypes, TracingTypes', EntriesInv, UsersInv, ParentsInv, IdsInv, NEW t \in Tasks, SetRecordId(t),
         NEW p \in Spans, p \notin history'.contended
  PROVE  /\ FirstInv(p)'
         /\ \A u \in Tasks :
              call'[u].at = "record" /\ ParentOf(call[u].span)' = p => UnderInv(u, p)'
<1>1. /\ call[t].span \in Spans /\ call[t].result \in 0 .. MaxUses /\ call[t].at = "set"
      /\ span'[call[t].span].recordId = call[t].result
      /\ \A q \in Spans : q # call[t].span => span'[q] = span[q]
      /\ \A q \in Spans : /\ span'[q].made = span[q].made /\ span'[q].parent = span[q].parent
  BY IdSet
<1>2. history' = history /\ Given(p)' = Given(p)
  <2>1. history' = history /\ chain' = chain
    BY DEF SetRecordId, fileVars
  <2> QED BY <2>1 DEF Given, Written
<1>3. call'[t] = NoCall /\ \A u \in Tasks : u # t => call'[u] = call[u]
  BY DEF SetRecordId, TracingTypes
<1>4. FirstInv(p) /\ p # Nil /\ NoCall.span # p /\ NoCall.at # "record"
  BY <1>2, TracingAssumption DEF ParentsInv, NoCall, Nil
<1>5. ASSUME call[t].span # p PROVE FirstInv(p)'
  <2>1. span'[p] = span[p]
    BY <1>1, <1>5
  <2>2. \A u \in Tasks : call'[u].span = p <=> call[u].span = p
    BY <1>3, <1>4, <1>5
  <2>3. \A u \in Tasks : Finishing(u, p) => u # t
    BY <1>5 DEF Finishing
  <2>4. ASSUME span'[p].recordId = 0
        PROVE  /\ \A u, v \in Tasks : call'[u].span = p /\ call'[v].span = p => u = v
               /\ \A f \in Given(p)' : \E v \in Tasks : Finishing(v, p)' /\ call'[v].result = f.id
    <3>1. /\ \A u, v \in Tasks : call[u].span = p /\ call[v].span = p => u = v
          /\ \A f \in Given(p) : \E v \in Tasks : Finishing(v, p) /\ call[v].result = f.id
      BY <1>4, <2>1, <2>4 DEF FirstInv
    <3>2. \A v \in Tasks : Finishing(v, p) => Finishing(v, p)' /\ call'[v].result = call[v].result
      BY <1>3, <2>3 DEF Finishing
    <3> QED BY <1>2, <2>2, <3>1, <3>2
  <2>5. ASSUME span'[p].recordId # 0
        PROVE  /\ \E f \in Given(p)' : f.id = span'[p].recordId
               /\ \A f \in Given(p)' : span'[p].recordId <= f.id
               /\ \A u \in Tasks : call'[u].span = p => call'[u].at # "set"
    <3>1. /\ \E f \in Given(p) : f.id = span[p].recordId
          /\ \A f \in Given(p) : span[p].recordId <= f.id
          /\ \A u \in Tasks : call[u].span = p => call[u].at # "set"
      BY <1>4, <2>1, <2>5 DEF FirstInv
    <3>2. \A u \in Tasks : call'[u].span = p => call'[u].at # "set"
      BY <1>3, <1>4, <3>1
    <3> QED BY <1>2, <2>1, <3>1, <3>2
  <2> QED BY <2>4, <2>5 DEF FirstInv
<1>6. ASSUME call[t].span = p PROVE span[p].recordId = 0
  BY <1>1, <1>4, <1>6 DEF FirstInv
<1>7. ASSUME call[t].span = p PROVE FirstInv(p)'
  <2>1. /\ \A u, v \in Tasks : call[u].span = p /\ call[v].span = p => u = v
        /\ \A f \in Given(p) : \E v \in Tasks : Finishing(v, p) /\ call[v].result = f.id
    BY <1>4, <1>6, <1>7 DEF FirstInv
  <2>2. call[t].result # 0 /\ \E f \in Given(p) : f.id = call[t].result
    <3>1. call[t] # NoCall /\ call[t].at \in {"check", "set"}
      BY <1>1 DEF NoCall, Nil
    <3> QED BY <1>7, <3>1 DEF IdsInv, UsersInv
  <2>3. \A f \in Given(p) : f.id = call[t].result
    BY <1>7, <2>1 DEF Finishing
  <2>4. \A u \in Tasks : call'[u].span # p
    BY <1>3, <1>4, <1>7, <2>1
  <2>5. span'[p].recordId = call[t].result
    BY <1>1, <1>7
  <2>6. \A f \in Given(p)' : span'[p].recordId <= f.id
    BY <1>1, <1>2, <2>3, <2>5
  <2>7. \E f \in Given(p)' : f.id = span'[p].recordId
    BY <1>2, <2>2, <2>5
  <2> QED BY <2>2, <2>4, <2>5, <2>6, <2>7 DEF FirstInv
<1>8. ASSUME NEW u \in Tasks, call'[u].at = "record", ParentOf(call[u].span)' = p PROVE UnderInv(u, p)'
  <2>1. u # t /\ call'[u] = call[u]
    BY <1>3, <1>4, <1>8
  <2>2. call[u] # NoCall /\ call[u].at = "record"
    BY <1>4, <1>8, <2>1
  <2>3. ParentOf(call[u].span) = p
    <3>1. call[u].span \in Spans
      BY <2>2, CallSpan
    <3> QED BY <1>1, <1>8, <2>1, <3>1 DEF ParentOf
  <2>4. UnderInv(u, p)
    BY <1>2, <2>2, <2>3 DEF ParentsInv
  <2>5. call[u].parent # 0 => span'[p].recordId = span[p].recordId
    <3>1. CASE call[t].span = p
      <4>1. call[u].parent = 0
        BY <1>6, <2>4, <3>1 DEF UnderInv
      <4> QED BY <4>1
    <3>2. CASE call[t].span # p
      BY <1>1, <3>2
    <3> QED BY <3>1, <3>2
  <2> QED BY <1>2, <2>1, <2>4, <2>5, UnderKept
<1> QED BY <1>5, <1>7, <1>8

LEMMA ParentsNext ==
  ASSUME TracingTypes, TracingTypes', Bounds, InputsInv, EntriesInv, UsersInv, ParentsInv, IdsInv,
         [TracingNext]_tracingVars
  PROVE  ParentsInv'
<1> SUFFICES ASSUME NEW p \in Spans, p \notin history'.contended
             PROVE  /\ FirstInv(p)'
                    /\ \A t \in Tasks :
                         call'[t].at = "record" /\ ParentOf(call[t].span)' = p => UnderInv(t, p)'
  BY DEF ParentsInv
<1>1. /\ p \notin history.contended /\ history.users[p] \subseteq history'.users[p]
      /\ \A q \in Spans : Exists(q) => Exists(q)' /\ ParentOf(q)' = ParentOf(q)
  BY UsersStay, SpansStay
<1>2. CASE call' = call /\ Given(p)' = Given(p) /\ \A t \in Tasks : ~SetRecordId(t)
  <2>1. span'[p].recordId = span[p].recordId
    BY <1>1, <1>2, IdKept
  <2> QED BY <1>1, <1>2, <2>1, ParentsKept
<1>3. CASE \E t \in Tasks, s \in Spans : Log(t, s)
  BY <1>3, LogParents
<1>4. CASE \E t \in Tasks : Write(t)
  BY <1>1, <1>4, WriteParents
<1>5. CASE \E t \in Tasks : Check(t)
  BY <1>5, CheckParents
<1>6. CASE \E t \in Tasks : SetRecordId(t)
  BY <1>6, SetParents
<1>7. ASSUME UNCHANGED call PROVE call' = call /\ \A t \in Tasks : ~SetRecordId(t)
  <2>1. ASSUME NEW t \in Tasks, SetRecordId(t) PROVE FALSE
    <3>1. call[t].at = "set" /\ call'[t] = NoCall
      BY <2>1 DEF SetRecordId, TracingTypes
    <3> QED BY <1>7, <3>1 DEF NoCall, Nil
  <2> QED BY <1>7, <2>1
<1>8. ASSUME UNCHANGED <<call, chain>> PROVE call' = call /\ Given(p)' = Given(p) /\ \A t \in Tasks : ~SetRecordId(t)
  <2>1. Given(p)' = Given(p)
    BY <1>8 DEF Given, Written
  <2> QED BY <1>7, <1>8, <2>1
<1>9. CASE ChangeDefault \/ RootSpan \/ ChildSpan
  BY <1>2, <1>8, <1>9 DEF ChangeDefault, RootSpan, ChildSpan, NewSpan, fileVars
<1>10. CASE (\E t \in Tasks, s \in Spans : Enter(t, s)) \/ (\E t \in Tasks : Exit(t))
  BY <1>2, <1>8, <1>10 DEF Enter, Exit, fileVars
<1>11. CASE \E x \in Runs : RunStart(x)
  BY <1>2, <1>8, <1>11 DEF RunStart, fileVars
<1>12. CASE \E x \in Runs : RunEnd(x)
  <2>1. PICK x \in Runs : RunEnd(x)
    BY <1>12
  <2>2. /\ UNCHANGED call /\ Written \subseteq Written'
        /\ \A e \in Written' :
             \/ e \in Written
             \/ Plain(e) /\ ~e.returned
             \/ /\ e.id = NextId /\ e.span = Nil /\ e.parent = 0 /\ e.run = x /\ e.input = RunInput(x)
    BY <2>1, RunEndEffect
  <2>3. p # Nil
    BY TracingAssumption
  <2>4. \A e : e \in Given(p)' <=> e \in Written' /\ e.span = p /\ e.returned
    BY DEF Given
  <2>5. \A e : e \in Given(p) <=> e \in Written /\ e.span = p /\ e.returned
    BY DEF Given
  <2>6. \A e : e \in Given(p)' <=> e \in Given(p)
    BY <2>2, <2>3, <2>4, <2>5
  <2>7. Given(p)' = Given(p)
    BY <2>6
  <2> QED BY <1>2, <1>7, <2>2, <2>7
<1>13. CASE UNCHANGED tracingVars
  BY <1>2, <1>8, <1>13 DEF tracingVars, fileVars
<1> QED BY <1>3, <1>4, <1>5, <1>6, <1>9, <1>10, <1>11, <1>12, <1>13 DEF TracingNext

-----------------------------------------------------------------------------
(* Tracing: what records are under.                                        *)

(* A record under p is under the first of p that was returned before it.   *)
Before(p, n) == {f \in Given(p) : f.id < n}
UnderFirst(p, e) ==
  LET first == CHOOSE f \in Before(p, e.id) : \A g \in Before(p, e.id) : f.id <= g.id
  IN  IF Before(p, e.id) = {} THEN e.parent = 0
      ELSE \/ e.parent = first.id
           \/ e.parent = 0 /\ Cardinality(history.users[p]) > 1

(* What is returned anew has an id that is new.                            *)
LEMMA NewGiven ==
  ASSUME TracingTypes, Bounds, InputsInv, EntriesInv, [TracingNext]_tracingVars, NEW p \in Spans
  PROVE  /\ Given(p) \subseteq Given(p)'
         /\ \A f \in Given(p)' : f \in Given(p) \/ f.id = NextId
<1>1. /\ \A e : e \in Given(p)' <=> e \in Written' /\ e.span = p /\ e.returned
      /\ \A e : e \in Given(p) <=> e \in Written /\ e.span = p /\ e.returned
  BY DEF Given
<1>2. Given(p) \subseteq Given(p)'
  BY <1>1, ChainsGrow
<1>3. CASE \E t \in Tasks : Write(t)
  <2>1. \A e \in Written' : e \in Written \/ (Plain(e) /\ ~e.returned) \/ e.id = NextId
    BY <1>3, WriteEffect
  <2> QED BY <1>1, <1>2, <2>1
<1>4. CASE \E x \in Runs : RunEnd(x)
  <2>1. \A e \in Written' : e \in Written \/ (Plain(e) /\ ~e.returned) \/ e.id = NextId
    BY <1>4, RunEndEffect
  <2> QED BY <1>1, <1>2, <2>1
<1>5. CASE Written' = Written
  BY <1>1, <1>2, <1>5
<1> QED BY <1>3, <1>4, <1>5, ChainsGrow

(* What was before a record stays so.                                      *)
LEMMA BeforeStays ==
  ASSUME TracingTypes, Bounds, InputsInv, EntriesInv, [TracingNext]_tracingVars, NEW p \in Spans,
         NEW n \in Int, n <= NextId
  PROVE  Before(p, n)' = Before(p, n)
<1>1. NextId \in Int
  BY DEF NextId, TracingTypes
<1>2. \A f : f \in Before(p, n)' <=> f \in Given(p)' /\ f.id < n
  BY DEF Before
<1>3. \A f : f \in Before(p, n) <=> f \in Given(p) /\ f.id < n
  BY DEF Before
<1>4. \A f : f \in Before(p, n)' <=> f \in Before(p, n)
  <2>1. \A f \in Given(p)' : f \in Given(p) \/ f.id = NextId
    BY NewGiven
  <2>2. Given(p) \subseteq Given(p)'
    BY NewGiven
  <2>3. \A f : f.id = NextId => ~(f.id < n)
    BY <1>1
  <2> QED BY <1>2, <1>3, <2>1, <2>2, <2>3, Zenon
<1> QED BY <1>4

LEMMA UnderFirstStays ==
  ASSUME TracingTypes, TracingTypes', Bounds, InputsInv, EntriesInv, [TracingNext]_tracingVars, NEW p \in Spans,
         NEW e \in Written, UnderFirst(p, e)
  PROVE  UnderFirst(p, e)'
<1>1. e.id \in Int /\ e.id <= NextId
  <2>1. e.id \in Int /\ e.id <= spent.records
    BY WrittenTyped DEF EntriesInv, Entries
  <2> QED BY <2>1 DEF NextId, TracingTypes
<1>2. PICK n : n = e.id
  OBVIOUS
<1>3. Before(p, n)' = Before(p, n)
  BY <1>1, <1>2, BeforeStays
<1>4. Cardinality(history.users[p]) > 1 => Cardinality(history'.users[p]) > 1
  <2>1. history.users[p] \subseteq history'.users[p] /\ history'.users[p] \subseteq Tasks
    BY UsersStay DEF TracingTypes
  <2> QED BY <2>1, MoreTasks
<1> QED BY <1>2, <1>3, <1>4 DEF UnderFirst

(* The record that is written goes under the first one.                    *)
LEMMA WrittenUnderFirst ==
  ASSUME TracingTypes, Bounds, InputsInv, EntriesInv, ParentsInv, [TracingNext]_tracingVars, NEW p \in Spans,
         p \notin history.contended, NEW t \in Tasks, UnderInv(t, p),
         NEW e, e.id = NextId, e.parent = call[t].parent, history' = history
  PROVE  UnderFirst(p, e)'
<1>1. NextId = spent.records + 1 /\ spent.records \in Nat
  BY DEF NextId, TracingTypes
<1>2. PICK n : n = NextId
  OBVIOUS
<1>3. Before(p, n)' = Before(p, n)
  BY <1>1, <1>2, BeforeStays
<1>4. Before(p, n) = Given(p)
  <2>1. \A f \in Given(p) : f.id \in Int /\ f.id <= spent.records
    BY GivenExists
  <2> QED BY <1>1, <1>2, <2>1 DEF Before
<1>5. FirstInv(p)
  BY DEF ParentsInv
<1>6. e.parent # 0 => e.parent = span[p].recordId /\ span[p].recordId # 0
  BY DEF UnderInv
<1>7. CASE Given(p) = {}
  <2>1. e.parent = 0
    BY <1>5, <1>6, <1>7 DEF FirstInv
  <2> QED BY <1>2, <1>3, <1>4, <1>7, <2>1 DEF UnderFirst
<1>8. CASE Given(p) # {} /\ e.parent = 0
  <2>1. Cardinality(history.users[p]) > 1
    BY <1>8 DEF UnderInv
  <2> QED BY <1>2, <1>3, <1>4, <1>8, <2>1 DEF UnderFirst
<1>9. CASE Given(p) # {} /\ e.parent # 0
  <2> DEFINE first == CHOOSE f \in Given(p) : \A g \in Given(p) : f.id <= g.id
  <2>1. /\ \E f \in Given(p) : f.id = span[p].recordId
        /\ \A f \in Given(p) : span[p].recordId <= f.id
    BY <1>5, <1>6, <1>9 DEF FirstInv
  <2>2. PICK f \in Given(p) : f.id = span[p].recordId
    BY <2>1
  <2>3. first \in Given(p) /\ \A g \in Given(p) : first.id <= g.id
    BY <2>1
  <2> HIDE DEF first
  <2>4. first.id \in Int /\ f.id \in Int
    BY <2>3, GivenExists
  <2>5. first.id = e.parent
    BY <1>6, <1>9, <2>1, <2>2, <2>3, <2>4
  <2> QED BY <1>2, <1>3, <1>4, <1>9, <2>5 DEF UnderFirst, first
<1> QED BY <1>7, <1>8, <1>9

LEMMA ChildrenNext ==
  ASSUME TracingTypes, TracingTypes', Bounds, InputsInv, EntriesInv, UsersInv, ParentsInv,
         ChildrenHangUnderFirst, [TracingNext]_tracingVars
  PROVE  ChildrenHangUnderFirst'
<1>1. \A e \in Written :
        (e.span # Nil /\ ParentOf(e.span) # Nil /\ ParentOf(e.span) \notin history.contended) =>
           UnderFirst(ParentOf(e.span), e)
  BY DEF ChildrenHangUnderFirst, UnderFirst, Before, ZERO_UUID
<1>2. history.contended \subseteq history'.contended
  BY UsersStay
<1>3. ASSUME NEW e \in Written, e.span # Nil, ParentOf(e.span)' # Nil,
             ParentOf(e.span)' \notin history'.contended
      PROVE  UnderFirst(ParentOf(e.span), e)'
  <2>1. e.span \in Spans /\ Exists(e.span)
    BY <1>3, WrittenTyped DEF EntriesInv, Entries
  <2>2. PICK p : p = ParentOf(e.span)
    OBVIOUS
  <2>3. ParentOf(e.span)' = p
    BY <2>1, <2>2, SpansStay DEF ParentOf
  <2>4. p \in Spans
    BY <1>3, <2>1, <2>2, <2>3 DEF ParentOf, TracingTypes, SpanRecords
  <2>5. UnderFirst(p, e)
    BY <1>1, <1>2, <1>3, <2>2, <2>3
  <2>6. UnderFirst(p, e)'
    BY <2>4, <2>5, UnderFirstStays
  <2> QED BY <2>3, <2>6
<1>4. CASE \E t \in Tasks : Write(t)
  <2>1. PICK t \in Tasks : Write(t)
    BY <1>4
  <2>2. /\ span' = span /\ history' = history
        /\ call[t].at = "record" /\ call[t].span \in Spans
        /\ \A e \in Written' :
             \/ e \in Written
             \/ Plain(e) /\ ~e.returned
             \/ /\ e.id = NextId /\ e.span = call[t].span /\ e.parent = call[t].parent /\ e.run = Nil
                /\ e.returned => call'[t] # NoCall
    BY <2>1, WriteEffect
  <2>3. ASSUME NEW e \in Written', e.span # Nil, ParentOf(e.span)' # Nil,
               ParentOf(e.span)' \notin history'.contended
        PROVE  UnderFirst(ParentOf(e.span), e)'
    <3>1. CASE e \in Written
      BY <1>3, <2>3, <3>1
    <3>2. CASE e.id = NextId /\ e.span = call[t].span /\ e.parent = call[t].parent
      <4>1. PICK p : p = ParentOf(call[t].span)
        OBVIOUS
      <4>2. ParentOf(e.span)' = p
        BY <2>2, <3>2, <4>1 DEF ParentOf
      <4>3. p \in Spans /\ p \notin history.contended
        BY <2>2, <2>3, <4>1, <4>2 DEF ParentOf, TracingTypes, SpanRecords
      <4>4. UnderInv(t, p)
        BY <2>2, <4>1, <4>3 DEF ParentsInv
      <4>5. UnderFirst(p, e)'
        BY <2>2, <3>2, <4>3, <4>4, WrittenUnderFirst
      <4> QED BY <4>2, <4>5
    <3>3. CASE Plain(e)
      BY <2>3, <3>3 DEF Plain
    <3> QED BY <2>2, <3>1, <3>2, <3>3
  <2> QED BY <2>3 DEF ChildrenHangUnderFirst, UnderFirst, Before, ZERO_UUID
<1>5. CASE \E x \in Runs : RunEnd(x)
  <2>1. \A e \in Written' : e \in Written \/ e.span = Nil
    BY <1>5, RunEndEffect DEF Plain
  <2>2. ASSUME NEW e \in Written', e.span # Nil, ParentOf(e.span)' # Nil,
               ParentOf(e.span)' \notin history'.contended
        PROVE  UnderFirst(ParentOf(e.span), e)'
    BY <1>3, <2>1, <2>2
  <2> QED BY <2>2 DEF ChildrenHangUnderFirst, UnderFirst, Before, ZERO_UUID
<1>6. CASE Written' = Written
  <2>1. ASSUME NEW e \in Written', e.span # Nil, ParentOf(e.span)' # Nil,
               ParentOf(e.span)' \notin history'.contended
        PROVE  UnderFirst(ParentOf(e.span), e)'
    BY <1>3, <1>6, <2>1
  <2> QED BY <2>1 DEF ChildrenHangUnderFirst, UnderFirst, Before, ZERO_UUID
<1> QED BY <1>4, <1>5, <1>6, ChainsGrow

(* A record whose parent is on a chain comes after it.                     *)
LEMMA ComesAfter ==
  ASSUME TracingTypes, ParentsComeFirst, NEW r \in AllRecorders, NEW entry \in Entries,
         NEW how \in AllFaults \union {"ok"}, NextId <= MaxUses, SafeRecord(r, entry, how),
         entry.parent # 0 => OnChain(entry.parent)
  PROVE  ParentsComeFirst'
<1>1. /\ Grow /\ chain' \in [AllRecorders -> Seq(Entries)]
      /\ \A q \in AllRecorders : \A i \in 1 .. Len(chain'[q]) : i > Len(chain[q]) =>
           \/ Plain(chain'[q][i]) /\ ~chain'[q][i].returned
           \/ /\ q = r /\ Asked(chain'[q][i], entry) /\ chain'[q][i].seq > sequence[q]
              /\ chain'[q][i].returned => how \in {"ok", "invalid"}
  BY SafeRecordWrites
<1>2. /\ chain \in [AllRecorders -> Seq(Entries)] /\ \A q \in AllRecorders : sequence[q] \in Nat
  BY DEF TracingTypes
<1>3. \A q \in AllRecorders : Len(chain[q]) \in Nat /\ Len(chain'[q]) \in Nat
  BY <1>1, <1>2
<1>4. \A q \in AllRecorders : /\ Len(chain[q]) <= Len(chain'[q])
                              /\ \A i \in 1 .. Len(chain[q]) : chain'[q][i] = chain[q][i]
  BY <1>1 DEF Grow
<1>5. \A q \in AllRecorders : \A id \in Ids(chain[q]) : id \in Ids(chain'[q])
  <2>1. ASSUME NEW q \in AllRecorders, NEW id \in Ids(chain[q]) PROVE id \in Ids(chain'[q])
    <3>1. PICK i \in 1 .. Len(chain[q]) : id = chain[q][i].id
      BY <2>1 DEF Ids
    <3>2. i \in 1 .. Len(chain'[q]) /\ chain'[q][i] = chain[q][i]
      BY <1>3, <1>4, <3>1
    <3> QED BY <3>1, <3>2 DEF Ids
  <2> QED BY <2>1
<1>6. ASSUME NEW q \in AllRecorders, NEW i \in 1 .. Len(chain'[q]), chain'[q][i].parent # 0
      PROVE  \/ \E j \in 1 .. i - 1 : /\ chain'[q][j].id = chain'[q][i].parent
                                      /\ chain'[q][j].seq < chain'[q][i].seq
             \/ \E u \in AllRecorders \ {q} : chain'[q][i].parent \in Ids(chain'[u])
  <2>1. CASE i \in 1 .. Len(chain[q])
    <3>1. chain'[q][i] = chain[q][i]
      BY <1>4, <2>1
    <3>2. \/ \E j \in 1 .. i - 1 : /\ chain[q][j].id = chain[q][i].parent
                                   /\ chain[q][j].seq < chain[q][i].seq
          \/ \E u \in AllRecorders \ {q} : chain[q][i].parent \in Ids(chain[u])
      BY <1>6, <2>1, <3>1 DEF ParentsComeFirst, ZERO_UUID
    <3>3. \A j \in 1 .. i - 1 : chain'[q][j] = chain[q][j]
      BY <1>3, <1>4, <2>1
    <3> QED BY <1>5, <3>1, <3>2, <3>3
  <2>2. CASE i > Len(chain[q])
    <3>1. q = r /\ chain'[q][i].parent = entry.parent /\ chain'[q][i].seq > sequence[q]
      BY <1>1, <1>6, <2>2 DEF Plain, Asked
    <3>2. PICK u \in AllRecorders : \E j \in 1 .. Len(chain[u]) :
            chain[u][j].id = entry.parent /\ chain[u][j].seq <= sequence[u]
      BY <1>6, <3>1 DEF OnChain
    <3>3. PICK j \in 1 .. Len(chain[u]) : chain[u][j].id = entry.parent /\ chain[u][j].seq <= sequence[u]
      BY <3>2
    <3>4. CASE u # q
      <4>1. entry.parent \in Ids(chain[u])
        BY <3>3 DEF Ids
      <4> QED BY <1>5, <3>1, <3>4, <4>1
    <3>5. CASE u = q
      <4>1. j \in 1 .. i - 1 /\ chain'[q][j] = chain[q][j]
        BY <1>3, <1>4, <2>2, <3>3, <3>5
      <4>2. chain[q][j].seq \in Nat /\ chain'[q][i].seq \in Nat
        <5>1. chain[q][j] \in Entries
          BY <1>2, <3>3, <3>5, ElementOfSeq
        <5>2. chain'[q][i] \in Entries
          BY <1>1, ElementOfSeq
        <5> QED BY <5>1, <5>2 DEF Entries
      <4>3. chain'[q][j].seq < chain'[q][i].seq
        BY <1>2, <3>1, <3>3, <3>5, <4>1, <4>2
      <4> QED BY <3>1, <3>3, <3>5, <4>1, <4>3
    <3> QED BY <3>4, <3>5
  <2> QED BY <1>3, <2>1, <2>2
<1> QED BY <1>6 DEF ParentsComeFirst, ZERO_UUID

LEMMA ComeFirstNext ==
  ASSUME TracingTypes, Bounds, InputsInv, IdsInv, ParentsComeFirst, [TracingNext]_tracingVars
  PROVE  ParentsComeFirst'
<1>1. CASE \E t \in Tasks : Write(t)
  <2>1. PICK t \in Tasks : Write(t)
    BY <1>1
  <2>2. PICK how \in AllFaults \union {"ok"} :
           /\ SafeRecord(call[t].rec, Wanted(t), how)
           /\ call[t].rec \in AllRecorders /\ Wanted(t) \in Entries /\ NextId <= MaxUses
    BY <2>1, WriteRecords
  <2>3. Wanted(t).parent = call[t].parent
    BY DEF Wanted, Entry
  <2>4. Wanted(t).parent # 0 => OnChain(Wanted(t).parent)
    BY <2>3 DEF IdsInv
  <2> QED BY <2>2, <2>4, ComesAfter
<1>2. CASE \E x \in Runs : RunEnd(x)
  <2>1. PICK x \in Runs : RunEnd(x)
    BY <1>2
  <2>2. PICK how \in AllFaults \union {"ok"} :
           /\ SafeRecord(HandlerRecorder, RunEntry(x), how)
           /\ HandlerRecorder \in AllRecorders /\ RunEntry(x) \in Entries /\ NextId <= MaxUses
    BY <2>1, RunEndRecords
  <2>3. RunEntry(x).parent = 0
    BY DEF RunEntry, Entry, ZERO_UUID
  <2> QED BY <2>2, <2>3, ComesAfter
<1>3. CASE chain' = chain
  BY <1>3 DEF ParentsComeFirst
<1> QED BY <1>1, <1>2, <1>3, ChainsGrow

-----------------------------------------------------------------------------
(* Tracing: the inputs of runs.                                            *)

(* An input that is kept is of the run that keeps it, and a run with an id *)
(* finds its own.                                                          *)
LEMMA KeptIsOwn ==
  ASSUME TracingTypes, InputsInv, NEW x \in Runs, run[x].given
  PROVE  /\ \A e \in Kept(x) : e = <<<<"run", x>>, x>>
         /\ run[x].at = "on" => RunInput(x) = x
<1>1. ASSUME NEW e \in Kept(x) PROVE e = <<<<"run", x>>, x>>
  <2>1. e \in inputs /\ e[1] = <<"run", x>>
    BY DEF Kept, EndKey
  <2>2. PICK y \in Runs : e = <<StartKey(y, run[y].given), y>>
    BY <2>1 DEF InputsInv
  <2>3. StartKey(y, run[y].given) = <<"run", x>>
    BY <2>1, <2>2
  <2>4. y = x
    BY <2>3 DEF StartKey
  <2> QED BY <2>2, <2>3, <2>4
<1>2. ASSUME run[x].at = "on" PROVE RunInput(x) = x
  <2>1. <<<<"run", x>>, x>> \in Kept(x)
    BY <1>2 DEF InputsInv, Kept, EndKey
  <2> DEFINE e == CHOOSE f \in Kept(x) : TRUE
  <2>2. e \in Kept(x) /\ Kept(x) # {}
    BY <2>1
  <2> HIDE DEF e
  <2>3. e[2] = x
    BY <1>1, <2>2
  <2> QED BY <2>2, <2>3 DEF RunInput, e
<1> QED BY <1>1, <1>2

LEMMA InputsNext ==
  ASSUME TracingTypes, Bounds, InputsInv, [TracingNext]_tracingVars
  PROVE  InputsInv'
<1>1. CASE UNCHANGED <<run, inputs>>
  BY <1>1 DEF InputsInv
<1>2. ASSUME NEW x \in Runs, RunStart(x) PROVE InputsInv'
  <2>1. PICK given \in BOOLEAN : /\ run' = [run EXCEPT ![x] = [at |-> "on", given |-> given]]
                                 /\ inputs' = inputs \union {<<StartKey(x, given), x>>}
    BY <1>2 DEF RunStart
  <2>2. /\ run[x].at = "new" /\ run'[x].at = "on" /\ run'[x].given = given
        /\ \A y \in Runs : y # x => run'[y] = run[y]
    BY <1>2, <2>1 DEF RunStart, TracingTypes
  <2>3. \A e \in inputs' : \E y \in Runs : e = <<StartKey(y, run'[y].given), y>> /\ run'[y].at # "new"
    <3>1. ASSUME NEW e \in inputs PROVE \E y \in Runs : e = <<StartKey(y, run'[y].given), y>> /\ run'[y].at # "new"
      <4>1. PICK y \in Runs : e = <<StartKey(y, run[y].given), y>> /\ run[y].at # "new"
        BY <3>1 DEF InputsInv
      <4>2. run'[y] = run[y]
        BY <2>2, <4>1
      <4> QED BY <4>1, <4>2
    <3> QED BY <2>1, <2>2, <3>1
  <2>4. ASSUME NEW y \in Runs, run'[y].given
        PROVE  run'[y].at = "on" <=> <<<<"run", y>>, y>> \in inputs'
    <3>1. CASE y = x
      BY <2>1, <2>2, <2>4, <3>1 DEF StartKey
    <3>2. CASE y # x
      <4>1. <<<<"run", y>>, y>> # <<StartKey(x, given), x>>
        BY <3>2
      <4>2. run'[y] = run[y] /\ (run[y].at = "on" <=> <<<<"run", y>>, y>> \in inputs)
        BY <2>2, <2>4, <3>2 DEF InputsInv
      <4> QED BY <2>1, <4>1, <4>2
    <3> QED BY <3>1, <3>2
  <2> QED BY <2>3, <2>4 DEF InputsInv, StartKey
<1>3. ASSUME NEW x \in Runs, RunEnd(x) PROVE InputsInv'
  <2>1. /\ run[x].at = "on" /\ run'[x].at = "done" /\ run'[x].given = run[x].given
        /\ \A y \in Runs : y # x => run'[y] = run[y]
        /\ inputs' = inputs \ Kept(x)
    BY <1>3, RunEndEffect
  <2>2. \A y \in Runs : run'[y].given = run[y].given /\ (run[y].at # "new" => run'[y].at # "new")
    BY <2>1
  <2>3. \A e \in inputs' : \E y \in Runs : e = <<StartKey(y, run'[y].given), y>> /\ run'[y].at # "new"
    BY <2>1, <2>2 DEF InputsInv
  <2>4. ASSUME NEW y \in Runs, run'[y].given
        PROVE  run'[y].at = "on" <=> <<<<"run", y>>, y>> \in inputs'
    <3>1. CASE y = x
      <4>1. <<<<"run", x>>, x>> \in Kept(x)
        BY <2>1, <2>2, <2>4, <3>1 DEF InputsInv, Kept, EndKey
      <4> QED BY <2>1, <3>1, <4>1
    <3>2. CASE y # x
      <4>1. <<<<"run", y>>, y>> \notin Kept(x)
        <5>1. ASSUME <<<<"run", y>>, y>> \in Kept(x) PROVE FALSE
          <6>1. <<"run", y>> = EndKey(x, run[x].given)
            BY <5>1 DEF Kept
          <6>2. CASE run[x].given
            BY <3>2, <6>1, <6>2 DEF EndKey
          <6>3. CASE ~run[x].given
            <7>1. <<"run", y>> = <<"unknown">>
              BY <6>1, <6>3 DEF EndKey
            <7> QED BY <7>1
          <6> QED BY <6>2, <6>3
        <5> QED BY <5>1
      <4>2. run'[y] = run[y] /\ (run[y].at = "on" <=> <<<<"run", y>>, y>> \in inputs)
        BY <2>1, <2>4, <3>2 DEF InputsInv
      <4> QED BY <2>1, <4>1, <4>2
    <3> QED BY <3>1, <3>2
  <2> QED BY <2>3, <2>4 DEF InputsInv, StartKey
<1>4. CASE ChangeDefault \/ RootSpan \/ ChildSpan
  BY <1>1, <1>4 DEF ChangeDefault, RootSpan, ChildSpan, NewSpan
<1>5. ASSUME NEW t \in Tasks, NEW s \in Spans, Enter(t, s) \/ Log(t, s) PROVE UNCHANGED <<run, inputs>>
  BY <1>5 DEF Enter, Log
<1>6. ASSUME NEW t \in Tasks, Exit(t) \/ Write(t) \/ Check(t) \/ SetRecordId(t) PROVE UNCHANGED <<run, inputs>>
  BY <1>6 DEF Exit, Write, Check, SetRecordId
<1>7. CASE UNCHANGED tracingVars
  BY <1>1, <1>7 DEF tracingVars
<1> QED BY <1>1, <1>2, <1>3, <1>4, <1>5, <1>6, <1>7 DEF TracingNext

LEMMA KeepApartNext ==
  ASSUME TracingTypes, Bounds, InputsInv, InputsInv', EntriesInv, RunsKeepApart,
         [TracingNext]_tracingVars
  PROVE  RunsKeepApart'
<1>1. ASSUME NEW e \in Written, e.run # Nil, run'[e.run].given PROVE e.input = e.run
  <2>1. e.run \in Runs
    <3>1. e \in Entries
      BY WrittenTyped
    <3> QED BY <1>1, <3>1 DEF Entries
  <2>2. run'[e.run] = run[e.run]
    BY <1>1, <2>1, RunsStay DEF EntriesInv
  <2> QED BY <1>1, <2>2 DEF RunsKeepApart
<1>2. \A e \in Written' : (e.run # Nil /\ run'[e.run].given) => e.input = e.run
  <2>1. CASE \E t \in Tasks : Write(t)
    <3>1. PICK t \in Tasks : Write(t)
      BY <2>1
    <3>2. \A e \in Written' : e \in Written \/ e.run = Nil
      BY <3>1, WriteEffect DEF Plain
    <3> QED BY <1>1, <3>2
  <2>2. CASE \E x \in Runs : RunEnd(x)
    <3>1. PICK x \in Runs : RunEnd(x)
      BY <2>2
    <3>2. /\ run[x].at = "on" /\ run'[x].given = run[x].given
          /\ \A e \in Written' : e \in Written \/ e.run = Nil \/ (e.run = x /\ e.input = RunInput(x))
      BY <3>1, RunEndEffect DEF Plain
    <3>3. run[x].given => RunInput(x) = x
      BY <3>2, KeptIsOwn
    <3> QED BY <1>1, <3>2, <3>3
  <2>3. CASE Written' = Written
    BY <1>1, <2>3
  <2> QED BY <2>1, <2>2, <2>3, ChainsGrow
<1>3. ASSUME NEW e \in inputs', run'[e[2]].given PROVE run'[e[2]].at = "on"
  <2>1. PICK x \in Runs : e = <<StartKey(x, run'[x].given), x>>
    BY <1>3 DEF InputsInv, StartKey
  <2>2. e[2] = x
    BY <2>1
  <2>3. e = <<<<"run", x>>, x>>
    BY <1>3, <2>1, <2>2 DEF StartKey
  <2> QED BY <1>3, <2>2, <2>3 DEF InputsInv
<1> QED BY <1>2, <1>3 DEF RunsKeepApart

-----------------------------------------------------------------------------
(* Tracing: the invariant holds.                                           *)

LEMMA TracingInvInit == TracingInit => TracingInv
<1> SUFFICES ASSUME TracingInit PROVE TracingInv
  OBVIOUS
<1> DEFINE boot == Entry("boot", ZERO_UUID, Nil, Nil, Nil)
<1>1. MaxUses \in Nat /\ MaxFaults \in Nat
  BY TracingAssumption
<1>2. boot \in Entries /\ Plain(boot)
  <2>1. -1 \in {-1} \union 1 .. MaxUses /\ FALSE \in BOOLEAN /\ 1 \in Nat /\ 0 \in 0 .. MaxUses
    BY <1>1
  <2> QED BY <2>1 DEF Entries, Entry, ZERO_UUID, Plain
<1>3. boot.id = -1 /\ ~boot.returned /\ boot.run = Nil /\ boot.span = Nil /\ boot.parent = 0
  BY DEF Entry, ZERO_UUID
<1> HIDE DEF boot
<1>4. chain = [r \in AllRecorders |-> <<boot>>]
  BY DEF TracingInit, boot
<1>5. chain \in [AllRecorders -> Seq(Entries)] /\ \A r \in AllRecorders : Len(chain[r]) = 1 /\ chain[r][1] = boot
  BY <1>2, <1>4
<1>6. \A e \in Written : e = boot
  BY <1>5, WrittenIs
<1>7. TracingTypes
  <2>1. NoCall \in Recordings
    BY DEF Recordings
  <2>2. NoSpan \in SpanRecords
    <3>1. NoToken \in Tokens /\ FALSE \in BOOLEAN /\ 0 \in 0 .. MaxUses
      BY <1>1 DEF NoToken, Tokens
    <3> QED BY <3>1 DEF SpanRecords, NoSpan, ZERO_UUID
  <2>3. /\ default \in AllRecorders \union {Nil}
        /\ sequence \in [AllRecorders -> Nat \ {0}]
        /\ current \in [Tasks -> Spans \union {Nil}]
        /\ call \in [Tasks -> Recordings]
        /\ span \in [Spans -> SpanRecords]
    BY <2>1, <2>2 DEF TracingInit
  <2>4. withs \in [Tasks -> Seq(Spans)]
    <3>1. <<>> \in Seq(Spans)
      OBVIOUS
    <3> DEFINE S == Seq(Spans)
    <3> HIDE DEF S
    <3>2. <<>> \in S => withs \in [Tasks -> S]
      BY DEF TracingInit
    <3> QED BY <3>1, <3>2 DEF S
  <2>5. pendingGap \in [AllRecorders -> BOOLEAN]
    BY DEF TracingInit
  <2>6. run \in [Runs -> [at: {"new", "on", "done"}, given: BOOLEAN]]
    <3>1. NoRun \in [at: {"new", "on", "done"}, given: BOOLEAN]
      BY DEF NoRun
    <3> QED BY <3>1 DEF TracingInit
  <2>7. spent \in [records: Nat, faults: 0 .. MaxFaults, others: Nat]
    BY <1>1 DEF TracingInit
  <2>8. history \in [contended: SUBSET Spans, users: [Spans -> SUBSET Tasks],
                     reentered: BOOLEAN, raised: BOOLEAN]
    <3>1. [s \in Spans |-> {}] \in [Spans -> SUBSET Tasks] /\ {} \in SUBSET Spans /\ FALSE \in BOOLEAN
      OBVIOUS
    <3> QED BY <3>1 DEF TracingInit
  <2> QED BY <1>5, <2>3, <2>4, <2>5, <2>6, <2>7, <2>8 DEF TracingTypes
<1>8. \A t \in Tasks : call[t] = NoCall /\ withs[t] = <<>> /\ current[t] = Nil
  BY DEF TracingInit
<1>9. Bounds
  <2>1. Waiting = {}
    BY <1>8 DEF Waiting, NoCall, Nil
  <2>2. Cardinality(Waiting) = 0
    BY <2>1, FS_EmptySet
  <2>3. spent.records = 0 /\ spent.others = 0 /\ \A r \in AllRecorders : sequence[r] = 1
    BY DEF TracingInit
  <2>4. \A t \in Tasks : Len(withs[t]) = 0
    BY <1>8
  <2> QED BY <1>1, <2>2, <2>3, <2>4 DEF Bounds
<1>10. WithsInv
  <2>1. \A t \in Tasks : Len(withs[t]) = 0
    BY <1>8
  <2>2. ~history.raised
    BY DEF TracingInit
  <2>3. \A t \in Tasks : current[t] = Outer(t, Len(withs[t]) + 1)
    BY <1>8, <2>1 DEF Outer
  <2> QED BY <2>1, <2>2, <2>3 DEF WithsInv, Nested
<1>11. EntriesInv
  <2>1. spent.records = 0
    BY DEF TracingInit
  <2> QED BY <1>3, <1>6, <2>1 DEF EntriesInv
<1>12. \A s \in Spans : span[s].recordId = 0 /\ span[s].parent = Nil
  BY DEF TracingInit, NoSpan, ZERO_UUID
<1>13. IdsInv /\ UsersInv
  <2>1. NoCall.parent = 0 /\ NoCall.at = Nil
    BY DEF NoCall, ZERO_UUID
  <2> QED BY <1>8, <1>12, <2>1 DEF IdsInv, UsersInv, Nil
<1>14. ParentsInv
  <2>1. \A p \in Spans : Given(p) = {}
    BY <1>3, <1>6 DEF Given
  <2>2. \A t \in Tasks : call[t].span = Nil /\ call[t].at = Nil
    BY <1>8 DEF NoCall
  <2>3. Nil \notin Spans
    BY TracingAssumption
  <2>4. ASSUME NEW p \in Spans
        PROVE  /\ FirstInv(p)
               /\ \A t \in Tasks : call[t].at = "record" /\ ParentOf(call[t].span) = p => UnderInv(t, p)
    BY <1>12, <2>1, <2>2, <2>3 DEF FirstInv, Nil
  <2> QED BY <2>4 DEF ParentsInv
<1>15. InputsInv
  BY DEF TracingInit, InputsInv, NoRun
<1>16. ChildrenHangUnderFirst /\ RunsKeepApart
  <2>1. inputs = {}
    BY DEF TracingInit
  <2> QED BY <1>3, <1>6, <2>1 DEF ChildrenHangUnderFirst, RunsKeepApart
<1>17. ParentsComeFirst
  BY <1>3, <1>5 DEF ParentsComeFirst, ZERO_UUID
<1> QED BY <1>7, <1>9, <1>10, <1>11, <1>13, <1>14, <1>15, <1>16, <1>17 DEF TracingInv

LEMMA TracingInvNext == TracingInv /\ [TracingNext]_tracingVars => TracingInv'
<1> SUFFICES ASSUME TracingInv, [TracingNext]_tracingVars PROVE TracingInv'
  OBVIOUS
<1>1. /\ TracingTypes /\ Bounds /\ WithsInv /\ EntriesInv /\ IdsInv /\ UsersInv /\ ParentsInv
      /\ InputsInv /\ ChildrenHangUnderFirst /\ ParentsComeFirst /\ RunsKeepApart
  BY DEF TracingInv
<1>2. TracingTypes' /\ InputsInv'
  BY <1>1, TypesNext, InputsNext
<1>3. Bounds' /\ WithsInv' /\ EntriesInv'
  BY <1>1, <1>2, BoundsNext, WithsNext, EntriesNext
<1>4. IdsInv' /\ UsersInv' /\ ParentsInv'
  BY <1>1, <1>2, IdsNext, UsersNext, ParentsNext
<1>5. ChildrenHangUnderFirst' /\ ParentsComeFirst' /\ RunsKeepApart'
  BY <1>1, <1>2, ChildrenNext, ComeFirstNext, KeepApartNext
<1> QED BY <1>2, <1>3, <1>4, <1>5 DEF TracingInv

LEMMA TracingInvHolds == TracingSpec => []TracingInv
<1>1. TracingInit => TracingInv
  BY TracingInvInit
<1>2. TracingInv /\ [TracingNext]_tracingVars => TracingInv'
  BY TracingInvNext
<1> QED BY <1>1, <1>2, PTL DEF TracingSpec

LEMMA TracingInvSpans == TracingInv => SpansInv
<1> SUFFICES ASSUME TracingInv PROVE SpansInv
  OBVIOUS
<1>1. /\ TracingTypes /\ Bounds /\ WithsInv
      /\ ChildrenHangUnderFirst /\ ParentsComeFirst /\ RunsKeepApart
  BY DEF TracingInv
<1>2. MaxUses \in Nat /\ MaxFaults \in Nat
  BY TracingAssumption
<1>3. Cardinality(Waiting) \in Nat
  <2>1. IsFiniteSet(Tasks) /\ Waiting \subseteq Tasks
    BY TracingAssumption DEF Waiting
  <2> QED BY <2>1, FS_Subset, FS_CardinalityType
<1>4. spent.records \in 0 .. MaxUses /\ spent.others \in 0 .. MaxUses
  <2>1. spent.records \in Nat /\ spent.others \in Nat
    BY <1>1 DEF TracingTypes
  <2>2. spent.records + spent.others + Cardinality(Waiting) <= MaxUses
    BY <1>1 DEF Bounds
  <2> QED BY <1>2, <1>3, <2>1, <2>2
<1>5. TracingTypeOK
  <2>1. ASSUME NEW r \in AllRecorders, NEW i \in 1 .. Len(chain[r])
        PROVE  /\ chain[r][i].type \in {"boot", "gap", "action"}
               /\ chain[r][i].id \in {-1} \union 1 .. MaxUses
               /\ chain[r][i].parent \in 0 .. MaxUses
    <3>1. chain[r][i] \in Entries
      BY <1>1, ElementOfSeq DEF TracingTypes
    <3> QED BY <3>1 DEF Entries
  <2>2. \A s \in Spans : /\ span[s].recordId \in 0 .. MaxUses
                         /\ span[s].parent \in Spans \union {Nil}
                         /\ span[s].session \in AllRecorders \union {Nil}
    BY <1>1 DEF TracingTypes, SpanRecords
  <2>3. ASSUME NEW t \in Tasks
        PROVE  Len(withs[t]) <= MaxUses /\ call[t].at \in {Nil, "record", "check", "set"}
    <3>1. withs[t] \in Seq(Spans) /\ call[t] \in Recordings
      BY <1>1 DEF TracingTypes
    <3>2. Len(withs[t]) \in Nat /\ Len(withs[t]) <= spent.others
      BY <1>1, <3>1 DEF Bounds
    <3>3. Len(withs[t]) <= MaxUses
      BY <1>2, <1>4, <3>2
    <3>4. call[t].at \in {Nil, "record", "check", "set"}
      BY <3>1 DEF Recordings, NoCall
    <3> QED BY <3>3, <3>4
  <2>4. sequence \in [AllRecorders -> 1 .. 2 * MaxUses + 1]
    <3>1. ASSUME NEW r \in AllRecorders PROVE sequence[r] \in 1 .. 2 * MaxUses + 1
      <4>1. sequence[r] \in Nat \ {0} /\ sequence[r] <= 2 * spent.records + 1
        BY <1>1 DEF TracingTypes, Bounds
      <4> QED BY <1>2, <1>4, <4>1
    <3>2. sequence \in [AllRecorders -> Nat \ {0}]
      BY <1>1 DEF TracingTypes
    <3> QED BY <3>1, <3>2
  <2>5. spent \in [records: 0 .. MaxUses, faults: 0 .. MaxFaults, others: 0 .. MaxUses]
    BY <1>1, <1>4 DEF TracingTypes
  <2>6. /\ default \in AllRecorders \union {Nil} /\ current \in [Tasks -> Spans \union {Nil}]
        /\ pendingGap \in [AllRecorders -> BOOLEAN]
    BY <1>1 DEF TracingTypes
  <2> QED BY <2>1, <2>2, <2>3, <2>4, <2>5, <2>6 DEF TracingTypeOK
<1>6. CurrentSpanRestored
  <2> SUFFICES ASSUME ~history.reentered
               PROVE  /\ ~history.raised
                      /\ \A t \in Tasks : current[t] = IF withs[t] = <<>> THEN Nil ELSE Last(withs[t])
    BY DEF CurrentSpanRestored
  <2>1. ~history.raised /\ \A t \in Tasks : current[t] = Outer(t, Len(withs[t]) + 1)
    BY <1>1 DEF WithsInv, Nested
  <2>2. ASSUME NEW t \in Tasks PROVE current[t] = IF withs[t] = <<>> THEN Nil ELSE Last(withs[t])
    <3>1. withs[t] \in Seq(Spans)
      BY <1>1 DEF TracingTypes
    <3>2. CASE withs[t] = <<>>
      BY <2>1, <3>2 DEF Outer
    <3>3. CASE withs[t] # <<>>
      <4>1. Len(withs[t]) \in Nat /\ Len(withs[t]) + 1 # 1
        BY <3>1, <3>3
      <4>2. (Len(withs[t]) + 1) - 1 = Len(withs[t])
        BY <4>1
      <4>3. current[t] = withs[t][Len(withs[t])]
        BY <2>1, <4>1, <4>2 DEF Outer
      <4> QED BY <3>3, <4>3 DEF Last
    <3> QED BY <3>2, <3>3
  <2> QED BY <2>1, <2>2
<1> QED BY <1>1, <1>5, <1>6 DEF SpansInv

(* For any number of tasks, spans, recorders and runs, and whatever goes   *)
(* wrong with a write: the records of a span's children hang under the     *)
(* first record of it that a caller was given, unless two tasks' first     *)
(* records of it overlapped; every parent was written before; a task is    *)
(* back in its outer span when it leaves one, unless a span was entered    *)
(* again before it was left; and a run with an id has its own input        *)
(* (ahp/tracing.py, ahp/integrations/langchain.py).                        *)
THEOREM SpansHold == TracingSpec => []SpansInv
<1>1. TracingInv => SpansInv
  BY TracingInvSpans
<1> QED BY <1>1, TracingInvHolds, PTL
=============================================================================
