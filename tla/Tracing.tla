-------------------------------- MODULE Tracing --------------------------------
(***************************************************************************)
(* The causal trees of an agent: the sessions and spans of ahp/tracing.py  *)
(* give each record a parent, the runs of ahp/integrations/langchain.py    *)
(* are records without one, and ahp trace and ahp show --tree              *)
(* (ahp/cli/main.py) rebuild the tree from a chain file.  Threads, or      *)
(* tasks, share spans; a recorder is its chain file and how its            *)
(* safe_record can end, which Recorder derives.                            *)
(***************************************************************************)
EXTENDS Integers, Sequences, FiniteSets, SequencesExt

CONSTANTS Tasks,            \* the threads, or tasks, that share spans
          AllRecorders,
          Spans,            \* the span objects the agent may create
          Runs,             \* the runs of its LangChain handler
          Faults,           \* ways a write may go wrong, subset of AllFaults
          HandlerRecorder,  \* the recorder of that handler
          SessionRecorders, \* recorders a session may be given
          MaxUses,          \* bound: records asked for, with statements and runs
          MaxFaults         \* bound: writes that go wrong

(* invalid: the record is replaced by a GAP record, which is returned;     *)
(* late: the record is written and something after it raises, as a         *)
(* checkpoint or a rotation; kept: it is in the file when an OSError takes *)
(* its sequence number back; lost: it is not written.                      *)
AllFaults == {"invalid", "late", "kept", "lost"}

Nil == "none"
ZERO_UUID == 0

ASSUME TracingAssumption ==
  /\ HandlerRecorder \in AllRecorders /\ SessionRecorders \subseteq AllRecorders
  /\ Faults \subseteq AllFaults
  /\ MaxUses \in Nat /\ MaxFaults \in Nat
  /\ IsFiniteSet(Tasks) /\ Nil \notin Spans


VARIABLES
  default,    \* _default_recorder
  chain,      \* each recorder's chain file
  sequence,   \* its writer's sequence number
  pendingGap, \* its _pending_gap
  span,       \* the span objects
  current,    \* _current_span in each task's context
  withs,      \* the with statements each task is in
  call,       \* the recording each task is in
  run,        \* the LangChain runs
  inputs,     \* _tool_inputs and _llm_prompts, by the key of a run
  spent,      \* records, faults, and with statements and runs so far
  history     \* what the properties ask about the past

fileVars == <<chain, sequence, pendingGap>>
tracingVars == <<default, fileVars, span, current, withs, call, run, inputs, spent, history>>

NoCall == [at |-> Nil, span |-> Nil, rec |-> Nil, parent |-> ZERO_UUID, result |-> ZERO_UUID]
NoToken == [thread |-> Nil, prev |-> Nil, used |-> FALSE]
NoSpan == [made |-> FALSE, session |-> Nil, parent |-> Nil, recordId |-> ZERO_UUID,
           token |-> NoToken]
NoRun == [at |-> "new", given |-> FALSE]
(* A record of a span, or of a run; id -1 is an id no one will ask for. *)
Entry(type, parent, s, x, input) ==
  [type |-> type, parent |-> parent, span |-> s, run |-> x, input |-> input,
   id |-> -1, seq |-> 1, returned |-> FALSE]

(* contended: spans two tasks were recording in before they had a record   *)
(* id; users: the tasks that ever recorded in a span or under it;          *)
(* reentered: a span was entered again before it was left; raised: an      *)
(* __exit__ raised.                                                        *)
TracingInit ==
  /\ default = Nil
  /\ chain = [r \in AllRecorders |-> <<Entry("boot", ZERO_UUID, Nil, Nil, Nil)>>]
  /\ sequence = [r \in AllRecorders |-> 1]
  /\ pendingGap = [r \in AllRecorders |-> FALSE]
  /\ span = [s \in Spans |-> NoSpan]
  /\ current = [t \in Tasks |-> Nil] /\ withs = [t \in Tasks |-> <<>>]
  /\ call = [t \in Tasks |-> NoCall]
  /\ run = [x \in Runs |-> NoRun] /\ inputs = {}
  /\ spent = [records |-> 0, faults |-> 0, others |-> 0]
  /\ history = [contended |-> {}, users |-> [s \in Spans |-> {}], reentered |-> FALSE,
                raised |-> FALSE]

-----------------------------------------------------------------------------
(* The spans.                                                              *)

Room == spent.records + spent.others
          + Cardinality({t \in Tasks : call[t].at = "record"}) < MaxUses

Exists(s) == span[s].made

ChangeDefault ==
  /\ \E r \in AllRecorders \ {default} : default' = r
  /\ UNCHANGED <<fileVars, span, current, withs, call, run, inputs, spent, history>>

(* Session.span of a session with a recorder of its own or without, and    *)
(* child_span; a span knows its session by its recorder.                   *)
NewSpan(s, session, parent) ==
  /\ ~Exists(s)
  /\ span' = [span EXCEPT ![s] = [NoSpan EXCEPT !.made = TRUE, !.session = session,
                                                !.parent = parent]]
  /\ UNCHANGED <<default, fileVars, current, withs, call, run, inputs, spent, history>>

RootSpan == \E s \in Spans, r \in SessionRecorders \union {Nil} : NewSpan(s, r, Nil)

ChildSpan == \E s, p \in Spans : Exists(p) /\ NewSpan(s, span[p].session, p)

Active(s) == \E t \in Tasks : \E i \in 1 .. Len(withs[t]) : withs[t][i] = s

(* __enter__: the token that leaves the span is kept in the span. *)
Enter(t, s) ==
  /\ Exists(s) /\ call[t] = NoCall /\ Room
  /\ span' = [span EXCEPT ![s].token = [thread |-> t, prev |-> current[t], used |-> FALSE]]
  /\ current' = [current EXCEPT ![t] = s]
  /\ withs' = [withs EXCEPT ![t] = Append(@, s)]
  /\ spent' = [spent EXCEPT !.others = @ + 1]
  /\ history' = [history EXCEPT !.reentered = @ \/ Active(s)]
  /\ UNCHANGED <<default, fileVars, call, run, inputs>>

ExitToTheParent(t) ==
  /\ withs[t] # <<>> /\ call[t] = NoCall
  /\ LET s == Last(withs[t])
     IN  current' = [current EXCEPT ![t] = span[s].parent]
  /\ withs' = [withs EXCEPT ![t] = Front(@)]
  /\ UNCHANGED <<default, fileVars, span, call, run, inputs, spent, history>>

(* __exit__ of the innermost with: a token that was used, or is of another *)
(* context, makes reset raise.  The token is forgotten with the last with  *)
(* statement of the span.                                                  *)
Exit(t) ==
  /\ withs[t] # <<>> /\ call[t] = NoCall
  /\ LET s     == Last(withs[t])
         token == span[s].token
         fails == token.used \/ token.thread # t
         last  == \A u \in Tasks : \A i \in 1 .. Len(withs[u]) :
                    withs[u][i] = s => u = t /\ i = Len(withs[t])
     IN  /\ history' = [history EXCEPT !.raised = @ \/ fails]
         /\ current' = [current EXCEPT ![t] = IF fails THEN @ ELSE token.prev]
         /\ span' = [span EXCEPT ![s].token = IF last THEN NoToken ELSE [@ EXCEPT !.used = TRUE]]
  /\ withs' = [withs EXCEPT ![t] = Front(@)]
  /\ UNCHANGED <<default, fileVars, call, run, inputs, spent>>

-----------------------------------------------------------------------------
(* The chain files.                                                        *)

NextId == spent.records + 1

(* safe_record: the gap record that is due, then the record, which may go  *)
(* wrong in a way of Faults; it is returned unless something raised.       *)
SafeRecord(r, entry, how) ==
  LET due  == IF pendingGap[r]
              THEN <<[Entry("gap", ZERO_UUID, Nil, Nil, Nil) EXCEPT !.seq = sequence[r] + 1]>>
              ELSE <<>>
      base == sequence[r] + Len(due)
      new  == [entry EXCEPT !.type = IF how = "invalid" THEN "gap" ELSE @, !.id = NextId,
                            !.seq = base + 1, !.returned = how \in {"ok", "invalid"}]
  IN  /\ chain' = [chain EXCEPT ![r] = @ \o due \o (IF how = "lost" THEN <<>> ELSE <<new>>)]
      /\ sequence' = [sequence EXCEPT ![r] = IF how \in {"kept", "lost"} THEN base ELSE base + 1]
      /\ pendingGap' = [pendingGap EXCEPT ![r] = how \in {"late", "kept", "lost"}]
      /\ spent' = [spent EXCEPT !.records = @ + 1, !.faults = IF how = "ok" THEN @ ELSE @ + 1]

Ways == {"ok"} \union (IF spent.faults < MaxFaults THEN Faults ELSE {})

-----------------------------------------------------------------------------
(* Recording in a span: _record, and _async_record for tasks.              *)

(* _parent_action_id *)
ParentActionId(s) ==
  IF span[s].parent = Nil THEN ZERO_UUID ELSE span[span[s].parent].recordId

GetRecorder(s) == IF span[s].session # Nil THEN span[s].session ELSE default

(* Without a recorder it returns at once.  So does _record with an         *)
(* AsyncAHPRecorder: it looks for record_id on the coroutine, and drops it *)
(* unawaited.  Neither is a step here.                                     *)
Log(t, s) ==
  /\ Exists(s) /\ call[t] = NoCall /\ GetRecorder(s) # Nil
  /\ Room
  /\ call' = [call EXCEPT ![t] = [at |-> "record", span |-> s, rec |-> GetRecorder(s),
                                  parent |-> ParentActionId(s), result |-> ZERO_UUID]]
  /\ history' =
       [history EXCEPT
          !.contended = IF span[s].recordId = ZERO_UUID /\ \E u \in Tasks : call[u].span = s
                        THEN @ \union {s} ELSE @,
          !.users = [q \in Spans |-> IF q \in {s, span[s].parent} THEN @[q] \union {t} ELSE @[q]]]
  /\ UNCHANGED <<default, fileVars, span, current, withs, run, inputs, spent>>

Write(t) ==
  /\ call[t].at = "record"
  /\ \E how \in Ways :
       /\ SafeRecord(call[t].rec, Entry("action", call[t].parent, call[t].span, Nil, Nil), how)
       /\ call' = [call EXCEPT ![t] =
                     IF how \in {"ok", "invalid"} THEN [@ EXCEPT !.at = "check", !.result = NextId]
                                                  ELSE NoCall]
  /\ UNCHANGED <<default, span, current, withs, run, inputs, history>>

(* The first record of a span is its record id. *)
Check(t) ==
  /\ call[t].at = "check"
  /\ call' = [call EXCEPT ![t] = IF span[@.span].recordId = ZERO_UUID
                                 THEN [@ EXCEPT !.at = "set"] ELSE NoCall]
  /\ UNCHANGED <<default, fileVars, span, current, withs, run, inputs, spent, history>>

SetRecordId(t) ==
  /\ call[t].at = "set"
  /\ span' = [span EXCEPT ![call[t].span].recordId = call[t].result]
  /\ call' = [call EXCEPT ![t] = NoCall]
  /\ UNCHANGED <<default, fileVars, current, withs, run, inputs, spent, history>>

-----------------------------------------------------------------------------
(* The runs of a LangChain handler on a recorder.                          *)

(* A run without an id is kept under the id of its serialized argument,    *)
(* and looked up as "unknown" when it ends.                                *)
StartKey(x, given) == IF given THEN <<"run", x>> ELSE <<"object", x>>
EndKey(x, given)   == IF given THEN <<"run", x>> ELSE <<"unknown">>

(* on_tool_start, on_llm_start: its input is kept, as is its start time. *)
RunStart(x) ==
  /\ run[x].at = "new" /\ Room
  /\ \E given \in BOOLEAN :
       /\ run' = [run EXCEPT ![x] = [at |-> "on", given |-> given]]
       /\ inputs' = inputs \union {<<StartKey(x, given), x>>}
  /\ spent' = [spent EXCEPT !.others = @ + 1]
  /\ UNCHANGED <<default, fileVars, span, current, withs, call, history>>

RecordRun(x, kept) ==
  \E how \in Ways :
    SafeRecord(HandlerRecorder,
               Entry("action", ZERO_UUID, Nil, x,
                     IF kept = {} THEN Nil ELSE (CHOOSE e \in kept : TRUE)[2]), how)

Kept(x) == {e \in inputs : e[1] = EndKey(x, run[x].given)}

(* on_tool_end, on_tool_error, on_llm_end, on_llm_error *)
RunEnd(x) ==
  /\ run[x].at = "on" /\ Room
  /\ RecordRun(x, Kept(x))
  /\ inputs' = inputs \ Kept(x)
  /\ run' = [run EXCEPT ![x].at = "done"]
  /\ UNCHANGED <<default, span, current, withs, call, history>>

-----------------------------------------------------------------------------
TracingNext ==
  \/ ChangeDefault \/ RootSpan \/ ChildSpan
  \/ \E t \in Tasks, s \in Spans : Enter(t, s) \/ Log(t, s)
  \/ \E t \in Tasks : Exit(t) \/ Write(t) \/ Check(t) \/ SetRecordId(t)
  \/ \E x \in Runs : RunStart(x) \/ RunEnd(x)

TracingSpec == TracingInit /\ [][TracingNext]_tracingVars

-----------------------------------------------------------------------------
(* The trees of the command line.  A chain is read whole; a parent is      *)
(* looked up by record id, a record by its sequence number.                *)

Ids(c)  == {c[i].id : i \in 1 .. Len(c)}
Seqs(c) == {c[i].seq : i \in 1 .. Len(c)}

(* records_by_seq: the last record with the number. *)
RecordBySeq(c, q) ==
  LET at == {i \in 1 .. Len(c) : c[i].seq = q}
  IN  c[CHOOSE i \in at : \A j \in at : j <= i]

SortedSeqs(records) ==
  SortSeq([i \in 1 .. Len(records) |-> records[i].seq], LAMBDA x, y : x < y)

(* children_map *)
ChildSeqs(c, id) ==
  SortedSeqs(SelectSeq(c, LAMBDA e : e.type = "action" /\ e.parent = id /\ id # ZERO_UUID))

(* _trace_tree and _print_tree: the lines of the record with number q and  *)
(* of what is under it, each the id shown and its indent.  The recursion   *)
(* of the code is over parents, which come earlier, so it is never deeper  *)
(* than the chain is long.                                                 *)
TreeLines(c, q) ==
  LET lines[d \in 0 .. Len(c), n \in Seqs(c)] ==
        IF d = Len(c) THEN <<>>
        ELSE LET e     == RecordBySeq(c, n)
                 under == ChildSeqs(c, e.id)
             IN  <<[id |-> e.id, seq |-> n, indent |-> d]>>
                   \o FlattenSeq([i \in 1 .. Len(under) |-> lines[d + 1, under[i]]])
  IN  lines[0, q]

TraceRootsAreZeroParents(c) ==
  SortedSeqs(SelectSeq(c, LAMBDA e : e.type # "action" \/ e.parent = ZERO_UUID))

(* root_seqs: what is no action, or has no parent in the session. *)
TraceRoots(c) ==
  SortedSeqs(SelectSeq(c, LAMBDA e : e.type # "action" \/ e.parent \notin Ids(c)))

(* cmd_trace of the session of the file. *)
Trace(c) ==
  LET roots == TraceRoots(c)
  IN  FlattenSeq([i \in 1 .. Len(roots) |-> TreeLines(c, roots[i])])

(* cmd_show with --tree *)
ShowTree(c, q) == TreeLines(c, q)

-----------------------------------------------------------------------------
(* Properties.                                                             *)

(* Every variable has its type. *)
TracingTypeOK ==
  /\ default \in AllRecorders \union {Nil}
  /\ \A r \in AllRecorders : \A i \in 1 .. Len(chain[r]) :
       /\ chain[r][i].type \in {"boot", "gap", "action"}
       /\ chain[r][i].id \in {-1} \union 1 .. MaxUses
       /\ chain[r][i].parent \in 0 .. MaxUses
  /\ \A s \in Spans : Exists(s) => /\ span[s].recordId \in 0 .. MaxUses
                                    /\ span[s].parent \in Spans \union {Nil}
                                    /\ span[s].session \in AllRecorders \union {Nil}
  /\ current \in [Tasks -> Spans \union {Nil}]
  /\ \A t \in Tasks : /\ Len(withs[t]) <= MaxUses
                      /\ call[t].at \in {Nil, "record", "check", "set"}
  /\ sequence \in [AllRecorders -> 1 .. 2 * MaxUses + 1] /\ pendingGap \in [AllRecorders -> BOOLEAN]
  /\ spent \in [records : 0 .. MaxUses, faults : 0 .. MaxFaults, others : 0 .. MaxUses]

Written == UNION {{chain[r][i] : i \in 1 .. Len(chain[r])} : r \in AllRecorders}

ParentOf(s) == span[s].parent

(* The records of a span that its callers were given. *)
Given(s) == {e \in Written : e.span = s /\ e.returned}

(* The records of a span's children hang under one record of the span, the *)
(* first that was returned to a caller; a parent is left out only before   *)
(* there is one.  Two tasks whose first records of a span overlap may      *)
(* set its record id twice (tracing.py:92-104).                            *)
ChildrenHangUnderFirst ==
  \A e \in Written :
    (e.span # Nil /\ ParentOf(e.span) # Nil /\ ParentOf(e.span) \notin history.contended) =>
      LET p      == ParentOf(e.span)
          before == {f \in Given(p) : f.id < e.id}
          first  == CHOOSE f \in before : \A g \in before : f.id <= g.id
      IN  IF before = {} THEN e.parent = ZERO_UUID
          ELSE \/ e.parent = first.id
               \/ e.parent = ZERO_UUID /\ Cardinality(history.users[p]) > 1

(* A parent is a record that was written before, whoever recorded between: *)
(* no record is under itself, or under one that is not on any chain.       *)
ParentsComeFirst ==
  \A r \in AllRecorders : \A i \in 1 .. Len(chain[r]) :
    LET e == chain[r][i]
    IN  e.parent # ZERO_UUID =>
          \/ \E j \in 1 .. i - 1 : chain[r][j].id = e.parent /\ chain[r][j].seq < e.seq
          \/ \E q \in AllRecorders \ {r} : e.parent \in Ids(chain[q])

(* As long as no span is entered again before it is left, every task's     *)
(* current span is the one of its innermost with statement, and leaving    *)
(* one never raises; else a token is lost (tracing.py:138-144).            *)
CurrentSpanRestored ==
  ~history.reentered =>
    /\ ~history.raised
    /\ \A t \in Tasks : current[t] = IF withs[t] = <<>> THEN Nil ELSE Last(withs[t])

UniqueSeqs(c) == Cardinality(Seqs(c)) = Len(c)

(* ahp trace shows each record of a chain once, and under its parent if    *)
(* the chain has it, whatever failed; unless two records have the same     *)
(* sequence number, when the later one is shown for both.                  *)
TraceShowsEachOnce ==
  \A r \in AllRecorders : UniqueSeqs(chain[r]) =>
    LET c     == chain[r]
        lines == Trace(c)
        Above(k) == {j \in 1 .. k - 1 : lines[j].indent < lines[k].indent}
    IN  /\ Len(lines) = Len(c) /\ {lines[k].seq : k \in 1 .. Len(lines)} = Seqs(c)
        /\ \A k \in 1 .. Len(lines) :
             LET e == RecordBySeq(c, lines[k].seq)
             IN  IF e.type = "action" /\ e.parent \in Ids(c)
                 THEN lines[CHOOSE j \in Above(k) : \A h \in Above(k) : h <= j].id = e.parent
                 ELSE Above(k) = {}

(* ahp show --tree shows of a record exactly those that reach it over      *)
(* their parents, each once.                                               *)
TreeShowsDescendants ==
  \A r \in AllRecorders : UniqueSeqs(chain[r]) =>
    LET c == chain[r]
        up[i \in 1 .. Len(c)] ==
          {c[i].seq} \union
          (IF c[i].type = "action"
           THEN UNION {up[j] : j \in {h \in 1 .. i - 1 : c[h].id = c[i].parent}} ELSE {})
    IN  \A q \in Seqs(c) :
          LET lines == ShowTree(c, q)
              shown == {lines[k].seq : k \in 1 .. Len(lines)}
          IN  /\ shown = {c[i].seq : i \in {h \in 1 .. Len(c) : q \in up[h]}}
              /\ Cardinality(shown) = Len(lines)

(* With run ids, each run's record has the run's own input, in whatever    *)
(* order runs end, and nothing of it is kept after it (langchain.py:92).   *)
RunsKeepApart ==
  /\ \A e \in Written : (e.run # Nil /\ run[e.run].given) => e.input = e.run
  /\ \A e \in inputs : run[e[2]].given => run[e[2]].at = "on"

(* The spans and runs: well formed, each record under the right parent and *)
(* with its own input, and every task in the span it should be in.         *)
SpansInv ==
  /\ TracingTypeOK /\ ChildrenHangUnderFirst /\ ParentsComeFirst /\ CurrentSpanRestored
  /\ RunsKeepApart

(* The two trees of the command line are complete and have no line twice.  *)
TreesComplete == TraceShowsEachOnce /\ TreeShowsDescendants
===============================================================================
