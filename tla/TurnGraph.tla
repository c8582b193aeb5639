----------------------------- MODULE TurnGraph -----------------------------
(***************************************************************************)
(* The turns of one case under the hybrid orchestration                    *)
(* (packages/agent/hybrid.py, tool_harness.py, tools.py, budget.py): a     *)
(* message is routed to a task, the graph executes its jobs or lets the    *)
(* model choose tools, and the last node explains what was found.          *)
(*                                                                         *)
(* One budget of model calls, actions, searches and time is shared by all  *)
(* nodes of a turn.  A turn proposes: control and dialogue of the case     *)
(* change when it is committed, and not when it fails.  The interview is   *)
(* the module Interview; of its questions only the kind matters here.      *)
(***************************************************************************)
EXTENDS TaskFocus, Evidence

CONSTANTS Messages,      \* what the user may send
          ReadTools, Searches,         \* the tools that read the case, and the corpus
          Unscoped, Foreign,           \* queries that name no, or another jurisdiction
          RouteCalls,    \* model calls routing may take
          Dynamic, ToolTurns,          \* the configured orchestration: the turns with the tool loop
          ModelLimit, ActionLimit, SearchLimit,
          LoopLimit,     \* recursion_limit of the tool loop
          MaxTurns, MaxMoves           \* bounds of the model

Intents == {"chat", "research", "intake", "clarify", "unsupported"}
Actions == {"continue", "unknown", "unavailable", "pause", "resume", "partial", "summary",
            "retry_research", "new_case"}

\* validate_turn: what routing may hand over.
Valid(m) ==
  /\ m \in [intent : Intents, action : Actions, facts : BOOLEAN, query : Queries \cup {NoQuery},
            uses : BOOLEAN, kind : Kinds \cup {None}, tasks : Seq(Jobs), analysis : BOOLEAN,
            hint : Hints, needs : SUBSET Searches]
  /\ Len(m.tasks) <= 3
  /\ m.intent = "research" => m.query # NoQuery
  /\ m.intent \in {"chat", "clarify", "unsupported"} => ~m.facts /\ m.query = NoQuery /\ m.tasks = << >>

ASSUME MessagesAssumption == \A m \in Messages : Valid(m)

\* Routing takes at most two of six model calls; the tool loop is given 12 steps
\* for at most four actions.
ASSUME LimitsAssumption ==
  /\ {ModelLimit, ActionLimit, SearchLimit, LoopLimit} \cup RouteCalls \subseteq Nat
  /\ \A n \in RouteCalls : n + 2 < ModelLimit
  /\ 2 * ActionLimit + 1 <= LoopLimit

VARIABLES control, dialogue,   \* of the case
          turn,                \* the turn at work
          budget,              \* what it has used
          corpus, moves,       \* external: the version of each passage, and how often it moved
          turns                \* turns begun, also the ids of new tasks

vars == <<control, dialogue, turn, budget, corpus, moves, turns>>

NoQuestion == [kind |-> None, task |-> 0]
Question(kind, id) == [kind |-> kind, task |-> id]
NewDialogue == [status |-> "new", pending |-> NoQuestion, deferred |-> NoQuery, uses |-> TRUE]
NoDecision == [tool |-> None, query |-> None]
Idle == [node |-> "idle"]
FreshBudget(calls) == [model |-> calls, action |-> 0, search |-> 0, time |-> 2]
TaskId(n) == 4 * n            \* tasks are numbered by the turn that makes them

Init ==
  /\ control = NoControl /\ dialogue = NewDialogue
  /\ turn = Idle
  /\ budget = FreshBudget(0)
  /\ corpus = [p \in Passages |-> CHOOSE v \in Versions : TRUE] /\ moves = 0
  /\ turns = 0

----------------------------------------------------------------------------
(***************************************************************************)
(* The budget.  Time is what remains of 45 seconds: 2 enough, 1 less than  *)
(* ten seconds, 0 none.                                                    *)
(***************************************************************************)
Limit == [model |-> ModelLimit, action |-> ActionLimit, search |-> SearchLimit]
Affords(b, kind, n) == b.time > 0 /\ b[kind] + n <= Limit[kind]
SpendNothing(b, kind, n) == b
Spend(b, kind, n) == [b EXCEPT ![kind] = @ + n]

TimePasses ==
  /\ turn # Idle /\ turn.node \notin {"left", "commit"} /\ budget.time > 0
  /\ budget' = [budget EXCEPT !.time = @ - 1]
  /\ UNCHANGED <<control, dialogue, turn, corpus, moves, turns>>

CorpusMoves ==
  /\ turn # Idle /\ turn.node \in {"work", "execute"} /\ turn.bundles # {} /\ moves < MaxMoves
  /\ moves' = moves + 1
  /\ \E p \in Passages, v \in Versions : corpus' = [corpus EXCEPT ![p] = v]
  /\ corpus' # corpus
  /\ UNCHANGED <<control, dialogue, turn, budget, turns>>

----------------------------------------------------------------------------
(***************************************************************************)
(* route and facts: the task, the interview and the first node             *)
(***************************************************************************)
Scope(job, hint) ==
  CASE job.query \in Foreign -> "unsupported"
    [] job.query \in Unscoped /\ (job.uses \/ hint = "auto") -> "need_scope"
    [] OTHER -> "HK"

\* A lookup that does not use the case leaves conflicts and questions alone.
Independent(m) == m.intent = "research" /\ ~m.uses
AsksNothing(m) == m.action \in {"pause", "new_case"} \/ m.intent = "chat" \/ Independent(m)
HushedByPause(m, d) == IF m.action = "pause" THEN [d EXCEPT !.status = "paused"] ELSE d
Hushed(m, d) == [d EXCEPT !.status = IF m.action = "pause" THEN "paused" ELSE "suspended"]
Asked(d, id) == {[d EXCEPT !.status = "active", !.pending = Question(k, id)] : k \in {"fact", "choice"}}
Settled(d) == [d EXCEPT !.status = "ready", !.pending = NoQuestion]

\* What the interview may make of the message, with the task id in focus: a
\* conflict turns a lookup that uses the case into intake and defers its query.
Interviewed(m, d, id) ==
  LET Outcome(e, q, intent) == [d |-> e, q |-> q, intent |-> intent]
      asks == m.action # "summary" /\ ~AsksNothing(m)
  IN CASE m.action = "summary" -> {Outcome(d, NoQuestion, m.intent)}
       [] m.action # "summary" /\ AsksNothing(m) ->
            {Outcome(Hushed(m, d), NoQuestion, m.intent)}
       [] asks /\ m.intent \in {"clarify", "unsupported"} ->
            {Outcome([d EXCEPT !.status = "active", !.pending = Question("mode", id)],
                     Question("mode", id), m.intent)}
       [] asks /\ m.intent = "research" ->
            {Outcome([d EXCEPT !.status = "suspended"], NoQuestion, "research")}
            \cup {Outcome([e EXCEPT !.deferred = m.query], e.pending, "intake") : e \in Asked(d, id)}
       [] OTHER -> {Outcome(Settled(d), NoQuestion, "intake")}
                   \cup {Outcome(e, e.pending, "intake") : e \in Asked(d, id)}

\* A lookup button without a search target asks for one.
NeedsTarget(m, d, job) ==
  /\ job.kind = "reference_lookup" /\ m.intent = "intake" /\ ~m.facts /\ m.query = NoQuery
  /\ m.action = "continue"
  /\ m.hint = "reference_lookup" \/ d.pending.kind = "reference"

Destination(m, q) ==
  CASE \/ m.action = "summary" \/ Idles(m)
       \/ q # NoQuestion /\ m.intent # "research" /\ m.query # NoQuery -> "validate"
    [] /\ m.action # "summary" /\ ~Idles(m) /\ (q = NoQuestion \/ m.intent = "research")
       /\ Dynamic /\ turns' \in ToolTurns /\ m.hint = "auto"
       /\ m.action \in {"continue", "resume", "retry_research"} -> "tools"
    [] OTHER -> "work"

\* run_tools: what is queued, an analysis that cannot start and a query out of
\* scope take the established path.
Entry(t, to) ==
  IF to # "tools" THEN to
  ELSE IF \/ t.control.queued # << >>
          \/ t.msg.analysis /\ (t.msg.facts \/ ~t.eligible)
          \/ t.job.query # NoQuery /\ Scope(t.job, t.msg.hint) # "HK"
       THEN "work" ELSE "plan"

\* The calls the router spent, and what the case holds besides: whether an
\* analysis may start, and whether its facts conflict.
Routes(m) == [calls : RouteCalls, eligible : IF m.analysis THEN BOOLEAN ELSE {FALSE},
              conflict : IF \E j \in 1 .. Len(m.tasks) : m.tasks[j].uses THEN BOOLEAN ELSE {FALSE}]

Started(r, n, route) ==
  LET c == Resolve(r, control, dialogue, n)
      job == FirstJob(r, c)
  IN [node |-> "work", msg |-> r, job |-> job, control |-> Remember(c, job), dialogue |-> dialogue,
      question |-> NoQuestion, status |-> "ready", error |-> FALSE, analysis |-> FALSE,
      done |-> {}, bundles |-> {}, last |-> None, rewritten |-> FALSE,
      tools |-> FALSE, stop |-> None, decision |-> NoDecision, calls |-> {}, steps |-> 0,
      route |-> route, eligible |-> route.eligible, cited |-> {}, grounded |-> FALSE]

Begun(t) ==
  LET id == t.control.active.id
  IN IF NeedsTarget(t.msg, dialogue, t.job)
     THEN LET q == Question("reference", id)
          IN {[t EXCEPT !.question = q, !.status = "waiting_user",
                        !.dialogue = [@ EXCEPT !.status = "active", !.pending = q]]}
     ELSE {LET q == IF t.msg.analysis /\ t.msg.action = "continue" THEN NoQuestion ELSE i.q
               s == [t EXCEPT !.msg.intent = i.intent, !.dialogue = i.d, !.question = q,
                              !.status = CASE q # NoQuestion -> "waiting_user"
                                           [] q = NoQuestion /\ t.msg.action = "summary" -> "completed"
                                           [] OTHER -> IF i.intent = "intake" THEN "awaiting_confirmation" ELSE "ready"]
               node == Entry(s, Destination(s.msg, q))
           IN [s EXCEPT !.node = node, !.tools = node = "plan"]
             : i \in Interviewed(t.msg, dialogue, id)}

\* A message that needs a focus, or that the model fails to route, changes nothing.
Receive ==
  /\ turn = Idle /\ turns < MaxTurns
  /\ turns' = turns + 1
  /\ \E m \in Messages :
       LET r == Routed(m, control, dialogue)
       IN /\ ~NeedsFocus(r, control, dialogue)
          /\ \E route \in Routes(r) :
               /\ turn' \in Begun(Started(r, TaskId(turns'), route))
               /\ budget' = FreshBudget(route.calls)
  /\ UNCHANGED <<control, dialogue, corpus, moves>>

----------------------------------------------------------------------------
(***************************************************************************)
(* execute: one job, with what it costs.  Idle is a turn that failed.      *)
(***************************************************************************)
Current == {[id |-> p, ver |-> corpus[p]] : p \in Passages}
Bundles == {Admitted(found, read, partial, cut) :
              found \in SUBSET Current, read \in SUBSET Current, partial \in BOOLEAN, cut \in BOOLEAN}

\* retrieve: a search, once more after an error; the budget may end before an answer.
Retrievals(b) ==
  LET once == Spend(b, "search", 1)
      twice == Spend(b, "search", 2)
      Out(c, found) == [b |-> c, found |-> found]
  IN CASE ~Affords(b, "search", 1) -> {Out(b, {})}
       [] Affords(b, "search", 1) /\ ~Affords(b, "search", 2) ->
            {Out(once, Bundles \cup {Failed}), Out(once, {}), Out([once EXCEPT !.time = 0], {})}
       [] OTHER -> {Out(once, Bundles \cup {Failed}), Out(twice, Bundles \cup {Failed}),
                    Out([once EXCEPT !.time = 0], {})}

Done(t, status) == [t EXCEPT !.done = @ \cup {t.job}, !.status = status]
Stopped(t) == [Done(t, "paused_gap") EXCEPT !.question = NoQuestion, !.stop = "budget_exhausted"]
Asking(t, d) == [t EXCEPT !.dialogue = d, !.question = d.pending, !.status = "waiting_user"]
TargetOf(t) == IF t.job.query # NoQuery THEN t.job.query ELSE t.msg.query

Evidenced(bundle) == [passages |-> bundle.passages, model |-> bundle.model]
\* What a search leaves: only the fixed path goes on asking for facts.
Researched(t, bundle) ==
  LET query == TargetOf(t)
      found == [Done(t, IF bundle.reason = "evidence_available" THEN "draft_ready" ELSE "paused_gap")
                EXCEPT !.msg.intent = "research", !.msg.query = query,
                       !.bundles = @ \cup {Evidenced(bundle)}, !.last = bundle.reason,
                       !.stop = IF bundle.cut THEN "budget_exhausted" ELSE @]
      kept == [t.dialogue EXCEPT !.deferred = IF @ = query THEN NoQuery ELSE @,
                                 !.status = IF t.job.uses \/ t.msg.facts THEN @ ELSE "suspended"]
  IN CASE bundle = Failed /\ ~t.msg.facts /\ t.done = {} -> {Idle}
       [] bundle = Failed /\ (t.msg.facts \/ t.done # {}) ->
            {[found EXCEPT !.status = "partial_failure", !.error = TRUE, !.dialogue.deferred = query,
                    !.dialogue.uses = t.job.uses]}
       [] OTHER -> IF t.tools \/ ~(t.job.uses \/ t.msg.facts)
                   THEN {[found EXCEPT !.dialogue = kept]}
                   ELSE {[found EXCEPT !.dialogue = Settled(kept)]}
                        \cup {Asking(found, d) : d \in Asked(kept, t.control.active.id)}

\* The budget after an analysis that made no search, one or two, and whether it
\* came to its end.
Consultations(b) ==
  LET Ended(r) == [b |-> r.b, ends |-> r.found # {}]
      once == Retrievals(b)
      twice == UNION {Retrievals(r.b) : r \in {x \in once : x.found # {}}}
  IN {[b |-> b, ends |-> TRUE]} \cup {Ended(r) : r \in once \cup twice}

\* report_proposal: the analysis searches at the same cost as a lookup.
Analysed(t, b) ==
  LET draft == [Done(t, "draft_ready") EXCEPT !.question = NoQuestion, !.analysis = TRUE]
  IN IF t.msg.facts \/ ~t.eligible
     THEN {[t |-> [Done(t, s) EXCEPT !.question = NoQuestion], b |-> b] :
             s \in {"unsupported", "awaiting_confirmation"}}
     ELSE {[t |-> u, b |-> c.b] : u \in {draft, Idle}, c \in {x \in Consultations(b) : x.ends}}
          \cup {[t |-> Stopped(t), b |-> c.b] : c \in {x \in Consultations(b) : ~x.ends}}

Executions(t, b) ==
  LET spent == Spend(b, "action", 1)
      Out(ts, c) == {[t |-> u, b |-> c] : u \in ts}
  IN CASE ~Affords(b, "action", 1) -> Out({Stopped(t)}, b)
       [] Affords(b, "action", 1) /\ t.job.kind = "consultation" /\ t.msg.analysis ->
            Analysed(t, spent)
       [] Affords(b, "action", 1) /\ ~(t.job.kind = "consultation" /\ t.msg.analysis)
          /\ t.msg.intent # "research" /\ t.job.query = NoQuery -> Out({Done(t, t.status)}, spent)
       [] OTHER ->
            LET scope == Scope([t.job EXCEPT !.query = TargetOf(t)], t.msg.hint)
                q == Question("scope", 0)
            IN CASE scope = "need_scope" ->
                      Out({Asking(Done(t, "waiting_user"), [t.dialogue EXCEPT !.status = "active", !.pending = q])},
                          spent)
                 [] scope = "unsupported" ->
                      Out({[Done(t, "unsupported") EXCEPT !.question = NoQuestion]}, spent)
                 [] scope = "HK" ->
                      UNION {IF r.found = {} THEN Out({Stopped(t)}, r.b)
                             ELSE UNION {Out(Researched(t, bundle), r.b) : bundle \in r.found}
                               : r \in Retrievals(spent)}

Work ==
  /\ turn # Idle /\ turn.node = "work"
  /\ \E x \in Executions(turn, budget) :
       IF x.t = Idle THEN turn' = Idle /\ budget' = FreshBudget(0)
       ELSE turn' = [x.t EXCEPT !.node = "observe", !.stop = None] /\ budget' = x.b
  /\ UNCHANGED <<control, dialogue, corpus, moves, turns>>

----------------------------------------------------------------------------
(***************************************************************************)
(* observe: the task gets its status; then the next queued job, one search *)
(* in other words, or the answer.                                          *)
(***************************************************************************)
TaskStatus(t) ==
  CASE t.question # NoQuestion -> "waiting_user"
    [] t.question = NoQuestion /\ t.status = "awaiting_confirmation" -> "waiting_confirmation"
    [] t.question = NoQuestion /\ t.status = "partial_failure" -> "failed"
    [] t.question = NoQuestion /\ t.status \in {"paused_gap", "unsupported"} -> "blocked_gap"
    [] OTHER -> "completed"

Ends(t) == \/ t.question # NoQuestion \/ t.analysis \/ t.error
           \/ t.stop \notin {None, "finished", "waiting_user", "analysis_ready"}
TakesNext(t, b) == ~Ends(t) /\ t.control.queued # << >> /\ Affords(b, "action", 1)
Rewrites(t, b) == /\ ~Ends(t) /\ ~TakesNext(t, b) /\ ~t.tools /\ Dynamic
                  /\ t.last = "no_match" /\ ~t.rewritten /\ t.status # "unsupported"

\* A queued job that uses the case waits while its facts conflict.
QueueDropped(t, job, rest) == rest
QueueLeft(t, job, rest) == IF job.uses /\ t.route.conflict THEN <<job>> \o rest ELSE rest
ObserveNext(t) ==
  LET job == Head(t.control.queued)
      rest == Tail(t.control.queued)
      next == [t EXCEPT !.control.active = NewTask(TaskId(turns) + Len(t.control.queued), job.kind),
                        !.control.queued = QueueLeft(t, job, rest)]
  IN IF job.uses /\ t.route.conflict THEN [next EXCEPT !.node = "validate"]
     ELSE [next EXCEPT !.job = job, !.node = "work"]

Observe ==
  /\ turn # Idle /\ turn.node = "observe"
  /\ LET t == [turn EXCEPT !.control = Put(@, TaskStatus(turn))]
         answer == [t EXCEPT !.node = "validate"]
     IN IF TakesNext(t, budget) THEN turn' = ObserveNext(t) /\ UNCHANGED budget
        ELSE \/ ~Rewrites(t, budget) /\ turn' = answer /\ UNCHANGED budget
             \/ \E n \in {1, 2} :
                  /\ Rewrites(t, budget) /\ Affords(budget, "model", n)
                  /\ budget' = Spend(budget, "model", n)
                  /\ turn' \in {answer, [t EXCEPT !.node = "work", !.rewritten = TRUE],
                                [answer EXCEPT !.status = "partial_failure", !.error = TRUE]}
             \/ /\ Rewrites(t, budget) /\ ~Affords(budget, "model", 2) /\ UNCHANGED budget
                /\ turn' = [answer EXCEPT !.status = "partial_failure", !.error = TRUE]
  /\ UNCHANGED <<control, dialogue, corpus, moves, turns>>

----------------------------------------------------------------------------
(***************************************************************************)
(* The tool loop: plan and execute until a rule or the model ends it.  A   *)
(* decision names a tool and, for a search, the query of the task, another *)
(* wording of it, or one that strays from its scope.                       *)
(***************************************************************************)
Wordings == {"task", "other", "stray"}
Decisions == [tool : ReadTools \cup {"finish", "prepare_analysis"}, query : {None}]
             \cup [tool : Searches, query : Wordings]

Allowed(t) ==
  ReadTools \cup {"finish"}
  \cup (IF t.job.query # NoQuery /\ Scope(t.job, t.msg.hint) = "HK" THEN Searches ELSE {})
  \cup (IF t.msg.analysis /\ ~t.msg.facts /\ t.eligible THEN {"prepare_analysis"} ELSE {})

\* What the message needs searched and no accepted call has tried.
Pending(t) ==
  {s \in t.msg.needs \cap Allowed(t) :
     t.job.query # NoQuery /\ ~\E c \in t.calls : c.tool = s /\ c.result # "rejected"}
Succeeded(t, tool) == \E c \in t.calls : c.tool = tool /\ c.result = "available"
Call(d, result) == [tool |-> d.tool, query |-> d.query, result |-> result]

\* validate_call: the tool is offered, the query keeps the scope, nothing twice.
Rejected(t, d) ==
  \/ d.tool \notin Allowed(t) \/ d.query = "stray"
  \/ \E c \in t.calls : c.tool = d.tool /\ c.query = d.query /\ c.result # "rejected"

Left(t, stop) == [t EXCEPT !.node = "left", !.stop = stop]
Chosen(t, d) == [t EXCEPT !.node = "execute", !.decision = d]
Search(s) == [tool |-> s, query |-> "task"]

\* Guarded: a stray search may fall back, once, to the query of the task.
Guarded(t, d) ==
  LET repair == [d EXCEPT !.query = "task"]
      refused == [t EXCEPT !.calls = @ \cup {Call(d, "rejected")}]
  IN CASE ~Rejected(t, d) -> Chosen(t, d)
       [] /\ Rejected(t, d) /\ d.tool \in Searches \cap Allowed(t) /\ d.query = "stray"
          /\ ~\E c \in t.calls : c.result = "rejected"
          /\ ~Rejected(t, repair) -> Chosen(refused, repair)
       [] OTHER -> Left(refused, "rejected")

\* What becomes of the proposal d of the model.
Adopted(t, d) ==
  LET redirected == {Chosen(t, Search(s)) : s \in Pending(t)}
  IN CASE /\ Pending(t) # {} /\ d.tool \in Searches
          /\ Succeeded(t, d.tool) \/ (d.tool = "search_rulings" /\ d.tool \notin t.msg.needs) -> redirected
       [] Pending(t) = {} /\ Succeeded(t, d.tool) -> {Left(t, "finished")}
       [] d.tool = "finish" /\ Pending(t) # {} -> redirected
       [] d.tool = "finish" /\ Pending(t) = {} ->
            {Left(t, IF t.bundles # {} \/ t.calls # {} THEN "finished" ELSE "no_tool_result")}
       [] OTHER -> {Guarded(t, d)}

Covered(t) == t.bundles # {} /\ Pending(t) = {}
Spent(b) == b.time = 0 \/ b.action >= ActionLimit
\* The explanation needs two calls and ten seconds.
Unreserved(t, b) == FALSE
Reserved(t, b) == t.calls # {} /\ (b.model + 2 >= ModelLimit \/ b.time < 2)

Planned(t, b) ==
  CASE Spent(b) -> {Left(t, "budget_exhausted")}
    [] ~Spent(b) /\ Reserved(t, b) ->
         IF Pending(t) = {} THEN {Left(t, "finished")}
         ELSE {Chosen(t, Search(s)) : s \in Pending(t)}
              \cup (IF b.time < 2 THEN {Left(t, "budget_exhausted")} ELSE {})
    [] OTHER -> IF Affords(b, "model", 2) THEN {} ELSE {Left(t, "budget_exhausted")}

Plan ==
  /\ turn # Idle /\ turn.node = "plan"
  /\ LET t == [turn EXCEPT !.steps = @ + 1]
     IN \/ Covered(t) /\ turn' = Left(t, "finished") /\ UNCHANGED budget
        \/ turn' \in Planned(t, budget) /\ UNCHANGED budget
        \/ \E n \in {1, 2} :
             /\ ~Spent(budget) /\ ~Reserved(t, budget) /\ Affords(budget, "model", n)
             /\ budget' = Spend(budget, "model", n)
             /\ turn' \in {Left(t, "planner_failed")} \cup UNION {Adopted(t, d) : d \in Decisions}
  /\ UNCHANGED <<control, dialogue, corpus, moves, turns>>

\* The job a call is executed as.
JobOf(t) == CASE t.decision.tool \in Searches -> [t.job EXCEPT !.kind = "reference_lookup"]
              [] t.decision.tool = "prepare_analysis" -> [t.job EXCEPT !.kind = "consultation"]
              [] OTHER -> t.job
Calls(t, b) ==
  IF t.decision.tool \in ReadTools
  THEN IF Affords(b, "action", 1)
       THEN {[t |-> Done(t, "completed"), b |-> Spend(b, "action", 1)]}
       ELSE {[t |-> Stopped(t), b |-> b]}
  ELSE Executions([t EXCEPT !.job = JobOf(t),
                            !.msg.intent = IF t.decision.tool \in Searches THEN "research" ELSE @], b)

\* A call that raised an error keeps what the turn already has.
Observed(t, u) ==
  IF u = Idle THEN [Left(t, "tool_failed") EXCEPT !.error = TRUE,
                      !.calls = @ \cup {Call(t.decision, "other")}]
  ELSE LET success == t.decision.tool \in Searches /\ u.last = "evidence_available"
           v == [u EXCEPT !.job = t.job, !.last = None, !.decision = NoDecision,
                          !.calls = @ \cup {Call(t.decision, IF success THEN "available" ELSE "other")}]
       IN CASE v.analysis -> Left(v, "analysis_ready")
            [] ~v.analysis /\ v.error -> Left(v, "tool_failed")
            [] ~v.analysis /\ ~v.error /\ v.stop = "budget_exhausted" -> Left(v, "budget_exhausted")
            [] OTHER -> [v EXCEPT !.node = "plan"]

Execute ==
  /\ turn # Idle /\ turn.node = "execute"
  /\ \E x \in Calls([turn EXCEPT !.steps = @ + 1], budget) :
       turn' = Observed([turn EXCEPT !.steps = @ + 1], x.t) /\ budget' = x.b
  /\ UNCHANGED <<control, dialogue, corpus, moves, turns>>

\* ToolHarness.invoke: a loop that broke off is a partial failure, or no turn at all.
Leave ==
  /\ turn # Idle /\ turn.node = "left"
  /\ LET fails == turn.stop \in {"planner_failed", "tool_failed"}
         broke == turn.stop \notin {"finished", "analysis_ready"}
         status == IF turn.done # {} THEN "partial_failure" ELSE "paused_gap"
     IN IF fails /\ turn.done = {} /\ ~turn.msg.facts
        THEN turn' = Idle /\ budget' = FreshBudget(0)
        ELSE /\ turn' = [turn EXCEPT !.node = "observe", !.error = @ \/ fails,
                                     !.status = IF broke THEN status ELSE @]
             /\ UNCHANGED budget
  /\ UNCHANGED <<control, dialogue, corpus, moves, turns>>

----------------------------------------------------------------------------
(***************************************************************************)
(* validate: what was found is explained once, then the turn is committed. *)
(***************************************************************************)
Explain ==
  /\ turn # Idle /\ turn.node = "validate"
  /\ LET merged == Merged(turn.bundles)
         explains == turn.bundles # {} /\ ~turn.analysis /\ merged.model # {}
         plain == [turn EXCEPT !.node = "commit",
                     !.cited = IF turn.bundles = {} \/ turn.analysis THEN {}
                               ELSE {i \in merged.passages : i.id \in Excerpts(merged)}]
     IN \/ turn' = plain /\ UNCHANGED budget
        \/ \E n \in {1, 2} : \E ids \in SUBSET Passages :
             /\ explains /\ Affords(budget, "model", n) /\ Supported(ids, merged)
             /\ budget' = Spend(budget, "model", n)
             /\ turn' = [plain EXCEPT !.cited = merged.model \cap Cited(ids, merged), !.grounded = TRUE]
  /\ UNCHANGED <<control, dialogue, corpus, moves, turns>>

FinalStatus(t) ==
  CASE t.question # NoQuestion -> "waiting_user"
    [] t.question = NoQuestion /\ (t.msg.action \in {"pause", "new_case"} \/ t.msg.intent = "chat") -> "paused"
    [] t.question = NoQuestion /\ t.msg.action \notin {"pause", "new_case"} /\ t.msg.intent # "chat"
       /\ t.status = "awaiting_confirmation" -> "waiting_confirmation"
    [] t.question = NoQuestion /\ t.msg.action \notin {"pause", "new_case"} /\ t.msg.intent # "chat"
       /\ t.status \in {"draft_ready", "completed"} -> "completed"
    [] OTHER -> t.control.active.status

\* The question of a turn belongs to the task that ends it.
Commit ==
  /\ turn # Idle /\ turn.node = "commit"
  /\ LET id == turn.control.active.id
     IN IF turn.msg.action = "summary" THEN control' = turn.control /\ UNCHANGED dialogue
        ELSE /\ control' = Put(turn.control, FinalStatus(turn))
             /\ dialogue' = IF turn.question = NoQuestion THEN turn.dialogue
                            ELSE [turn.dialogue EXCEPT !.pending = [@ EXCEPT !.task = id]]
  /\ turn' = Idle /\ budget' = FreshBudget(0)
  /\ UNCHANGED <<corpus, moves, turns>>

\* The bound of the model; a turn at work always has a next step.
Rest == turn = Idle /\ turns = MaxTurns /\ UNCHANGED vars

Next == \/ Receive \/ Work \/ Observe \/ Plan \/ Execute \/ Leave \/ Explain \/ Commit
        \/ TimePasses \/ CorpusMoves \/ Rest
Spec == Init /\ [][Next]_vars

----------------------------------------------------------------------------
Nodes == {"work", "observe", "plan", "execute", "left", "validate", "commit"}
Tasks == [id : 0 .. TaskId(MaxTurns + 1), kind : Kinds \cup {None},
          query : Queries \cup {NoQuery}, status : TaskStatuses \cup {None}]
Controls == [active : Tasks, suspended : Tasks, queued : Seq(Jobs)]

\* The budget is never overdrawn, and control and turn have their types.
TurnTypeOK ==
  /\ control \in Controls
  /\ dialogue.deferred \in Queries \cup {NoQuery} /\ dialogue.pending.task <= TaskId(MaxTurns + 1)
  /\ \A kind \in DOMAIN Limit : budget[kind] \in 0 .. Limit[kind]
  /\ turn # Idle => turn.node \in Nodes /\ turn.control \in Controls /\ turn.job \in Jobs

\* A suspended task waits until the user resumes: no change of topic, no queue
\* and no tool takes its place (task_state.resolve, lines 48-87).
SuspendedKept ==
  [][control.suspended # NoTask /\ control'.suspended # control.suspended
     => turn.msg.action = "resume"]_vars

\* Of a request with several parts each one that was queued has been carried out
\* or refused, or is still queued when the turn is committed (hybrid.observe).
\* A message that only pauses or asks for the summary schedules nothing.
PartsKept ==
  turn # Idle /\ turn.node = "commit" /\ turn.msg.action \notin {"pause", "new_case", "summary"} =>
    \A i \in 2 .. Len(turn.msg.tasks) :
      \/ turn.msg.tasks[i] \in turn.done
      \/ \E k \in DOMAIN turn.control.queued : turn.control.queued[k] = turn.msg.tasks[i]

\* An open question belongs to the task in focus; only a queued part of a request,
\* which is carried out though the question was not shown, takes its place.
FromQueue(id) == \A n \in 0 .. MaxTurns : id # TaskId(n)
QuestionBound ==
  turn = Idle /\ dialogue.status = "active" /\ dialogue.pending.task # 0
  => dialogue.pending.task = control.active.id \/ FromQueue(control.active.id)

\* The tool loop ends by its own rules: the recursion limit of its graph, an
\* error that loses the turn, is never reached (tool_harness.py, line 36).
LoopEnds == turn # Idle => turn.steps <= LoopLimit

\* When evidence is to be explained a model call is left for it (hybrid.py, line 142).
AnswerHasRoom ==
  turn # Idle /\ turn.node = "validate" /\ turn.bundles # {}
  => budget.model < ModelLimit

\* What an explanation cites denotes one version each, found in this turn and
\* permitted to the model, though the corpus may move between the searches.
CitationsSingle ==
  turn # Idle /\ turn.grounded =>
    /\ turn.cited # {}
    /\ turn.cited \subseteq Union(turn.bundles, "model") \cap ModelUse
    /\ \A i, j \in turn.cited : i.id = j.id => i = j
=============================================================================
