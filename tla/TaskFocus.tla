----------------------------- MODULE TaskFocus -----------------------------
(***************************************************************************)
(* Which task a case is working on (packages/agent/task_state.py and the   *)
(* route node of hybrid.py).  The control record of a case holds the       *)
(* active task, one suspended task and the queue of a mixed request.       *)
(*                                                                         *)
(* A message is here what routing makes of it: a turn that validate_turn   *)
(* accepts, with the hint of the button it came from and whether its text  *)
(* asks for the analysis.                                                  *)
(***************************************************************************)
EXTENDS Naturals, SequencesExt

CONSTANTS Queries, NoQuery

ASSUME FocusAssumption == NoQuery \notin Queries

None == "none"
Kinds == {"consultation", "fact_intake", "reference_lookup"}
Over == {"completed", "failed"}
TaskStatuses == Over \cup {"active", "paused", "blocked_gap", "waiting_user", "waiting_confirmation"}
HintTask == [dividend_consultation |-> "consultation", fact_intake |-> "fact_intake",
             reference_lookup |-> "reference_lookup"]
Hints == DOMAIN HintTask \cup {"auto"}
HintKind(hint) == IF hint = "auto" THEN "fact_intake" ELSE HintTask[hint]

Job(kind, query, uses) == [kind |-> kind, query |-> query, uses |-> uses]
Jobs == [kind : Kinds, query : Queries \cup {NoQuery}, uses : BOOLEAN]
NoTask == [id |-> 0, kind |-> None, query |-> NoQuery, status |-> None]
NewTask(id, kind) == [id |-> id, kind |-> kind, query |-> NoQuery, status |-> "active"]
NoControl == [active |-> NoTask, suspended |-> NoTask, queued |-> << >>]

----------------------------------------------------------------------------
(***************************************************************************)
(* The route node: a resumed queue or lookup brings its query back, a      *)
(* request for the analysis is a consultation.                             *)
(***************************************************************************)
ResumesQueue(m, c, d) ==
  m.action = "resume" /\ c.queued # << >> /\ ~(d.pending.kind = "fact" /\ d.status = "active")

Routed(m, c, d) ==
  CASE m.action = "retry_research" /\ d.deferred # NoQuery ->
         [m EXCEPT !.intent = "research", !.query = d.deferred, !.uses = d.uses,
                   !.kind = "reference_lookup"]
    [] ResumesQueue(m, c, d) ->
         [m EXCEPT !.intent = IF c.queued[1].query = NoQuery THEN "intake" ELSE "research",
                   !.query = c.queued[1].query, !.uses = c.queued[1].uses,
                   !.kind = c.queued[1].kind, !.tasks = c.queued]
    [] /\ m.action = "resume" /\ ~ResumesQueue(m, c, d) /\ c.active.kind = "reference_lookup"
       /\ c.active.status # "completed" /\ c.active.query # NoQuery ->
         [m EXCEPT !.intent = "research", !.query = c.active.query, !.kind = "reference_lookup"]
    [] OTHER -> m

Proposals(m) ==
  CASE m.tasks # << >> -> m.tasks
    [] m.tasks = << >> /\ m.analysis -> <<Job("consultation", m.query, m.uses)>>
    [] OTHER -> IF m.kind = None THEN << >> ELSE <<Job(m.kind, m.query, m.uses)>>

\* The kind of task a turn belongs to, given the task a resume put back.
KindOf(m, task, d, proposals) ==
  LET answers == d.pending.kind # None /\ d.status = "active" /\ m.facts
                 /\ proposals = << >> /\ m.intent = "intake"
  IN CASE answers -> IF task.kind \in {"fact_intake", "consultation"} THEN task.kind ELSE HintKind(m.hint)
       [] proposals # << >> -> proposals[1].kind
       [] ~answers /\ proposals = << >> /\ m.intent = "research" -> "reference_lookup"
       [] OTHER -> IF task.kind \in {"fact_intake", "consultation"} THEN task.kind ELSE HintKind(m.hint)

Idles(m) == m.intent \in {"chat", "clarify", "unsupported"} \/ m.action \in {"pause", "new_case"}
Unfinished(task) == task.kind # None /\ task.status \notin Over

\* resolve: the control record after the turn is routed, with n for a new task.
Resumed(m, c) ==
  IF m.action = "resume" /\ c.suspended # NoTask
  THEN [c EXCEPT !.active = c.suspended, !.suspended = NoTask]
  ELSE c

\* A topic change while another task is suspended is refused.
NeedsNoFocus(m, c, d) == FALSE
NeedsFocus(m, c, d) ==
  LET r == Resumed(m, c)
  IN /\ m.action # "summary" /\ ~Idles(m)
     /\ Unfinished(r.active) /\ r.active.kind # KindOf(m, r.active, d, Proposals(m))
     /\ r.suspended # NoTask /\ r.suspended.id # r.active.id

Focused(m, c, d, n) ==
  LET r == Resumed(m, c)
      p == Proposals(m)
      kind == KindOf(m, r.active, d, p)
      switch == Unfinished(r.active) /\ r.active.kind # kind
      task == IF Unfinished(r.active) /\ r.active.kind = kind THEN r.active ELSE NewTask(n, kind)
  IN [active |-> [task EXCEPT !.status = "active"],
      suspended |-> IF switch THEN [r.active EXCEPT !.status = "paused"] ELSE r.suspended,
      queued |-> IF p = << >> THEN r.queued ELSE Tail(p)]

Put(c, status) == IF c.active = NoTask THEN c ELSE [c EXCEPT !.active.status = status]
Resolve(m, c, d, n) ==
  CASE m.action = "summary" -> c
    [] m.action # "summary" /\ Idles(m) ->
         Put(Resumed(m, c), IF m.intent = "chat" \/ m.action \in {"pause", "new_case"}
                            THEN "paused" ELSE "blocked_gap")
    [] OTHER -> Focused(m, c, d, n)

\* The job of the turn; the active task remembers its query.
FirstJob(m, c) ==
  LET p == Proposals(m)
      job == IF p # << >> THEN p[1]
             ELSE Job(IF c.active = NoTask THEN "consultation" ELSE c.active.kind, m.query, m.uses)
  IN IF m.intent = "research" /\ job.query = NoQuery THEN [job EXCEPT !.query = m.query] ELSE job
Remember(c, job) == IF c.active = NoTask THEN c ELSE [c EXCEPT !.active.query = job.query]
=============================================================================
