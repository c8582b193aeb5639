---------------------------- MODULE TurnGraphProofs ----------------------------
(***************************************************************************)
(* What holds of every turn, for any messages, tools, passages and limits  *)
(* that satisfy the assumptions: the tool loop and the model calls stay in *)
(* their bounds, an explanation cites one version of each passage, and     *)
(* neither a part of a request nor a suspended task is lost.               *)
(***************************************************************************)
EXTENDS TurnGraph, TLAPS

TurnStatuses == {"ready", "waiting_user", "completed", "awaiting_confirmation", "draft_ready",
                 "paused_gap", "unsupported", "partial_failure"}
Stops == {None, "budget_exhausted", "finished", "rejected", "no_tool_result", "planner_failed",
          "analysis_ready", "tool_failed"}
QuestionKinds == {None, "reference", "mode", "fact", "choice", "scope"}
DialogueStatuses == {"new", "active", "paused", "suspended", "ready"}
AnyQuery == Queries \cup {NoQuery}
AnyKind == Kinds \cup {None}
Tools == ReadTools \cup Searches \cup {"finish", "prepare_analysis", None}

MessageRec == [intent : Intents, action : Actions, facts : BOOLEAN, query : AnyQuery,
               uses : BOOLEAN, kind : AnyKind, tasks : Seq(Jobs), analysis : BOOLEAN,
               hint : Hints, needs : SUBSET Searches]
AnyJob == [kind : AnyKind, query : AnyQuery, uses : BOOLEAN]
TaskRec == [id : Nat, kind : AnyKind, query : AnyQuery, status : TaskStatuses \cup {None}]
ControlRec == [active : TaskRec, suspended : TaskRec, queued : Seq(Jobs)]
QuestionRec == [kind : QuestionKinds, task : Nat]
DialogueRec == [status : DialogueStatuses, pending : QuestionRec, deferred : AnyQuery, uses : BOOLEAN]
BundleRec == [passages : SUBSET Items, model : SUBSET Items]
DecisionRec == [tool : Tools, query : Wordings \cup {None}]
CallRec == [tool : Tools, query : Wordings \cup {None}, result : {"rejected", "available", "other"}]
RouteRec == [calls : Nat, eligible : BOOLEAN, conflict : BOOLEAN]
BudgetRec == [model : Nat, action : Nat, search : Nat, time : Nat]

TurnRec ==
  [node : Nodes, msg : MessageRec, job : AnyJob, control : ControlRec, dialogue : DialogueRec,
   question : QuestionRec, status : TurnStatuses, error : BOOLEAN, analysis : BOOLEAN,
   done : SUBSET AnyJob, bundles : SUBSET BundleRec, last : Reasons \cup {None}, rewritten : BOOLEAN,
   tools : BOOLEAN, stop : Stops, decision : DecisionRec, calls : SUBSET CallRec, steps : Nat,
   route : RouteRec, eligible : BOOLEAN, cited : SUBSET Items, grounded : BOOLEAN]

\* An open question belongs to the task in focus, or a queued part took its place.
Owned(d, c) == d.status = "active" /\ d.pending.task # 0
               => d.pending.task = c.active.id \/ FromQueue(c.active.id)

\* What carrying out a job leaves of the turn it began with.
Keeps(t, u) ==
  /\ u.msg.tasks = t.msg.tasks /\ u.msg.action = t.msg.action /\ u.control = t.control
  /\ t.done \subseteq u.done /\ u.steps = t.steps /\ u.tools = t.tools
  /\ u.rewritten = t.rewritten /\ u.calls = t.calls /\ u.grounded = t.grounded
  /\ u.cited = t.cited /\ u.route = t.route /\ u.node = t.node /\ u.decision = t.decision
  /\ Owned(t.dialogue, t.control) => Owned(u.dialogue, t.control)

----------------------------------------------------------------------------
(***************************************************************************)
(* The parts of a turn                                                     *)
(***************************************************************************)
LEMMA NoQuestionTyped == NoQuestion \in QuestionRec
BY DEF NoQuestion, QuestionRec, QuestionKinds

LEMMA DoneKeeps ==
  ASSUME NEW t \in TurnRec, NEW status \in TurnStatuses
  PROVE  /\ Done(t, status) \in TurnRec /\ t.job \in Done(t, status).done
         /\ Done(t, status).bundles = t.bundles /\ Done(t, status).stop = t.stop
         /\ Keeps(t, Done(t, status))
BY DEF Done, TurnRec, Keeps

LEMMA StoppedKeeps ==
  ASSUME NEW t \in TurnRec
  PROVE  /\ Stopped(t) \in TurnRec /\ t.job \in Stopped(t).done
         /\ Stopped(t).bundles = t.bundles /\ Stopped(t).stop = "budget_exhausted"
         /\ Keeps(t, Stopped(t))
<1>1. PICK q \in QuestionRec : q = NoQuestion
    BY NoQuestionTyped
<1>2. "paused_gap" \in TurnStatuses /\ "budget_exhausted" \in Stops
    BY DEF TurnStatuses, Stops
<1>3. PICK u \in TurnRec : /\ u = Done(t, "paused_gap")
                           /\ t.job \in u.done /\ u.bundles = t.bundles /\ Keeps(t, u)
    BY <1>2, DoneKeeps
<1>4. Stopped(t) = [u EXCEPT !.question = q, !.stop = "budget_exhausted"]
    BY <1>1, <1>3 DEF Stopped
<1>5. /\ Stopped(t) \in TurnRec /\ Keeps(u, Stopped(t)) /\ Stopped(t).done = u.done
      /\ Stopped(t).bundles = u.bundles /\ Stopped(t).stop = "budget_exhausted"
    BY <1>2, <1>4, ZenonT(60) DEF TurnRec, Keeps
<1> QED
    BY <1>3, <1>5 DEF Keeps

LEMMA AskingKeeps ==
  ASSUME NEW t \in TurnRec, NEW d \in DialogueRec, Owned(d, t.control)
  PROVE  /\ Asking(t, d) \in TurnRec /\ Asking(t, d).done = t.done
         /\ Asking(t, d).bundles = t.bundles
         /\ Keeps(t, Asking(t, d))
<1>1. "waiting_user" \in TurnStatuses /\ d.pending \in QuestionRec
    BY DEF TurnStatuses, DialogueRec
<1> QED
    BY <1>1 DEF Asking, TurnRec, Keeps

LEMMA AskedTyped ==
  ASSUME NEW d \in DialogueRec, NEW id \in Nat
  PROVE  Asked(d, id) \subseteq DialogueRec /\ Settled(d) \in DialogueRec
<1>1. \A k \in {"fact", "choice"} : Question(k, id) \in QuestionRec
    BY DEF Question, QuestionRec, QuestionKinds
<1>2. {"active", "ready"} \subseteq DialogueStatuses
    BY DEF DialogueStatuses
<1> QED
    BY <1>1, <1>2, NoQuestionTyped DEF Asked, Settled, DialogueRec

\* The interview asks about the task in focus; a settled one asks nothing.
LEMMA AskedOwned ==
  ASSUME NEW d \in DialogueRec, NEW c
  PROVE  /\ \A x \in Asked(d, c.active.id) : Owned(x, c)
         /\ Owned(Settled(d), c)
<1>1. ASSUME NEW x \in Asked(d, c.active.id)
      PROVE  x.pending.task = c.active.id
  <2>1. PICK k \in {"fact", "choice"} :
          x = [d EXCEPT !.status = "active", !.pending = Question(k, c.active.id)]
      BY DEF Asked
  <2>2. x.pending = Question(k, c.active.id)
      BY <2>1 DEF DialogueRec
  <2> QED
      BY <2>2 DEF Question
<1>2. Settled(d).status = "ready"
    BY DEF Settled, DialogueRec
<1> QED
    BY <1>1, <1>2 DEF Owned

LEMMA TargetTyped == ASSUME NEW t \in TurnRec PROVE TargetOf(t) \in AnyQuery
BY DEF TargetOf, TurnRec, AnyJob, MessageRec

LEMMA SpendIs ==
  ASSUME NEW b \in BudgetRec, NEW n \in Nat
  PROVE  /\ Spend(b, "search", n) \in BudgetRec /\ Spend(b, "search", n).model = b.model
         /\ Spend(b, "search", n).action = b.action
         /\ Spend(b, "action", n) \in BudgetRec /\ Spend(b, "action", n).model = b.model
         /\ Spend(b, "action", n).action = b.action + n
         /\ Spend(b, "model", n) \in BudgetRec /\ Spend(b, "model", n).model = b.model + n
         /\ Spend(b, "model", n).action = b.action
BY DEF Spend, BudgetRec

\* A search changes the searches and the time, and finds what Bundles or Failed are.
LEMMA RetrievalsGive ==
  ASSUME NEW b \in BudgetRec, NEW r \in Retrievals(b)
  PROVE  /\ r.b \in BudgetRec /\ r.b.model = b.model /\ r.b.action = b.action
         /\ r.found \subseteq Bundles \cup {Failed}
<1>1. PICK once \in BudgetRec : once = Spend(b, "search", 1) /\ once.model = b.model /\ once.action = b.action
    BY SpendIs
<1>2. PICK twice \in BudgetRec : twice = Spend(b, "search", 2) /\ twice.model = b.model /\ twice.action = b.action
    BY SpendIs
<1>3. PICK late \in BudgetRec : late = [once EXCEPT !.time = 0] /\ late.model = b.model /\ late.action = b.action
  <2>1. LET c == [once EXCEPT !.time = 0]
        IN c \in BudgetRec /\ c.model = once.model /\ c.action = once.action
      BY DEF BudgetRec
  <2> QED
      BY <1>1, <2>1
<1>4. /\ r.b \in {b, once, twice, late} /\ r.found \in {{}, Bundles \cup {Failed}}
    BY <1>1, <1>2, <1>3 DEF Retrievals
<1> QED
    BY <1>1, <1>2, <1>3, <1>4

\* Whatever the corpus moves to, a bundle holds passages of it, and of these
\* offers the model only what it may use.
FoundRec == [passages : SUBSET Items, model : SUBSET Items, cut : BOOLEAN, reason : Reasons]
Honest(b) == b.model \subseteq b.passages \cap ModelUse

LEMMA BundlesHonest ==
  ASSUME corpus \in [Passages -> Versions], NEW b \in Bundles \cup {Failed}
  PROVE  /\ b \in FoundRec /\ Honest(b)
         /\ Evidenced(b) \in BundleRec /\ Honest(Evidenced(b))
<1>1. b \in FoundRec /\ Honest(b)
  <2>1. CASE b = Failed
      BY <2>1 DEF Failed, FoundRec, Reasons, Honest
  <2>2. CASE b \in Bundles
    <3>1. Current \subseteq Items
        BY DEF Current, Items
    <3>2. PICK found \in SUBSET Items, read \in SUBSET Items, partial \in BOOLEAN, cut \in BOOLEAN :
            b = Admitted(found, read, partial, cut)
        BY <2>2, <3>1 DEF Bundles
    <3> DEFINE seen == found \cap read
               reason == CASE found = {} -> "no_match"
                           [] found # {} /\ (partial \/ found # seen) -> "evidence_insufficient"
                           [] OTHER -> IF seen \cap ModelUse = {} THEN "evidence_restricted" ELSE "evidence_available"
    <3>3. reason \in Reasons
        BY DEF Reasons
    <3>4. b = [passages |-> seen, model |-> seen \cap ModelUse, cut |-> cut /\ found # seen, reason |-> reason]
        BY <3>2 DEF Admitted
    <3>5. seen \in SUBSET Items
        BY <3>2
    <3> HIDE DEF seen, reason
    <3> QED
        BY <3>3, <3>4, <3>5 DEF FoundRec, Honest
  <2> QED
      BY <2>1, <2>2
<1> QED
    BY <1>1 DEF Evidenced, FoundRec, BundleRec, Honest

\* A job that was searched for is done; its bundle joins those of the turn.
Carried(t, u, bundles) ==
  /\ u \in TurnRec /\ Keeps(t, u) /\ t.job \in u.done
  /\ u.bundles \subseteq bundles

LEMMA ResearchedCarries ==
  ASSUME NEW t \in TurnRec, NEW b \in FoundRec, Evidenced(b) \in BundleRec, NEW u \in Researched(t, b)
  PROVE  u = Idle \/ Carried(t, u, t.bundles \cup {Evidenced(b)})
<1> DEFINE s == IF b.reason = "evidence_available" THEN "draft_ready" ELSE "paused_gap"
<1>1. PICK d \in TurnRec : d = Done(t, s) /\ t.job \in d.done /\ d.bundles = t.bundles /\ Keeps(t, d)
  <2>1. s \in TurnStatuses
      BY DEF TurnStatuses
  <2> QED
      BY <2>1, DoneKeeps
<1>2. PICK query \in AnyQuery, e \in BundleRec, r \in Reasons, stop \in Stops, uses \in BOOLEAN :
        /\ query = TargetOf(t) /\ e = Evidenced(b) /\ r = b.reason /\ uses = t.job.uses
        /\ stop = IF b.cut THEN "budget_exhausted" ELSE Done(t, s).stop
  <2>1. "budget_exhausted" \in Stops /\ d.stop \in Stops /\ t.job.uses \in BOOLEAN
      BY DEF Stops, TurnRec, AnyJob
  <2> QED
      BY <1>1, <2>1, TargetTyped DEF FoundRec
<1>3. "research" \in Intents
    BY DEF Intents
<1> DEFINE found == [d EXCEPT !.msg.intent = "research", !.msg.query = query,
                              !.bundles = @ \cup {e}, !.last = r, !.stop = stop]
<1>4. /\ found \in TurnRec /\ Keeps(d, found) /\ found.done = d.done
      /\ found.bundles = d.bundles \cup {e} /\ found.dialogue = d.dialogue
    BY <1>3, ZenonT(60) DEF TurnRec, MessageRec, Keeps
<1> DEFINE kept == [t.dialogue EXCEPT !.deferred = IF @ = query THEN NoQuery ELSE @,
                                      !.status = IF t.job.uses \/ t.msg.facts THEN @ ELSE "suspended"]
<1>5. PICK k \in DialogueRec : k = kept
  <2>1. t.dialogue \in DialogueRec /\ NoQuery \in AnyQuery /\ "suspended" \in DialogueStatuses
      BY DEF TurnRec, AnyQuery, DialogueStatuses
  <2>2. kept \in DialogueRec
      BY <2>1 DEF DialogueRec
  <2> QED
      BY <2>2
<1>6. Owned(t.dialogue, t.control) => Owned(k, t.control)
  <2>1. t.dialogue \in DialogueRec
      BY DEF TurnRec
  <2>2. k.pending = t.dialogue.pending /\ (k.status = "active" => t.dialogue.status = "active")
      BY <1>5, <2>1 DEF DialogueRec
  <2> QED
      BY <2>2 DEF Owned
<1>7. \/ u = Idle
      \/ u = [found EXCEPT !.status = "partial_failure", !.error = TRUE, !.dialogue.deferred = query,
                           !.dialogue.uses = uses]
      \/ u = [found EXCEPT !.dialogue = k]
      \/ u = [found EXCEPT !.dialogue = Settled(k)]
      \/ \E x \in Asked(k, t.control.active.id) : u = Asking(found, x)
    BY <1>1, <1>2, <1>5 DEF Researched
<1> HIDE DEF found, kept
<1>8. Carried(t, found, t.bundles \cup {e})
    BY <1>1, <1>4 DEF Carried, Keeps
<1>9. found.control = t.control
    BY <1>8 DEF Carried, Keeps
<1>10. ASSUME NEW x \in DialogueRec, Owned(t.dialogue, t.control) => Owned(x, t.control)
      PROVE  Carried(t, [found EXCEPT !.dialogue = x], t.bundles \cup {e})
  <2>1. LET v == [found EXCEPT !.dialogue = x]
        IN /\ v \in TurnRec /\ v.done = found.done /\ v.bundles = found.bundles /\ v.dialogue = x
           /\ v.msg = found.msg /\ v.control = found.control /\ v.steps = found.steps
           /\ v.tools = found.tools /\ v.rewritten = found.rewritten /\ v.calls = found.calls
           /\ v.grounded = found.grounded /\ v.cited = found.cited /\ v.route = found.route
           /\ v.node = found.node /\ v.decision = found.decision
      BY <1>4 DEF TurnRec
  <2> QED
      BY <1>8, <1>10, <2>1 DEF Carried, Keeps
<1>11. Carried(t, [found EXCEPT !.status = "partial_failure", !.error = TRUE, !.dialogue.deferred = query,
                                !.dialogue.uses = uses], t.bundles \cup {e})
  <2>1. "partial_failure" \in TurnStatuses
      BY DEF TurnStatuses
  <2>2. PICK x \in DialogueRec : /\ x = [found.dialogue EXCEPT !.deferred = query, !.uses = uses]
                                 /\ x.pending = found.dialogue.pending /\ x.status = found.dialogue.status
    <3>1. found.dialogue \in DialogueRec
        BY <1>4 DEF TurnRec
    <3>2. LET x == [found.dialogue EXCEPT !.deferred = query, !.uses = uses]
          IN x \in DialogueRec /\ x.pending = found.dialogue.pending /\ x.status = found.dialogue.status
        BY <3>1 DEF DialogueRec
    <3> QED
        BY <3>2
  <2>3. Owned(found.dialogue, t.control) => Owned(x, t.control)
      BY <2>2 DEF Owned
  <2>4. LET v == [found EXCEPT !.status = "partial_failure", !.error = TRUE, !.dialogue = x]
        IN /\ v \in TurnRec /\ v.done = found.done /\ v.bundles = found.bundles /\ v.dialogue = x
           /\ v.msg = found.msg /\ v.control = found.control /\ v.steps = found.steps
           /\ v.tools = found.tools /\ v.rewritten = found.rewritten /\ v.calls = found.calls
           /\ v.grounded = found.grounded /\ v.cited = found.cited /\ v.route = found.route
           /\ v.node = found.node /\ v.decision = found.decision
      BY <1>4, <2>1 DEF TurnRec
  <2>5. [found EXCEPT !.status = "partial_failure", !.error = TRUE, !.dialogue.deferred = query,
                      !.dialogue.uses = uses]
          = [found EXCEPT !.status = "partial_failure", !.error = TRUE, !.dialogue = x]
      BY <1>4, <2>2 DEF TurnRec
  <2> QED
      BY <1>8, <2>4, <2>3, <2>5 DEF Carried, Keeps
<1>12. ASSUME NEW x \in Asked(k, t.control.active.id)
       PROVE  Carried(t, Asking(found, x), t.bundles \cup {e})
  <2>1. t.control.active.id \in Nat
      BY DEF TurnRec, ControlRec, TaskRec
  <2>2. x \in DialogueRec /\ Owned(x, found.control)
      BY <1>9, <2>1, AskedTyped, AskedOwned
  <2> QED
      BY <1>4, <1>8, <2>2, AskingKeeps DEF Carried, Keeps
<1>13. Settled(k) \in DialogueRec /\ Owned(Settled(k), t.control)
  <2>1. t.control.active.id \in Nat
      BY DEF TurnRec, ControlRec, TaskRec
  <2> QED
      BY <2>1, AskedTyped, AskedOwned
<1> QED
    BY <1>2, <1>7, <1>10, <1>11, <1>12, <1>13, <1>6

LEMMA AnsweredCarries ==
  ASSUME NEW t \in TurnRec, NEW status \in TurnStatuses, NEW found
  PROVE  /\ Carried(t, Done(t, status), t.bundles \cup found)
         /\ Carried(t, [Done(t, status) EXCEPT !.question = NoQuestion], t.bundles \cup found)
         /\ Carried(t, [Done(t, status) EXCEPT !.question = NoQuestion, !.analysis = TRUE], t.bundles \cup found)
<1>1. PICK d \in TurnRec : d = Done(t, status) /\ t.job \in d.done /\ d.bundles = t.bundles /\ Keeps(t, d)
    BY DoneKeeps
<1>2. PICK q \in QuestionRec : q = NoQuestion
    BY NoQuestionTyped
<1>3. LET v == [d EXCEPT !.question = q]
      IN v \in TurnRec /\ Keeps(d, v) /\ v.done = d.done /\ v.bundles = d.bundles
    BY DEF TurnRec, Keeps
<1>4. LET v == [d EXCEPT !.question = q, !.analysis = TRUE]
      IN v \in TurnRec /\ Keeps(d, v) /\ v.done = d.done /\ v.bundles = d.bundles
    BY DEF TurnRec, Keeps
<1> QED
    BY <1>1, <1>2, <1>3, <1>4 DEF Carried, Keeps

HonestBundles == {e \in BundleRec : Honest(e)}

\* The question for the jurisdiction belongs to no task.
LEMMA ScopeAskedCarries ==
  ASSUME NEW t \in TurnRec, NEW found
  PROVE  Carried(t, Asking(Done(t, "waiting_user"),
                           [t.dialogue EXCEPT !.status = "active", !.pending = Question("scope", 0)]),
                 t.bundles \cup found)
<1>1. PICK d \in TurnRec : d = Done(t, "waiting_user") /\ t.job \in d.done /\ d.bundles = t.bundles /\ Keeps(t, d)
  <2>1. "waiting_user" \in TurnStatuses
      BY DEF TurnStatuses
  <2> QED
      BY <2>1, DoneKeeps
<1>2. PICK e \in DialogueRec : e = [t.dialogue EXCEPT !.status = "active", !.pending = Question("scope", 0)]
  <2>1. Question("scope", 0) \in QuestionRec
      BY DEF Question, QuestionRec, QuestionKinds
  <2>2. t.dialogue \in DialogueRec /\ "active" \in DialogueStatuses
      BY DEF TurnRec, DialogueStatuses
  <2> QED
      BY <2>1, <2>2 DEF DialogueRec
<1>3. Owned(e, d.control)
  <2>1. t.dialogue \in DialogueRec
      BY DEF TurnRec
  <2>2. e.pending.task = 0
      BY <1>2, <2>1 DEF DialogueRec, Question
  <2> QED
      BY <2>2 DEF Owned
<1> QED
    BY <1>1, <1>2, <1>3, AskingKeeps DEF Carried, Keeps

\* The searches of an analysis cost searches and time only.
LEMMA AnalysedCosts ==
  ASSUME NEW t \in TurnRec, NEW c \in BudgetRec, NEW x \in Analysed(t, c)
  PROVE  x.b \in BudgetRec /\ x.b.model = c.model /\ x.b.action = c.action
<1>1. ASSUME NEW y \in Consultations(c)
      PROVE  y.b \in BudgetRec /\ y.b.model = c.model /\ y.b.action = c.action
  <2>1. \/ y.b = c
        \/ \E r \in Retrievals(c) : y.b = r.b \/ \E q \in Retrievals(r.b) : y.b = q.b
      BY DEF Consultations
  <2>2. ASSUME NEW r \in Retrievals(c)
        PROVE  r.b \in BudgetRec /\ r.b.model = c.model /\ r.b.action = c.action
      BY RetrievalsGive
  <2>3. ASSUME NEW r \in Retrievals(c), NEW q \in Retrievals(r.b)
        PROVE  q.b \in BudgetRec /\ q.b.model = c.model /\ q.b.action = c.action
      BY <2>2, RetrievalsGive
  <2> QED
      BY <2>1, <2>2, <2>3
<1>2. x.b = c \/ \E y \in Consultations(c) : x.b = y.b
    BY DEF Analysed
<1> QED
    BY <1>1, <1>2

\* execute: what it costs and what it leaves.
LEMMA ExecutionsCarry ==
  ASSUME corpus \in [Passages -> Versions], NEW t \in TurnRec, NEW b \in BudgetRec,
         NEW x \in Executions(t, b)
  PROVE  /\ x.b \in BudgetRec /\ x.b.model = b.model
         /\ ~Affords(b, "action", 1) => x.b = b /\ x.t = Stopped(t)
         /\ Affords(b, "action", 1) =>
              /\ x.b.action = b.action + 1
              /\ x.t = Idle \/ Carried(t, x.t, t.bundles \cup HonestBundles)
<1> DEFINE spent == Spend(b, "action", 1)
<1>1. PICK c \in BudgetRec : c = spent /\ c.model = b.model /\ c.action = b.action + 1
    BY SpendIs
<1>2. CASE ~Affords(b, "action", 1)
    BY <1>2 DEF Executions
<1>3. CASE Affords(b, "action", 1) /\ t.job.kind = "consultation" /\ t.msg.analysis
  <2>1. x \in Analysed(t, c)
      BY <1>1, <1>3 DEF Executions
  <2>2. x.b \in BudgetRec /\ x.b.model = c.model /\ x.b.action = c.action
      BY <2>1, AnalysedCosts
  <2>3. CASE x.t = Stopped(t)
      BY <1>1, <1>3, <2>2, <2>3, StoppedKeeps DEF Carried
  <2>4. \/ x.t = Idle \/ x.t = Stopped(t)
        \/ \E status \in TurnStatuses : \/ x.t = [Done(t, status) EXCEPT !.question = NoQuestion]
                                        \/ x.t = [Done(t, status) EXCEPT !.question = NoQuestion, !.analysis = TRUE]
      BY <2>1 DEF Analysed, TurnStatuses
  <2> QED
      BY <1>1, <1>3, <2>2, <2>3, <2>4, AnsweredCarries, ZenonT(60)
<1>4. CASE /\ Affords(b, "action", 1) /\ ~(t.job.kind = "consultation" /\ t.msg.analysis)
           /\ t.msg.intent # "research" /\ t.job.query = NoQuery
  <2>1. x.t = Done(t, t.status) /\ x.b = c
      BY <1>1, <1>4 DEF Executions
  <2>2. t.status \in TurnStatuses
      BY DEF TurnRec
  <2> QED
      BY <1>1, <1>4, <2>1, <2>2, AnsweredCarries
<1>5. CASE /\ Affords(b, "action", 1) /\ ~(t.job.kind = "consultation" /\ t.msg.analysis)
           /\ ~(t.msg.intent # "research" /\ t.job.query = NoQuery)
  <2> DEFINE scope == Scope([t.job EXCEPT !.query = TargetOf(t)], t.msg.hint)
  <2>1. \/ /\ x.b = c
           /\ x.t = Asking(Done(t, "waiting_user"),
                           [t.dialogue EXCEPT !.status = "active", !.pending = Question("scope", 0)])
        \/ x.b = c /\ x.t = [Done(t, "unsupported") EXCEPT !.question = NoQuestion]
        \/ \E r \in Retrievals(c) :
             /\ x.b = r.b
             /\ IF r.found = {} THEN x.t = Stopped(t) ELSE \E e \in r.found : x.t \in Researched(t, e)
    <3>1. scope \in {"need_scope", "unsupported", "HK"}
        BY DEF Scope
    <3> HIDE DEF scope
    <3>2. CASE scope = "need_scope"
        BY <1>1, <1>5, <3>2 DEF Executions, scope
    <3>3. CASE scope = "unsupported"
        BY <1>1, <1>5, <3>3 DEF Executions, scope
    <3>4. CASE scope = "HK"
        BY <1>1, <1>5, <3>4 DEF Executions, scope
    <3> QED
        BY <3>1, <3>2, <3>3, <3>4
  <2>2. CASE \E r \in Retrievals(c) :
             /\ x.b = r.b
             /\ IF r.found = {} THEN x.t = Stopped(t) ELSE \E e \in r.found : x.t \in Researched(t, e)
    <3>1. PICK r \in Retrievals(c) :
             /\ x.b = r.b
             /\ IF r.found = {} THEN x.t = Stopped(t) ELSE \E e \in r.found : x.t \in Researched(t, e)
        BY <2>2
    <3>2. r.b \in BudgetRec /\ r.b.model = c.model /\ r.b.action = c.action /\ r.found \subseteq Bundles \cup {Failed}
        BY RetrievalsGive
    <3>3. x.t = Idle \/ Carried(t, x.t, t.bundles \cup HonestBundles)
      <4>1. CASE r.found = {}
          BY <3>1, <4>1, StoppedKeeps DEF Carried
      <4>2. CASE r.found # {}
        <5>1. PICK e \in Bundles \cup {Failed} : x.t \in Researched(t, e)
            BY <3>1, <3>2, <4>2
        <5>2. e \in FoundRec /\ Evidenced(e) \in BundleRec /\ Evidenced(e) \in HonestBundles
            BY BundlesHonest DEF HonestBundles
        <5>3. x.t = Idle \/ Carried(t, x.t, t.bundles \cup {Evidenced(e)})
            BY <5>1, <5>2, ResearchedCarries
        <5> QED
            BY <5>2, <5>3 DEF Carried
      <4> QED
          BY <4>1, <4>2
    <3> QED
        BY <1>1, <1>5, <3>1, <3>2, <3>3
  <2>3. {"unsupported", "waiting_user"} \subseteq TurnStatuses
      BY DEF TurnStatuses
  <2> QED
      BY <1>1, <1>5, <2>1, <2>2, <2>3, AnsweredCarries, ScopeAskedCarries, ZenonT(60)
<1> QED
    BY <1>2, <1>3, <1>4, <1>5

----------------------------------------------------------------------------
(***************************************************************************)
(* The focus                                                               *)
(***************************************************************************)
\* A case has at most two tasks at hand, and they are not the same one.
Apart(c) == c.suspended # NoTask => c.suspended.id # c.active.id
Focus(c, n) == /\ c \in ControlRec /\ Apart(c) /\ Len(c.queued) <= 2
               /\ c.active.id < n /\ c.suspended.id < n

\* What validate_turn leaves to the proofs.
Fit(m) == /\ m \in MessageRec /\ Len(m.tasks) <= 3
          /\ m.intent \in {"chat", "clarify", "unsupported"} => m.tasks = << >>

\* Each further part of a request is queued.
Queued(m, c) == m.action \notin {"pause", "new_case", "summary"} =>
                  \A i \in 2 .. Len(m.tasks) : \E k \in DOMAIN c.queued : c.queued[k] = m.tasks[i]

LEMMA NoTaskTyped == NoTask \in TaskRec /\ NoTask.id = 0
BY DEF NoTask, TaskRec, AnyKind, AnyQuery

LEMMA NewTaskTyped ==
  ASSUME NEW n \in Nat, NEW kind \in AnyKind
  PROVE  NewTask(n, kind) \in TaskRec /\ NewTask(n, kind).id = n
BY DEF NewTask, TaskRec, AnyQuery, TaskStatuses

LEMMA PutKeeps ==
  ASSUME NEW c \in ControlRec, NEW status \in TaskStatuses \cup {None}
  PROVE  /\ Put(c, status) \in ControlRec /\ Put(c, status).active.id = c.active.id
         /\ Put(c, status).suspended = c.suspended /\ Put(c, status).queued = c.queued
BY DEF Put, ControlRec, TaskRec

LEMMA RoutedFits ==
  ASSUME NEW m \in Messages, NEW c \in ControlRec, Len(c.queued) <= 2, NEW d \in DialogueRec
  PROVE  Fit(Routed(m, c, d))
<1>1. Fit(m)
    BY MessagesAssumption DEF Valid, Fit, MessageRec, AnyQuery, AnyKind
<1>2. /\ c.queued \in Seq(Jobs) /\ Len(c.queued) \in Nat
      /\ c.active.query \in AnyQuery /\ d.deferred \in AnyQuery /\ d.uses \in BOOLEAN
    BY DEF ControlRec, TaskRec, DialogueRec
<1>3. {"research", "intake"} \subseteq Intents /\ "reference_lookup" \in AnyKind
    BY DEF Intents, AnyKind, Kinds
<1>4. CASE m.action = "retry_research" /\ d.deferred # NoQuery
  <2>1. Routed(m, c, d) = [m EXCEPT !.intent = "research", !.query = d.deferred, !.uses = d.uses,
                                    !.kind = "reference_lookup"]
      BY <1>4 DEF Routed, ResumesQueue
  <2> QED
      BY <1>1, <1>2, <1>3, <2>1 DEF Fit, MessageRec
<1>5. CASE ~(m.action = "retry_research" /\ d.deferred # NoQuery) /\ ResumesQueue(m, c, d)
  <2>1. c.queued[1] \in Jobs
      BY <1>2, <1>5 DEF ResumesQueue
  <2>2. PICK intent \in {"intake", "research"}, query \in AnyQuery, uses \in BOOLEAN, kind \in AnyKind :
          /\ intent = IF c.queued[1].query = NoQuery THEN "intake" ELSE "research"
          /\ query = c.queued[1].query /\ uses = c.queued[1].uses /\ kind = c.queued[1].kind
      BY <2>1 DEF Jobs, AnyQuery, AnyKind
  <2>3. Routed(m, c, d) = [m EXCEPT !.intent = intent, !.query = query, !.uses = uses,
                                    !.kind = kind, !.tasks = c.queued]
    <3>1. Routed(m, c, d) =
            [m EXCEPT !.intent = IF c.queued[1].query = NoQuery THEN "intake" ELSE "research",
                      !.query = c.queued[1].query, !.uses = c.queued[1].uses,
                      !.kind = c.queued[1].kind, !.tasks = c.queued]
        BY <1>5 DEF Routed, ResumesQueue
    <3> QED
        BY <2>2, <3>1
  <2>4. LET e == [m EXCEPT !.intent = intent, !.query = query, !.uses = uses, !.kind = kind, !.tasks = c.queued]
        IN e \in MessageRec /\ e.intent = intent /\ e.tasks = c.queued
      BY <1>1, <1>2, <1>3 DEF Fit, MessageRec
  <2> QED
      BY <1>2, <2>3, <2>4 DEF Fit
<1>6. CASE /\ ~(m.action = "retry_research" /\ d.deferred # NoQuery)
           /\ m.action = "resume" /\ ~ResumesQueue(m, c, d) /\ c.active.kind = "reference_lookup"
           /\ c.active.status # "completed" /\ c.active.query # NoQuery
  <2>1. Routed(m, c, d) = [m EXCEPT !.intent = "research", !.query = c.active.query, !.kind = "reference_lookup"]
      BY <1>6 DEF Routed
  <2> QED
      BY <1>1, <1>2, <1>3, <2>1 DEF Fit, MessageRec
<1>7. CASE /\ ~(m.action = "retry_research" /\ d.deferred # NoQuery) /\ ~ResumesQueue(m, c, d)
           /\ ~(m.action = "resume" /\ c.active.kind = "reference_lookup"
                /\ c.active.status # "completed" /\ c.active.query # NoQuery)
  <2>1. Routed(m, c, d) = m
      BY <1>7 DEF Routed
  <2> QED
      BY <1>1, <2>1
<1> QED
    BY <1>4, <1>5, <1>6, <1>7

LEMMA ResumedKeeps ==
  ASSUME NEW m, NEW n \in Nat \ {0}, NEW c, Focus(c, n)
  PROVE  /\ Focus(Resumed(m, c), n) /\ Resumed(m, c).queued = c.queued
         /\ Resumed(m, c) # c => m.action = "resume" /\ Resumed(m, c).suspended = NoTask
<1>1. CASE m.action = "resume" /\ c.suspended # NoTask
  <2>1. PICK none \in TaskRec : none = NoTask /\ none.id = 0
      BY NoTaskTyped
  <2>2. Resumed(m, c) = [c EXCEPT !.active = c.suspended, !.suspended = none]
      BY <1>1, <2>1 DEF Resumed
  <2>3. LET e == [c EXCEPT !.active = c.suspended, !.suspended = none]
        IN e \in ControlRec /\ e.active = c.suspended /\ e.suspended = none /\ e.queued = c.queued
      BY DEF Focus, ControlRec
  <2> QED
      BY <1>1, <2>1, <2>2, <2>3 DEF Focus, Apart
<1>2. CASE ~(m.action = "resume" /\ c.suspended # NoTask)
    BY <1>2 DEF Resumed
<1> QED
    BY <1>1, <1>2

LEMMA KindTyped ==
  ASSUME NEW m, Fit(m), NEW task \in TaskRec, NEW d, NEW p \in Seq(AnyJob)
  PROVE  KindOf(m, task, d, p) \in AnyKind
<1>1. HintKind(m.hint) \in AnyKind
    BY DEF Fit, MessageRec, Hints, HintKind, HintTask, AnyKind, Kinds
<1>2. p # << >> => p[1].kind \in AnyKind
  <2>1. p # << >> => p[1] \in AnyJob
      OBVIOUS
  <2> QED
      BY <2>1 DEF AnyJob
<1>3. task.kind \in AnyKind /\ "reference_lookup" \in AnyKind
    BY DEF TaskRec, AnyKind, Kinds
<1> QED
    BY <1>1, <1>2, <1>3 DEF KindOf

LEMMA ProposalsTyped ==
  ASSUME NEW m, Fit(m)
  PROVE  /\ Proposals(m) \in Seq(AnyJob) /\ Len(Proposals(m)) <= 3
         /\ m.tasks # << >> => Proposals(m) = m.tasks
         /\ Proposals(m) # << >> => Tail(Proposals(m)) \in Seq(Jobs)
<1>1. m.tasks \in Seq(Jobs) /\ Len(m.tasks) <= 3 /\ Len(m.tasks) \in Nat /\ m.query \in AnyQuery
      /\ m.uses \in BOOLEAN /\ m.kind \in AnyKind
    BY DEF Fit, MessageRec
<1>2. Jobs \subseteq AnyJob
    BY DEF Jobs, AnyJob, AnyKind, AnyQuery
<1>3. CASE m.tasks # << >>
  <2>1. Proposals(m) = m.tasks
      BY <1>3 DEF Proposals
  <2>2. m.tasks \in Seq(AnyJob)
      BY <1>1, <1>2
  <2>3. Tail(m.tasks) \in Seq(Jobs)
      BY <1>1, <1>3
  <2> QED
      BY <1>1, <1>3, <2>1, <2>2, <2>3
<1>4. CASE m.tasks = << >>
  <2>1. PICK k \in AnyKind : k = "consultation"
      BY DEF AnyKind, Kinds
  <2>2. Job(k, m.query, m.uses) \in AnyJob /\ Job(m.kind, m.query, m.uses) \in AnyJob
      BY <1>1 DEF Job, AnyJob
  <2>3. \A j \in AnyJob : /\ <<j>> \in Seq(AnyJob) /\ Len(<<j>>) = 1 /\ Tail(<<j>>) = << >>
      OBVIOUS
  <2>4. << >> \in Seq(AnyJob) /\ << >> \in Seq(Jobs) /\ Len(<< >>) = 0
      OBVIOUS
  <2>5. CASE m.analysis
    <3>1. Proposals(m) = <<Job(k, m.query, m.uses)>>
        BY <1>4, <2>1, <2>5 DEF Proposals
    <3> QED
        BY <1>4, <2>2, <2>3, <2>4, <3>1
  <2>6. CASE ~m.analysis /\ m.kind = None
    <3>1. Proposals(m) = << >>
        BY <1>4, <2>6 DEF Proposals
    <3> QED
        BY <1>4, <2>4, <3>1
  <2>7. CASE ~m.analysis /\ m.kind # None
    <3>1. Proposals(m) = <<Job(m.kind, m.query, m.uses)>>
        BY <1>4, <2>7 DEF Proposals
    <3> QED
        BY <1>4, <2>2, <2>3, <2>4, <3>1
  <2> QED
      BY <2>5, <2>6, <2>7
<1> QED
    BY <1>3, <1>4

LEMMA TailQueues ==
  ASSUME NEW tasks \in Seq(Jobs), Len(tasks) <= 3, tasks # << >>
  PROVE  /\ Tail(tasks) \in Seq(Jobs) /\ Len(Tail(tasks)) <= 2
         /\ \A i \in 2 .. Len(tasks) : \E k \in DOMAIN Tail(tasks) : Tail(tasks)[k] = tasks[i]
<1>1. /\ Tail(tasks) \in Seq(Jobs) /\ Len(Tail(tasks)) = Len(tasks) - 1 /\ Len(tasks) \in Nat
      /\ DOMAIN Tail(tasks) = 1 .. Len(tasks) - 1
    OBVIOUS
<1>2. ASSUME NEW i \in 2 .. Len(tasks)
      PROVE  \E k \in DOMAIN Tail(tasks) : Tail(tasks)[k] = tasks[i]
  <2>1. i - 1 \in 1 .. Len(tasks) - 1 /\ (i - 1) + 1 = i
      BY <1>1
  <2>2. Tail(tasks)[i - 1] = tasks[(i - 1) + 1]
      BY <1>1, <2>1
  <2> QED
      BY <1>1, <2>1, <2>2
<1> QED
    BY <1>1, <1>2

\* What routing makes of the control record: ids stay below the next turn's, the
\* parts of the request are queued, and only a resume touches a suspended task.
Refocused(m, c, e, n) ==
  /\ e \in ControlRec /\ Apart(e) /\ Len(e.queued) <= 2
  /\ e.active.id <= n /\ e.suspended.id < n
  /\ Queued(m, e)
  /\ c.suspended # NoTask /\ e.suspended # c.suspended => m.action = "resume"
  /\ m.action = "summary" => e.active.id = c.active.id

LEMMA FocusedKeeps ==
  ASSUME NEW m, Fit(m), NEW n \in Nat \ {0}, NEW c, Focus(c, n), NEW d,
         m.action # "summary", ~Idles(m), ~NeedsFocus(m, c, d)
  PROVE  Refocused(m, c, Focused(m, c, d, n), n)
<1>1. PICK r \in ControlRec : r = Resumed(m, c)
    BY ResumedKeeps DEF Focus
<1>2. /\ Focus(r, n) /\ r.queued = c.queued
      /\ r # c => m.action = "resume" /\ r.suspended = NoTask
    BY <1>1, ResumedKeeps
<1>3. PICK p \in Seq(AnyJob) : p = Proposals(m)
    BY ProposalsTyped
<1>4. /\ r.active \in TaskRec /\ r.suspended \in TaskRec /\ r.queued \in Seq(Jobs)
      /\ r.active.id \in Nat /\ r.suspended.id \in Nat
    BY DEF ControlRec, TaskRec
<1>5. PICK kind \in AnyKind : kind = KindOf(m, r.active, d, p)
    BY <1>4, KindTyped
<1>6. PICK fresh \in TaskRec : fresh = NewTask(n, kind) /\ fresh.id = n
    BY NewTaskTyped
<1> DEFINE switch == Unfinished(r.active) /\ r.active.kind # kind
           task == IF Unfinished(r.active) /\ r.active.kind = kind THEN r.active ELSE fresh
           active == [task EXCEPT !.status = "active"]
           suspended == IF switch THEN [r.active EXCEPT !.status = "paused"] ELSE r.suspended
           queued == IF p = << >> THEN r.queued ELSE Tail(p)
<1>7. Focused(m, c, d, n) = [active |-> active, suspended |-> suspended, queued |-> queued]
    BY <1>1, <1>3, <1>5, <1>6 DEF Focused
<1>8. active \in TaskRec /\ active.id = task.id /\ task.id <= n
  <2>1. task \in TaskRec /\ task.id <= n
      BY <1>2, <1>4, <1>6 DEF Focus
  <2>2. "active" \in TaskStatuses
      BY DEF TaskStatuses
  <2> HIDE DEF task
  <2> QED
      BY <2>1, <2>2 DEF TaskRec
<1>9. suspended \in TaskRec /\ suspended.id < n /\ (~switch => suspended = r.suspended)
      /\ (switch => suspended.id = r.active.id)
  <2>1. "paused" \in TaskStatuses
      BY DEF TaskStatuses
  <2>2. LET s == [r.active EXCEPT !.status = "paused"]
        IN s \in TaskRec /\ s.id = r.active.id
      BY <1>4, <2>1 DEF TaskRec
  <2> QED
      BY <1>2, <1>4, <2>2 DEF Focus
<1>10. switch => r.suspended = NoTask
    BY <1>1, <1>2, <1>3, <1>5 DEF NeedsFocus, Focus, Apart
<1>11. queued \in Seq(Jobs) /\ Len(queued) <= 2 /\ (m.tasks # << >> => queued = Tail(m.tasks))
  <2>1. CASE p = << >>
      BY <1>2, <1>3, <1>4, <2>1, ProposalsTyped DEF Focus
  <2>2. CASE p # << >>
    <3>1. Tail(p) \in Seq(Jobs) /\ Len(p) <= 3 /\ (m.tasks # << >> => p = m.tasks)
        BY <1>3, <2>2, ProposalsTyped
    <3>2. Len(Tail(p)) = Len(p) - 1 /\ Len(p) \in Nat
        BY <2>2
    <3> QED
        BY <2>2, <3>1, <3>2
  <2> QED
      BY <2>1, <2>2
<1>12. switch => task = fresh
    OBVIOUS
<1>13. ~switch => task = r.active \/ task = fresh
    OBVIOUS
<1> HIDE DEF switch, task, active, suspended, queued
<1> DEFINE e == [active |-> active, suspended |-> suspended, queued |-> queued]
<1>14. e \in ControlRec /\ e.active = active /\ e.suspended = suspended /\ e.queued = queued
    BY <1>8, <1>9, <1>11 DEF ControlRec
<1>15. Apart(e)
    BY <1>2, <1>4, <1>6, <1>8, <1>9, <1>12, <1>13, <1>14 DEF Apart, Focus
<1>16. Queued(m, e)
  <2>1. CASE m.tasks = << >>
      BY <2>1 DEF Queued
  <2>2. CASE m.tasks # << >>
    <3>1. m.tasks \in Seq(Jobs) /\ Len(m.tasks) <= 3
        BY DEF Fit, MessageRec
    <3> QED
        BY <1>11, <1>14, <2>2, <3>1, TailQueues, SMTT(30), ZenonT(60) DEF Queued
  <2> QED
      BY <2>1, <2>2
<1>17. c.suspended # NoTask /\ e.suspended # c.suspended => m.action = "resume"
    BY <1>2, <1>9, <1>10, <1>14
<1> HIDE DEF e
<1>18. e.active.id <= n /\ e.suspended.id < n /\ Len(e.queued) <= 2
    BY <1>8, <1>9, <1>11, <1>14
<1> QED
    BY <1>7, <1>14, <1>15, <1>16, <1>17, <1>18 DEF Refocused, e

LEMMA ResolveKeeps ==
  ASSUME NEW m, Fit(m), NEW n \in Nat \ {0}, NEW c, Focus(c, n), NEW d, ~NeedsFocus(m, c, d)
  PROVE  Refocused(m, c, Resolve(m, c, d, n), n)
<1>1. CASE m.action = "summary"
    BY <1>1 DEF Resolve, Refocused, Focus, Queued, ControlRec, TaskRec
<1>2. CASE m.action # "summary" /\ Idles(m)
  <2>1. PICK r \in ControlRec : r = Resumed(m, c)
      BY ResumedKeeps DEF Focus
  <2>2. Focus(r, n) /\ (r # c => m.action = "resume")
      BY <2>1, ResumedKeeps
  <2>3. PICK s \in TaskStatuses \cup {None} :
          s = IF m.intent = "chat" \/ m.action \in {"pause", "new_case"} THEN "paused" ELSE "blocked_gap"
      BY DEF TaskStatuses
  <2>4. PICK e \in ControlRec : /\ e = Put(r, s) /\ e.active.id = r.active.id
                                /\ e.suspended = r.suspended /\ e.queued = r.queued
      BY PutKeeps
  <2>5. Resolve(m, c, d, n) = e
      BY <1>2, <2>1, <2>3, <2>4 DEF Resolve
  <2>6. Queued(m, e)
    <3>1. m.action \notin {"pause", "new_case"} => m.tasks = << >>
        BY <1>2 DEF Idles, Fit
    <3> QED
        BY <3>1 DEF Queued
  <2>7. r.active.id \in Nat
      BY DEF ControlRec, TaskRec
  <2> QED
      BY <2>2, <2>4, <2>5, <2>6, <2>7 DEF Refocused, Focus, Apart
<1>3. CASE m.action # "summary" /\ ~Idles(m)
  <2>1. Resolve(m, c, d, n) = Focused(m, c, d, n)
      BY <1>3 DEF Resolve
  <2> QED
      BY <1>3, <2>1, FocusedKeeps
<1> QED
    BY <1>1, <1>2, <1>3

LEMMA FirstJobTyped ==
  ASSUME NEW m, Fit(m), NEW c \in ControlRec
  PROVE  FirstJob(m, c) \in AnyJob
<1>1. /\ m.query \in AnyQuery /\ m.uses \in BOOLEAN /\ c.active.kind \in AnyKind
      /\ "consultation" \in AnyKind
    BY DEF Fit, MessageRec, ControlRec, TaskRec, AnyKind, Kinds
<1>2. PICK p \in Seq(AnyJob) : p = Proposals(m)
    BY ProposalsTyped
<1>3. PICK kind \in AnyKind : kind = IF c.active = NoTask THEN "consultation" ELSE c.active.kind
    BY <1>1
<1>4. PICK j \in AnyJob : j = IF p # << >> THEN p[1] ELSE Job(kind, m.query, m.uses)
  <2>1. Job(kind, m.query, m.uses) \in AnyJob
      BY <1>1 DEF Job, AnyJob
  <2>2. p # << >> => p[1] \in AnyJob
      OBVIOUS
  <2> QED
      BY <2>1, <2>2
<1>5. FirstJob(m, c) \in {j, [j EXCEPT !.query = m.query]}
    BY <1>2, <1>3, <1>4 DEF FirstJob
<1>6. [j EXCEPT !.query = m.query] \in AnyJob
    BY <1>1 DEF AnyJob
<1> QED
    BY <1>5, <1>6

LEMMA RememberKeeps ==
  ASSUME NEW m, NEW c, NEW n \in Nat, NEW e, Refocused(m, c, e, n), NEW job \in AnyJob
  PROVE  Refocused(m, c, Remember(e, job), n)
<1>1. CASE e.active = NoTask
    BY <1>1 DEF Remember
<1>2. CASE e.active # NoTask
  <2>1. e \in ControlRec /\ job.query \in AnyQuery
      BY DEF Refocused, AnyJob
  <2>2. PICK q \in AnyQuery : q = job.query
      BY <2>1
  <2>3. Remember(e, job) = [e EXCEPT !.active.query = q]
      BY <1>2, <2>2 DEF Remember
  <2>4. LET f == [e EXCEPT !.active.query = q]
        IN f \in ControlRec /\ f.active.id = e.active.id /\ f.suspended = e.suspended /\ f.queued = e.queued
      BY <2>1 DEF ControlRec, TaskRec
  <2> QED
      BY <2>3, <2>4 DEF Refocused, Apart, Queued
<1> QED
    BY <1>1, <1>2

----------------------------------------------------------------------------
(***************************************************************************)
(* route and facts                                                         *)
(***************************************************************************)
\* What a turn is when its first node is chosen.
Opens(r, c, t) ==
  /\ t \in TurnRec /\ t.msg.tasks = r.tasks /\ t.msg.action = r.action /\ t.control = c
  /\ t.done = {} /\ t.bundles = {} /\ t.calls = {} /\ t.cited = {} /\ t.steps = 0
  /\ ~t.grounded /\ ~t.rewritten
  /\ t.node \in {"work", "plan", "validate"} /\ t.tools = (t.node = "plan")

LEMMA StartedOpens ==
  ASSUME NEW r, Fit(r), NEW n \in Nat \ {0}, Focus(control, n), dialogue \in DialogueRec,
         NEW route \in RouteRec, ~NeedsFocus(r, control, dialogue)
  PROVE  \E c \in ControlRec : /\ Refocused(r, control, c, n)
                               /\ Opens(r, c, Started(r, n, route))
                               /\ Started(r, n, route).node = "work"
<1>1. PICK e \in ControlRec : e = Resolve(r, control, dialogue, n) /\ Refocused(r, control, e, n)
    BY ResolveKeeps DEF Refocused
<1>2. PICK job \in AnyJob : job = FirstJob(r, e)
    BY FirstJobTyped
<1>3. PICK c \in ControlRec : c = Remember(e, job) /\ Refocused(r, control, c, n)
  <2>1. Refocused(r, control, Remember(e, job), n)
      BY <1>1, RememberKeeps
  <2>2. Remember(e, job) \in ControlRec
      BY <2>1 DEF Refocused
  <2> QED
      BY <2>1, <2>2
<1>4. PICK d \in DialogueRec, q \in QuestionRec, none \in DecisionRec :
        d = dialogue /\ q = NoQuestion /\ none = NoDecision
  <2>1. NoDecision \in DecisionRec
      BY DEF NoDecision, DecisionRec, Tools, Wordings
  <2> QED
      BY <2>1, NoQuestionTyped
<1>5. PICK eligible \in BOOLEAN : eligible = route.eligible
    BY DEF RouteRec
<1>6. r \in MessageRec
    BY DEF Fit
<1> DEFINE t == [node |-> "work", msg |-> r, job |-> job, control |-> c, dialogue |-> d,
                 question |-> q, status |-> "ready", error |-> FALSE, analysis |-> FALSE,
                 done |-> {}, bundles |-> {}, last |-> None, rewritten |-> FALSE,
                 tools |-> FALSE, stop |-> None, decision |-> none, calls |-> {}, steps |-> 0,
                 route |-> route, eligible |-> eligible, cited |-> {}, grounded |-> FALSE]
<1>7. Started(r, n, route) = t
    BY <1>1, <1>2, <1>3, <1>4, <1>5 DEF Started
<1>8. /\ "work" \in Nodes /\ "ready" \in TurnStatuses /\ None \in Reasons \cup {None} /\ None \in Stops
      /\ FALSE \in BOOLEAN /\ 0 \in Nat
    BY DEF Nodes, TurnStatuses, Stops
<1>9. t \in TurnRec
    BY <1>6, <1>8 DEF TurnRec
<1>10. Opens(r, c, t) /\ t.node = "work"
    BY <1>9 DEF Opens
<1> HIDE DEF t
<1>11. Opens(r, c, Started(r, n, route)) /\ Started(r, n, route).node = "work"
    BY <1>7, <1>10
<1> QED
    BY <1>3, <1>11

LEMMA InterviewedTyped ==
  ASSUME NEW m \in MessageRec, NEW d \in DialogueRec, NEW c, NEW id \in Nat, id = c.active.id,
         NEW i \in Interviewed(m, d, id)
  PROVE  /\ i.d \in DialogueRec /\ i.q \in QuestionRec /\ i.intent \in Intents
         /\ m.action # "summary" => Owned(i.d, c)
<1> DEFINE Ok(x) == x.d \in DialogueRec /\ x.q \in QuestionRec /\ x.intent \in Intents
<1>1. /\ m.intent \in Intents /\ {"research", "intake"} \subseteq Intents /\ m.query \in AnyQuery
      /\ {"active", "paused", "suspended"} \subseteq DialogueStatuses
    BY DEF MessageRec, Intents, DialogueStatuses
<1>2. /\ Owned(Hushed(m, d), c) /\ Owned([d EXCEPT !.status = "suspended"], c)
      /\ Owned([d EXCEPT !.status = "active", !.pending = Question("mode", id)], c)
      /\ \A e \in Asked(d, id) : Owned(e, c) /\ Owned([e EXCEPT !.deferred = m.query], c)
      /\ Owned(Settled(d), c)
  <2>1. /\ Hushed(m, d).status \in {"paused", "suspended"}
        /\ [d EXCEPT !.status = "suspended"].status = "suspended"
        /\ [d EXCEPT !.status = "active", !.pending = Question("mode", id)].pending.task = id
      BY DEF Hushed, DialogueRec, Question
  <2>2. Asked(d, id) \subseteq DialogueRec /\ \A e \in Asked(d, id) : Owned(e, c)
      BY AskedTyped, AskedOwned
  <2>3. \A e \in Asked(d, id) : /\ [e EXCEPT !.deferred = m.query].pending = e.pending
                                 /\ [e EXCEPT !.deferred = m.query].status = e.status
      BY <2>2 DEF DialogueRec
  <2> QED
      BY <2>1, <2>2, <2>3, AskedOwned DEF Owned
<1>3. /\ Hushed(m, d) \in DialogueRec
      /\ [d EXCEPT !.status = "suspended"] \in DialogueRec
      /\ [d EXCEPT !.status = "active", !.pending = Question("mode", id)] \in DialogueRec
      /\ Question("mode", id) \in QuestionRec
  <2>1. Question("mode", id) \in QuestionRec
      BY DEF Question, QuestionRec, QuestionKinds
  <2> QED
      BY <1>1, <2>1 DEF Hushed, DialogueRec
<1>4. \A e \in DialogueRec : /\ e.pending \in QuestionRec
                             /\ [e EXCEPT !.deferred = m.query] \in DialogueRec
    BY <1>1 DEF DialogueRec
<1>5. Asked(d, id) \subseteq DialogueRec /\ Settled(d) \in DialogueRec
    BY AskedTyped
<1>6. CASE m.action = "summary"
  <2>1. i = [d |-> d, q |-> NoQuestion, intent |-> m.intent]
      BY <1>6 DEF Interviewed
  <2> QED
      BY <1>1, <1>6, <2>1, NoQuestionTyped
<1>7. CASE m.action # "summary" /\ AsksNothing(m)
  <2>1. i = [d |-> Hushed(m, d), q |-> NoQuestion, intent |-> m.intent]
      BY <1>7 DEF Interviewed
  <2> QED
      BY <1>1, <1>3, <1>7, <1>2, <2>1, NoQuestionTyped
<1>8. CASE m.action # "summary" /\ ~AsksNothing(m)
  <2>1. \/ i = [d |-> [d EXCEPT !.status = "active", !.pending = Question("mode", id)],
                q |-> Question("mode", id), intent |-> m.intent]
        \/ i = [d |-> [d EXCEPT !.status = "suspended"], q |-> NoQuestion, intent |-> "research"]
        \/ \E e \in Asked(d, id) : i = [d |-> [e EXCEPT !.deferred = m.query], q |-> e.pending, intent |-> "intake"]
        \/ i = [d |-> Settled(d), q |-> NoQuestion, intent |-> "intake"]
        \/ \E e \in Asked(d, id) : i = [d |-> e, q |-> e.pending, intent |-> "intake"]
    <3>1. CASE m.intent \in {"clarify", "unsupported"}
        BY <1>8, <3>1 DEF Interviewed
    <3>2. CASE m.intent = "research"
        BY <1>8, <3>2 DEF Interviewed
    <3>3. CASE m.intent \notin {"clarify", "unsupported"} /\ m.intent # "research"
        BY <1>8, <3>3 DEF Interviewed
    <3> QED
        BY <3>1, <3>2, <3>3
  <2>2. ASSUME NEW e \in Asked(d, id),
               \/ i = [d |-> [e EXCEPT !.deferred = m.query], q |-> e.pending, intent |-> "intake"]
               \/ i = [d |-> e, q |-> e.pending, intent |-> "intake"]
        PROVE  i.d \in DialogueRec /\ i.q \in QuestionRec /\ i.intent \in Intents /\ Owned(i.d, c)
    <3>1. /\ e \in DialogueRec /\ e.pending \in QuestionRec
          /\ [e EXCEPT !.deferred = m.query] \in DialogueRec
        BY <1>4, <1>5
    <3> QED
        BY <1>1, <1>2, <2>2, <3>1
  <2>3. CASE i = [d |-> Settled(d), q |-> NoQuestion, intent |-> "intake"]
      BY <1>1, <1>5, <1>2, <2>3, NoQuestionTyped
  <2> QED
      BY <1>1, <1>3, <1>2, <2>1, <2>2, <2>3, NoQuestionTyped
<1> QED
    BY <1>6, <1>7, <1>8

LEMMA BegunOpens ==
  ASSUME NEW r, NEW c \in ControlRec, NEW t \in TurnRec, Opens(r, c, t), t.node = "work",
         dialogue \in DialogueRec, NEW u \in Begun(t)
  PROVE  /\ Opens(r, c, u)
         /\ r.action # "summary" => Owned(u.dialogue, c)
         /\ r.action = "summary" => u.node = "validate"
<1>1. PICK id \in Nat : id = t.control.active.id
    BY DEF TurnRec, ControlRec, TaskRec
<1>2. t.msg \in MessageRec /\ t.msg.action = r.action /\ t.control = c
    BY DEF TurnRec, Opens
<1>3. {"waiting_user", "completed", "awaiting_confirmation", "ready"} \subseteq TurnStatuses
    BY DEF TurnStatuses
<1>4. CASE NeedsTarget(t.msg, dialogue, t.job)
  <2>1. PICK q \in QuestionRec : q = Question("reference", id)
      BY DEF Question, QuestionRec, QuestionKinds
  <2>2. u = [t EXCEPT !.question = q, !.status = "waiting_user",
                      !.dialogue = [@ EXCEPT !.status = "active", !.pending = q]]
      BY <1>1, <1>4, <2>1 DEF Begun
  <2>3. PICK e \in DialogueRec : e = [t.dialogue EXCEPT !.status = "active", !.pending = q]
      BY DEF TurnRec, DialogueRec, DialogueStatuses
  <2>4. u = [t EXCEPT !.question = q, !.status = "waiting_user", !.dialogue = e]
      BY <2>2, <2>3 DEF TurnRec
  <2>5. Opens(r, c, u) /\ u.dialogue = e
      BY <1>3, <2>4 DEF TurnRec, Opens
  <2>6. e.pending.task = c.active.id
    <3>1. t.dialogue \in DialogueRec
        BY DEF TurnRec
    <3>2. e.pending = q
        BY <2>3, <3>1 DEF DialogueRec
    <3> QED
        BY <1>1, <1>2, <2>1, <3>2 DEF Question
  <2>7. r.action # "summary"
      BY <1>2, <1>4 DEF NeedsTarget
  <2> QED
      BY <2>5, <2>6, <2>7 DEF Owned
<1>5. CASE ~NeedsTarget(t.msg, dialogue, t.job)
  <2>1. PICK i \in Interviewed(t.msg, dialogue, id) :
          u = LET q == IF t.msg.analysis /\ t.msg.action = "continue" THEN NoQuestion ELSE i.q
                  s == [t EXCEPT !.msg.intent = i.intent, !.dialogue = i.d, !.question = q,
                              !.status = CASE q # NoQuestion -> "waiting_user"
                                           [] q = NoQuestion /\ t.msg.action = "summary" -> "completed"
                                           [] OTHER -> IF i.intent = "intake" THEN "awaiting_confirmation" ELSE "ready"]
                  node == Entry(s, Destination(s.msg, q))
              IN [s EXCEPT !.node = node, !.tools = node = "plan"]
      BY <1>1, <1>5 DEF Begun
  <2>2. PICK d \in DialogueRec, intent \in Intents, q \in QuestionRec, status \in TurnStatuses :
          /\ d = i.d /\ intent = i.intent /\ (r.action # "summary" => Owned(d, c))
          /\ q = IF t.msg.analysis /\ t.msg.action = "continue" THEN NoQuestion ELSE i.q
          /\ status = CASE q # NoQuestion -> "waiting_user"
                        [] q = NoQuestion /\ t.msg.action = "summary" -> "completed"
                        [] OTHER -> IF i.intent = "intake" THEN "awaiting_confirmation" ELSE "ready"
    <3>1. /\ i.d \in DialogueRec /\ i.q \in QuestionRec /\ i.intent \in Intents
          /\ r.action # "summary" => Owned(i.d, c)
        BY <1>1, <1>2, InterviewedTyped
    <3> QED
        BY <1>3, <3>1, NoQuestionTyped
  <2> DEFINE s == [t EXCEPT !.msg.intent = intent, !.dialogue = d, !.question = q, !.status = status]
  <2>3. Opens(r, c, s) /\ s.dialogue = d /\ s.msg.action = r.action
      BY DEF TurnRec, MessageRec, Opens
  <2>4. u = [s EXCEPT !.node = Entry(s, Destination(s.msg, q)),
                      !.tools = Entry(s, Destination(s.msg, q)) = "plan"]
      BY <2>1, <2>2
  <2> HIDE DEF s
  <2>5. PICK node \in {"work", "plan", "validate"} : node = Entry(s, Destination(s.msg, q))
    <3>1. Destination(s.msg, q) \in {"validate", "tools", "work"}
        BY DEF Destination
    <3> QED
        BY <3>1 DEF Entry
  <2>6. PICK tools \in BOOLEAN : tools = (node = "plan")
      OBVIOUS
  <2>7. u = [s EXCEPT !.node = node, !.tools = tools]
      BY <2>4, <2>5, <2>6
  <2>8. s \in TurnRec /\ node \in Nodes
      BY <2>3 DEF Opens, Nodes
  <2>9. Opens(r, c, u) /\ u.dialogue = d /\ u.node = node
      BY <2>3, <2>6, <2>7, <2>8, ZenonT(60) DEF Opens, TurnRec
  <2>10. r.action = "summary" => node = "validate"
      BY <2>3, <2>5 DEF Destination, Entry
  <2> QED
      BY <2>2, <2>9, <2>10, SMTT(30), ZenonT(60)
<1> QED
    BY <1>4, <1>5

----------------------------------------------------------------------------
(***************************************************************************)
(* The tool loop                                                           *)
(***************************************************************************)
LEMMA TurnIsNotIdle == ASSUME NEW t \in TurnRec PROVE t # Idle
<1>1. t.node \in Nodes /\ Idle.node = "idle" /\ "idle" \notin Nodes
    BY DEF TurnRec, Idle, Nodes
<1> QED
    BY <1>1

\* plan decides what to do next and changes nothing else but the calls.
Decides(t, u) ==
  /\ u \in TurnRec /\ u.node \in {"execute", "left"}
  /\ u.msg = t.msg /\ u.control = t.control /\ u.done = t.done /\ u.bundles = t.bundles
  /\ u.tools = t.tools /\ u.rewritten = t.rewritten /\ u.steps = t.steps
  /\ u.grounded = t.grounded /\ u.cited = t.cited /\ u.dialogue = t.dialogue

LEMMA LeftDecides ==
  ASSUME NEW t \in TurnRec, NEW stop \in Stops
  PROVE  Decides(t, Left(t, stop)) /\ Left(t, stop).node = "left" /\ Left(t, stop).calls = t.calls
<1>1. "left" \in Nodes
    BY DEF Nodes
<1> QED
    BY <1>1 DEF Left, Decides, TurnRec

LEMMA ChosenDecides ==
  ASSUME NEW t \in TurnRec, NEW d \in DecisionRec
  PROVE  Decides(t, Chosen(t, d))
<1>1. "execute" \in Nodes
    BY DEF Nodes
<1> QED
    BY <1>1 DEF Chosen, Decides, TurnRec

LEMMA SearchesChosen ==
  ASSUME NEW t \in TurnRec, NEW u \in {Chosen(t, Search(s)) : s \in Pending(t)}
  PROVE  Decides(t, u)
<1>1. PICK s \in Pending(t) : u = Chosen(t, Search(s))
    OBVIOUS
<1>2. s \in Searches
    BY DEF Pending, TurnRec, MessageRec
<1>3. Search(s) \in DecisionRec
    BY <1>2 DEF Search, DecisionRec, Tools, Wordings
<1> QED
    BY <1>1, <1>3, ChosenDecides

LEMMA GuardedDecides ==
  ASSUME NEW t \in TurnRec, NEW d \in DecisionRec
  PROVE  Decides(t, Guarded(t, d))
<1>1. Call(d, "rejected") \in CallRec
    BY DEF Call, DecisionRec, CallRec
<1>2. PICK repair \in DecisionRec : repair = [d EXCEPT !.query = "task"]
  <2>1. "task" \in Wordings
      BY DEF Wordings
  <2> QED
      BY <2>1 DEF DecisionRec
<1>3. PICK refused \in TurnRec : refused = [t EXCEPT !.calls = @ \cup {Call(d, "rejected")}]
    BY <1>1 DEF TurnRec
<1>4. ASSUME NEW u, Decides(refused, u)
      PROVE  Decides(t, u)
  <2>1. /\ refused.msg = t.msg /\ refused.control = t.control /\ refused.done = t.done
        /\ refused.bundles = t.bundles /\ refused.tools = t.tools /\ refused.rewritten = t.rewritten
        /\ refused.steps = t.steps /\ refused.grounded = t.grounded /\ refused.cited = t.cited
        /\ refused.dialogue = t.dialogue
      BY <1>3 DEF TurnRec
  <2> QED
      BY <1>4, <2>1 DEF Decides
<1>5. Guarded(t, d) \in {Chosen(t, d), Chosen(refused, repair), Left(refused, "rejected")}
    BY <1>2, <1>3 DEF Guarded
<1>6. "rejected" \in Stops
    BY DEF Stops
<1>7. /\ Decides(t, Chosen(t, d))
      /\ Decides(t, Chosen(refused, repair))
      /\ Decides(t, Left(refused, "rejected"))
    BY <1>4, <1>6, ChosenDecides, LeftDecides
<1> QED
    BY <1>5, <1>7

LEMMA AdoptedDecides ==
  ASSUME NEW t \in TurnRec, NEW d \in Decisions, NEW u \in Adopted(t, d)
  PROVE  Decides(t, u)
<1>1. d \in DecisionRec
    BY DEF Decisions, DecisionRec, Tools, Wordings
<1>2. {"finished", "no_tool_result"} \subseteq Stops
    BY DEF Stops
<1>3. /\ \A v \in {Chosen(t, Search(s)) : s \in Pending(t)} : Decides(t, v)
      /\ Decides(t, Left(t, "finished")) /\ Decides(t, Left(t, "no_tool_result"))
      /\ Decides(t, Guarded(t, d))
    BY <1>1, <1>2, SearchesChosen, LeftDecides, GuardedDecides
<1>4. \/ u \in {Chosen(t, Search(s)) : s \in Pending(t)}
      \/ u \in {Left(t, "finished"), Left(t, "no_tool_result"), Guarded(t, d)}
    BY DEF Adopted
<1> QED
    BY <1>3, <1>4

LEMMA PlannedDecides ==
  ASSUME NEW t \in TurnRec, NEW b, NEW u \in Planned(t, b)
  PROVE  Decides(t, u) /\ (Spent(b) => u.node = "left")
<1>1. {"finished", "budget_exhausted"} \subseteq Stops
    BY DEF Stops
<1>2. /\ Decides(t, Left(t, "finished")) /\ Decides(t, Left(t, "budget_exhausted"))
      /\ Left(t, "budget_exhausted").node = "left"
      /\ \A v \in {Chosen(t, Search(s)) : s \in Pending(t)} : Decides(t, v)
    BY <1>1, SearchesChosen, LeftDecides
<1>3. CASE Spent(b)
    BY <1>2, <1>3 DEF Planned
<1>4. CASE ~Spent(b) /\ Reserved(t, b)
    BY <1>2, <1>4 DEF Planned
<1>5. CASE ~Spent(b) /\ ~Reserved(t, b)
    BY <1>2, <1>5 DEF Planned
<1> QED
    BY <1>3, <1>4, <1>5

\* A call is carried out as a job; what it keeps is what the job keeps.
Executed(t, u) ==
  /\ u \in TurnRec /\ Keeps(t, u) /\ u.bundles \subseteq t.bundles \cup HonestBundles

LEMMA JobOfTyped == ASSUME NEW t \in TurnRec PROVE JobOf(t) \in AnyJob
<1>1. t.job \in AnyJob /\ {"reference_lookup", "consultation"} \subseteq AnyKind
    BY DEF TurnRec, AnyKind, Kinds
<1>2. /\ [t.job EXCEPT !.kind = "reference_lookup"] \in AnyJob
      /\ [t.job EXCEPT !.kind = "consultation"] \in AnyJob
    BY <1>1 DEF AnyJob
<1> QED
    BY <1>1, <1>2 DEF JobOf

LEMMA CallsCarry ==
  ASSUME corpus \in [Passages -> Versions], NEW t \in TurnRec, NEW b \in BudgetRec, NEW x \in Calls(t, b)
  PROVE  /\ x.b \in BudgetRec /\ x.b.model = b.model
         /\ ~Affords(b, "action", 1) => x.b = b /\ Executed(t, x.t) /\ x.t.stop = "budget_exhausted"
         /\ Affords(b, "action", 1) => /\ x.b.action = b.action + 1
                                       /\ x.t = Idle \/ Executed(t, x.t)
<1>1. CASE t.decision.tool \in ReadTools
  <2>1. "completed" \in TurnStatuses
      BY DEF TurnStatuses
  <2>2. Executed(t, Done(t, "completed"))
      BY <2>1, DoneKeeps DEF Executed
  <2>3. Executed(t, Stopped(t)) /\ Stopped(t).stop = "budget_exhausted"
      BY StoppedKeeps DEF Executed
  <2>4. /\ ~Affords(b, "action", 1) => x = [t |-> Stopped(t), b |-> b]
        /\ Affords(b, "action", 1) => x = [t |-> Done(t, "completed"), b |-> Spend(b, "action", 1)]
      BY <1>1 DEF Calls
  <2>5. /\ Spend(b, "action", 1) \in BudgetRec /\ Spend(b, "action", 1).model = b.model
        /\ Spend(b, "action", 1).action = b.action + 1
      BY SpendIs
  <2> QED
      BY <2>2, <2>3, <2>4, <2>5
<1>2. CASE t.decision.tool \notin ReadTools
  <2>1. PICK job \in AnyJob : job = JobOf(t)
      BY JobOfTyped
  <2>2. PICK intent \in Intents : intent = IF t.decision.tool \in Searches THEN "research" ELSE t.msg.intent
      BY DEF Intents, TurnRec, MessageRec
  <2> DEFINE s == [t EXCEPT !.job = job, !.msg.intent = intent]
  <2>3. s \in TurnRec /\ Keeps(t, s) /\ s.bundles = t.bundles
      BY DEF TurnRec, MessageRec, Keeps
  <2>4. s = [t EXCEPT !.job = JobOf(t),
                      !.msg.intent = IF t.decision.tool \in Searches THEN "research" ELSE @]
      BY <2>1, <2>2 DEF TurnRec, MessageRec
  <2>5. x \in Executions(s, b)
      BY <1>2, <2>4 DEF Calls
  <2> HIDE DEF s
  <2>6. /\ x.b \in BudgetRec /\ x.b.model = b.model
        /\ ~Affords(b, "action", 1) => x.b = b /\ x.t = Stopped(s)
        /\ Affords(b, "action", 1) =>
             /\ x.b.action = b.action + 1
             /\ x.t = Idle \/ Carried(s, x.t, s.bundles \cup HonestBundles)
      BY <2>3, <2>5, ExecutionsCarry
  <2>7. Executed(t, Stopped(s)) /\ Stopped(s).stop = "budget_exhausted"
      BY <2>3, StoppedKeeps DEF Executed, Keeps
  <2>8. ASSUME Carried(s, x.t, s.bundles \cup HonestBundles)
        PROVE  Executed(t, x.t)
      BY <2>3, <2>8 DEF Carried, Executed, Keeps
  <2> QED
      BY <2>6, <2>7, <2>8
<1> QED
    BY <1>1, <1>2

\* A call is on record afterwards, and no further one is planned when the budget
\* did not cover it.
Sees(t, u) ==
  /\ u \in TurnRec /\ u.node \in {"plan", "left"}
  /\ u.msg.tasks = t.msg.tasks /\ u.msg.action = t.msg.action /\ u.control = t.control
  /\ t.done \subseteq u.done /\ u.bundles \subseteq t.bundles \cup HonestBundles
  /\ u.tools = t.tools /\ u.rewritten = t.rewritten /\ u.steps = t.steps
  /\ u.grounded = t.grounded /\ u.cited = t.cited /\ u.calls # {}
  /\ Owned(t.dialogue, t.control) => Owned(u.dialogue, t.control)

LEMMA ObservedSees ==
  ASSUME NEW t \in TurnRec, NEW u, u = Idle \/ Executed(t, u)
  PROVE  /\ Sees(t, Observed(t, u))
         /\ u # Idle /\ u.stop = "budget_exhausted" => Observed(t, u).node = "left"
<1>1. \A r \in {"rejected", "available", "other"} : Call(t.decision, r) \in CallRec
    BY DEF Call, TurnRec, DecisionRec, CallRec
<1>2. {"plan", "left"} \subseteq Nodes /\ {"tool_failed", "analysis_ready", "budget_exhausted"} \subseteq Stops
    BY DEF Nodes, Stops
<1>3. CASE u = Idle
  <2>1. PICK c \in CallRec : c = Call(t.decision, "other")
      BY <1>1
  <2>2. Observed(t, u) = [t EXCEPT !.node = "left", !.stop = "tool_failed", !.error = TRUE,
                                   !.calls = @ \cup {c}]
      BY <1>3, <2>1 DEF Observed, Left, TurnRec
  <2>3. LET v == [t EXCEPT !.node = "left", !.stop = "tool_failed", !.error = TRUE, !.calls = @ \cup {c}]
        IN Sees(t, v)
      BY <1>2 DEF TurnRec, Sees
  <2> QED
      BY <1>3, <2>2, <2>3
<1>4. CASE u # Idle
  <2>1. u \in TurnRec /\ Executed(t, u)
      BY <1>4 DEF Executed
  <2>2. PICK c \in CallRec :
          c = Call(t.decision, IF t.decision.tool \in Searches /\ u.last = "evidence_available"
                               THEN "available" ELSE "other")
      BY <1>1
  <2>3. PICK job \in AnyJob, none \in DecisionRec : job = t.job /\ none = NoDecision
      BY DEF TurnRec, NoDecision, DecisionRec, Tools, Wordings
  <2> DEFINE v == [u EXCEPT !.job = job, !.last = None, !.decision = none, !.calls = @ \cup {c}]
  <2>4. /\ v \in TurnRec /\ Executed(t, u) /\ v.calls # {} /\ v.stop = u.stop
        /\ v.msg = u.msg /\ v.control = u.control /\ v.done = u.done /\ v.bundles = u.bundles
        /\ v.tools = u.tools /\ v.rewritten = u.rewritten /\ v.steps = u.steps
        /\ v.grounded = u.grounded /\ v.cited = u.cited /\ v.dialogue = u.dialogue
      BY <2>1 DEF TurnRec
  <2>5. Observed(t, u) =
          CASE v.analysis -> Left(v, "analysis_ready")
            [] ~v.analysis /\ v.error -> Left(v, "tool_failed")
            [] ~v.analysis /\ ~v.error /\ v.stop = "budget_exhausted" -> Left(v, "budget_exhausted")
            [] OTHER -> [v EXCEPT !.node = "plan"]
      BY <1>4, <2>2, <2>3 DEF Observed
  <2> HIDE DEF v
  <2>6. v.analysis \in BOOLEAN /\ v.error \in BOOLEAN
      BY <2>4 DEF TurnRec
  <2>7. /\ Observed(t, u) \in {Left(v, "analysis_ready"), Left(v, "tool_failed"), Left(v, "budget_exhausted"),
                               [v EXCEPT !.node = "plan"]}
        /\ u.stop = "budget_exhausted" =>
             Observed(t, u) \in {Left(v, "analysis_ready"), Left(v, "tool_failed"), Left(v, "budget_exhausted")}
      BY <2>4, <2>5, <2>6
  <2>8. ASSUME NEW w \in TurnRec, w.node \in {"plan", "left"}, w.calls = v.calls,
               w.msg = v.msg, w.control = v.control, w.done = v.done, w.bundles = v.bundles,
               w.tools = v.tools, w.rewritten = v.rewritten, w.steps = v.steps,
               w.grounded = v.grounded, w.cited = v.cited, w.dialogue = v.dialogue
        PROVE  Sees(t, w)
      BY <2>4, <2>8 DEF Sees, Executed, Keeps
  <2>9. ASSUME NEW stop \in Stops
        PROVE  Sees(t, Left(v, stop)) /\ Left(v, stop).node = "left"
      BY <2>4, <2>8, LeftDecides DEF Decides
  <2>10. Sees(t, [v EXCEPT !.node = "plan"])
    <3>1. LET w == [v EXCEPT !.node = "plan"]
          IN /\ w \in TurnRec /\ w.node = "plan" /\ w.calls = v.calls
             /\ w.msg = v.msg /\ w.control = v.control /\ w.done = v.done /\ w.bundles = v.bundles
             /\ w.tools = v.tools /\ w.rewritten = v.rewritten /\ w.steps = v.steps
             /\ w.grounded = v.grounded /\ w.cited = v.cited /\ w.dialogue = v.dialogue
        BY <1>2, <2>4 DEF TurnRec
    <3> QED
        BY <2>8, <3>1
  <2> QED
      BY <1>2, <2>7, <2>9, <2>10
<1> QED
    BY <1>3, <1>4

----------------------------------------------------------------------------
(***************************************************************************)
(* The inductive invariant                                                 *)
(***************************************************************************)
\* The focus of the turn is that of the case but for what the message decides.
FocusKept(t) ==
  /\ Apart(t.control) /\ Len(t.control.queued) <= 2
  /\ t.control.active.id <= TaskId(turns) + 2 /\ t.control.suspended.id < TaskId(turns)
  /\ control.suspended # NoTask /\ t.control.suspended # control.suspended => t.msg.action = "resume"

\* No part of a request is lost between the queue and the work.
PartsDone(t) ==
  t.msg.action \notin {"pause", "new_case", "summary"} =>
    \A i \in 2 .. Len(t.msg.tasks) :
      \/ t.msg.tasks[i] \in t.done
      \/ \E k \in DOMAIN t.control.queued : t.control.queued[k] = t.msg.tasks[i]
      \/ t.node = "work" /\ t.job = t.msg.tasks[i]

\* The tool loop alternates: each call has one plan before it and costs one action.
LoopBound(t, b) ==
  /\ t.steps <= 2 * ActionLimit + 1
  /\ t.node = "plan" => t.steps = 2 * b.action /\ b.action <= ActionLimit
  /\ t.node = "execute" => t.steps = 2 * b.action + 1 /\ b.action < ActionLimit
  /\ t.node \in {"plan", "execute", "left"} => t.tools

\* Before the first model call of the tool loop, and before the one rewriting of
\* a search, three calls are left; after them one is, for the explanation.
Fresh(t) == \/ t.node = "plan" /\ t.calls = {}
            \/ t.node \in {"work", "observe"} /\ ~t.tools /\ ~t.rewritten
Room(t, b) == /\ Fresh(t) => b.model + 2 < ModelLimit
              /\ t.node # "commit" => b.model < ModelLimit

Cites(t) ==
  /\ t.bundles \subseteq HonestBundles
  /\ t.grounded => /\ t.node = "commit" /\ t.cited # {}
                   /\ t.cited \subseteq Union(t.bundles, "model") \cap ModelUse
                   /\ \A i, j \in t.cited : i.id = j.id => i = j

\* The interview of a turn asks for the task in focus; a summary leaves both alone.
Bound(t) ==
  IF t.msg.action = "summary"
  THEN t.node \in {"validate", "commit"} /\ t.control.active.id = control.active.id
  ELSE Owned(t.dialogue, t.control)

TurnTyped == /\ Focus(control, TaskId(turns) + 3) /\ dialogue \in DialogueRec /\ budget \in BudgetRec
             /\ corpus \in [Passages -> Versions] /\ turns \in Nat /\ Owned(dialogue, control)
AtTurn(t, b) == t \in TurnRec /\ FocusKept(t) /\ Bound(t) /\ PartsDone(t) /\ LoopBound(t, b) /\ Room(t, b) /\ Cites(t)
TurnInv == TurnTyped /\ (turn # Idle => AtTurn(turn, budget))

LEMMA IdsGrow ==
  ASSUME turns \in Nat
  PROVE  TaskId(turns) \in Nat /\ TaskId(turns + 1) \in Nat \ {0} /\ TaskId(turns + 1) = TaskId(turns) + 4
BY DEF TaskId

LEMMA LimitsTyped ==
  /\ ModelLimit \in Nat /\ ActionLimit \in Nat /\ LoopLimit \in Nat
  /\ \A n \in RouteCalls : n \in Nat /\ n + 2 < ModelLimit
  /\ 2 * ActionLimit + 1 <= LoopLimit
<1>1. {ModelLimit, ActionLimit, SearchLimit, LoopLimit} \cup RouteCalls \subseteq Nat
    BY LimitsAssumption
<1> QED
    BY <1>1, LimitsAssumption

\* What a turn may go on with: the same request and control, no bundle lost.
Same(t, u) ==
  /\ u \in TurnRec /\ u.msg.tasks = t.msg.tasks /\ u.msg.action = t.msg.action /\ u.control = t.control
  /\ t.done \subseteq u.done /\ u.bundles \subseteq t.bundles \cup HonestBundles /\ ~u.grounded
  /\ Owned(t.dialogue, t.control) => Owned(u.dialogue, t.control)

LEMMA SameKeeps ==
  ASSUME NEW t \in TurnRec, FocusKept(t), Bound(t), PartsDone(t), Cites(t), NEW u, Same(t, u),
         t.node = "work" => t.job \in u.done, t.node \notin {"validate", "commit"}
  PROVE  FocusKept(u) /\ Bound(u) /\ PartsDone(u) /\ Cites(u)
<1>1. FocusKept(u)
    BY DEF FocusKept, Same
<1>2. PartsDone(u)
    BY DEF PartsDone, Same
<1>3. Cites(u)
    BY DEF Cites, Same
<1>4. Bound(u)
    BY DEF Bound, Same
<1> QED
    BY <1>1, <1>2, <1>3, <1>4

LEMMA PrimedParts ==
  /\ PartsDone(turn)' = PartsDone(turn') /\ Cites(turn)' = Cites(turn')
  /\ LoopBound(turn, budget)' = LoopBound(turn', budget') /\ Room(turn, budget)' = Room(turn', budget')
BY DEF PartsDone, Cites, LoopBound, Room, Fresh

LEMMA ReceiveKeeps == TurnInv /\ Receive => TurnInv'
<1> SUFFICES ASSUME TurnInv, Receive PROVE TurnInv'
    OBVIOUS
<1>1. PICK n \in Nat \ {0} : n = TaskId(turns') /\ n = TaskId(turns) + 4 /\ turns' \in Nat
    BY IdsGrow DEF TurnInv, TurnTyped, Receive
<1>2. Focus(control, n) /\ dialogue \in DialogueRec /\ TaskId(turns) \in Nat
  <2>1. TaskId(turns) \in Nat /\ Focus(control, TaskId(turns) + 3)
      BY IdsGrow DEF TurnInv, TurnTyped
  <2>2. control.active.id \in Nat /\ control.suspended.id \in Nat
      BY <2>1 DEF Focus, ControlRec, TaskRec
  <2> QED
      BY <1>1, <2>1, <2>2 DEF Focus, TurnInv, TurnTyped
<1>3. PICK m \in Messages :
        LET r == Routed(m, control, dialogue)
        IN /\ ~NeedsFocus(r, control, dialogue)
           /\ \E route \in Routes(r) :
                /\ turn' \in Begun(Started(r, TaskId(turns'), route))
                /\ budget' = FreshBudget(route.calls)
    BY DEF Receive
<1>4. PICK r : r = Routed(m, control, dialogue)
    OBVIOUS
<1>5. Fit(r)
    BY <1>2, <1>4, RoutedFits DEF Focus
<1>6. PICK route \in Routes(r) : /\ turn' \in Begun(Started(r, n, route))
                                 /\ budget' = FreshBudget(route.calls)
    BY <1>1, <1>3, <1>4
<1>7. route \in RouteRec /\ route.calls \in Nat /\ route.calls + 2 < ModelLimit
  <2>1. /\ route.calls \in RouteCalls /\ route.eligible \in BOOLEAN /\ route.conflict \in BOOLEAN
        /\ route = [calls |-> route.calls, eligible |-> route.eligible, conflict |-> route.conflict]
      BY DEF Routes
  <2> QED
      BY <2>1, LimitsTyped DEF RouteRec
<1>8. PICK c \in ControlRec : /\ Refocused(r, control, c, n)
                              /\ Opens(r, c, Started(r, n, route))
                              /\ Started(r, n, route).node = "work"
    BY <1>2, <1>3, <1>4, <1>5, <1>7, StartedOpens
<1>9. /\ Opens(r, c, turn')
      /\ r.action # "summary" => Owned(turn'.dialogue, c)
      /\ r.action = "summary" => turn'.node = "validate"
    BY <1>2, <1>6, <1>8, BegunOpens DEF Opens
<1>10. budget' \in BudgetRec /\ budget'.model = route.calls /\ budget'.action = 0
    BY <1>6, <1>7 DEF FreshBudget, BudgetRec
<1>11. UNCHANGED <<control, dialogue, corpus, moves>>
    BY DEF Receive
<1>12. TurnTyped'
  <2>1. Focus(control, n + 3)
    <3>1. control.active.id \in Nat /\ control.suspended.id \in Nat
        BY <1>2 DEF Focus, ControlRec, TaskRec
    <3> QED
        BY <1>2, <3>1 DEF Focus
  <2> QED
      BY <1>1, <1>10, <1>11, <2>1 DEF TurnInv, TurnTyped, Focus, Owned
<1>13. FocusKept(turn)'
  <2>1. c.active.id \in Nat
      BY DEF ControlRec, TaskRec
  <2> QED
      BY <1>1, <1>8, <1>9, <1>11, <2>1 DEF Opens, Refocused, FocusKept
<1>14. Bound(turn)'
    BY <1>8, <1>9, <1>11 DEF Opens, Refocused, Bound
<1>15. PartsDone(turn')
    BY <1>8, <1>9 DEF Opens, Refocused, Queued, PartsDone
<1>16. LoopBound(turn', budget') /\ Room(turn', budget')
  <2>1. /\ turn'.steps = 0 /\ turn'.node \in {"work", "plan", "validate"}
        /\ turn'.node = "plan" => turn'.tools
      BY <1>9 DEF Opens
  <2>2. ActionLimit \in Nat /\ ModelLimit \in Nat
      BY LimitsTyped
  <2>3. LoopBound(turn', budget')
      BY <1>10, <2>1, <2>2 DEF LoopBound
  <2>4. Room(turn', budget')
      BY <1>7, <1>10, <2>2 DEF Room
  <2> QED
      BY <2>3, <2>4
<1>17. Cites(turn')
    BY <1>9 DEF Opens, Cites
<1>18. turn' \in TurnRec
    BY <1>9 DEF Opens
<1>19. AtTurn(turn, budget)'
    BY <1>13, <1>15, <1>16, <1>17, <1>18, <1>14, PrimedParts DEF AtTurn
<1> QED
    BY <1>12, <1>19 DEF TurnInv

LEMMA WorkKeeps == TurnInv /\ Work => TurnInv'
<1> SUFFICES ASSUME TurnInv, Work PROVE TurnInv'
    OBVIOUS
<1>1. PICK t \in TurnRec, b \in BudgetRec :
        /\ t = turn /\ b = budget /\ t.node = "work"
        /\ FocusKept(t) /\ Bound(t) /\ PartsDone(t) /\ LoopBound(t, b) /\ Room(t, b) /\ Cites(t)
    BY DEF TurnInv, TurnTyped, AtTurn, Work
<1>2. corpus \in [Passages -> Versions]
    BY DEF TurnInv, TurnTyped
<1>3. PICK x \in Executions(t, b) :
        IF x.t = Idle THEN turn' = Idle /\ budget' = FreshBudget(0)
        ELSE turn' = [x.t EXCEPT !.node = "observe", !.stop = None] /\ budget' = x.b
    BY <1>1 DEF Work
<1>4. /\ x.b \in BudgetRec /\ x.b.model = b.model
      /\ x.t = Idle \/ Carried(t, x.t, t.bundles \cup HonestBundles)
    BY <1>2, ExecutionsCarry, StoppedKeeps DEF Carried
<1>5. UNCHANGED <<control, dialogue, corpus, moves, turns>>
    BY DEF Work
<1>6. CASE x.t = Idle
  <2>1. budget' \in BudgetRec
      BY <1>3, <1>6 DEF FreshBudget, BudgetRec
  <2> QED
      BY <1>3, <1>5, <1>6, <2>1 DEF TurnInv, TurnTyped, Focus, Owned
<1>7. CASE x.t # Idle
  <2>1. PICK u \in TurnRec : u = x.t /\ Keeps(t, u) /\ t.job \in u.done /\ u.bundles \subseteq t.bundles \cup HonestBundles
      BY <1>4, <1>7 DEF Carried
  <2>2. PICK v \in TurnRec : /\ v = [u EXCEPT !.node = "observe", !.stop = None]
                             /\ v.node = "observe" /\ v.msg = u.msg /\ v.control = u.control
                             /\ v.dialogue = u.dialogue /\ v.done = u.done /\ v.bundles = u.bundles /\ v.grounded = u.grounded
                             /\ v.steps = u.steps /\ v.tools = u.tools /\ v.rewritten = u.rewritten
    <3>1. "observe" \in Nodes /\ None \in Stops
        BY DEF Nodes, Stops
    <3>2. LET v == [u EXCEPT !.node = "observe", !.stop = None]
          IN /\ v \in TurnRec
             /\ v.node = "observe" /\ v.msg = u.msg /\ v.control = u.control
             /\ v.dialogue = u.dialogue /\ v.done = u.done /\ v.bundles = u.bundles /\ v.grounded = u.grounded
             /\ v.steps = u.steps /\ v.tools = u.tools /\ v.rewritten = u.rewritten
        BY <3>1 DEF TurnRec
    <3> QED
        BY <3>2
  <2>3. turn' = v /\ budget' = x.b
      BY <1>3, <1>7, <2>1, <2>2
  <2>4. ~t.grounded
      BY <1>1 DEF Cites
  <2>5. Same(t, v)
      BY <2>1, <2>2, <2>4 DEF Same, Keeps
  <2>6. FocusKept(v) /\ Bound(v) /\ PartsDone(v) /\ Cites(v)
      BY <1>1, <2>1, <2>2, <2>5, SameKeeps
  <2>7. LoopBound(v, x.b) /\ Room(v, x.b)
      BY <1>1, <1>4, <2>1, <2>2 DEF Keeps, LoopBound, Room, Fresh
  <2>8. AtTurn(turn, budget)'
      BY <1>5, <2>3, <2>6, <2>7, PrimedParts DEF AtTurn, FocusKept, Bound
  <2> QED
      BY <1>4, <1>5, <2>3, <2>8 DEF TurnInv, TurnTyped, Focus, Owned
<1> QED
    BY <1>6, <1>7

\* A turn that goes on, and one that ends without a commit.
LEMMA TurnGoesOn ==
  ASSUME TurnInv, UNCHANGED <<control, dialogue, corpus, turns>>,
         NEW v \in TurnRec, turn' = v, NEW b \in BudgetRec, budget' = b,
         FocusKept(v), Bound(v), PartsDone(v), Cites(v), LoopBound(v, b), Room(v, b)
  PROVE  TurnInv'
<1>1. AtTurn(turn, budget)'
    BY PrimedParts DEF AtTurn, FocusKept, Bound
<1> QED
    BY <1>1 DEF TurnInv, TurnTyped, Focus, Owned

LEMMA TurnIsLost ==
  ASSUME TurnInv, UNCHANGED <<control, dialogue, corpus, turns>>,
         turn' = Idle, budget' = FreshBudget(0)
  PROVE  TurnInv'
<1>1. budget' \in BudgetRec
    BY DEF FreshBudget, BudgetRec
<1> QED
    BY <1>1 DEF TurnInv, TurnTyped, Focus, Owned

LEMMA StatusTyped == \A t : TaskStatus(t) \in TaskStatuses \cup {None}
BY DEF TaskStatus, TaskStatuses, Over

\* observe: the first of the queue becomes the job, or stays queued.
LEMMA ObserveNextKeeps ==
  ASSUME turns \in Nat, NEW t \in TurnRec, FocusKept(t), Bound(t), PartsDone(t), Cites(t), ~t.grounded,
         t.node = "observe", t.control.queued # << >>
  PROVE  LET v == ObserveNext(t)
         IN /\ v \in TurnRec /\ FocusKept(v) /\ Bound(v) /\ PartsDone(v) /\ Cites(v)
            /\ v.node \in {"work", "validate"} /\ v.tools = t.tools /\ v.rewritten = t.rewritten
            /\ v.steps = t.steps
<1>1. PICK q \in Seq(Jobs) : q = t.control.queued /\ q # << >> /\ Len(q) <= 2
    BY DEF TurnRec, ControlRec, FocusKept
<1>2. PICK job \in Jobs, rest \in Seq(Jobs) : job = Head(q) /\ rest = Tail(q)
  <2>1. Head(q) \in Jobs /\ Tail(q) \in Seq(Jobs)
      BY <1>1
  <2> QED
      BY <2>1
<1>3. q = <<job>> \o rest
    BY <1>1, <1>2
<1>4. /\ Len(rest) = Len(q) - 1 /\ Len(q) \in Nat
       /\ DOMAIN rest = 1 .. Len(q) - 1 /\ DOMAIN q = 1 .. Len(q)
    BY <1>1, <1>2
<1>5. Len(rest) <= 2
    BY <1>1, <1>4
<1>6. ASSUME NEW k \in DOMAIN q
       PROVE  q[k] = job \/ \E l \in DOMAIN rest : rest[l] = q[k]
  <2>1. CASE k = 1
      BY <1>1, <1>2, <2>1
  <2>2. CASE k # 1
    <3>1. k - 1 \in 1 .. Len(q) - 1 /\ (k - 1) + 1 = k
        BY <1>4, <2>2
    <3>2. rest[k - 1] = q[(k - 1) + 1]
        BY <1>1, <1>2, <1>4, <3>1
    <3> QED
        BY <1>4, <3>1, <3>2
  <2> QED
      BY <2>1, <2>2
<1>7. PICK n \in Nat : n = TaskId(turns) + Len(q) /\ n > TaskId(turns) /\ n <= TaskId(turns) + 2
  <2>1. Len(q) \in Nat /\ Len(q) > 0
      BY <1>1
  <2> QED
      BY <1>1, <2>1, IdsGrow, SMTT(30)
<1>8. /\ job \in AnyJob /\ job.kind \in AnyKind /\ {"work", "validate"} \subseteq Nodes
    BY DEF Jobs, AnyJob, AnyKind, AnyQuery, Nodes
<1>9. PICK task \in TaskRec : task = NewTask(n, job.kind) /\ task.id = n
    BY <1>8, NewTaskTyped
<1>10. PICK left \in Seq(Jobs) : /\ left = QueueLeft(t, job, rest)
                                /\ left = IF job.uses /\ t.route.conflict THEN q ELSE rest
  <2>1. QueueLeft(t, job, rest) = IF job.uses /\ t.route.conflict THEN q ELSE rest
      BY <1>3 DEF QueueLeft
  <2> QED
      BY <2>1
<1> DEFINE next == [t EXCEPT !.control.active = task, !.control.queued = left]
<1>11. ObserveNext(t) = IF job.uses /\ t.route.conflict THEN [next EXCEPT !.node = "validate"]
                       ELSE [next EXCEPT !.job = job, !.node = "work"]
    BY <1>1, <1>2, <1>7, <1>9, <1>10 DEF ObserveNext
<1>12. /\ next \in TurnRec /\ next.control.active = task /\ next.control.queued = left
      /\ next.control.suspended = t.control.suspended /\ next.msg = t.msg /\ next.done = t.done
      /\ next.bundles = t.bundles /\ next.grounded = t.grounded /\ next.tools = t.tools
      /\ next.rewritten = t.rewritten /\ next.steps = t.steps
    BY DEF TurnRec, ControlRec
<1> HIDE DEF next
<1>13. t.control.suspended.id < TaskId(turns) /\ t.control.suspended.id \in Nat /\ TaskId(turns) \in Nat
    BY IdsGrow DEF FocusKept, TurnRec, ControlRec, TaskRec
<1>14. Len(left) <= 2
    BY <1>1, <1>10, <1>5
<1>15. FocusKept(next)
    BY <1>7, <1>9, <1>12, <1>13, <1>14 DEF FocusKept, Apart
<1>16. Cites(next)
    BY <1>12 DEF Cites
<1>17. t.msg.action # "summary" /\ FromQueue(n)
  <2>1. PICK l \in Nat : l = Len(q) /\ l > 0 /\ l <= 2
      BY <1>1
  <2>2. n = 4 * turns + l
      BY <1>7, <2>1 DEF TaskId
  <2>3. \A k \in Nat : n # 4 * k
      BY <2>1, <2>2
  <2>4. FromQueue(n)
    <3>1. ASSUME NEW k \in 0 .. MaxTurns
          PROVE  n # TaskId(k)
      <4>1. k \in Nat
          OBVIOUS
      <4>2. TaskId(k) = 4 * k
          BY DEF TaskId
      <4> QED
          BY <2>3, <4>1, <4>2
    <3> QED
        BY <3>1 DEF FromQueue
  <2> QED
      BY <2>4 DEF Bound
<1>18. ASSUME NEW v \in TurnRec, v.control = next.control, v.msg = next.msg, v.done = next.done,
              v.bundles = next.bundles, v.grounded = next.grounded
       PROVE  FocusKept(v) /\ Bound(v) /\ Cites(v)
  <2>1. FocusKept(v) /\ Cites(v)
      BY <1>12, <1>15, <1>16, <1>18 DEF FocusKept, Cites
  <2>2. Bound(v)
      BY <1>9, <1>12, <1>18, <1>17 DEF Bound, Owned
  <2> QED
      BY <2>1, <2>2
<1>19. CASE job.uses /\ t.route.conflict
  <2>1. LET v == [next EXCEPT !.node = "validate"]
        IN /\ v \in TurnRec /\ v.control = next.control /\ v.msg = next.msg /\ v.done = next.done
           /\ v.bundles = next.bundles /\ v.grounded = next.grounded /\ v.tools = next.tools
           /\ v.rewritten = next.rewritten /\ v.steps = next.steps /\ v.node = "validate"
      BY <1>8, <1>12 DEF TurnRec
  <2>2. PICK v \in TurnRec : /\ v = ObserveNext(t) /\ v.control = next.control /\ v.msg = next.msg
                             /\ v.done = next.done /\ v.bundles = next.bundles /\ v.grounded = next.grounded
                             /\ v.tools = next.tools /\ v.rewritten = next.rewritten
                             /\ v.steps = next.steps /\ v.node = "validate"
      BY <1>11, <1>19, <2>1
  <2>3. left = q
      BY <1>10, <1>19
  <2>4. PartsDone(v)
      BY <1>1, <1>12, <2>2, <2>3 DEF PartsDone
  <2> QED
      BY <1>12, <1>18, <2>2, <2>4
<1>20. CASE ~(job.uses /\ t.route.conflict)
  <2>1. LET v == [next EXCEPT !.job = job, !.node = "work"]
        IN /\ v \in TurnRec /\ v.control = next.control /\ v.msg = next.msg /\ v.done = next.done
           /\ v.bundles = next.bundles /\ v.grounded = next.grounded /\ v.tools = next.tools
           /\ v.rewritten = next.rewritten /\ v.steps = next.steps /\ v.node = "work" /\ v.job = job
      BY <1>8, <1>12 DEF TurnRec
  <2>2. PICK v \in TurnRec : /\ v = ObserveNext(t) /\ v.control = next.control /\ v.msg = next.msg
                             /\ v.done = next.done /\ v.bundles = next.bundles /\ v.grounded = next.grounded
                             /\ v.tools = next.tools /\ v.rewritten = next.rewritten
                             /\ v.steps = next.steps /\ v.node = "work" /\ v.job = job
      BY <1>11, <1>20, <2>1
  <2>3. left = rest
      BY <1>10, <1>20
  <2>4. v.msg = t.msg /\ v.done = t.done /\ v.control.queued = rest
      BY <1>12, <2>2, <2>3
  <2>5. ASSUME t.msg.action \notin {"pause", "new_case", "summary"}, NEW i \in 2 .. Len(t.msg.tasks)
        PROVE  \/ t.msg.tasks[i] \in t.done
               \/ \E k \in DOMAIN rest : rest[k] = t.msg.tasks[i]
               \/ job = t.msg.tasks[i]
    <3>1. t.msg.tasks[i] \in t.done \/ \E k \in DOMAIN q : q[k] = t.msg.tasks[i]
        BY <1>1, <2>5 DEF PartsDone
    <3> QED
        BY <1>6, <3>1
  <2>6. PartsDone(v)
      BY <2>2, <2>4, <2>5 DEF PartsDone
  <2> QED
      BY <1>12, <1>18, <2>2, <2>6
<1> QED
    BY <1>19, <1>20

\* The facts every step at work begins from.
LEMMA AtWork ==
  ASSUME TurnInv, turn # Idle
  PROVE  \E t \in TurnRec : \E b \in BudgetRec :
           /\ t = turn /\ b = budget /\ (t.grounded => t.node = "commit")
           /\ b.model \in Nat /\ b.action \in Nat /\ t.steps \in Nat
           /\ FocusKept(t) /\ Bound(t) /\ PartsDone(t) /\ LoopBound(t, b) /\ Room(t, b) /\ Cites(t)
BY DEF TurnInv, TurnTyped, AtTurn, Cites, TurnRec, BudgetRec

LEMMA ObserveKeeps == TurnInv /\ Observe => TurnInv'
<1> SUFFICES ASSUME TurnInv, Observe PROVE TurnInv'
    OBVIOUS
<1>1. PICK r \in TurnRec, b \in BudgetRec :
        /\ r = turn /\ b = budget /\ ~r.grounded /\ r.node = "observe"
        /\ b.model \in Nat /\ b.action \in Nat /\ r.steps \in Nat
        /\ FocusKept(r) /\ Bound(r) /\ PartsDone(r) /\ LoopBound(r, b) /\ Room(r, b) /\ Cites(r)
    BY AtWork DEF Observe
<1>2. turns \in Nat /\ UNCHANGED <<control, dialogue, corpus, turns>>
    BY DEF TurnInv, TurnTyped, Observe
<1>3. PICK e \in ControlRec : /\ e = Put(r.control, TaskStatus(r)) /\ e.active.id = r.control.active.id
                              /\ e.suspended = r.control.suspended /\ e.queued = r.control.queued
    BY StatusTyped, PutKeeps DEF TurnRec
<1>4. PICK t \in TurnRec : /\ t = [turn EXCEPT !.control = Put(@, TaskStatus(turn))] /\ t.control = e
                           /\ t.node = r.node /\ t.msg = r.msg /\ t.dialogue = r.dialogue /\ t.done = r.done /\ t.bundles = r.bundles
                           /\ t.grounded = r.grounded /\ t.tools = r.tools /\ t.rewritten = r.rewritten
                           /\ t.steps = r.steps
  <2>1. LET v == [r EXCEPT !.control = e]
        IN /\ v \in TurnRec /\ v.control = e
           /\ v.node = r.node /\ v.msg = r.msg /\ v.dialogue = r.dialogue /\ v.done = r.done /\ v.bundles = r.bundles
           /\ v.grounded = r.grounded /\ v.tools = r.tools /\ v.rewritten = r.rewritten
           /\ v.steps = r.steps
      BY DEF TurnRec
  <2>2. [turn EXCEPT !.control = Put(@, TaskStatus(turn))] = [r EXCEPT !.control = e]
      BY <1>1, <1>3 DEF TurnRec
  <2> QED
      BY <2>1, <2>2
<1>5. FocusKept(t) /\ Bound(t) /\ PartsDone(t) /\ Cites(t)
  <2>1. FocusKept(t)
      BY <1>1, <1>3, <1>4 DEF FocusKept, Apart
  <2>2. PartsDone(t)
      BY <1>1, <1>3, <1>4, SMTT(30) DEF PartsDone
  <2>3. Cites(t)
      BY <1>1, <1>4 DEF Cites
  <2>4. Bound(t)
      BY <1>1, <1>3, <1>4 DEF Bound, Owned
  <2> QED
      BY <2>1, <2>2, <2>3, <2>4
<1>6. ModelLimit \in Nat /\ ActionLimit \in Nat
    BY LimitsTyped
<1> DEFINE answer == [t EXCEPT !.node = "validate"]
<1>7. ASSUME NEW v \in TurnRec, Same(t, v), v.steps = t.steps, turn' = v,
             NEW c \in BudgetRec, budget' = c, c.action = b.action,
             \/ v.node = "validate" /\ c.model < ModelLimit
             \/ v.node = "work" /\ v.rewritten /\ c.model < ModelLimit
      PROVE  TurnInv'
  <2>1. FocusKept(v) /\ Bound(v) /\ PartsDone(v) /\ Cites(v)
      BY <1>1, <1>4, <1>5, <1>7, SameKeeps
  <2>2. LoopBound(v, c)
      BY <1>1, <1>4, <1>7 DEF LoopBound
  <2>3. Room(v, c)
      BY <1>7 DEF Room, Fresh
  <2> QED
      BY <1>2, <1>7, <2>1, <2>2, <2>3, TurnGoesOn
<1>8. /\ answer \in TurnRec /\ Same(t, answer) /\ answer.steps = t.steps /\ answer.node = "validate"
      /\ answer.grounded = t.grounded /\ answer.dialogue = t.dialogue
  <2>1. "validate" \in Nodes
      BY DEF Nodes
  <2>2. /\ answer \in TurnRec /\ answer.steps = t.steps /\ answer.node = "validate"
        /\ answer.msg = t.msg /\ answer.done = t.done /\ answer.bundles = t.bundles
        /\ answer.control = t.control /\ answer.grounded = t.grounded /\ answer.dialogue = t.dialogue
      BY <2>1 DEF TurnRec
  <2> QED
      BY <1>1, <1>4, <2>2 DEF Same
<1>9. LET v == [answer EXCEPT !.status = "partial_failure", !.error = TRUE]
      IN v \in TurnRec /\ Same(t, v) /\ v.steps = t.steps /\ v.node = "validate"
  <2>1. "partial_failure" \in TurnStatuses
      BY DEF TurnStatuses
  <2> HIDE DEF answer
  <2>2. LET v == [answer EXCEPT !.status = "partial_failure", !.error = TRUE]
        IN /\ v \in TurnRec /\ v.steps = answer.steps /\ v.node = answer.node
           /\ v.msg = answer.msg /\ v.done = answer.done /\ v.bundles = answer.bundles
           /\ v.control = answer.control /\ v.grounded = answer.grounded /\ v.dialogue = answer.dialogue
      BY <1>8, <2>1 DEF TurnRec
  <2> QED
      BY <1>8, <2>2 DEF Same
<1>10. LET v == [t EXCEPT !.node = "work", !.rewritten = TRUE]
       IN v \in TurnRec /\ Same(t, v) /\ v.steps = t.steps /\ v.node = "work" /\ v.rewritten
  <2>1. "work" \in Nodes
      BY DEF Nodes
  <2>2. LET v == [t EXCEPT !.node = "work", !.rewritten = TRUE]
        IN /\ v \in TurnRec /\ v.steps = t.steps /\ v.node = "work" /\ v.rewritten
           /\ v.msg = t.msg /\ v.done = t.done /\ v.bundles = t.bundles
           /\ v.control = t.control /\ v.grounded = t.grounded /\ v.dialogue = t.dialogue
      BY <2>1 DEF TurnRec
  <2> QED
      BY <1>1, <1>4, <2>2 DEF Same
<1>11. b.model < ModelLimit
    BY <1>1 DEF Room
<1>12. CASE TakesNext(t, budget)
  <2>1. turn' = ObserveNext(t) /\ budget' = b
      BY <1>1, <1>4, <1>12 DEF Observe
  <2>2. t.control.queued # << >>
      BY <1>12 DEF TakesNext
  <2>3. PICK v \in TurnRec : /\ v = ObserveNext(t) /\ FocusKept(v) /\ Bound(v) /\ PartsDone(v) /\ Cites(v)
                             /\ v.node \in {"work", "validate"} /\ v.tools = t.tools
                             /\ v.rewritten = t.rewritten /\ v.steps = t.steps
      BY <1>1, <1>2, <1>4, <1>5, <2>2, ObserveNextKeeps
  <2>4. LoopBound(v, b) /\ Room(v, b)
      BY <1>1, <1>4, <2>3 DEF LoopBound, Room, Fresh
  <2> QED
      BY <1>2, <2>1, <2>3, <2>4, TurnGoesOn
<1>13. CASE ~TakesNext(t, budget)
  <2>1. \/ turn' = answer /\ budget' = b
        \/ turn' = [answer EXCEPT !.status = "partial_failure", !.error = TRUE] /\ budget' = b
        \/ \E n \in {1, 2} :
             /\ Rewrites(t, b) /\ budget' = Spend(b, "model", n)
             /\ turn' \in {answer, [t EXCEPT !.node = "work", !.rewritten = TRUE],
                           [answer EXCEPT !.status = "partial_failure", !.error = TRUE]}
      BY <1>1, <1>4, <1>13 DEF Observe
  <2> HIDE DEF answer
  <2>2. CASE turn' = answer /\ budget' = b
      BY <1>7, <1>8, <1>11, <2>2
  <2>3. CASE turn' = [answer EXCEPT !.status = "partial_failure", !.error = TRUE] /\ budget' = b
      BY <1>7, <1>9, <1>11, <2>3
  <2>4. ASSUME NEW n \in {1, 2}, Rewrites(t, b), budget' = Spend(b, "model", n),
               turn' \in {answer, [t EXCEPT !.node = "work", !.rewritten = TRUE],
                          [answer EXCEPT !.status = "partial_failure", !.error = TRUE]}
        PROVE  TurnInv'
    <3>1. b.model + 2 < ModelLimit
        BY <1>1, <1>4, <2>4 DEF Rewrites, Room, Fresh
    <3>2. PICK c \in BudgetRec : c = budget' /\ c.action = b.action /\ c.model = b.model + n
        BY <2>4, SpendIs
    <3>3. c.model < ModelLimit
        BY <1>1, <1>6, <2>4, <3>1, <3>2
    <3> QED
        BY <1>7, <1>8, <1>9, <1>10, <2>4, <3>2, <3>3
  <2> QED
      BY <2>1, <2>2, <2>3, <2>4
<1> QED
    BY <1>12, <1>13

LEMMA PlanKeeps == TurnInv /\ Plan => TurnInv'
<1> SUFFICES ASSUME TurnInv, Plan PROVE TurnInv'
    OBVIOUS
<1>1. PICK r \in TurnRec, b \in BudgetRec :
        /\ r = turn /\ b = budget /\ ~r.grounded /\ r.node = "plan"
        /\ b.model \in Nat /\ b.action \in Nat /\ r.steps \in Nat
        /\ FocusKept(r) /\ Bound(r) /\ PartsDone(r) /\ LoopBound(r, b) /\ Room(r, b) /\ Cites(r)
    BY AtWork DEF Plan
<1>2. UNCHANGED <<control, dialogue, corpus, turns>>
    BY DEF Plan
<1>3. PICK t \in TurnRec : /\ t = [turn EXCEPT !.steps = @ + 1] /\ t.steps = r.steps + 1
                           /\ t.node = "plan" /\ t.msg = r.msg /\ t.control = r.control
                           /\ t.done = r.done /\ t.bundles = r.bundles /\ t.grounded = r.grounded
                           /\ t.tools = r.tools /\ t.rewritten = r.rewritten /\ t.calls = r.calls
                           /\ t.dialogue = r.dialogue
  <2>1. LET v == [r EXCEPT !.steps = @ + 1]
        IN /\ v \in TurnRec /\ v.steps = r.steps + 1
           /\ v.node = r.node /\ v.msg = r.msg /\ v.control = r.control
           /\ v.done = r.done /\ v.bundles = r.bundles /\ v.grounded = r.grounded
           /\ v.tools = r.tools /\ v.rewritten = r.rewritten /\ v.calls = r.calls
           /\ v.dialogue = r.dialogue
    <3>1. r.steps + 1 \in Nat
        BY <1>1
    <3> QED
        BY <3>1 DEF TurnRec
  <2> QED
      BY <1>1, <2>1
<1>4. ModelLimit \in Nat /\ ActionLimit \in Nat
    BY LimitsTyped
<1>5. /\ r.steps = 2 * b.action /\ b.action <= ActionLimit /\ r.tools
      /\ r.calls = {} => b.model + 2 < ModelLimit
      /\ b.model < ModelLimit
    BY <1>1 DEF LoopBound, Room, Fresh
<1>6. ASSUME NEW v, Decides(t, v), turn' = v, NEW c \in BudgetRec, budget' = c,
             c.action = b.action, c.model < ModelLimit, v.node = "left" \/ ~Spent(b)
      PROVE  TurnInv'
  <2>1. v \in TurnRec /\ v.node \in {"execute", "left"} /\ Same(r, v) /\ v.steps = r.steps + 1 /\ v.tools
      BY <1>1, <1>3, <1>5, <1>6 DEF Decides, Same
  <2>2. FocusKept(v) /\ Bound(v) /\ PartsDone(v) /\ Cites(v)
      BY <1>1, <2>1, SameKeeps
  <2>3. LoopBound(v, c)
    <3>1. v.steps = 2 * b.action + 1 /\ v.steps <= 2 * ActionLimit + 1
        BY <1>1, <1>4, <1>5, <2>1
    <3>2. v.node = "execute" => b.action < ActionLimit
        BY <1>1, <1>4, <1>6 DEF Spent
    <3> QED
        BY <1>6, <2>1, <3>1, <3>2 DEF LoopBound
  <2>4. Room(v, c)
      BY <1>6, <2>1 DEF Room, Fresh
  <2> QED
      BY <1>2, <1>6, <2>1, <2>2, <2>3, <2>4, TurnGoesOn
<1>7. CASE turn' = Left(t, "finished") /\ budget' = b
  <2>1. "finished" \in Stops
      BY DEF Stops
  <2> QED
      BY <1>5, <1>6, <1>7, <2>1, LeftDecides
<1>8. CASE turn' \in Planned(t, b) /\ budget' = b
    BY <1>5, <1>6, <1>8, PlannedDecides
<1>9. ASSUME NEW n \in {1, 2}, ~Spent(b), ~Reserved(t, b), budget' = Spend(b, "model", n),
             turn' \in {Left(t, "planner_failed")} \cup UNION {Adopted(t, d) : d \in Decisions}
      PROVE  TurnInv'
  <2>1. "planner_failed" \in Stops
      BY DEF Stops
  <2>2. Decides(t, turn')
      BY <1>9, <2>1, LeftDecides, AdoptedDecides
  <2>3. PICK c \in BudgetRec : c = budget' /\ c.action = b.action /\ c.model = b.model + n
      BY <1>9, SpendIs
  <2>4. b.model + 2 < ModelLimit
      BY <1>1, <1>3, <1>4, <1>5, <1>9 DEF Reserved
  <2>5. c.model < ModelLimit
      BY <1>1, <1>4, <1>9, <2>3, <2>4
  <2> QED
      BY <1>6, <1>9, <2>2, <2>3, <2>5
<1>10. \/ turn' = Left(t, "finished") /\ budget' = b
       \/ turn' \in Planned(t, b) /\ budget' = b
       \/ \E n \in {1, 2} :
            /\ ~Spent(b) /\ ~Reserved(t, b) /\ budget' = Spend(b, "model", n)
            /\ turn' \in {Left(t, "planner_failed")} \cup UNION {Adopted(t, d) : d \in Decisions}
    BY <1>1, <1>3 DEF Plan
<1> QED
    BY <1>7, <1>8, <1>9, <1>10

LEMMA ExecuteKeeps == TurnInv /\ Execute => TurnInv'
<1> SUFFICES ASSUME TurnInv, Execute PROVE TurnInv'
    OBVIOUS
<1>1. PICK r \in TurnRec, b \in BudgetRec :
        /\ r = turn /\ b = budget /\ ~r.grounded /\ r.node = "execute"
        /\ b.model \in Nat /\ b.action \in Nat /\ r.steps \in Nat
        /\ FocusKept(r) /\ Bound(r) /\ PartsDone(r) /\ LoopBound(r, b) /\ Room(r, b) /\ Cites(r)
    BY AtWork DEF Execute
<1>2. corpus \in [Passages -> Versions] /\ UNCHANGED <<control, dialogue, corpus, turns>>
    BY DEF TurnInv, TurnTyped, Execute
<1>3. PICK t \in TurnRec : /\ t = [turn EXCEPT !.steps = @ + 1] /\ t.steps = r.steps + 1
                           /\ t.node = "execute" /\ t.msg = r.msg /\ t.control = r.control
                           /\ t.done = r.done /\ t.bundles = r.bundles /\ t.grounded = r.grounded
                           /\ t.tools = r.tools /\ t.dialogue = r.dialogue
  <2>1. LET v == [r EXCEPT !.steps = @ + 1]
        IN /\ v \in TurnRec /\ v.steps = r.steps + 1
           /\ v.node = r.node /\ v.msg = r.msg /\ v.control = r.control
           /\ v.done = r.done /\ v.bundles = r.bundles /\ v.grounded = r.grounded /\ v.tools = r.tools
           /\ v.dialogue = r.dialogue
    <3>1. r.steps + 1 \in Nat
        BY <1>1
    <3> QED
        BY <3>1 DEF TurnRec
  <2> QED
      BY <1>1, <2>1
<1>4. ModelLimit \in Nat /\ ActionLimit \in Nat
    BY LimitsTyped
<1>5. r.steps = 2 * b.action + 1 /\ b.action < ActionLimit /\ r.tools /\ b.model < ModelLimit
    BY <1>1 DEF LoopBound, Room
<1>6. PICK x \in Calls(t, b) : turn' = Observed(t, x.t) /\ budget' = x.b
    BY <1>1, <1>3 DEF Execute
<1>7. /\ x.b \in BudgetRec /\ x.b.model = b.model
      /\ x.t = Idle \/ Executed(t, x.t)
      /\ ~Affords(b, "action", 1) => x.b = b /\ Executed(t, x.t) /\ x.t.stop = "budget_exhausted"
      /\ Affords(b, "action", 1) => x.b.action = b.action + 1
    BY <1>2, CallsCarry
<1>8. PICK v : v = turn' /\ Sees(t, v)
    BY <1>6, <1>7, ObservedSees
<1>9. ~Affords(b, "action", 1) => v.node = "left"
    BY <1>6, <1>7, <1>8, ObservedSees, TurnIsNotIdle DEF Executed
<1>10. v \in TurnRec /\ v.node \in {"plan", "left"} /\ Same(r, v) /\ v.steps = r.steps + 1 /\ v.tools /\ v.calls # {}
    BY <1>1, <1>3, <1>5, <1>8 DEF Sees, Same
<1>11. FocusKept(v) /\ Bound(v) /\ PartsDone(v) /\ Cites(v)
    BY <1>1, <1>10, SameKeeps
<1>12. LoopBound(v, x.b)
  <2>1. v.steps = 2 * (b.action + 1) /\ v.steps <= 2 * ActionLimit
      BY <1>1, <1>4, <1>5, <1>10
  <2>2. v.node = "plan" => x.b.action = b.action + 1 /\ b.action + 1 <= ActionLimit
      BY <1>1, <1>4, <1>5, <1>7, <1>9
  <2> QED
      BY <1>1, <1>4, <1>10, <2>1, <2>2 DEF LoopBound
<1>13. Room(v, x.b)
    BY <1>5, <1>7, <1>10 DEF Room, Fresh
<1> QED
    BY <1>2, <1>6, <1>7, <1>8, <1>10, <1>11, <1>12, <1>13, TurnGoesOn

LEMMA LeaveKeeps == TurnInv /\ Leave => TurnInv'
<1> SUFFICES ASSUME TurnInv, Leave PROVE TurnInv'
    OBVIOUS
<1>1. PICK r \in TurnRec, b \in BudgetRec :
        /\ r = turn /\ b = budget /\ ~r.grounded /\ r.node = "left"
        /\ b.model \in Nat /\ b.action \in Nat /\ r.steps \in Nat
        /\ FocusKept(r) /\ Bound(r) /\ PartsDone(r) /\ LoopBound(r, b) /\ Room(r, b) /\ Cites(r)
    BY AtWork DEF Leave
<1>2. UNCHANGED <<control, dialogue, corpus, turns>>
    BY DEF Leave
<1>3. CASE turn' = Idle /\ budget' = FreshBudget(0)
    BY <1>2, <1>3, TurnIsLost
<1>4. ASSUME NEW error \in BOOLEAN, NEW status \in TurnStatuses,
             turn' = [r EXCEPT !.node = "observe", !.error = error, !.status = status], budget' = b
      PROVE  TurnInv'
  <2>1. "observe" \in Nodes
      BY DEF Nodes
  <2>2. LET w == [r EXCEPT !.node = "observe", !.error = error, !.status = status]
        IN /\ w \in TurnRec /\ w.node = "observe" /\ w.msg = r.msg /\ w.control = r.control
           /\ w.done = r.done /\ w.bundles = r.bundles /\ w.grounded = r.grounded
           /\ w.tools = r.tools /\ w.steps = r.steps /\ w.dialogue = r.dialogue
      BY <2>1 DEF TurnRec
  <2>3. PICK v \in TurnRec : /\ v = turn' /\ v.node = "observe" /\ v.msg = r.msg /\ v.control = r.control
                             /\ v.done = r.done /\ v.bundles = r.bundles /\ v.grounded = r.grounded
                             /\ v.tools = r.tools /\ v.steps = r.steps /\ v.dialogue = r.dialogue
      BY <1>4, <2>2
  <2>4. Same(r, v)
      BY <1>1, <2>3 DEF Same
  <2>5. FocusKept(v) /\ Bound(v) /\ PartsDone(v) /\ Cites(v)
      BY <1>1, <2>4, SameKeeps
  <2>6. LoopBound(v, b) /\ Room(v, b)
      BY <1>1, <2>3 DEF LoopBound, Room, Fresh
  <2> QED
      BY <1>2, <1>4, <2>3, <2>5, <2>6, TurnGoesOn
<1>5. \/ turn' = Idle /\ budget' = FreshBudget(0)
      \/ \E error \in BOOLEAN, status \in TurnStatuses :
           /\ turn' = [r EXCEPT !.node = "observe", !.error = error, !.status = status]
           /\ budget' = b
  <2> DEFINE fails == r.stop \in {"planner_failed", "tool_failed"}
             broke == r.stop \notin {"finished", "analysis_ready"}
             ending == IF r.done # {} THEN "partial_failure" ELSE "paused_gap"
  <2>1. PICK error \in BOOLEAN : error = (r.error \/ fails)
      OBVIOUS
  <2>2. PICK status \in TurnStatuses : status = IF broke THEN ending ELSE r.status
      BY DEF TurnStatuses, TurnRec
  <2>3. \/ turn' = Idle /\ budget' = FreshBudget(0)
        \/ /\ turn' = [r EXCEPT !.node = "observe", !.error = r.error \/ fails,
                                !.status = IF broke THEN ending ELSE r.status]
           /\ budget' = b
      BY <1>1 DEF Leave, TurnRec
  <2> QED
      BY <2>1, <2>2, <2>3
<1> QED
    BY <1>3, <1>4, <1>5

\* A passage whose id denotes two versions is not offered, so it is not cited.
LEMMA MergedIsSingle ==
  ASSUME NEW bundles \in SUBSET HonestBundles
  PROVE  LET merged == Merged(bundles)
         IN /\ merged.passages \subseteq Items
            /\ merged.model \subseteq merged.passages
            /\ merged.model \subseteq Union(bundles, "model") \cap ModelUse
            /\ \A i, j \in merged.model : i.id = j.id => i = j
<1> DEFINE model == Union(bundles, "model")
           passages == Union(bundles, "passages")
           clear == {i \in model : i.id \notin Ambiguous(model)}
           shown == {i \in passages : i.id \notin Ambiguous(model)}
<1>1. Merged(bundles).passages = shown /\ Merged(bundles).model = clear
    BY DEF Merged
<1>2. \A b \in bundles : b.passages \subseteq Items /\ b.model \subseteq b.passages \cap ModelUse
    BY DEF HonestBundles, BundleRec, Honest
<1>3. passages \subseteq Items /\ model \subseteq passages \cap ModelUse
    BY <1>2 DEF Union
<1>4. ASSUME NEW i \in clear, NEW j \in clear, i.id = j.id
      PROVE  i = j
  <2>1. i \in Items /\ j \in Items /\ i \in model /\ j \in model /\ i.id \notin Ambiguous(model)
      BY <1>3
  <2> HIDE DEF model
  <2>2. i.ver = j.ver
      BY <1>4, <2>1 DEF Ambiguous
  <2> QED
      BY <1>4, <2>1, <2>2 DEF Items
<1> HIDE DEF model, passages
<1>5. shown \subseteq Items /\ clear \subseteq shown /\ clear \subseteq model \cap ModelUse
    BY <1>3
<1> HIDE DEF clear, shown
<1> QED
    BY <1>1, <1>4, <1>5 DEF model

LEMMA ExplainKeeps == TurnInv /\ Explain => TurnInv'
<1> SUFFICES ASSUME TurnInv, Explain PROVE TurnInv'
    OBVIOUS
<1>1. PICK r \in TurnRec, b \in BudgetRec :
        /\ r = turn /\ b = budget /\ ~r.grounded /\ r.node = "validate"
        /\ b.model \in Nat /\ b.action \in Nat /\ r.steps \in Nat
        /\ FocusKept(r) /\ Bound(r) /\ PartsDone(r) /\ LoopBound(r, b) /\ Room(r, b) /\ Cites(r)
    BY AtWork DEF Explain
<1>2. UNCHANGED <<control, dialogue, corpus, turns>>
    BY DEF Explain
<1>3. PICK bundles \in SUBSET HonestBundles : bundles = r.bundles
    BY <1>1 DEF Cites
<1>4. PICK merged : merged = Merged(bundles)
    OBVIOUS
<1>5. /\ merged.passages \subseteq Items /\ merged.model \subseteq merged.passages
      /\ merged.model \subseteq Union(bundles, "model") \cap ModelUse
      /\ \A i, j \in merged.model : i.id = j.id => i = j
    BY <1>4, MergedIsSingle
<1>6. PICK shown \in SUBSET Items :
        shown = IF r.bundles = {} \/ r.analysis THEN {}
                ELSE {i \in merged.passages : i.id \in Excerpts(merged)}
    BY <1>5
<1>7. ASSUME NEW cited \in SUBSET Items, NEW grounded \in BOOLEAN,
             turn' = [r EXCEPT !.node = "commit", !.cited = cited, !.grounded = grounded],
             grounded => /\ cited # {} /\ cited \subseteq Union(bundles, "model") \cap ModelUse
                         /\ \A i, j \in cited : i.id = j.id => i = j,
             NEW c \in BudgetRec, budget' = c
      PROVE  TurnInv'
  <2>1. "commit" \in Nodes
      BY DEF Nodes
  <2>2. LET w == [r EXCEPT !.node = "commit", !.cited = cited, !.grounded = grounded]
        IN /\ w \in TurnRec /\ w.node = "commit" /\ w.msg = r.msg /\ w.control = r.control
           /\ w.done = r.done /\ w.bundles = r.bundles /\ w.grounded = grounded
           /\ w.cited = cited /\ w.steps = r.steps /\ w.dialogue = r.dialogue
      BY <2>1 DEF TurnRec
  <2>3. PICK v \in TurnRec : /\ v = turn' /\ v.node = "commit" /\ v.msg = r.msg /\ v.control = r.control
                             /\ v.done = r.done /\ v.bundles = r.bundles /\ v.grounded = grounded
                             /\ v.cited = cited /\ v.steps = r.steps /\ v.dialogue = r.dialogue
      BY <1>7, <2>2
  <2>4. FocusKept(v) /\ Bound(v) /\ PartsDone(v)
      BY <1>1, <2>3 DEF FocusKept, Bound, PartsDone
  <2>5. Cites(v)
      BY <1>1, <1>3, <1>7, <2>3 DEF Cites
  <2>6. LoopBound(v, c) /\ Room(v, c)
      BY <1>1, <2>3, SMTT(30) DEF LoopBound, Room, Fresh
  <2> QED
      BY <1>2, <1>7, <2>3, <2>4, <2>5, <2>6, TurnGoesOn
<1>8. \/ turn' = [r EXCEPT !.node = "commit", !.cited = shown] /\ budget' = b
      \/ \E n \in {1, 2} : \E ids \in SUBSET Passages :
           /\ Supported(ids, merged) /\ budget' = Spend(b, "model", n)
           /\ turn' = [r EXCEPT !.node = "commit", !.cited = merged.model \cap Cited(ids, merged),
                                !.grounded = TRUE]
  <2> DEFINE plain == [r EXCEPT !.node = "commit", !.cited = shown]
  <2>1. \/ turn' = plain /\ budget' = b
        \/ \E n \in {1, 2} : \E ids \in SUBSET Passages :
             /\ Supported(ids, merged) /\ budget' = Spend(b, "model", n)
             /\ turn' = [plain EXCEPT !.cited = merged.model \cap Cited(ids, merged), !.grounded = TRUE]
    <3>1. plain = [turn EXCEPT !.node = "commit",
                     !.cited = IF turn.bundles = {} \/ turn.analysis THEN {}
                               ELSE {i \in merged.passages : i.id \in Excerpts(merged)}]
        BY <1>1, <1>6
    <3> DEFINE first == [turn EXCEPT !.node = "commit",
                           !.cited = IF turn.bundles = {} \/ turn.analysis THEN {}
                                     ELSE {i \in merged.passages : i.id \in Excerpts(merged)}]
    <3>2. merged = Merged(turn.bundles)
        BY <1>1, <1>3, <1>4
    <3>3. \/ turn' = first /\ budget' = budget
          \/ \E n \in {1, 2} : \E ids \in SUBSET Passages :
               /\ Supported(ids, merged) /\ budget' = Spend(budget, "model", n)
               /\ turn' = [first EXCEPT !.cited = merged.model \cap Cited(ids, merged), !.grounded = TRUE]
        BY <3>2, ZenonT(60) DEF Explain
    <3>4. first = plain
        BY <3>1
    <3> HIDE DEF plain, first
    <3> QED
        BY <1>1, <3>3, <3>4
  <2>2. ASSUME NEW cited
        PROVE  [plain EXCEPT !.cited = cited, !.grounded = TRUE]
                 = [r EXCEPT !.node = "commit", !.cited = cited, !.grounded = TRUE]
      BY DEF TurnRec
  <2> QED
      BY <2>1, <2>2
<1>9. CASE turn' = [r EXCEPT !.node = "commit", !.cited = shown] /\ budget' = b
  <2>1. [r EXCEPT !.node = "commit", !.cited = shown]
          = [r EXCEPT !.node = "commit", !.cited = shown, !.grounded = FALSE]
      BY <1>1 DEF TurnRec
  <2> QED
      BY <1>7, <1>9, <2>1
<1>10. ASSUME NEW n \in {1, 2}, NEW ids \in SUBSET Passages, Supported(ids, merged),
              budget' = Spend(b, "model", n),
              turn' = [r EXCEPT !.node = "commit", !.cited = merged.model \cap Cited(ids, merged),
                                !.grounded = TRUE]
       PROVE  TurnInv'
  <2>1. PICK cited \in SUBSET Items : cited = merged.model \cap Cited(ids, merged)
      BY <1>5
  <2>2. cited # {}
      BY <1>5, <1>10, <2>1 DEF Supported, Cited
  <2>3. cited \subseteq merged.model
      BY <2>1
  <2>4. Spend(b, "model", n) \in BudgetRec
      BY SpendIs
  <2> QED
      BY <1>5, <1>7, <1>10, <2>1, <2>2, <2>3, <2>4
<1> QED
    BY <1>8, <1>9, <1>10

LEMMA FinalStatusTyped ==
  ASSUME NEW t \in TurnRec
  PROVE  FinalStatus(t) \in TaskStatuses \cup {None}
<1>1. t.control.active.status \in TaskStatuses \cup {None}
    BY DEF TurnRec, ControlRec, TaskRec
<1> QED
    BY <1>1 DEF FinalStatus, TaskStatuses, Over

\* commit: the case takes over the control record of the turn, with the status
\* of its task.
LEMMA Committed ==
  ASSUME TurnInv, Commit
  PROVE  /\ control' \in ControlRec /\ control'.active.id = turn.control.active.id
         /\ control'.suspended = turn.control.suspended /\ control'.queued = turn.control.queued
<1>1. PICK t \in TurnRec : t = turn
    BY AtWork DEF Commit
<1>2. t.control \in ControlRec
    BY DEF TurnRec
<1>3. control' = t.control \/ control' = Put(t.control, FinalStatus(t))
    BY <1>1 DEF Commit
<1> QED
    BY <1>1, <1>2, <1>3, FinalStatusTyped, PutKeeps

LEMMA CommitKeeps == TurnInv /\ Commit => TurnInv'
<1> SUFFICES ASSUME TurnInv, Commit PROVE TurnInv'
    OBVIOUS
<1>1. PICK t \in TurnRec : t = turn /\ FocusKept(t) /\ Bound(t)
    BY AtWork DEF Commit
<1>2. turns \in Nat /\ dialogue \in DialogueRec /\ corpus \in [Passages -> Versions] /\ TaskId(turns) \in Nat
    BY IdsGrow DEF TurnInv, TurnTyped
<1>3. UNCHANGED <<corpus, turns>> /\ turn' = Idle /\ budget' = FreshBudget(0)
    BY DEF Commit
<1>4. /\ control' \in ControlRec /\ control'.active.id = t.control.active.id
      /\ control'.suspended = t.control.suspended /\ control'.queued = t.control.queued
    BY <1>1, Committed
<1>5. t.control.active.id \in Nat /\ t.control.suspended.id \in Nat /\ t.dialogue \in DialogueRec
    BY DEF TurnRec, ControlRec, TaskRec
<1>6. Focus(control', TaskId(turns) + 3)
    BY <1>1, <1>2, <1>4, <1>5 DEF FocusKept, Focus, Apart
<1>7. dialogue' \in DialogueRec
  <2>1. PICK id \in Nat : id = t.control.active.id
      BY <1>5
  <2>2. [t.dialogue EXCEPT !.pending = [@ EXCEPT !.task = id]] \in DialogueRec
      BY <1>5 DEF DialogueRec, QuestionRec
  <2> QED
      BY <1>1, <1>2, <1>5, <2>1, <2>2 DEF Commit
<1>8. budget' \in BudgetRec
    BY <1>3 DEF FreshBudget, BudgetRec
<1>9. Owned(dialogue', control')
  <2>1. CASE t.msg.action = "summary"
    <3>1. dialogue' = dialogue /\ control'.active.id = control.active.id
        BY <1>1, <1>4, <2>1 DEF Commit, Bound
    <3> QED
        BY <3>1 DEF Owned, TurnInv, TurnTyped
  <2>2. CASE t.msg.action # "summary" /\ t.question = NoQuestion
    <3>1. dialogue' = t.dialogue
        BY <1>1, <2>2 DEF Commit
    <3> QED
        BY <1>1, <1>4, <2>2, <3>1 DEF Bound, Owned
  <2>3. CASE t.msg.action # "summary" /\ t.question # NoQuestion
    <3>1. dialogue' = [t.dialogue EXCEPT !.pending = [@ EXCEPT !.task = t.control.active.id]]
        BY <1>1, <2>3 DEF Commit
    <3>2. dialogue'.pending.task = t.control.active.id
        BY <1>5, <3>1 DEF DialogueRec, QuestionRec
    <3> QED
        BY <1>4, <3>2 DEF Owned
  <2> QED
      BY <2>1, <2>2, <2>3
<1> QED
    BY <1>2, <1>3, <1>6, <1>7, <1>8, <1>9 DEF TurnInv, TurnTyped, Focus, Owned

LEMMA TimeKeeps == TurnInv /\ TimePasses => TurnInv'
<1> SUFFICES ASSUME TurnInv, TimePasses PROVE TurnInv'
    OBVIOUS
<1>1. PICK t \in TurnRec, b \in BudgetRec :
        /\ t = turn /\ b = budget
        /\ FocusKept(t) /\ Bound(t) /\ PartsDone(t) /\ LoopBound(t, b) /\ Room(t, b) /\ Cites(t)
    BY AtWork DEF TimePasses
<1>2. PICK c \in BudgetRec : c = [b EXCEPT !.time = @ - 1] /\ c.model = b.model /\ c.action = b.action
  <2>1. b.time - 1 \in Nat
      BY <1>1 DEF TimePasses, BudgetRec
  <2>2. LET d == [b EXCEPT !.time = @ - 1]
        IN d \in BudgetRec /\ d.model = b.model /\ d.action = b.action
      BY <2>1 DEF BudgetRec
  <2> QED
      BY <2>2
<1>3. LoopBound(t, c) /\ Room(t, c)
    BY <1>1, <1>2 DEF LoopBound, Room
<1>4. UNCHANGED <<control, dialogue, corpus, turns>> /\ turn' = t /\ budget' = c
    BY <1>1, <1>2 DEF TimePasses
<1> QED
    BY <1>1, <1>3, <1>4, TurnGoesOn

LEMMA CorpusKeeps == TurnInv /\ CorpusMoves => TurnInv'
<1> SUFFICES ASSUME TurnInv, CorpusMoves PROVE TurnInv'
    OBVIOUS
<1>1. corpus' \in [Passages -> Versions]
    BY DEF TurnInv, TurnTyped, CorpusMoves
<1>2. UNCHANGED <<control, dialogue, turn, budget, turns>>
    BY DEF CorpusMoves
<1>3. AtTurn(turn, budget)' <=> AtTurn(turn, budget)
    BY <1>2, PrimedParts DEF AtTurn, FocusKept, Bound
<1> QED
    BY <1>1, <1>2, <1>3 DEF TurnInv, TurnTyped, Focus, Owned

----------------------------------------------------------------------------
(***************************************************************************)
(* The theorems                                                            *)
(***************************************************************************)
LEMMA InitTurn == Init => TurnInv
<1> SUFFICES ASSUME Init PROVE TurnInv
    OBVIOUS
<1>1. << >> \in Seq(Jobs) /\ Len(<< >>) = 0
    OBVIOUS
<1>2. Focus(control, TaskId(turns) + 3)
    BY <1>1, NoTaskTyped DEF Init, Focus, NoControl, ControlRec, Apart, TaskId
<1>3. NewDialogue \in DialogueRec
    BY NoQuestionTyped DEF NewDialogue, DialogueRec, DialogueStatuses, AnyQuery
<1>4. FreshBudget(0) \in BudgetRec
    BY DEF FreshBudget, BudgetRec
<1>5. corpus \in [Passages -> Versions]
  <2>1. (CHOOSE v \in Versions : TRUE) \in Versions
      BY EvidenceAssumption
  <2> QED
      BY <2>1 DEF Init
<1>6. Owned(dialogue, control)
    BY DEF Init, NewDialogue, Owned
<1> QED
    BY <1>2, <1>3, <1>4, <1>5, <1>6 DEF Init, TurnInv, TurnTyped

LEMMA NextTurn == TurnInv /\ [Next]_vars => TurnInv'
<1>1. TurnInv /\ UNCHANGED vars => TurnInv'
  <2> SUFFICES ASSUME TurnInv, UNCHANGED vars PROVE TurnInv'
      OBVIOUS
  <2>1. UNCHANGED <<control, dialogue, turn, budget, corpus, turns>>
      BY DEF vars
  <2>2. AtTurn(turn, budget)' <=> AtTurn(turn, budget)
      BY <2>1, PrimedParts DEF AtTurn, FocusKept, Bound
  <2> QED
      BY <2>1, <2>2 DEF TurnInv, TurnTyped, Focus, Owned
<1> QED
    BY <1>1, ReceiveKeeps, WorkKeeps, ObserveKeeps, PlanKeeps, ExecuteKeeps, LeaveKeeps, ExplainKeeps,
       CommitKeeps, TimeKeeps, CorpusKeeps DEF Next, Rest

\* Every turn has its types and stays within the bounds of loop, budget and focus.
THEOREM TurnSound == Spec => []TurnInv
BY InitTurn, NextTurn, PTL DEF Spec

\* No part of a request with several is lost (hybrid.observe).
THEOREM PartsAreKept == Spec => []PartsKept
<1>1. TurnInv => PartsKept
    BY DEF TurnInv, AtTurn, PartsDone, PartsKept
<1> QED
    BY <1>1, TurnSound, PTL

\* An open question loses its task to a queued part of a request at most.
THEOREM QuestionsAreBound == Spec => []QuestionBound
<1>1. TurnInv => QuestionBound
    BY DEF TurnInv, TurnTyped, Owned, QuestionBound
<1> QED
    BY <1>1, TurnSound, PTL

\* The tool loop never reaches its recursion limit (tool_harness.py, line 36).
THEOREM ToolLoopEnds == Spec => []LoopEnds
<1>1. TurnInv => LoopEnds
  <2> SUFFICES ASSUME TurnInv, turn # Idle PROVE turn.steps <= LoopLimit
      BY DEF LoopEnds
  <2>1. turn.steps \in Nat /\ turn.steps <= 2 * ActionLimit + 1
      BY DEF TurnInv, AtTurn, TurnRec, LoopBound
  <2> QED
      BY <2>1, LimitsTyped
<1> QED
    BY <1>1, TurnSound, PTL

\* The explanation of what was found has a model call left (hybrid.py, line 142).
THEOREM AnswerIsAfforded == Spec => []AnswerHasRoom
<1>1. TurnInv => AnswerHasRoom
    BY DEF TurnInv, AtTurn, Room, AnswerHasRoom
<1> QED
    BY <1>1, TurnSound, PTL

\* An explanation cites one version of a passage, which the model was offered,
\* however the corpus moves between its searches (merge_bundles).
THEOREM CitationsAreSingle == Spec => []CitationsSingle
<1>1. TurnInv => CitationsSingle
    BY DEF TurnInv, AtTurn, Cites, CitationsSingle
<1> QED
    BY <1>1, TurnSound, PTL

\* Only a message that resumes takes the place of a suspended task (resolve).
THEOREM SuspendedIsKept == Spec => SuspendedKept
<1>1. TurnInv /\ [Next]_vars =>
        (control.suspended # NoTask /\ control'.suspended # control.suspended
           => turn.msg.action = "resume") \/ UNCHANGED vars
  <2> SUFFICES ASSUME TurnInv, [Next]_vars, control.suspended # NoTask,
                      control'.suspended # control.suspended
               PROVE  turn.msg.action = "resume"
      BY SMTT(30)
  <2>1. Commit
    <3>1. control' # control
        OBVIOUS
    <3> QED
        BY <3>1 DEF Next, vars, Receive, Work, Observe, Plan, Execute, Leave, Explain,
                    TimePasses, CorpusMoves, Rest
  <2>2. control'.suspended = turn.control.suspended
      BY <2>1, Committed
  <2>3. FocusKept(turn)
      BY <2>1 DEF Commit, TurnInv, AtTurn
  <2> QED
      BY <2>2, <2>3 DEF FocusKept
<1> QED
    BY <1>1, TurnSound, PTL DEF Spec, SuspendedKept
=============================================================================
