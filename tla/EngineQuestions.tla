-------------------------- MODULE EngineQuestions --------------------------
(***************************************************************************)
(* Which question of the tax engine the user is asked next, and what an    *)
(* answer does: packages/domain_bridge/question_order.py with the answers  *)
(* of coordinator.py.  The engine asks for what it lacks; some of it makes *)
(* no sense before something else is known, so a question may wait for     *)
(* prerequisites, and a prerequisite the engine did not ask for is added.  *)
(* Gates are prerequisites that are no facts of the case: "has a notice    *)
(* been received?".  They hold for the transaction they were asked about.  *)
(*                                                                         *)
(* The case is that of one object of one structure.  The engine is         *)
(* external: its needs are one of Needs, of which it asks what has no      *)
(* answer.  Wording, answer formats and the retry of a request (module     *)
(* CaseService) are left out, as is the one field whose prerequisites      *)
(* depend on the rules that ask for it.                                    *)
(***************************************************************************)
EXTENDS Naturals, FiniteSets

CONSTANTS Facts,       \* keys of canonical records
          CoreFacts,   \* those that identify the transaction
          Gates,       \* keys that begin with "interview:"
          Require,     \* GATES, EVENT_GATES, ...: key -> set of [key, want]
          Members,     \* group facts -> the same fact of the members
          Reviewed,    \* keys a person has to look at: "derived" and "structured_review"
          Actions,     \* feasibility questions: key -> [about, yes], the value "yes" stands for
          FactValues,  \* what a user can answer: fact -> values
          FirstCases,  \* what a structure may come with: [mode, facts]
          Needs,       \* what the engine may need: sets of questions
          EditedFacts, \* bound of the model: the facts edits are about
          MaxDetours   \* bound of the model: edits, deferrals and pauses

Absent == "absent"
Unknown == "unknown"
Conflict == "conflict"
NoQuestion == [key |-> "none", kind |-> "none"]

ASSUME CoreFactsAreFacts == CoreFacts \subseteq Facts

\* The tables name keys of their own, and no prerequisite leads back to what
\* it is for (the tests walk them): among any keys one waits for no other.
ASSUME RequireAssumption ==
    /\ \A k \in Facts \cup Gates : \A r \in Require[k] : r.key \in Facts \cup Gates
    /\ \A S \in SUBSET (Facts \cup Gates) : S # {} => \E k \in S : \A r \in Require[k] : r.key \notin S
    /\ \A a \in DOMAIN Actions : Actions[a].about \in Facts

\* The engine asks for facts, rulings and the feasibility of actions.
ASSUME NeedsAssumption ==
    \A need \in Needs : \A q \in need : q.key \in IF q.kind = "action" THEN DOMAIN Actions ELSE Facts \cup Gates

VARIABLES case,     \* the answers so far
          asked,    \* domain_outcome: its questions, and whether it is current
          flow,     \* domain_workflow: "none", "active" or "paused"
          pending,  \* the question displayed
          detours

questionVars == <<case, asked, flow, pending, detours>>

----------------------------------------------------------------------------
(***************************************************************************)
(* question_order.py                                                       *)
(***************************************************************************)
\* interview_context: what identifies the transaction.
Context(c) == [k \in CoreFacts |-> c.facts[k]]

\* Action answers about k; they count only while a plan is sought.
Feasible(c, k) ==
    {IF c.actions[a] = "yes" THEN Actions[a].yes ELSE CHOOSE v \in {"yes", "no"} : v # Actions[a].yes :
        a \in {x \in DOMAIN Actions : Actions[x].about = k /\ c.actions[x] # Absent}}

\* A group fact no record states is what all members that state it agree on.
OfMembers(c, k) ==
    LET said == {c.facts[m] : m \in Members[k]} \ {Absent}
    IN  IF Cardinality(said) = 1 /\ said \cap {Unknown, Conflict} = {} THEN CHOOSE v \in said : TRUE ELSE Absent

ValueOf(c, k) ==
    CASE k \in Gates -> IF c.gates[k].value = Absent \/ c.gates[k].context # Context(c) THEN Absent ELSE c.gates[k].value
      [] k \in Facts /\ c.facts[k] # Absent -> IF c.facts[k] = Conflict THEN Absent ELSE c.facts[k]
      [] k \in Facts /\ c.facts[k] = Absent /\ c.mode = "plan_structure" /\ Feasible(c, k) # {} ->
            IF Cardinality(Feasible(c, k)) = 1 THEN CHOOSE v \in Feasible(c, k) : TRUE ELSE Absent
      [] k \in Facts /\ c.facts[k] = Absent /\ ~(c.mode = "plan_structure" /\ Feasible(c, k) # {}) ->
            IF k \in DOMAIN Members THEN OfMembers(c, k) ELSE Absent

RequirementState(c, r) ==
    LET v == ValueOf(c, r.key)
    IN  CASE v \in {Absent, Unknown} -> "waiting"
          [] v \notin {Absent, Unknown} /\ v \in r.want -> "ready"
          [] v \notin {Absent, Unknown} /\ v \notin r.want -> "not_applicable"

\* The keys k depends on, itself included, and all they require.
Above ==
    [k \in Facts \cup Gates |->
        {x \in Facts \cup Gates : \A S \in SUBSET (Facts \cup Gates) :
            k \in S /\ (\A y \in S : \A r \in Require[y] : r.key \in S) => x \in S}]
AllRequired == [k \in Facts \cup Gates |-> UNION {Require[x] : x \in Above[k]}]

\* interview_status, its recursion along the prerequisites unfolded: one that
\* fails or that a person has to look at decides for all that depend on it.
Status(c, k) ==
    LET states == {RequirementState(c, r) : r \in AllRequired[k]}
        review == \E x \in Above[k] \cap Reviewed : \A r \in AllRequired[x] : RequirementState(c, r) # "waiting"
    IN  CASE "not_applicable" \in states -> "not_applicable"
          [] "not_applicable" \notin states /\ review -> "needs_policy_review"
          [] "not_applicable" \notin states /\ ~review /\ "waiting" \in states -> "waiting"
          [] "not_applicable" \notin states /\ ~review /\ "waiting" \notin states -> "ready"

\* Feasibility and rulings are about the fact they name.
About(q) == IF q.kind = "action" THEN Actions[q.key].about ELSE q.key
Eligible(c, q) == Status(c, About(q)) = "ready"

\* A mutant of Prepared that stops at the first level.
PreparedOneLevel(c, raw) ==
    raw \cup {[key |-> r.key, kind |-> "data"] :
        r \in {x \in UNION {Require[About(q)] : q \in raw} : ValueOf(c, x.key) = Absent}}

\* prepare_questions: adds the prerequisites that have no value, and theirs,
\* also beyond one that is known; not those of a question that fell away.
Prepared(c, raw) ==
    LET keys == {About(q) : q \in raw}
        needed == UNION {Above[k] : k \in {x \in keys : Status(c, x) # "not_applicable"}}
    IN  raw \cup {[key |-> k, kind |-> "data"] : k \in {x \in needed \ keys : ValueOf(c, x) = Absent}}

Asking == {"data", "action"}
Deferred(c, q) == c.deferred[q.key].is /\ c.deferred[q.key].context = Context(c)

\* next_question: a prerequisite of another question goes first.
NextQuestion(c, questions) ==
    LET open == {q \in questions : q.kind \in Asking /\ ~Deferred(c, q) /\ Eligible(c, q)}
        first == {q \in open : \E p \in questions : \E r \in Require[About(p)] : r.key = q.key}
    IN  CASE open = {} -> NoQuestion
          [] first # {} -> CHOOSE q \in first : TRUE
          [] first = {} /\ open # {} -> CHOOSE q \in open : TRUE

----------------------------------------------------------------------------
(***************************************************************************)
(* coordinator.py                                                          *)
(***************************************************************************)
\* A mutant of Unanswered that asks again for what the user does not know.
UnansweredUnknown(c, q) ==
    CASE q.kind = "data" -> c.facts[q.key] \in {Absent, Unknown}
      [] q.kind = "action" -> c.mode = "plan_structure" /\ c.actions[q.key] = Absent
      [] q.kind = "ruling" -> q.key \notin c.rulings

\* What the engine asks of its needs.  An answer "unknown" is an answer to it,
\* and feasibility is asked only for a plan.
Unanswered(c, q) ==
    CASE q.kind = "data" -> c.facts[q.key] = Absent
      [] q.kind = "action" -> c.mode = "plan_structure" /\ c.actions[q.key] = Absent
      [] q.kind = "ruling" -> q.key \notin c.rulings

\* _domain_execute
Execute(c, need) ==
    /\ case' = c
    /\ flow' = "active"
    /\ \E questions \in {Prepared(c, {q \in need : Unanswered(c, q)})} :
          /\ asked' = [questions |-> questions, fresh |-> TRUE]
          /\ pending' = NextQuestion(c, questions)

\* invalidate: a new fact voids what was found feasible and what was ruled.
Revoked(c) == [c EXCEPT !.actions = [a \in DOMAIN Actions |-> Absent], !.rulings = {}]

NotDeferred == [is |-> FALSE, context |-> <<>>]
Recorded(c, q, v) ==
    CASE q.kind = "action" -> [c EXCEPT !.actions[q.key] = v, !.deferred[q.key] = NotDeferred]
      [] q.kind = "data" /\ q.key \in Gates ->
            [Revoked(c) EXCEPT !.gates[q.key] = [value |-> v, context |-> Context(c)], !.deferred[q.key] = NotDeferred]
      [] q.kind = "data" /\ q.key \in Facts ->
            [Revoked(c) EXCEPT !.facts[q.key] = v, !.deferred[q.key] = NotDeferred]

AnswersTo(q) == IF q.kind = "action" THEN {"yes", "no"}
                ELSE IF q.key \in Gates THEN {"yes", "no", Unknown} ELSE FactValues[q.key] \cup {Unknown}

Accepts(q) == flow = "active" /\ asked.fresh /\ q \in asked.questions /\ q.kind \in Asking /\ Eligible(case, q)

\* domain_answer
Answer(q) ==
    /\ Accepts(q)
    /\ \E v \in AnswersTo(q), need \in Needs : \E c \in {Recorded(case, q, v)} : Execute(c, need)
    /\ UNCHANGED detours

\* domain_answers_batch of two: each has to be eligible as it is recorded,
\* actions come last, and the engine runs once.
AnswerBatch ==
    /\ \E p, q \in asked.questions :
          /\ p # q /\ Accepts(p) /\ Accepts(q) /\ (q.kind = "data" => p.kind = "data")
          /\ \E v \in AnswersTo(p) : \E c \in {Recorded(case, p, v)} :
                /\ Eligible(c, q)
                /\ \E w \in AnswersTo(q), need \in Needs : \E d \in {Recorded(c, q, w)} : Execute(d, need)
    /\ UNCHANGED detours

\* domain_plan.  On an outcome that is current the engine would say the same.
Plan ==
    /\ flow = "active" /\ ~asked.fresh
    /\ \E need \in Needs : Execute(case, need)
    /\ UNCHANGED detours

Detour == detours < MaxDetours /\ detours' = detours + 1

Defer ==
    /\ Detour
    /\ \E q \in asked.questions :
          /\ Accepts(q)
          /\ case' = [case EXCEPT !.deferred[q.key] = [is |-> TRUE, context |-> Context(case)]]
    /\ pending' = NextQuestion(case', asked.questions)
    /\ UNCHANGED <<asked, flow>>

\* domain_professional
Rule ==
    /\ flow = "active" /\ asked.fresh
    /\ \E q \in asked.questions, need \in Needs :
          /\ q.kind = "ruling" /\ Eligible(case, q)
          /\ Execute([case EXCEPT !.actions = [a \in DOMAIN Actions |-> Absent], !.rulings = @ \cup {q.key}], need)
    /\ UNCHANGED detours

\* domain_control
Pause == Detour /\ flow = "active" /\ flow' = "paused" /\ UNCHANGED <<case, asked, pending>>

Resume ==
    /\ flow = "paused"
    /\ \E need \in Needs : Execute([case EXCEPT !.deferred = [k \in DOMAIN @ |-> NotDeferred]], need)
    /\ UNCHANGED detours

\* A fact changes elsewhere: in the chat, or by an edit.
Edit ==
    /\ Detour /\ flow # "none"
    /\ \E k \in EditedFacts : \E v \in FactValues[k] \cup {Conflict} :
          case.facts[k] # v /\ case' = [Revoked(case) EXCEPT !.facts[k] = v]
    /\ asked' = [asked EXCEPT !.fresh = FALSE]
    /\ UNCHANGED <<flow, pending>>

\* domain_setup, of the one structure: nothing is answered yet.
NewCase(first) ==
    [mode |-> first.mode, facts |-> first.facts,
     gates |-> [k \in Gates |-> [value |-> Absent, context |-> <<>>]],
     actions |-> [a \in DOMAIN Actions |-> Absent], rulings |-> {},
     deferred |-> [k \in Facts \cup Gates \cup DOMAIN Actions |-> NotDeferred]]

Setup ==
    /\ flow = "none" /\ flow' = "active"
    /\ \E first \in FirstCases : case' = NewCase(first)
    /\ UNCHANGED <<asked, pending, detours>>

QuestionsInit ==
    /\ case = NewCase([mode |-> "none", facts |-> [k \in Facts |-> Absent]])
    /\ asked = [questions |-> {}, fresh |-> FALSE]
    /\ flow = "none" /\ pending = NoQuestion /\ detours = 0

QuestionsNext ==
    Setup \/ (\E q \in asked.questions : Answer(q)) \/ AnswerBatch \/ Plan \/ Defer \/ Rule \/ Pause \/ Resume \/ Edit

\* The user keeps answering what is displayed, and recalculates when facts
\* changed: the interview is asked to end only for such a user.
AnswerPending == Answer(pending)
KeepsAnswering == WF_questionVars(AnswerPending) /\ WF_questionVars(Plan)

QuestionsSpec == QuestionsInit /\ [][QuestionsNext]_questionVars /\ KeepsAnswering

----------------------------------------------------------------------------
\* No dead end: a question that waits waits for something that was asked or
\* that the user does not know.  Somewhere among its prerequisites there is
\* one that no longer waits itself and which is either among the questions,
\* hence offered, deferred by the user or left to a person, or answered
\* "unknown".
NoDeadEnd ==
    asked.fresh => \A q \in asked.questions : Status(case, About(q)) = "waiting" =>
        \E k \in Above[About(q)] :
            /\ \/ \E p \in asked.questions : About(p) = k
               \/ ValueOf(case, k) = Unknown
            /\ Status(case, k) \in {"ready", "needs_policy_review"}

\* The interview ends for a user who keeps answering: whatever the answers,
\* in the end nothing is left to ask.  Answers void others on the way: a fact
\* those about feasibility, a core fact those to the gates.
InterviewEnds == <>[](flow # "active" \/ (asked.fresh /\ pending = NoQuestion))
=============================================================================
