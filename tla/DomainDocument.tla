--------------------------- MODULE DomainDocument ---------------------------
(***************************************************************************)
(* The structure work on a case document: packages/domain_bridge.          *)
(* coordinator.py takes a company structure, has the engine compute on it, *)
(* collects the answers the engine asks for, has the user confirm what it  *)
(* computed from and freezes a report; chat_calculation.py does the same   *)
(* from a chat message, on a private copy that the message commit saves.   *)
(*                                                                         *)
(* The engine is external: it returns a status and questions, any that     *)
(* run_plan and run_domain may return.  Of the questions a result keeps    *)
(* the eligible ones, since only those can be answered.  The provenance of *)
(* an answer, deferrals and interview prerequisites are left out.          *)
(***************************************************************************)
EXTENDS CaseDocument

CONSTANTS
    CalculationFields,   \* the chat fields a chat calculation sets
    CalculationBindings  \* and the structure addresses it binds them to

ASSUME CalculationAssumption ==
    /\ CalculationFields \subseteq Fields
    /\ CalculationBindings \in Bindings
    /\ \A f \in Fields : CalculationBindings[f] # None => f \in CalculationFields
    /\ \A f, g \in Fields :
          CalculationBindings[f] # None /\ CalculationBindings[f] = CalculationBindings[g] => f = g

Structures == [Addresses -> Values \cup {Absent, Unknown}]

EngineResults == [status : {"needs_input"}, questions : SUBSET EngineQuestions]
                 \cup [status : {"ready", "unsupported", "blocked"}, questions : {{}}]

DataAnswers   == UNION {[S -> Values \cup {Unknown}] : S \in SUBSET Addresses}
ActionAnswers == UNION {[S -> {"yes", "no"}] : S \in SUBSET ActionKeys}

Conflicting(doc) == \E k \in Keys : doc.records[k] = Conflict

\* The outcome is about the document as it stands.
Current(doc) ==
    /\ doc.domain.outcome # None
    /\ ~doc.domain.outcome.stale
    /\ doc.domain.outcome.hash = Fingerprint(doc)

(***************************************************************************)
(* _domain_execute                                                         *)
(***************************************************************************)
CanExecute(doc) == doc.domain.defined /\ doc.domain.status # "paused"

Execute(doc, result) ==
    [doc EXCEPT !.domain.status = "active",
                !.domain.outcome = [hash      |-> Fingerprint(doc),
                                    status    |-> result.status,
                                    questions |-> result.questions,
                                    stale     |-> FALSE]]

(***************************************************************************)
(* domain_setup: the new structure replaces the old one.  A chat field is  *)
(* bound to an address only if both say the same, or if it was bound to    *)
(* that address before; the values of the fields no longer bound are kept. *)
(***************************************************************************)
CanBind(doc, case, bound) ==
    /\ \A f \in Fields : bound[f] # None =>
          /\ CaseFactsOf(doc)[f] # Absent
          /\ case[bound[f]] # Absent
          /\ \/ CaseFactsOf(doc)[f] = case[bound[f]]
             \/ doc.bindings[f] = bound[f]
    /\ \A f, g \in Fields : bound[f] # None /\ bound[f] = bound[g] => f = g

Install(doc, case, bound) ==
    [doc EXCEPT
        !.records  = [k \in Keys |-> IF k \in Addresses THEN case[k]
                                     ELSE IF bound[k] # None THEN Absent
                                     ELSE CaseFactsOf(doc)[k]],
        !.bindings = bound]

CanSetup(doc, case, bound) == CanBind(doc, case, bound)

Setup(doc, case, mode, bound) ==
    LET new == Install(Invalidate(doc, TRUE, TRUE), case, bound)
    IN  [new EXCEPT !.domain = [NewDomain EXCEPT !.defined = TRUE, !.mode = mode,
                                                 !.status = "active",
                                                 !.calculating = doc.domain.calculating,
                                                 !.installed = doc.domain.installed]]

(***************************************************************************)
(* domain_answer and domain_answers_batch: data first, then the actions.   *)
(***************************************************************************)
CanAnswer(doc, data, actions) ==
    /\ doc.domain.status # "paused"
    /\ Current(doc)
    /\ \A a \in DOMAIN data : [kind |-> "data", key |-> a] \in doc.domain.outcome.questions
    /\ \A k \in DOMAIN actions : [kind |-> "action", key |-> k] \in doc.domain.outcome.questions
    /\ DOMAIN data \cup DOMAIN actions # {}
    /\ CanExecute(doc)

Answer(doc, data, actions, result) ==
    LET withData == DOMAIN data # {}
        base == Invalidate(doc, withData, withData)
        new  == [base EXCEPT
                    !.records = [k \in Keys |-> IF k \in DOMAIN data THEN data[k] ELSE @[k]],
                    !.domain.actions = [k \in ActionKeys |->
                                          IF k \in DOMAIN actions THEN actions[k] ELSE @[k]]]
    IN  Execute(new, result)

\* A batch also tells a chat calculation that this is what it computed from.
AnswerBatch(doc, data, actions, result) ==
    LET new == Answer(doc, data, actions, result)
    IN  IF new.domain.calculating
        THEN [new EXCEPT !.domain.installed = Fingerprint(new)] ELSE new

Single(data, actions) ==
    \/ (\E a \in Addresses : DOMAIN data = {a}) /\ DOMAIN actions = {}
    \/ (\E k \in ActionKeys : DOMAIN actions = {k}) /\ DOMAIN data = {}

\* A deferred question changes nothing that is modelled here.
CanDefer(doc, question) ==
    /\ doc.domain.status # "paused"
    /\ Current(doc)
    /\ question \in doc.domain.outcome.questions
    /\ question.kind # "ruling"

(***************************************************************************)
(* domain_control                                                          *)
(***************************************************************************)
CanPause(doc)  == doc.domain.status # "none"
Pause(doc)     == [doc EXCEPT !.domain.status = "paused"]
CanResume(doc) == doc.domain.status # "none" /\ doc.domain.defined
Resume(doc, result) == Execute(doc, result)

(***************************************************************************)
(* domain_confirm and domain_report: the report freezes what was confirmed *)
(* and computed.  It is marked synthetic and its evidence insufficient.    *)
(***************************************************************************)
CanConfirmDomain(doc) == doc.domain.defined /\ ~Conflicting(doc)

ConfirmDomain(doc) ==
    [doc EXCEPT !.domain.confirmation = [hash |-> Fingerprint(doc), revision |-> doc.revision + 1]]

CanReport(doc, allowPartial) ==
    /\ doc.domain.confirmation # None
    /\ doc.domain.confirmation.hash = Fingerprint(doc)
    /\ Current(doc)
    /\ doc.domain.outcome.status = "ready" \/ (allowPartial /\ doc.domain.outcome.status = "needs_input")

Report(doc, allowPartial) ==
    AddReport(doc, [kind     |-> "structure",
                    basis    |-> doc.domain.outcome.hash,
                    revision |-> doc.domain.confirmation.revision,
                    gaps     |-> {},
                    gate     |-> "insufficient",
                    complete |-> FALSE,
                    partial  |-> allowPartial,
                    stale    |-> FALSE,
                    review   |-> "pending_final_review"])

(***************************************************************************)
(* domain_professional: only a "yes" on evidence that was read back.       *)
(***************************************************************************)
CanRule(doc, key) ==
    /\ Current(doc)
    /\ [kind |-> "ruling", key |-> key] \in doc.domain.outcome.questions
    /\ CanExecute(doc)

Rule(doc, key, result) ==
    Execute([Invalidate(doc, TRUE, FALSE) EXCEPT !.domain.rulings = @ \cup {key}], result)

(***************************************************************************)
(* chat_calculation.prepare, saved by the message commit with an empty     *)
(* patch: the case state and the consent are not among the saved entries.  *)
(***************************************************************************)
Aside(doc) == [doc EXCEPT !.dialogue.status = "suspended", !.dialogue.pending = None,
                          !.domain.calculating = TRUE]

Calculated(doc) == [Aside(doc) EXCEPT !.domain.installed = Fingerprint(doc)]

CanCalculate(doc) ==
    /\ doc.disputed = {} /\ ~Conflicting(doc)
    /\ ~doc.domain.defined \/ doc.domain.installed = Fingerprint(doc)

\* keep: the addresses whose answers survive, as the transaction is the same.
CalculationCase(doc, inputs, keep) ==
    [a \in Addresses |->
        IF \E f \in Fields : CalculationBindings[f] = a
        THEN inputs[CHOOSE f \in Fields : CalculationBindings[f] = a]
        ELSE IF a \in keep THEN doc.records[a] ELSE Absent]

Calculate(doc, inputs, keep, result) ==
    LET noted == ApplyFacts(Invalidate(doc, TRUE, TRUE), inputs)
        new   == Install(noted, CalculationCase(doc, inputs, keep), CalculationBindings)
        ready == [new EXCEPT !.domain = [NewDomain EXCEPT !.defined = TRUE, !.status = "active",
                                                          !.mode = "assess_current"]]
    IN  Calculated(Execute(ready, result))

CanRecalculate(doc) == doc.domain.defined /\ doc.disputed = {} /\ ~Conflicting(doc)

Recalculate(doc, result) == Calculated(Execute(doc, result))

\* Inputs that do not suffice yet: the last result no longer fits them.
Collect(doc, changed) ==
    IF changed /\ doc.domain.outcome # None
    THEN [Aside(doc) EXCEPT !.domain.outcome = StaledOutcome(@), !.domain.confirmation = None]
    ELSE Aside(doc)

CancelCalculation(doc) ==
    IF doc.domain.status = "none" THEN Aside(doc)
    ELSE [Aside(doc) EXCEPT !.domain.status = "paused"]
=============================================================================
