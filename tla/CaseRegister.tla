---------------------------- MODULE CaseRegister ----------------------------
(***************************************************************************)
(* A case as its users should see it: one document, and every operation a  *)
(* single step on it.  CaseService shows that the handlers, which read,    *)
(* compute and write back in separate steps, implement exactly this.       *)
(*                                                                         *)
(* ChatSpec is a case worked on through the interview alone, Spec one that *)
(* uses the structure work and the chat calculation as well.               *)
(***************************************************************************)
EXTENDS CaseOperations

VARIABLE doc

TypeOK == doc \in Documents

Init == doc = NewDocument

Save(new) == doc' = Finish(new)

Perform(operations) ==
    /\ CanFinish(doc)
    /\ \E op \in operations : \E new \in Results(doc, op) : Save(new)

EditStep     == Perform(Edits)
OrganizeStep == Perform(Organizations)
ConfirmStep  == Perform(Confirms)
RunStep      == Perform(Runs)
ReviewStep   == Perform(ReviewCalls)
MessageStep  == Perform(Messages)

ChatNext == EditStep \/ OrganizeStep \/ ConfirmStep \/ RunStep \/ ReviewStep \/ MessageStep

SetupStep         == Perform(Setups)
PlanStep          == Perform(Plans)
AnswerStep        == Perform(AnswerCalls)
BatchStep         == Perform(Batches)
DeferStep         == Perform(Deferrals)
PauseStep         == Perform(Pauses)
ResumeStep        == Perform(Resumes)
ConfirmDomainStep == Perform(DomainConfirms)
ReportStep        == Perform(ReportCalls)
RuleStep          == Perform(RulingCalls)

DomainNext == \/ SetupStep \/ PlanStep \/ AnswerStep \/ BatchStep \/ DeferStep \/ PauseStep \/ ResumeStep
              \/ ConfirmDomainStep \/ ReportStep \/ RuleStep

CalculateStep   == Perform(Calculations)
RecalculateStep == Perform(Recalculations)
ChatAnswerStep  == Perform(ChatAnswers)
CollectStep     == Perform(Collections)
CancelStep      == Perform(Cancellations)

CalculationNext == \/ CalculateStep \/ RecalculateStep \/ ChatAnswerStep
                   \/ CollectStep \/ CancelStep

Next == ChatNext \/ DomainNext \/ CalculationNext

ChatSpec == Init /\ [][ChatNext]_doc
Spec     == Init /\ [][Next]_doc

-----------------------------------------------------------------------------
Live(kind) == {i \in DOMAIN doc.reports : doc.reports[i].kind = kind /\ ~doc.reports[i].stale}

\* What the user confirmed is what the case now says: whichever operation
\* changes a fact, also through a bound structure address, also inside a
\* chat calculation, withdraws the confirmation (invalidate).  Neither a
\* confirmed fact nor a confirmed structure address is in conflict.
ConfirmationCurrent ==
    /\ doc.confirmed # None => /\ doc.confirmed.facts = CaseFactsOf(doc)
                               /\ ConflictFields(doc.confirmed.facts) = {}
    /\ doc.domain.confirmation # None => ~Conflicting(doc)

\* The same for what the engine computed from and for what was confirmed of
\* it: domain_report relies on both to freeze one consistent report.
OutcomeCurrent ==
    /\ doc.domain.outcome # None /\ ~doc.domain.outcome.stale
          => doc.domain.outcome.hash = Fingerprint(doc)
    /\ doc.domain.confirmation # None
          => doc.domain.confirmation.hash = Fingerprint(doc)

\* A report not marked stale describes the case as it stands, its gaps
\* included (report_proposal reads the facts and the gaps from different
\* entries of the document); one over gaps was asked for as a partial one.
ReportsCurrent ==
    /\ \A i \in Live("fsie") : /\ doc.reports[i].basis = CaseFactsOf(doc)
                               /\ doc.reports[i].gaps = Gaps(CaseFactsOf(doc))
    /\ \A i \in Live("structure") : doc.reports[i].basis = Fingerprint(doc)
    /\ \A i \in DOMAIN doc.reports : doc.reports[i].gaps # {} => doc.reports[i].partial

\* The competing values a conflict was recorded with are kept only as long as
\* the conflict (fact_conflicts): chat_calculation refuses while any are kept.
DisputesAreConflicts == doc.disputed \subseteq ConflictFields(CaseFactsOf(doc))

\* An approval stands only on a complete report without gaps about the facts
\* the case still has (review_report, and the gate report_proposal lowers).
ApprovalSound ==
    \A i \in DOMAIN doc.reports :
        doc.reports[i].review = "approved" =>
            /\ doc.reports[i].kind = "fsie"
            /\ doc.reports[i].gaps = {}
            /\ doc.reports[i].gate = "sufficient_for_task"
            /\ doc.reports[i].basis = CaseFactsOf(doc)
            /\ ~doc.reports[i].stale

\* Binding never makes two chat fields read the same record, so one written
\* fact changes one fact.
BindingsInjective ==
    \A f, g \in Fields : doc.bindings[f] # None /\ doc.bindings[f] = doc.bindings[g] => f = g

\* Nothing but staleness and one review decision ever happens to a report
\* once it is frozen: its content stays, stale stays stale, and a decision is
\* only ever withdrawn by staleness.
ReportsFrozen ==
    [][/\ Len(doc.reports) <= Len(doc'.reports)
       /\ \A i \in DOMAIN doc.reports :
            LET old == doc.reports[i]
                new == doc'.reports[i]
            IN  /\ Frozen(new) = Frozen(old)
                /\ old.stale => new.stale
                /\ old.review \in Decisions => new.review \in {old.review, "stale"}
                /\ new.review = "stale" <=> new.stale]_doc

\* The consent to a partial result is bound to the facts it was given for:
\* a step that changes facts leaves no consent to other facts.
ConsentBoundToFacts ==
    [][CaseFactsOf(doc') # CaseFactsOf(doc) =>
          doc'.dialogue.consent \in {None, CaseFactsOf(doc')}]_doc

\* A consent that the facts have left behind is over: it never becomes a
\* consent to the facts of the case again, only a new one does.
ConsentNotRevived ==
    [][LET consent == doc.dialogue.consent
       IN  consent \notin {None, CaseFactsOf(doc)} =>
              ~(doc'.dialogue.consent = consent /\ CaseFactsOf(doc') = consent)]_doc

\* The state "confirmed", for which the clients offer the analysis, is shown
\* only while a confirmation stands.
ConfirmedState == doc.state = "confirmed" => doc.confirmed # None

\* The state the clients show is the truth: ConfirmedState, and
\* "needs_resolution" exactly while a fact is in conflict.
StateTruthful ==
    /\ ConfirmedState
    /\ doc.state = "needs_resolution" <=> ConflictFields(CaseFactsOf(doc)) # {}
=============================================================================
