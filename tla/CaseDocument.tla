---------------------------- MODULE CaseDocument ----------------------------
(***************************************************************************)
(* The case document and the chat operations on it: packages/chat/store.py *)
(* (create), packages/chat/service.py (edit, organize, confirm, run,       *)
(* review and the message commit), packages/agent/review.py and            *)
(* packages/agent/analysis_policy.py.                                      *)
(*                                                                         *)
(* An operation X has an operator that says when the handler accepts it    *)
(* and one for the document it saves.  The document is what the handler    *)
(* works on: one snapshot, so these operators mention no variable.         *)
(***************************************************************************)
EXTENDS Interview, Sequences

CONSTANTS
    ActionKeys,   \* steps of a plan the user says can be taken
    RulingKeys,   \* questions only a professional may answer
    MaxReceipts   \* finish() refuses a case with more receipts (1000)

ASSUME DocumentAssumption == MaxReceipts \in Nat

States    == {"collecting", "needs_resolution", "awaiting_confirmation",
              "confirmed", "review_required"}
Decisions == {"approved", "changes_requested", "unable_to_conclude"}
Reviews   == Decisions \cup {"pending_final_review", "stale"}
Gates     == {"sufficient_for_task", "insufficient"}
Modes     == {"plan_structure", "assess_current"}
Answers   == {"none", "yes", "no"}

\* What the analyzer found: whether every rule node, locator and source is
\* there, and whether the evidence it retrieved suffices.
Findings == [complete : BOOLEAN, gate : Gates]

\* The hash of what the engine computes from (domain_fingerprint).
Fingerprints == [case    : [Addresses -> Values \cup {Absent}],
                 data    : [DataKeys -> FactValues],
                 actions : [ActionKeys -> Answers],
                 rulings : SUBSET RulingKeys,
                 mode    : Modes]

ReportKinds == {"fsie", "structure"}
Reports == [kind    : ReportKinds,
            basis   : Facts \cup Fingerprints,  \* facts_snapshot, facts_hash
            revision: Nat,                      \* confirmed_revision
            gaps    : SUBSET Fields,            \* intake_gaps
            gate    : Gates,
            complete: BOOLEAN,
            partial : BOOLEAN,                  \* partial_output_authorized
            stale   : BOOLEAN,
            review  : Reviews]

Confirmations == [revision : Nat, facts : Facts]
\* The null of the document is no confirmation.
ASSUME NoneIsNoConfirmation == None \notin Confirmations

QuestionKinds == {"data", "action", "ruling"}
EngineQuestions == [kind : {"data"}, key : DataKeys \cup EventKeys]
                   \cup [kind : {"action"}, key : ActionKeys]
                   \cup [kind : {"ruling"}, key : RulingKeys]
EngineStatuses == {"ready", "needs_input", "unsupported", "blocked"}

Outcomes == [hash      : Fingerprints,
             status    : EngineStatuses,
             questions : SUBSET EngineQuestions,
             stale     : BOOLEAN]

\* The structure work of a case, all the domain_ entries of the document.
Domains == [defined      : BOOLEAN,
            mode         : Modes,
            status       : {"none", "active", "paused"},
            actions      : [ActionKeys -> Answers],
            rulings      : SUBSET RulingKeys,
            confirmation : [hash : Fingerprints, revision : Nat] \cup {None},
            outcome      : Outcomes \cup {None},
            calculating  : BOOLEAN,  \* a chat calculation was begun
            installed    : Fingerprints \cup {None}]  \* what it computed from

Documents == [revision  : Nat,
              state     : States,
              records   : Records,
              bindings  : Bindings,
              disputed  : SUBSET Fields,  \* fact_conflicts
              confirmed : Confirmations \cup {None},
              reports   : Seq(Reports),
              dialogue  : Dialogues,
              domain    : Domains]

NewDomain == [defined      |-> FALSE,
              mode         |-> "plan_structure",
              status       |-> "none",
              actions      |-> [k \in ActionKeys |-> "none"],
              rulings      |-> {},
              confirmation |-> None,
              outcome      |-> None,
              calculating  |-> FALSE,
              installed    |-> None]

NewDocument == [revision  |-> 0,
                state     |-> "collecting",
                records   |-> [k \in Keys |-> Absent],
                bindings  |-> [f \in Fields |-> None],
                disputed  |-> {},
                confirmed |-> None,
                reports   |-> << >>,
                dialogue  |-> NewDialogue,
                domain    |-> NewDomain]

CaseFactsOf(doc) == FactsOf(doc.records, doc.bindings)

Fingerprint(doc) ==
    [case    |-> [a \in Addresses |-> Usable(doc.records[a])],
     data    |-> [a \in DataKeys |-> doc.records[a]],
     actions |-> doc.domain.actions,
     rulings |-> doc.domain.rulings,
     mode    |-> doc.domain.mode]

(***************************************************************************)
(* invalidate(): what every change of the inputs does to what was derived  *)
(* from them.  An answered action keeps the other actions and the rulings, *)
(* a ruling keeps the other rulings.                                       *)
(***************************************************************************)
Staled(r) == [r EXCEPT !.stale = TRUE, !.review = "stale"]

\* What of a report is frozen.
Frozen(r) == [r EXCEPT !.stale = FALSE, !.review = "pending_final_review"]

KeepingOutcome(outcome) == outcome

StaledOutcome(outcome) ==
    IF outcome = None THEN None ELSE [outcome EXCEPT !.stale = TRUE]

ForgettingConfirmation(doc, clearActions, clearRulings) ==
    [doc EXCEPT
        !.reports = [i \in DOMAIN @ |-> Staled(@[i])],
        !.domain.confirmation = None,
        !.domain.outcome = StaledOutcome(@),
        !.domain.actions = IF clearActions THEN [k \in ActionKeys |-> "none"] ELSE @,
        !.domain.rulings = IF clearRulings THEN {} ELSE @]

ForgettingReports(doc, clearActions, clearRulings) ==
    [doc EXCEPT
        !.confirmed = None,
        !.domain.confirmation = None,
        !.domain.outcome = StaledOutcome(@),
        !.domain.actions = IF clearActions THEN [k \in ActionKeys |-> "none"] ELSE @,
        !.domain.rulings = IF clearRulings THEN {} ELSE @]

Invalidate(doc, clearActions, clearRulings) ==
    [doc EXCEPT
        !.confirmed = None,
        !.reports = [i \in DOMAIN @ |-> Staled(@[i])],
        !.domain.confirmation = None,
        !.domain.outcome = StaledOutcome(@),
        !.domain.actions = IF clearActions THEN [k \in ActionKeys |-> "none"] ELSE @,
        !.domain.rulings = IF clearRulings THEN {} ELSE @]

ApplyFacts(doc, patch) ==
    [doc EXCEPT !.records = Write(@, doc.bindings, patch)]

\* finish(): every accepted request leaves one receipt and one revision.
CanFinish(doc) == doc.revision < MaxReceipts
Finish(doc)    == [doc EXCEPT !.revision = @ + 1]

(***************************************************************************)
(* edit                                                                    *)
(***************************************************************************)
Changes(doc, patch) == \E f \in DOMAIN patch : CaseFactsOf(doc)[f] # patch[f]

AnswerByHand(d, patch) ==
    [d EXCEPT !.consent = None,
              !.deferred = @ \ DOMAIN patch,
              !.attempts = [f \in Fields |-> IF f \in DOMAIN patch THEN 0 ELSE @[f]],
              !.pending = IF @ # None /\ AskedField(d) \in DOMAIN patch THEN None ELSE @]

EditKeepingState(doc, patch) ==
    LET heard == [doc EXCEPT !.disputed = @ \ DOMAIN patch]
    IN  IF Changes(doc, patch)
        THEN ApplyFacts([Invalidate(heard, TRUE, TRUE) EXCEPT
                            !.dialogue = AnswerByHand(@, patch)], patch)
        ELSE heard

Edit(doc, patch) ==
    LET heard == [doc EXCEPT !.disputed = @ \ DOMAIN patch]
        new   == ApplyFacts([Invalidate(heard, TRUE, TRUE) EXCEPT
                                !.dialogue = AnswerByHand(@, patch)], patch)
    IN  IF Changes(doc, patch)
        THEN [new EXCEPT !.state = StateFor(CaseFactsOf(new), new.dialogue)]
        ELSE heard

(***************************************************************************)
(* organize: the title and the archive flag are not modelled.              *)
(***************************************************************************)
Organize(doc) == doc

(***************************************************************************)
(* confirm                                                                 *)
(***************************************************************************)
CanConfirm(doc) ==
    /\ \E f \in Fields : CaseFactsOf(doc)[f] # Absent
    /\ ConflictFields(CaseFactsOf(doc)) = {}

Confirm(doc) ==
    [doc EXCEPT !.confirmed = [revision |-> doc.revision + 1, facts |-> CaseFactsOf(doc)],
                !.state = "confirmed"]

(***************************************************************************)
(* run, and the analysis a message may ask for.                            *)
(***************************************************************************)
Eligible(doc, dialogue) ==
    /\ doc.state = "confirmed" /\ doc.confirmed # None
    /\ Supported(doc.confirmed.facts)
    /\ Gaps(CaseFactsOf(doc)) # {} => dialogue.consent = CaseFactsOf(doc)

ReportProposalWithGate(doc, dialogue, finding) ==
    [kind     |-> "fsie",
     basis    |-> doc.confirmed.facts,
     revision |-> doc.confirmed.revision,
     gaps     |-> Gaps(CaseFactsOf(doc)),
     gate     |-> finding.gate,
     complete |-> finding.complete,
     partial  |-> dialogue.consent # None,
     stale    |-> FALSE,
     review   |-> "pending_final_review"]

ReportProposal(doc, dialogue, finding) ==
    LET gaps == Gaps(CaseFactsOf(doc))
    IN  [kind     |-> "fsie",
         basis    |-> doc.confirmed.facts,
         revision |-> doc.confirmed.revision,
         gaps     |-> gaps,
         gate     |-> IF gaps # {} THEN "insufficient" ELSE finding.gate,
         complete |-> finding.complete,
         partial  |-> dialogue.consent # None,
         stale    |-> FALSE,
         review   |-> "pending_final_review"]

AddReport(doc, report) ==
    [doc EXCEPT !.reports = Append(@, report), !.state = "review_required"]

CanRun(doc)       == Eligible(doc, doc.dialogue)
Run(doc, finding) == AddReport(doc, ReportProposal(doc, doc.dialogue, finding))

(***************************************************************************)
(* review: only a complete report on sufficient evidence can be approved.  *)
(***************************************************************************)
Approvable(report) == report.complete /\ report.gate = "sufficient_for_task"

CanReviewAgain(doc, i, decision) ==
    /\ i \in DOMAIN doc.reports
    /\ ~doc.reports[i].stale
    /\ decision = "approved" => Approvable(doc.reports[i])

CanReview(doc, i, decision) ==
    /\ i \in DOMAIN doc.reports
    /\ ~doc.reports[i].stale
    /\ decision = "approved" => Approvable(doc.reports[i])
    /\ doc.reports[i].review = "pending_final_review"

Review(doc, i, decision) ==
    [doc EXCEPT !.reports[i].review = decision, !.state = "review_required"]

(***************************************************************************)
(* A message: what the turn graph may prepare from the snapshot, and what  *)
(* commit_prepared makes of it.  The graph analyses only unchanged facts.  *)
(***************************************************************************)
PreparedTurns(doc, turn) ==
    LET facts     == CaseFactsOf(doc)
        patch     == TurnPatch(facts, doc.dialogue, turn)
        settled   == SettledTurn(facts, doc.dialogue, turn)
        analyses  == /\ turn.analysis /\ DOMAIN patch = {}
                     /\ settled.intent \in {"intake", "research"}
                     /\ settled.action \notin {"summary", "pause", "new_case"}
        reports(d) == IF analyses /\ Eligible(doc, d)
                      THEN {ReportProposal(doc, d, finding) : finding \in Findings}
                      ELSE {None}
    IN  UNION {{[patch     |-> patch,
                 conflicts |-> Contradicted(facts, doc.dialogue, turn),
                 dialogue  |-> d,
                 report    |-> r] : r \in reports(d)}
               : d \in FinalDialogues(facts, doc.dialogue, turn)}

CommitKeepingDispute(doc, prepared) ==
    LET fresh == DOMAIN prepared.patch # {}
        base  == IF fresh THEN Invalidate(doc, TRUE, TRUE) ELSE doc
        told  == [ApplyFacts(base, prepared.patch) EXCEPT
                     !.dialogue = prepared.dialogue,
                     !.disputed = @ \cup prepared.conflicts]
        new   == IF fresh
                 THEN [told EXCEPT !.state = StateFor(CaseFactsOf(told), told.dialogue)]
                 ELSE told
    IN  IF prepared.report = None THEN new ELSE AddReport(new, prepared.report)

CommitPrepared(doc, prepared) ==
    LET fresh == DOMAIN prepared.patch # {}
        base  == IF fresh THEN Invalidate(doc, TRUE, TRUE) ELSE doc
        told  == [ApplyFacts(base, prepared.patch) EXCEPT
                     !.dialogue = prepared.dialogue,
                     !.disputed = (@ \ DOMAIN prepared.patch) \cup prepared.conflicts]
        new   == IF fresh
                 THEN [told EXCEPT !.state = StateFor(CaseFactsOf(told), told.dialogue)]
                 ELSE told
    IN  IF prepared.report = None THEN new ELSE AddReport(new, prepared.report)
=============================================================================
