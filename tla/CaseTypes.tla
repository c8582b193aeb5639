----------------------------- MODULE CaseTypes -----------------------------
(***************************************************************************)
(* What the operations leave of a well-formed case document: each of them  *)
(* returns a document of Documents and keeps its revision, and those that  *)
(* change what a confirmation rests on withdraw it.  The lemmas follow the *)
(* modules they are about, from CaseFacts to CaseOperations.               *)
(***************************************************************************)
EXTENDS CaseOperations, TLAPS

-----------------------------------------------------------------------------
(* CaseFacts *)

LEMMA PatchType ==
    ASSUME NEW patch \in Patches
    PROVE  /\ DOMAIN patch \subseteq Fields
           /\ \A f \in DOMAIN patch : patch[f] \in FactValues
BY DEF Patches

LEMMA NoFactsType == NoFacts \in Patches /\ DOMAIN NoFacts = {}
<1>1. NoFacts \in [{} -> FactValues] /\ DOMAIN NoFacts = {}
    BY DEF NoFacts
<1>2. {} \in SUBSET Fields
    OBVIOUS
<1> QED
    BY <1>1, <1>2 DEF Patches

LEMMA AddressType ==
    ASSUME NEW bindings \in Bindings, NEW f \in Fields
    PROVE  AddressOf(bindings, f) \in Keys
BY DEF Bindings, AddressOf, Keys

LEMMA FactsType ==
    ASSUME NEW records \in Records, NEW bindings \in Bindings
    PROVE  FactsOf(records, bindings) \in Facts
BY AddressType DEF Records, FactsOf, Facts

LEMMA WriteType ==
    ASSUME NEW records \in Records, NEW bindings \in Bindings, NEW patch \in Patches
    PROVE  Write(records, bindings, patch) \in Records
<1> SUFFICES ASSUME NEW k \in Keys,
                    \E f \in DOMAIN patch : AddressOf(bindings, f) = k
             PROVE  patch[CHOOSE f \in DOMAIN patch : AddressOf(bindings, f) = k] \in FactValues
    BY DEF Write, Records
<1> DEFINE g == CHOOSE f \in DOMAIN patch : AddressOf(bindings, f) = k
<1>1. g \in DOMAIN patch
    OBVIOUS
<1> QED
    BY <1>1, PatchType

LEMMA PatchedType ==
    ASSUME NEW facts \in Facts, NEW patch \in Patches
    PROVE  Patched(facts, patch) \in Facts
BY PatchType DEF Patched, Facts

-----------------------------------------------------------------------------
(* Interview *)

LEMMA QuestionType ==
    ASSUME NEW d \in Dialogues
    PROVE  AskedField(d) \in Fields \cup {None}
BY DEF Dialogues, Questions, AskedField

LEMMA NextFieldsType ==
    ASSUME NEW facts, NEW deferred
    PROVE  NextFields(facts, deferred) \subseteq Fields
BY FactsAssumption DEF NextFields, ConflictFields, RequiredFields

LEMMA DialogueFields ==
    ASSUME NEW d \in Dialogues
    PROVE  /\ d.status \in Statuses /\ d.pending \in Questions \cup {None}
           /\ d.deferred \in SUBSET Fields /\ d.attempts \in [Fields -> 0..2]
           /\ d.consent \in Facts \cup {None}
BY DEF Dialogues

LEMMA AskType ==
    ASSUME NEW d \in Dialogues, NEW f \in Fields
    PROVE  Ask(d, f) \in Dialogues
<1> DEFINE q == [kind |-> "fact", field |-> f]
           a == [d.attempts EXCEPT ![f] = d.attempts[f] + 1]
           c == [kind |-> "choice", field |-> None]
<1>1. q \in Questions /\ c \in Questions /\ "active" \in Statuses
    BY DEF Questions, Statuses
<1>2. CASE d.attempts[f] < MaxAttempts
  <2>1. a \in [Fields -> 0..2]
    <3>1. d.attempts[f] + 1 \in 0..2
        BY <1>2, DialogueFields DEF MaxAttempts
    <3> QED
        BY <3>1, DialogueFields
  <2>2. Ask(d, f) = [d EXCEPT !.status = "active", !.pending = q, !.attempts = a]
      BY <1>2 DEF Ask
  <2> HIDE DEF q, a
  <2> QED
      BY <1>1, <2>1, <2>2 DEF Dialogues
<1>3. CASE ~(d.attempts[f] < MaxAttempts)
  <2>1. Ask(d, f) = [d EXCEPT !.status = "active", !.pending = c, !.deferred = d.deferred \cup {f}]
      BY <1>3 DEF Ask
  <2>2. d.deferred \cup {f} \in SUBSET Fields
      BY DialogueFields
  <2> HIDE DEF c
  <2> QED
      BY <1>1, <2>1, <2>2 DEF Dialogues
<1> QED
    BY <1>2, <1>3

LEMMA AskModeType ==
    ASSUME NEW d \in Dialogues, NEW kind \in {"choice", "mode", "scope"}
    PROVE  AskMode(d, kind) \in Dialogues
BY DEF Dialogues, Questions, Statuses, AskMode

LEMMA AbsorbType ==
    ASSUME NEW d \in Dialogues, NEW facts, NEW patch
    PROVE  Absorb(d, facts, patch) \in Dialogues
<1> DEFINE settled == {f \in DOMAIN patch : Resolved(facts[f])}
           a == [f \in Fields |-> IF f \in settled THEN 0 ELSE d.attempts[f]]
<1>1. a \in [Fields -> 0..2]
    BY DialogueFields
<1>2. d.deferred \ settled \in SUBSET Fields
    BY DialogueFields
<1>3. Absorb(d, facts, patch) =
        IF DOMAIN patch = {} THEN d
        ELSE [d EXCEPT !.consent = None, !.deferred = d.deferred \ settled, !.attempts = a]
    BY DEF Absorb
<1> HIDE DEF settled, a
<1> QED
    BY <1>1, <1>2, <1>3 DEF Dialogues

LEMMA AdvanceType ==
    ASSUME NEW d \in Dialogues, NEW facts \in Facts
    PROVE  Advance(facts, d) \subseteq Dialogues
<1>1. CASE NextFields(facts, d.deferred) # {}
    BY <1>1, AskType, NextFieldsType DEF Advance
<1>2. CASE NextFields(facts, d.deferred) = {} /\ Gaps(facts) # {}
    BY <1>2, AskModeType DEF Advance
<1>3. CASE NextFields(facts, d.deferred) = {} /\ Gaps(facts) = {}
  <2>1. [d EXCEPT !.status = "ready", !.pending = None] \in Dialogues
      BY DEF Dialogues, Statuses
  <2> QED
      BY <1>3, <2>1 DEF Advance
<1> QED
    BY <1>1, <1>2, <1>3

LEMMA CannotAnswerType ==
    ASSUME NEW d \in Dialogues, NEW turn, NEW patch
    PROVE  CannotAnswer(d, turn, patch) \in Dialogues
<1>1. ASSUME AskedField(d) # None
      PROVE  [d EXCEPT !.deferred = @ \cup {AskedField(d)}] \in Dialogues
    BY <1>1, QuestionType DEF Dialogues
<1> QED
    BY <1>1, AskModeType DEF CannotAnswer

LEMMA UpdateDialogueType ==
    ASSUME NEW facts \in Facts, NEW old \in Dialogues, NEW turn \in RoutedTurns, NEW patch \in Patches
    PROVE  UpdateDialogue(facts, old, turn, patch) \subseteq Dialogues
<1> DEFINE d == Absorb(old, facts, patch)
<1>1. d \in Dialogues
    BY AbsorbType
<1>2. /\ [d EXCEPT !.status = "suspended"] \in Dialogues
      /\ [d EXCEPT !.status = "paused"] \in Dialogues
      /\ [d EXCEPT !.status = "active"] \in Dialogues
      /\ [d EXCEPT !.status = "partial", !.pending = None, !.consent = facts] \in Dialogues
    BY <1>1 DEF Dialogues, Statuses
<1>3. AskMode(d, "scope") \in Dialogues /\ AskMode(d, "mode") \in Dialogues
    BY <1>1, AskModeType
<1>4. CannotAnswer(d, turn, patch) \in Dialogues /\ Advance(facts, d) \subseteq Dialogues
    BY <1>1, CannotAnswerType, AdvanceType
<1>5. /\ turn.intent \in {"chat", "research", "intake", "clarify", "unsupported"}
      /\ turn.action \in {"continue", "summary", "new_case", "pause", "resume",
                          "partial", "unknown", "unavailable"}
    BY DEF RoutedTurns
<1> QED
    BY <1>1, <1>2, <1>3, <1>4, <1>5 DEF UpdateDialogue

LEMMA ProposedType ==
    ASSUME NEW facts \in Facts, NEW d \in Dialogues, NEW turn \in RoutedTurns
    PROVE  ProposedFacts(facts, d, turn) \in Patches
<1>1. turn.facts \in Patches
    BY DEF RoutedTurns
<1>2. ASSUME AskedField(d) # None
      PROVE  [f \in {AskedField(d)} |-> Unknown] \in Patches
  <2>1. AskedField(d) \in Fields
      BY <1>2, QuestionType
  <2>2. [f \in {AskedField(d)} |-> Unknown] \in [{AskedField(d)} -> FactValues]
      BY DEF FactValues
  <2>3. {AskedField(d)} \in SUBSET Fields
      BY <2>1
  <2> QED
      BY <2>2, <2>3 DEF Patches
<1> QED
    BY <1>1, <1>2, NoFactsType DEF ProposedFacts

LEMMA TurnPatchType ==
    ASSUME NEW facts \in Facts, NEW d \in Dialogues, NEW turn \in RoutedTurns
    PROVE  /\ TurnPatch(facts, d, turn) \in Patches
           /\ Contradicted(facts, d, turn) \subseteq Fields
<1> DEFINE proposed == ProposedFacts(facts, d, turn)
           stays(f) == proposed[f] = facts[f] \/ (facts[f] = Conflict /\ proposed[f] = Unknown)
           S == {g \in DOMAIN proposed : ~stays(g)}
           C == Contradicted(facts, d, turn)
<1>1. /\ DOMAIN proposed \subseteq Fields
      /\ \A f \in DOMAIN proposed : proposed[f] \in FactValues
    BY ProposedType, PatchType
<1>2. TurnPatch(facts, d, turn) = [f \in S |-> IF f \in C THEN Conflict ELSE proposed[f]]
    BY DEF TurnPatch
<1>3. C \subseteq Fields
    BY <1>1 DEF Contradicted
<1>4. S \in SUBSET Fields
    BY <1>1
<1>5. \A f \in S : (IF f \in C THEN Conflict ELSE proposed[f]) \in FactValues
    BY <1>1 DEF FactValues
<1> HIDE DEF S, C, proposed
<1>6. TurnPatch(facts, d, turn) \in [S -> FactValues]
    BY <1>2, <1>5
<1> QED
    BY <1>3, <1>4, <1>6 DEF Patches, C

LEMMA SettledTurnType ==
    ASSUME NEW facts, NEW d, NEW turn \in RoutedTurns
    PROVE  /\ SettledTurn(facts, d, turn) \in RoutedTurns
           /\ Continue(SettledTurn(facts, d, turn)) \in RoutedTurns
<1> DEFINE settled == SettledTurn(facts, d, turn)
<1>1. PICK intent, action :
          /\ settled = [turn EXCEPT !.intent = intent, !.action = action]
          /\ intent \in {"chat", "research", "intake", "clarify", "unsupported"}
          /\ action \in {"continue", "summary", "new_case", "pause", "resume",
                          "partial", "unknown", "unavailable"}
    BY DEF SettledTurn, RoutedTurns
<1> HIDE DEF settled
<1>2. settled \in RoutedTurns
    BY <1>1 DEF RoutedTurns
<1> QED
    BY <1>2 DEF settled, Continue, RoutedTurns

LEMMA FinalDialoguesType ==
    ASSUME NEW facts \in Facts, NEW d \in Dialogues, NEW turn \in RoutedTurns
    PROVE  FinalDialogues(facts, d, turn) \subseteq Dialogues
<1> DEFINE patch   == TurnPatch(facts, d, turn)
           known   == Patched(facts, patch)
           settled == SettledTurn(facts, d, turn)
           first   == UpdateDialogue(known, d, settled, patch)
           aside   == /\ turn.intent = "research" /\ ~turn.usesCase
                      /\ settled.intent \in {"intake", "unsupported"}
           rested  == IF aside THEN {[x EXCEPT !.status = "suspended", !.pending = None] : x \in first}
                      ELSE first
           resumed == IF turn.usesCase \/ DOMAIN patch # {}
                      THEN UNION {UpdateDialogue(known, x, Continue(settled), NoFacts) : x \in rested}
                      ELSE {}
<1>1. patch \in Patches /\ known \in Facts
    BY TurnPatchType, PatchedType
<1>2. settled \in RoutedTurns /\ Continue(settled) \in RoutedTurns
    BY SettledTurnType
<1>3. first \subseteq Dialogues
    BY <1>1, <1>2, UpdateDialogueType
<1> HIDE DEF patch, known, settled, first
<1>4. rested \subseteq Dialogues
  <2>1. \A x \in Dialogues : [x EXCEPT !.status = "suspended", !.pending = None] \in Dialogues
      BY DEF Dialogues, Statuses
  <2> QED
      BY <1>3, <2>1
<1>5. resumed \subseteq Dialogues
  <2>1. \A x \in Dialogues : UpdateDialogue(known, x, Continue(settled), NoFacts) \subseteq Dialogues
      BY <1>1, <1>2, UpdateDialogueType, NoFactsType
  <2> HIDE DEF rested
  <2> QED
      BY <1>4, <2>1
<1>6. \A x \in Dialogues : AskMode(x, "mode") \in Dialogues
    BY AskModeType
<1>7. FinalDialogues(facts, d, turn) \subseteq
          rested \cup {AskMode(x, "mode") : x \in rested} \cup resumed \cup {AskMode(d, "mode")}
    BY DEF FinalDialogues, patch, known, settled, first
<1> QED
    BY <1>4, <1>5, <1>6, <1>7

-----------------------------------------------------------------------------
(* CaseDocument *)

LEMMA StateForType ==
    ASSUME NEW facts, NEW d
    PROVE  StateFor(facts, d) \in States
BY DEF StateFor, States

LEMMA CaseFactsType ==
    ASSUME NEW doc \in Documents
    PROVE  CaseFactsOf(doc) \in Facts
BY FactsType DEF Documents, CaseFactsOf

LEMMA FingerprintType ==
    ASSUME NEW doc \in Documents
    PROVE  Fingerprint(doc) \in Fingerprints
<1>1. /\ doc.records \in [Keys -> FactValues]
      /\ doc.domain.actions \in [ActionKeys -> Answers]
      /\ doc.domain.rulings \in SUBSET RulingKeys /\ doc.domain.mode \in Modes
    BY DEF Documents, Domains, Records
<1>2. \A a \in Addresses : a \in Keys /\ Usable(doc.records[a]) \in Values \cup {Absent}
    BY <1>1 DEF Keys, Usable, Resolved, FactValues
<1>3. \A a \in DataKeys : doc.records[a] \in FactValues
    BY <1>1 DEF Keys, Addresses
<1> QED
    BY <1>1, <1>2, <1>3 DEF Fingerprint, Fingerprints

LEMMA StaledType ==
    ASSUME NEW reports \in Seq(Reports)
    PROVE  [i \in DOMAIN reports |-> Staled(reports[i])] \in Seq(Reports)
<1>1. \A i \in DOMAIN reports : reports[i] \in Reports
    OBVIOUS
<1>2. \A r \in Reports : Staled(r) \in Reports
    BY DEF Reports, Staled, Reviews
<1>3. DOMAIN reports = 1..Len(reports) /\ Len(reports) \in Nat
    OBVIOUS
<1> QED
    BY <1>1, <1>2, <1>3

\* new says the same of the case as doc, and of what was derived from it.
SameCase(doc, new) ==
    /\ new.records = doc.records /\ new.bindings = doc.bindings
    /\ Fingerprint(new) = Fingerprint(doc)

SameDerived(doc, new) ==
    /\ new.confirmed = doc.confirmed
    /\ new.domain.outcome = doc.domain.outcome
    /\ new.domain.confirmation = doc.domain.confirmation

\* Nothing that was derived from doc counts in new.
Revoked(doc, new) ==
    /\ new.confirmed = None
    /\ new.domain.confirmation = None
    /\ new.reports = [i \in DOMAIN doc.reports |-> Staled(doc.reports[i])]

\* The operation concerned neither the case nor what was derived from it.
Unchanged(doc, new) == SameCase(doc, new) /\ SameDerived(doc, new) /\ new.reports = doc.reports

StaleOutcome(new) == new.domain.outcome # None => new.domain.outcome.stale

CurrentOutcome(new) ==
    new.domain.outcome # None /\ ~new.domain.outcome.stale
        => new.domain.outcome.hash = Fingerprint(new)

(***************************************************************************)
(* Whatever an operation does, it does one of two things:                  *)
(* it revokes all that was derived and leaves an outcome, if any, of the   *)
(* new inputs; or it leaves the inputs alone and adds what is derived from *)
(* them as they are.                                                       *)
(***************************************************************************)
Injective(bindings) ==
    \A f, g \in Fields : bindings[f] # None /\ bindings[f] = bindings[g] => f = g

Recomputed(doc, new) ==
    /\ Revoked(doc, new)
    /\ CurrentOutcome(new)
    /\ new.bindings = doc.bindings \/ Injective(new.bindings)

\* A new report is frozen from the case as it is.
NewReport(doc, report) ==
    \/ \E dialogue \in Dialogues, finding \in Findings :
          /\ Eligible(doc, dialogue)
          /\ report = ReportProposal(doc, dialogue, finding)
    \/ /\ report \in Reports
       /\ report.kind = "structure" /\ report.basis = Fingerprint(doc)
       /\ report.gaps = {} /\ report.gate = "insufficient"
       /\ ~report.stale /\ report.review = "pending_final_review"

Derived(doc, new) ==
    /\ SameCase(doc, new)
    /\ \/ new.confirmed = doc.confirmed
       \/ CanConfirm(doc) /\ new.confirmed.facts = CaseFactsOf(doc)
    /\ CurrentOutcome(doc) => CurrentOutcome(new)
    /\ \/ new.domain.confirmation \in {None, doc.domain.confirmation}
       \/ CanConfirmDomain(doc) /\ new.domain.confirmation.hash = Fingerprint(doc)
    /\ \/ new.reports = doc.reports
       \/ \E report : NewReport(doc, report) /\ new.reports = Append(doc.reports, report)
       \/ \E i \in DOMAIN doc.reports, decision \in Decisions :
             /\ CanReview(doc, i, decision)
             /\ new.reports = [doc.reports EXCEPT ![i].review = decision]

Effect(doc, new) ==
    /\ new \in Documents
    /\ new.revision = doc.revision
    /\ Recomputed(doc, new) \/ Derived(doc, new)

LEMMA UnchangedDerived ==
    ASSUME NEW doc, NEW new, Unchanged(doc, new)
    PROVE  Derived(doc, new)
BY DEF Unchanged, SameCase, SameDerived, Derived, CurrentOutcome

LEMMA StaleIsCurrent ==
    ASSUME NEW new, StaleOutcome(new)
    PROVE  CurrentOutcome(new)
BY DEF StaleOutcome, CurrentOutcome

LEMMA UnchangedReflexive == \A doc : Unchanged(doc, doc)
BY DEF Unchanged, SameCase, SameDerived

LEMMA UnchangedTransitive ==
    ASSUME NEW doc, NEW old, NEW new, Unchanged(doc, old), Unchanged(old, new)
    PROVE  Unchanged(doc, new)
BY DEF Unchanged, SameCase, SameDerived

LEMMA RevokedUnchanged ==
    ASSUME NEW doc, NEW old, NEW new, Unchanged(old, new)
    PROVE  /\ Revoked(doc, old) => Revoked(doc, new)
           /\ CurrentOutcome(old) => CurrentOutcome(new)
BY DEF Unchanged, SameCase, SameDerived, Revoked, CurrentOutcome

\* invalidate() keeps the inputs and withdraws what was derived from them.
LEMMA InvalidateType ==
    ASSUME NEW doc \in Documents, NEW actions \in BOOLEAN, NEW rulings \in BOOLEAN
    PROVE  LET new == Invalidate(doc, actions, rulings)
           IN  /\ new \in Documents
               /\ new.revision = doc.revision /\ new.bindings = doc.bindings
               /\ Revoked(doc, new) /\ StaleOutcome(new)
<1> DEFINE reports == [i \in DOMAIN doc.reports |-> Staled(doc.reports[i])]
           domain  == [doc.domain EXCEPT
                          !.confirmation = None,
                          !.outcome = StaledOutcome(doc.domain.outcome),
                          !.actions = IF actions THEN [k \in ActionKeys |-> "none"] ELSE doc.domain.actions,
                          !.rulings = IF rulings THEN {} ELSE doc.domain.rulings]
<1>1. reports \in Seq(Reports)
    BY StaledType DEF Documents
<1>2. /\ doc.domain \in Domains
      /\ StaledOutcome(doc.domain.outcome) \in Outcomes \cup {None}
      /\ StaledOutcome(doc.domain.outcome) # None => StaledOutcome(doc.domain.outcome).stale
    BY DEF Documents, Domains, Outcomes, StaledOutcome
<1>3. /\ domain \in Domains /\ domain.confirmation = None
      /\ domain.outcome # None => domain.outcome.stale
    BY <1>2 DEF Domains, Answers
<1>4. Invalidate(doc, actions, rulings) =
          [doc EXCEPT !.confirmed = None, !.reports = reports, !.domain = domain]
    BY DEF Invalidate, Documents, Domains
<1> HIDE DEF reports, domain
<1> QED
    BY <1>1, <1>3, <1>4 DEF Documents, reports, Revoked, StaleOutcome

LEMMA ApplyFactsType ==
    ASSUME NEW doc \in Documents, NEW patch \in Patches
    PROVE  /\ ApplyFacts(doc, patch) \in Documents
           /\ ApplyFacts(doc, patch) = [doc EXCEPT !.records = Write(doc.records, doc.bindings, patch)]
<1>1. Write(doc.records, doc.bindings, patch) \in Records
    BY WriteType DEF Documents
<1> QED
    BY <1>1 DEF Documents, ApplyFacts

LEMMA AnswerByHandType ==
    ASSUME NEW d \in Dialogues, NEW patch \in Patches
    PROVE  AnswerByHand(d, patch) \in Dialogues
<1> DEFINE deferred == d.deferred \ DOMAIN patch
           attempts == [f \in Fields |-> IF f \in DOMAIN patch THEN 0 ELSE d.attempts[f]]
           pending  == IF d.pending # None /\ AskedField(d) \in DOMAIN patch THEN None ELSE d.pending
<1>1. deferred \in SUBSET Fields /\ attempts \in [Fields -> 0..2] /\ pending \in Questions \cup {None}
    BY DialogueFields
<1>2. AnswerByHand(d, patch) = [d EXCEPT !.consent = None, !.deferred = deferred,
                                         !.attempts = attempts, !.pending = pending]
    BY DEF AnswerByHand
<1> HIDE DEF deferred, attempts, pending
<1> QED
    BY <1>1, <1>2 DEF Dialogues

LEMMA EditType ==
    ASSUME NEW doc \in Documents, NEW patch \in Patches
    PROVE  LET new == Edit(doc, patch)
           IN  /\ new \in Documents /\ new.revision = doc.revision /\ new.bindings = doc.bindings
               /\ \/ Revoked(doc, new) /\ StaleOutcome(new)
                  \/ Unchanged(doc, new)
<1> DEFINE heard == [doc EXCEPT !.disputed = @ \ DOMAIN patch]
           base  == Invalidate(heard, TRUE, TRUE)
           asked == [base EXCEPT !.dialogue = AnswerByHand(base.dialogue, patch)]
           new   == ApplyFacts(asked, patch)
<1>1. heard \in Documents /\ heard.revision = doc.revision /\ Unchanged(doc, heard)
    BY DEF Documents, Unchanged, SameCase, SameDerived, Fingerprint
<1>2. Edit(doc, patch) = IF Changes(doc, patch)
                         THEN [new EXCEPT !.state = StateFor(CaseFactsOf(new), new.dialogue)]
                         ELSE heard
    BY DEF Edit
<1> HIDE DEF heard
<1>3. /\ base \in Documents /\ base.revision = doc.revision /\ base.bindings = doc.bindings
      /\ Revoked(doc, base) /\ StaleOutcome(base)
  <2>1. /\ base \in Documents /\ base.revision = heard.revision /\ base.bindings = heard.bindings
        /\ Revoked(heard, base) /\ StaleOutcome(base)
      BY <1>1, InvalidateType
  <2> QED
      BY <1>1, <2>1 DEF Revoked, Unchanged, SameCase
<1> HIDE DEF base
<1>4. AnswerByHand(base.dialogue, patch) \in Dialogues
    BY <1>3, AnswerByHandType DEF Documents
<1>5. /\ asked \in Documents /\ asked.revision = doc.revision /\ asked.bindings = doc.bindings
      /\ Revoked(doc, asked) /\ StaleOutcome(asked)
    BY <1>3, <1>4 DEF Documents, Revoked, StaleOutcome
<1> HIDE DEF asked
<1>6. /\ new \in Documents /\ new.revision = doc.revision /\ new.bindings = doc.bindings
      /\ Revoked(doc, new) /\ StaleOutcome(new)
    BY <1>5, ApplyFactsType DEF Documents, Revoked, StaleOutcome
<1> HIDE DEF new
<1>7. [new EXCEPT !.state = StateFor(CaseFactsOf(new), new.dialogue)] \in Documents
    BY <1>6, StateForType DEF Documents
<1> QED
    BY <1>1, <1>2, <1>6, <1>7 DEF Documents, Revoked, StaleOutcome, Unchanged, SameCase

LEMMA ConfirmType ==
    ASSUME NEW doc \in Documents
    PROVE  LET new == Confirm(doc)
           IN  /\ new \in Documents /\ new.revision = doc.revision
               /\ SameCase(doc, new) /\ new.reports = doc.reports
               /\ new.confirmed.facts = CaseFactsOf(doc)
               /\ new.domain = doc.domain
<1>1. [revision |-> doc.revision + 1, facts |-> CaseFactsOf(doc)] \in Confirmations
    BY CaseFactsType DEF Documents, Confirmations
<1> QED
    BY <1>1 DEF Confirm, Documents, States, SameCase, Fingerprint

LEMMA AddReportType ==
    ASSUME NEW doc \in Documents, NEW report \in Reports
    PROVE  LET new == AddReport(doc, report)
           IN  /\ new \in Documents /\ new.revision = doc.revision
               /\ SameCase(doc, new) /\ SameDerived(doc, new)
               /\ new.reports = Append(doc.reports, report)
<1>1. Append(doc.reports, report) \in Seq(Reports)
    BY DEF Documents
<1> QED
    BY <1>1 DEF AddReport, Documents, States, SameCase, SameDerived, Fingerprint

LEMMA ReportProposalType ==
    ASSUME NEW doc \in Documents, doc.confirmed # None, NEW dialogue, NEW finding \in Findings
    PROVE  ReportProposal(doc, dialogue, finding) \in Reports
<1>1. doc.confirmed.facts \in Facts /\ doc.confirmed.revision \in Nat
    BY DEF Documents, Confirmations
<1>2. Gaps(CaseFactsOf(doc)) \subseteq Fields
    BY FactsAssumption DEF Gaps, RequiredFields, ConflictFields
<1>3. finding.gate \in Gates /\ finding.complete \in BOOLEAN
    BY DEF Findings
<1> QED
    BY <1>1, <1>2, <1>3 DEF ReportProposal, Reports, ReportKinds, Gates, Reviews

LEMMA RunType ==
    ASSUME NEW doc \in Documents, CanRun(doc), NEW finding \in Findings
    PROVE  LET new == Run(doc, finding)
           IN  /\ new \in Documents /\ new.revision = doc.revision
               /\ SameCase(doc, new) /\ SameDerived(doc, new)
               /\ new.reports = Append(doc.reports, ReportProposal(doc, doc.dialogue, finding))
BY AddReportType, ReportProposalType DEF CanRun, Eligible, Run

LEMMA ReviewType ==
    ASSUME NEW doc \in Documents, NEW i, NEW decision \in Decisions, CanReview(doc, i, decision)
    PROVE  Effect(doc, Review(doc, i, decision))
<1> DEFINE reports == [doc.reports EXCEPT ![i].review = decision]
           new     == Review(doc, i, decision)
<1>1. i \in DOMAIN doc.reports /\ doc.reports \in Seq(Reports)
    BY DEF CanReview, Documents
<1>2. \A r \in Reports : [r EXCEPT !.review = decision] \in Reports
    BY DEF Reports, Reviews
<1>3. reports \in Seq(Reports)
    BY <1>1, <1>2
<1>4. new = [doc EXCEPT !.reports = reports, !.state = "review_required"]
    BY DEF Review
<1>5. \E j \in DOMAIN doc.reports, d \in Decisions :
          CanReview(doc, j, d) /\ reports = [doc.reports EXCEPT ![j].review = d]
    BY <1>1
<1> HIDE DEF reports, new
<1>6. /\ new \in Documents /\ new.revision = doc.revision
      /\ SameCase(doc, new) /\ SameDerived(doc, new) /\ new.reports = reports
    BY <1>3, <1>4 DEF Documents, States, SameCase, SameDerived, Fingerprint
<1> QED
    BY <1>5, <1>6 DEF new, Effect, Derived, SameDerived, SameCase, CurrentOutcome

LEMMA PreparedType ==
    ASSUME NEW doc \in Documents, NEW turn \in RoutedTurns, NEW p \in PreparedTurns(doc, turn)
    PROVE  /\ p.patch \in Patches /\ p.conflicts \subseteq Fields /\ p.dialogue \in Dialogues
           /\ p.report \in Reports \cup {None}
           /\ p.report # None => /\ DOMAIN p.patch = {}
                                 /\ Eligible(doc, p.dialogue)
                                 /\ \E finding \in Findings :
                                       p.report = ReportProposal(doc, p.dialogue, finding)
<1> DEFINE facts == CaseFactsOf(doc)
           patch == TurnPatch(facts, doc.dialogue, turn)
<1>1. facts \in Facts /\ doc.dialogue \in Dialogues
    BY CaseFactsType DEF Documents
<1>2. patch \in Patches /\ Contradicted(facts, doc.dialogue, turn) \subseteq Fields
    BY <1>1, TurnPatchType
<1>3. FinalDialogues(facts, doc.dialogue, turn) \subseteq Dialogues
    BY <1>1, FinalDialoguesType
<1>4. PICK d \in FinalDialogues(facts, doc.dialogue, turn) :
          /\ p = [patch |-> patch, conflicts |-> Contradicted(facts, doc.dialogue, turn),
                  dialogue |-> d, report |-> p.report]
          /\ \/ p.report = None
             \/ /\ DOMAIN patch = {} /\ Eligible(doc, d)
                /\ \E finding \in Findings : p.report = ReportProposal(doc, d, finding)
    BY DEF PreparedTurns
<1>5. p.report \in Reports \cup {None}
    BY <1>4, ReportProposalType DEF Eligible
<1>6. p.patch = patch /\ p.conflicts = Contradicted(facts, doc.dialogue, turn) /\ p.dialogue = d
    BY <1>4
<1> QED
    BY <1>2, <1>3, <1>4, <1>5, <1>6

LEMMA CommitType ==
    ASSUME NEW doc \in Documents, NEW turn \in RoutedTurns, NEW p \in PreparedTurns(doc, turn)
    PROVE  Effect(doc, CommitPrepared(doc, p))
<1> DEFINE fresh   == DOMAIN p.patch # {}
           base    == IF fresh THEN Invalidate(doc, TRUE, TRUE) ELSE doc
           applied == ApplyFacts(base, p.patch)
           told    == [applied EXCEPT !.dialogue = p.dialogue,
                                      !.disputed = (@ \ DOMAIN p.patch) \cup p.conflicts]
           new     == IF fresh
                      THEN [told EXCEPT !.state = StateFor(CaseFactsOf(told), told.dialogue)]
                      ELSE told
<1>1. /\ base \in Documents /\ base.revision = doc.revision /\ base.bindings = doc.bindings
      /\ IF fresh THEN Revoked(doc, base) /\ StaleOutcome(base) ELSE base = doc
    BY InvalidateType
<1>2. CommitPrepared(doc, p) = IF p.report = None THEN new ELSE AddReport(new, p.report)
    BY DEF CommitPrepared
<1> HIDE DEF base
<1>3. /\ applied \in Documents /\ applied.revision = doc.revision /\ applied.bindings = doc.bindings
      /\ IF fresh THEN Revoked(doc, applied) /\ StaleOutcome(applied)
         ELSE Unchanged(doc, applied)
  <2>1. /\ applied \in Documents
        /\ applied = [base EXCEPT !.records = Write(base.records, base.bindings, p.patch)]
      BY <1>1, PreparedType, ApplyFactsType
  <2>2. ASSUME ~fresh PROVE Write(base.records, base.bindings, p.patch) = base.records
      BY <1>1, <2>2 DEF Write, Documents, Records
  <2> HIDE DEF applied
  <2>3. ASSUME fresh PROVE Revoked(doc, applied) /\ StaleOutcome(applied)
      BY <1>1, <2>1, <2>3 DEF Documents, Revoked, StaleOutcome
  <2>4. ASSUME ~fresh PROVE applied = doc
      BY <1>1, <2>1, <2>2, <2>4 DEF Documents
  <2> QED
      BY <1>1, <2>1, <2>3, <2>4, UnchangedReflexive DEF Documents
<1> HIDE DEF applied
<1>4. /\ told \in Documents /\ told.revision = doc.revision /\ told.bindings = doc.bindings
      /\ IF fresh THEN Revoked(doc, told) /\ StaleOutcome(told) ELSE Unchanged(doc, told)
  <2>1. (applied.disputed \ DOMAIN p.patch) \cup p.conflicts \in SUBSET Fields
      BY <1>3, PreparedType DEF Documents
  <2>2. /\ told \in Documents /\ told.revision = doc.revision
        /\ told.bindings = applied.bindings /\ told.records = applied.records
        /\ told.confirmed = applied.confirmed /\ told.domain = applied.domain
        /\ told.reports = applied.reports
      BY <1>3, <2>1, PreparedType DEF Documents
  <2> HIDE DEF told
  <2> QED
      BY <1>3, <2>2 DEF Revoked, StaleOutcome, Unchanged, SameCase, SameDerived, Fingerprint
<1> HIDE DEF told
<1>5. /\ new \in Documents /\ new.revision = doc.revision /\ new.bindings = doc.bindings
      /\ IF fresh THEN Revoked(doc, new) /\ StaleOutcome(new) ELSE Unchanged(doc, new)
    BY <1>4, StateForType DEF Documents, Revoked, StaleOutcome
<1> HIDE DEF new
<1>6. CASE p.report = None
    BY <1>2, <1>5, <1>6, UnchangedDerived, StaleIsCurrent DEF Effect, Recomputed
<1>7. CASE p.report # None
  <2>1. /\ p.report \in Reports /\ ~fresh /\ Eligible(doc, p.dialogue)
        /\ \E finding \in Findings : p.report = ReportProposal(doc, p.dialogue, finding)
      BY <1>7, PreparedType
  <2>2. /\ AddReport(new, p.report) \in Documents /\ AddReport(new, p.report).revision = new.revision
        /\ SameCase(new, AddReport(new, p.report)) /\ SameDerived(new, AddReport(new, p.report))
        /\ AddReport(new, p.report).reports = Append(new.reports, p.report)
      BY <1>5, <2>1, AddReportType
  <2>3. NewReport(doc, p.report)
      BY <2>1, PreparedType DEF NewReport
  <2> QED
      BY <1>2, <1>5, <1>7, <2>1, <2>2, <2>3
      DEF Effect, Derived, Unchanged, SameCase, SameDerived, CurrentOutcome
<1> QED
    BY <1>6, <1>7

-----------------------------------------------------------------------------
(* DomainDocument *)

\* Computing changes the outcome and nothing it was computed from.
LEMMA ExecuteType ==
    ASSUME NEW doc \in Documents, NEW result \in EngineResults
    PROVE  LET new == Execute(doc, result)
           IN  /\ new \in Documents /\ new.revision = doc.revision
               /\ SameCase(doc, new)
               /\ new.confirmed = doc.confirmed /\ new.reports = doc.reports
               /\ new.domain.confirmation = doc.domain.confirmation
               /\ CurrentOutcome(new)
<1> DEFINE outcome == [hash |-> Fingerprint(doc), status |-> result.status,
                       questions |-> result.questions, stale |-> FALSE]
           domain  == [doc.domain EXCEPT !.status = "active", !.outcome = outcome]
           new     == Execute(doc, result)
<1>1. result.status \in EngineStatuses /\ result.questions \in SUBSET EngineQuestions
    BY DEF EngineResults, EngineStatuses
<1>2. outcome \in Outcomes /\ outcome.hash = Fingerprint(doc)
    BY <1>1, FingerprintType DEF Outcomes
<1>3. doc.domain \in Domains
    BY DEF Documents
<1>4. new = [doc EXCEPT !.domain = domain]
    BY <1>3 DEF Execute, Documents, Domains
<1> HIDE DEF outcome
<1>5. /\ domain \in Domains /\ domain.outcome = outcome
      /\ domain.confirmation = doc.domain.confirmation
      /\ domain.actions = doc.domain.actions /\ domain.rulings = doc.domain.rulings
      /\ domain.mode = doc.domain.mode
    BY <1>2, <1>3 DEF Domains
<1> HIDE DEF domain, new
<1>6. /\ new \in Documents /\ new.domain = domain
      /\ new.revision = doc.revision /\ new.records = doc.records
      /\ new.bindings = doc.bindings /\ new.confirmed = doc.confirmed
      /\ new.reports = doc.reports
    BY <1>4, <1>5 DEF Documents
<1>7. Fingerprint(new) = Fingerprint(doc)
    BY <1>5, <1>6 DEF Fingerprint
<1> QED
    BY <1>2, <1>5, <1>6, <1>7 DEF new, SameCase, CurrentOutcome

\* Withdrawing, changing the inputs and computing again leaves nothing of
\* what was derived before and an outcome of the new inputs.
LEMMA ExecuteRevoked ==
    ASSUME NEW doc, NEW told \in Documents, Revoked(doc, told), NEW result \in EngineResults
    PROVE  LET new == Execute(told, result)
           IN  /\ new \in Documents /\ new.revision = told.revision
               /\ new.bindings = told.bindings
               /\ Revoked(doc, new) /\ CurrentOutcome(new)
BY ExecuteType DEF Revoked, SameCase

LEMMA InstallType ==
    ASSUME NEW doc \in Documents, NEW case \in [Addresses -> FactValues], NEW bound \in Bindings
    PROVE  LET new == Install(doc, case, bound)
           IN  /\ new \in Documents
               /\ new.revision = doc.revision /\ new.confirmed = doc.confirmed
               /\ new.reports = doc.reports /\ new.bindings = bound
<1> DEFINE records == [k \in Keys |-> IF k \in Addresses THEN case[k]
                                      ELSE IF bound[k] # None THEN Absent
                                      ELSE CaseFactsOf(doc)[k]]
<1>1. \A f \in Fields : CaseFactsOf(doc)[f] \in FactValues
    BY CaseFactsType DEF Facts
<1>2. records \in Records
    BY <1>1 DEF Records, FactValues, Keys
<1>3. Install(doc, case, bound) = [doc EXCEPT !.records = records, !.bindings = bound]
    BY DEF Install
<1> HIDE DEF records
<1> QED
    BY <1>2, <1>3 DEF Documents

LEMMA NewDomainType == NewDomain \in Domains
BY DEF NewDomain, Domains, Modes, Answers

LEMMA SetupType ==
    ASSUME NEW doc \in Documents, NEW case \in Structures, NEW mode \in Modes, NEW bound \in Bindings
    PROVE  LET new == Setup(doc, case, mode, bound)
           IN  /\ new \in Documents
               /\ new.revision = doc.revision /\ new.bindings = bound
               /\ Revoked(doc, new) /\ CurrentOutcome(new)
<1> DEFINE base   == Invalidate(doc, TRUE, TRUE)
           placed == Install(base, case, bound)
           domain == [NewDomain EXCEPT !.defined = TRUE, !.mode = mode, !.status = "active",
                                       !.calculating = doc.domain.calculating,
                                       !.installed = doc.domain.installed]
<1>1. base \in Documents /\ base.revision = doc.revision /\ Revoked(doc, base)
    BY InvalidateType
<1>2. case \in [Addresses -> FactValues]
    BY DEF Structures, FactValues
<1>3. Setup(doc, case, mode, bound) = [placed EXCEPT !.domain = domain]
    BY DEF Setup
<1> HIDE DEF base
<1>4. /\ placed \in Documents /\ placed.revision = doc.revision /\ placed.confirmed = None
      /\ placed.bindings = bound /\ placed.reports = base.reports
    BY <1>1, <1>2, InstallType DEF Revoked
<1>5. domain \in Domains /\ domain.confirmation = None /\ domain.outcome = None
    BY NewDomainType DEF Domains, Documents, NewDomain
<1> HIDE DEF placed, domain
<1> QED
    BY <1>1, <1>3, <1>4, <1>5 DEF Documents, Revoked, CurrentOutcome

LEMMA AnswerType ==
    ASSUME NEW doc \in Documents, NEW data \in DataAnswers, NEW actions \in ActionAnswers,
           NEW result \in EngineResults
    PROVE  LET new == Answer(doc, data, actions, result)
           IN  /\ new \in Documents
               /\ new.revision = doc.revision /\ new.bindings = doc.bindings
               /\ Revoked(doc, new) /\ CurrentOutcome(new)
<1> DEFINE withData == DOMAIN data # {}
           base    == Invalidate(doc, withData, withData)
           records == [k \in Keys |-> IF k \in DOMAIN data THEN data[k] ELSE base.records[k]]
           given   == [k \in ActionKeys |-> IF k \in DOMAIN actions THEN actions[k]
                                            ELSE base.domain.actions[k]]
           told    == [base EXCEPT !.records = records, !.domain = [base.domain EXCEPT !.actions = given]]
<1>1. /\ base \in Documents /\ base.revision = doc.revision /\ base.bindings = doc.bindings
      /\ Revoked(doc, base)
    BY InvalidateType
<1>2. /\ \A k \in DOMAIN data : data[k] \in FactValues
      /\ \A k \in DOMAIN actions : actions[k] \in Answers
    BY DEF DataAnswers, ActionAnswers, FactValues, Answers
<1>3. Answer(doc, data, actions, result) = Execute(told, result)
    BY <1>1 DEF Answer, Documents, Domains
<1> HIDE DEF base
<1>4. records \in Records /\ given \in [ActionKeys -> Answers]
    BY <1>1, <1>2 DEF Documents, Domains, Records
<1> HIDE DEF records, given
<1>5. [base.domain EXCEPT !.actions = given] \in Domains
    BY <1>1, <1>4 DEF Documents, Domains
<1>6. /\ told \in Documents /\ told.revision = doc.revision /\ told.bindings = doc.bindings
      /\ Revoked(doc, told)
    BY <1>1, <1>4, <1>5 DEF Documents, Domains, Revoked
<1> HIDE DEF told
<1> QED
    BY <1>3, <1>6, ExecuteRevoked

\* Noting what a calculation computed from changes neither case nor outcome.
LEMMA InstalledKeeps ==
    ASSUME NEW doc \in Documents
    PROVE  LET new == [doc EXCEPT !.domain.installed = Fingerprint(doc)]
           IN  new \in Documents /\ new.revision = doc.revision /\ Unchanged(doc, new)
<1> DEFINE new == [doc EXCEPT !.domain.installed = Fingerprint(doc)]
<1>1. /\ new \in Documents /\ new.revision = doc.revision
      /\ new.records = doc.records /\ new.bindings = doc.bindings
      /\ new.confirmed = doc.confirmed /\ new.reports = doc.reports
      /\ new.domain = [doc.domain EXCEPT !.installed = Fingerprint(doc)]
    BY FingerprintType DEF Documents, Domains
<1> HIDE DEF new
<1>2. /\ new.domain.outcome = doc.domain.outcome
      /\ new.domain.confirmation = doc.domain.confirmation
      /\ new.domain.actions = doc.domain.actions /\ new.domain.rulings = doc.domain.rulings
      /\ new.domain.mode = doc.domain.mode
    BY <1>1 DEF Documents, Domains
<1> QED
    BY <1>1, <1>2 DEF new, Unchanged, SameCase, SameDerived, Fingerprint

LEMMA AsideKeeps ==
    ASSUME NEW doc \in Documents
    PROVE  Aside(doc) \in Documents /\ Aside(doc).revision = doc.revision /\ Unchanged(doc, Aside(doc))
<1> DEFINE dialogue == [doc.dialogue EXCEPT !.status = "suspended", !.pending = None]
           domain   == [doc.domain EXCEPT !.calculating = TRUE]
           new      == Aside(doc)
<1>1. dialogue \in Dialogues
    BY DEF Documents, Dialogues, Statuses
<1>2. /\ domain \in Domains
      /\ domain.outcome = doc.domain.outcome /\ domain.confirmation = doc.domain.confirmation
      /\ domain.actions = doc.domain.actions /\ domain.rulings = doc.domain.rulings
      /\ domain.mode = doc.domain.mode
    BY DEF Documents, Domains
<1>3. new = [doc EXCEPT !.dialogue = dialogue, !.domain = domain]
    BY DEF Aside, Documents, Domains
<1> HIDE DEF dialogue, domain, new
<1>4. /\ new \in Documents /\ new.revision = doc.revision
      /\ new.records = doc.records /\ new.bindings = doc.bindings
      /\ new.confirmed = doc.confirmed /\ new.reports = doc.reports /\ new.domain = domain
    BY <1>1, <1>2, <1>3 DEF Documents
<1> QED
    BY <1>2, <1>4 DEF new, Unchanged, SameCase, SameDerived, Fingerprint

LEMMA CalculatedKeeps ==
    ASSUME NEW doc \in Documents
    PROVE  /\ Calculated(doc) \in Documents /\ Calculated(doc).revision = doc.revision
           /\ Unchanged(doc, Calculated(doc))
<1> DEFINE aside == Aside(doc)
<1>1. aside \in Documents /\ aside.revision = doc.revision /\ Unchanged(doc, aside)
    BY AsideKeeps
<1>2. Calculated(doc) = [aside EXCEPT !.domain.installed = Fingerprint(aside)]
    BY <1>1 DEF Calculated, Unchanged, SameCase
<1> HIDE DEF aside
<1> QED
    BY <1>1, <1>2, InstalledKeeps, UnchangedTransitive

LEMMA BatchType ==
    ASSUME NEW doc \in Documents, NEW data \in DataAnswers, NEW actions \in ActionAnswers,
           NEW result \in EngineResults
    PROVE  LET new == AnswerBatch(doc, data, actions, result)
           IN  /\ new \in Documents
               /\ new.revision = doc.revision /\ new.bindings = doc.bindings
               /\ Revoked(doc, new) /\ CurrentOutcome(new)
<1> DEFINE old == Answer(doc, data, actions, result)
           new == [old EXCEPT !.domain.installed = Fingerprint(old)]
<1>1. /\ old \in Documents /\ old.revision = doc.revision /\ old.bindings = doc.bindings
      /\ Revoked(doc, old) /\ CurrentOutcome(old)
    BY AnswerType
<1>2. new \in Documents /\ new.revision = doc.revision /\ Unchanged(old, new)
    BY <1>1, InstalledKeeps
<1>3. AnswerBatch(doc, data, actions, result) = IF old.domain.calculating THEN new ELSE old
    BY DEF AnswerBatch
<1> HIDE DEF old, new
<1> QED
    BY <1>1, <1>2, <1>3, RevokedUnchanged DEF Unchanged, SameCase

LEMMA PauseType ==
    ASSUME NEW doc \in Documents
    PROVE  Pause(doc) \in Documents /\ Pause(doc).revision = doc.revision /\ Unchanged(doc, Pause(doc))
<1> DEFINE domain == [doc.domain EXCEPT !.status = "paused"]
           new    == Pause(doc)
<1>1. /\ domain \in Domains
      /\ domain.outcome = doc.domain.outcome /\ domain.confirmation = doc.domain.confirmation
      /\ domain.actions = doc.domain.actions /\ domain.rulings = doc.domain.rulings
      /\ domain.mode = doc.domain.mode
    BY DEF Documents, Domains
<1>2. new = [doc EXCEPT !.domain = domain]
    BY DEF Pause, Documents, Domains
<1> HIDE DEF domain, new
<1>3. /\ new \in Documents /\ new.revision = doc.revision
      /\ new.records = doc.records /\ new.bindings = doc.bindings
      /\ new.confirmed = doc.confirmed /\ new.reports = doc.reports /\ new.domain = domain
    BY <1>1, <1>2 DEF Documents
<1> QED
    BY <1>1, <1>3 DEF new, Unchanged, SameCase, SameDerived, Fingerprint

LEMMA ConfirmDomainType ==
    ASSUME NEW doc \in Documents
    PROVE  LET new == ConfirmDomain(doc)
           IN  /\ new \in Documents /\ new.revision = doc.revision
               /\ SameCase(doc, new)
               /\ new.confirmed = doc.confirmed /\ new.reports = doc.reports
               /\ new.domain.outcome = doc.domain.outcome
               /\ new.domain.confirmation.hash = Fingerprint(doc)
<1> DEFINE confirmation == [hash |-> Fingerprint(doc), revision |-> doc.revision + 1]
           domain == [doc.domain EXCEPT !.confirmation = confirmation]
           new    == ConfirmDomain(doc)
<1>1. confirmation \in [hash : Fingerprints, revision : Nat] /\ confirmation.hash = Fingerprint(doc)
    BY FingerprintType DEF Documents
<1>2. new = [doc EXCEPT !.domain = domain]
    BY DEF ConfirmDomain, Documents, Domains
<1> HIDE DEF confirmation
<1>3. /\ domain \in Domains
      /\ domain.outcome = doc.domain.outcome /\ domain.confirmation = confirmation
      /\ domain.actions = doc.domain.actions /\ domain.rulings = doc.domain.rulings
      /\ domain.mode = doc.domain.mode
    BY <1>1 DEF Documents, Domains
<1> HIDE DEF domain, new
<1>4. /\ new \in Documents /\ new.revision = doc.revision
      /\ new.records = doc.records /\ new.bindings = doc.bindings
      /\ new.confirmed = doc.confirmed /\ new.reports = doc.reports /\ new.domain = domain
    BY <1>2, <1>3 DEF Documents
<1> QED
    BY <1>1, <1>3, <1>4 DEF new, SameCase, Fingerprint

LEMMA ReportType ==
    ASSUME NEW doc \in Documents, NEW allowPartial \in BOOLEAN, CanReport(doc, allowPartial)
    PROVE  LET new == Report(doc, allowPartial)
           IN  /\ new \in Documents /\ new.revision = doc.revision
               /\ SameCase(doc, new) /\ SameDerived(doc, new)
               /\ \E report : NewReport(doc, report) /\ new.reports = Append(doc.reports, report)
<1> DEFINE report == [kind |-> "structure", basis |-> doc.domain.outcome.hash,
                      revision |-> doc.domain.confirmation.revision, gaps |-> {},
                      gate |-> "insufficient", complete |-> FALSE, partial |-> allowPartial,
                      stale |-> FALSE, review |-> "pending_final_review"]
<1>1. /\ doc.domain.outcome.hash \in Fingerprints /\ doc.domain.confirmation.revision \in Nat
      /\ doc.domain.outcome.hash = Fingerprint(doc)
    BY DEF CanReport, Current, Documents, Domains, Outcomes
<1>2. report \in Reports
    BY <1>1 DEF Reports, ReportKinds, Gates, Reviews
<1>3. NewReport(doc, report)
    BY <1>1, <1>2 DEF NewReport
<1> QED
    BY <1>2, <1>3, AddReportType DEF Report

LEMMA RuleType ==
    ASSUME NEW doc \in Documents, NEW key \in RulingKeys, NEW result \in EngineResults
    PROVE  LET new == Rule(doc, key, result)
           IN  /\ new \in Documents
               /\ new.revision = doc.revision /\ new.bindings = doc.bindings
               /\ Revoked(doc, new) /\ CurrentOutcome(new)
<1> DEFINE base == Invalidate(doc, TRUE, FALSE)
           told == [base EXCEPT !.domain = [base.domain EXCEPT !.rulings = @ \cup {key}]]
<1>1. /\ base \in Documents /\ base.revision = doc.revision /\ base.bindings = doc.bindings
      /\ Revoked(doc, base)
    BY InvalidateType
<1>2. Rule(doc, key, result) = Execute(told, result)
    BY DEF Rule
<1> HIDE DEF base
<1>3. [base.domain EXCEPT !.rulings = @ \cup {key}] \in Domains
    BY <1>1 DEF Documents, Domains
<1>4. /\ told \in Documents /\ told.revision = doc.revision /\ told.bindings = doc.bindings
      /\ Revoked(doc, told)
    BY <1>1, <1>3 DEF Documents, Domains, Revoked
<1> HIDE DEF told
<1> QED
    BY <1>2, <1>4, ExecuteRevoked

LEMMA CalculateType ==
    ASSUME NEW doc \in Documents, NEW inputs \in [CalculationFields -> Values],
           NEW keep \in SUBSET Addresses, NEW result \in EngineResults
    PROVE  LET new == Calculate(doc, inputs, keep, result)
           IN  /\ new \in Documents
               /\ new.revision = doc.revision /\ new.bindings = CalculationBindings
               /\ Revoked(doc, new) /\ CurrentOutcome(new)
<1> DEFINE base   == Invalidate(doc, TRUE, TRUE)
           noted  == ApplyFacts(base, inputs)
           case   == CalculationCase(doc, inputs, keep)
           placed == Install(noted, case, CalculationBindings)
           domain == [NewDomain EXCEPT !.defined = TRUE, !.status = "active",
                                       !.mode = "assess_current"]
           ready  == [placed EXCEPT !.domain = domain]
           done   == Execute(ready, result)
<1>1. base \in Documents /\ base.revision = doc.revision /\ Revoked(doc, base)
    BY InvalidateType
<1>2. inputs \in Patches
  <2>1. inputs \in [CalculationFields -> FactValues]
      BY DEF FactValues
  <2> QED
      BY <2>1, CalculationAssumption DEF Patches
<1>3. case \in [Addresses -> FactValues]
  <2> SUFFICES ASSUME NEW a \in Addresses PROVE case[a] \in FactValues
      BY DEF CalculationCase
  <2>1. CASE \E f \in Fields : CalculationBindings[f] = a
    <3> DEFINE g == CHOOSE f \in Fields : CalculationBindings[f] = a
    <3>1. g \in Fields /\ CalculationBindings[g] = a
        BY <2>1
    <3>2. g \in CalculationFields
        BY <3>1, CalculationAssumption, FactsAssumption
    <3>3. case[a] = inputs[g]
        BY <2>1 DEF CalculationCase
    <3> QED
        BY <3>2, <3>3 DEF FactValues
  <2>2. CASE ~(\E f \in Fields : CalculationBindings[f] = a)
    <3>1. case[a] = IF a \in keep THEN doc.records[a] ELSE Absent
        BY <2>2 DEF CalculationCase
    <3> QED
        BY <3>1 DEF Documents, Records, Keys, FactValues
  <2> QED
      BY <2>1, <2>2
<1>4. Calculate(doc, inputs, keep, result) = Calculated(done)
    BY DEF Calculate
<1> HIDE DEF base, case
<1>5. noted \in Documents /\ noted.revision = doc.revision /\ noted.confirmed = None /\ noted.reports = base.reports
    BY <1>1, <1>2, ApplyFactsType DEF Documents, Revoked
<1> HIDE DEF noted
<1>6. /\ placed \in Documents /\ placed.revision = doc.revision /\ placed.confirmed = None
      /\ placed.reports = base.reports /\ placed.bindings = CalculationBindings
    BY <1>3, <1>5, InstallType, CalculationAssumption
<1> HIDE DEF placed
<1>7. domain \in Domains /\ domain.confirmation = None
    BY NewDomainType DEF Domains, NewDomain, Modes
<1> HIDE DEF domain
<1>8. /\ ready \in Documents /\ ready.revision = doc.revision
      /\ ready.bindings = CalculationBindings /\ Revoked(doc, ready)
    BY <1>1, <1>6, <1>7 DEF Documents, Revoked
<1> HIDE DEF ready
<1>9. /\ done \in Documents /\ done.revision = doc.revision
      /\ done.bindings = CalculationBindings /\ Revoked(doc, done) /\ CurrentOutcome(done)
    BY <1>8, ExecuteRevoked
<1> HIDE DEF done
<1> QED
    BY <1>4, <1>9, CalculatedKeeps, RevokedUnchanged DEF Unchanged, SameCase

LEMMA CollectType ==
    ASSUME NEW doc \in Documents, NEW changed \in BOOLEAN
    PROVE  LET new == Collect(doc, changed)
           IN  /\ new \in Documents /\ new.revision = doc.revision
               /\ SameCase(doc, new)
               /\ new.confirmed = doc.confirmed /\ new.reports = doc.reports
               /\ \/ SameDerived(doc, new)
                  \/ StaleOutcome(new) /\ new.domain.confirmation = None
<1> DEFINE aside  == Aside(doc)
           domain == [aside.domain EXCEPT !.outcome = StaledOutcome(@), !.confirmation = None]
           new    == [aside EXCEPT !.domain = domain]
<1>1. aside \in Documents /\ aside.revision = doc.revision /\ Unchanged(doc, aside)
    BY AsideKeeps
<1>2. Collect(doc, changed) = IF changed /\ doc.domain.outcome # None THEN new ELSE aside
    BY <1>1 DEF Collect
<1> HIDE DEF aside
<1>3. StaledOutcome(aside.domain.outcome) \in Outcomes \cup {None}
    BY <1>1 DEF Documents, Domains, Outcomes, StaledOutcome
<1>4. /\ domain \in Domains /\ domain.outcome = StaledOutcome(aside.domain.outcome)
      /\ domain.confirmation = None
      /\ domain.actions = aside.domain.actions /\ domain.rulings = aside.domain.rulings
      /\ domain.mode = aside.domain.mode
    BY <1>1, <1>3 DEF Documents, Domains
<1>5. domain.outcome # None => domain.outcome.stale
    BY <1>1, <1>4 DEF Documents, Domains, Outcomes, StaledOutcome
<1> HIDE DEF domain
<1>6. /\ new \in Documents /\ new.revision = aside.revision
      /\ new.records = aside.records /\ new.bindings = aside.bindings
      /\ new.confirmed = aside.confirmed /\ new.reports = aside.reports /\ new.domain = domain
    BY <1>1, <1>4 DEF Documents
<1> HIDE DEF new
<1>7. SameCase(aside, new)
    BY <1>4, <1>6 DEF SameCase, Fingerprint
<1> QED
    BY <1>1, <1>2, <1>4, <1>5, <1>6, <1>7 DEF Unchanged, SameCase, SameDerived, StaleOutcome

LEMMA CancelType ==
    ASSUME NEW doc \in Documents
    PROVE  LET new == CancelCalculation(doc)
           IN  new \in Documents /\ new.revision = doc.revision /\ Unchanged(doc, new)
<1>1. Aside(doc) \in Documents /\ Aside(doc).revision = doc.revision /\ Unchanged(doc, Aside(doc))
    BY AsideKeeps
<1>2. CancelCalculation(doc) = IF doc.domain.status = "none" THEN Aside(doc) ELSE Pause(Aside(doc))
    BY DEF CancelCalculation, Pause
<1> QED
    BY <1>1, <1>2, PauseType, UnchangedTransitive

LEMMA RecalculateType ==
    ASSUME NEW doc \in Documents, NEW result \in EngineResults
    PROVE  LET new == Recalculate(doc, result)
           IN  /\ new \in Documents /\ new.revision = doc.revision
               /\ SameCase(doc, new)
               /\ new.confirmed = doc.confirmed /\ new.reports = doc.reports
               /\ new.domain.confirmation = doc.domain.confirmation
               /\ CurrentOutcome(new)
<1>1. /\ Execute(doc, result) \in Documents /\ Execute(doc, result).revision = doc.revision
      /\ SameCase(doc, Execute(doc, result))
      /\ Execute(doc, result).confirmed = doc.confirmed
      /\ Execute(doc, result).reports = doc.reports
      /\ Execute(doc, result).domain.confirmation = doc.domain.confirmation
      /\ CurrentOutcome(Execute(doc, result))
    BY ExecuteType
<1>2. Recalculate(doc, result) = Calculated(Execute(doc, result))
    BY DEF Recalculate
<1> QED
    BY <1>1, <1>2, CalculatedKeeps, RevokedUnchanged DEF Unchanged, SameCase, SameDerived

-----------------------------------------------------------------------------
(* CaseOperations *)

LEMMA ChatEffect ==
    ASSUME NEW doc \in Documents, NEW op \in ChatOperations, NEW new \in ChatResults(doc, op)
    PROVE  Effect(doc, new)
<1>1. CASE op \in Edits
  <2>1. op.kind = "edit" /\ op.patch \in Patches
      BY <1>1, InputsAssumption DEF Edits
  <2>2. new = Edit(doc, op.patch)
      BY <2>1 DEF ChatResults
  <2> QED
      BY <2>1, <2>2, EditType, UnchangedDerived, StaleIsCurrent DEF Effect, Recomputed
<1>2. CASE op \in Organizations
  <2>1. new = doc
      BY <1>2 DEF Organizations, ChatResults, Organize
  <2> QED
      BY <2>1, UnchangedReflexive, UnchangedDerived DEF Effect
<1>3. CASE op \in Confirms
  <2>1. CanConfirm(doc) /\ new = Confirm(doc)
      BY <1>3 DEF Confirms, ChatResults
  <2>2. /\ new \in Documents /\ new.revision = doc.revision
        /\ SameCase(doc, new) /\ new.reports = doc.reports
        /\ new.confirmed.facts = CaseFactsOf(doc) /\ new.domain = doc.domain
      BY <2>1, ConfirmType
  <2> QED
      BY <2>1, <2>2 DEF Effect, Derived, CurrentOutcome, SameCase
<1>4. CASE op \in Runs
  <2>1. PICK finding \in Findings : new = Run(doc, finding) /\ CanRun(doc)
      BY <1>4 DEF Runs, ChatResults
  <2>2. /\ new \in Documents /\ new.revision = doc.revision
        /\ SameCase(doc, new) /\ SameDerived(doc, new)
        /\ new.reports = Append(doc.reports, ReportProposal(doc, doc.dialogue, finding))
      BY <2>1, RunType
  <2>3. NewReport(doc, ReportProposal(doc, doc.dialogue, finding))
      BY <2>1 DEF NewReport, CanRun, Documents
  <2> QED
      BY <2>2, <2>3 DEF Effect, Derived, SameDerived, SameCase, CurrentOutcome
<1>5. CASE op \in ReviewCalls
  <2>1. PICK i \in ReportNumbers, decision \in Decisions :
            CanReview(doc, i, decision) /\ new = Review(doc, i, decision)
      BY <1>5 DEF ReviewCalls, ChatResults
  <2> QED
      BY <2>1, ReviewType
<1>6. CASE op \in Messages
  <2>1. op.kind = "message" /\ op.turn \in RoutedTurns
      BY <1>6, InputsAssumption DEF Messages, Turns
  <2>2. PICK p \in PreparedTurns(doc, op.turn) : new = CommitPrepared(doc, p)
      BY <2>1 DEF ChatResults
  <2> QED
      BY <2>1, <2>2, CommitType
<1> QED
    BY <1>1, <1>2, <1>3, <1>4, <1>5, <1>6 DEF ChatOperations

LEMMA BoundOnce ==
    ASSUME NEW doc, NEW case, NEW bound, CanSetup(doc, case, bound)
    PROVE  Injective(bound)
BY DEF CanSetup, CanBind, Injective

LEMMA DomainEffect ==
    ASSUME NEW doc \in Documents, NEW op \in DomainOperations, NEW new \in DomainResults(doc, op)
    PROVE  Effect(doc, new)
<1>1. CASE op \in Setups
  <2>1. PICK case \in Structures, mode \in Modes, bound \in Bindings :
            CanSetup(doc, case, bound) /\ new = Setup(doc, case, mode, bound)
      BY <1>1, InputsAssumption DEF Setups, DomainResults
  <2> QED
      BY <2>1, SetupType, BoundOnce DEF Effect, Recomputed
<1>2. CASE op \in Plans \/ op \in Resumes
  <2>1. PICK result \in EngineResults : new = Execute(doc, result)
      BY <1>2, InputsAssumption DEF Plans, Resumes, DomainResults, Resume
  <2>2. /\ new \in Documents /\ new.revision = doc.revision
        /\ SameCase(doc, new)
        /\ new.confirmed = doc.confirmed /\ new.reports = doc.reports
        /\ new.domain.confirmation = doc.domain.confirmation
        /\ CurrentOutcome(new)
      BY <2>1, ExecuteType
  <2> QED
      BY <2>2 DEF Effect, Derived
<1>3. CASE op \in AnswerCalls
  <2>1. PICK data \in DataAnswers, actions \in ActionAnswers, result \in EngineResults :
            new = Answer(doc, data, actions, result)
      BY <1>3, InputsAssumption DEF AnswerCalls, DomainResults
  <2> QED
      BY <2>1, AnswerType DEF Effect, Recomputed
<1>4. CASE op \in Batches
  <2>1. PICK data \in DataAnswers, actions \in ActionAnswers, result \in EngineResults :
            new = AnswerBatch(doc, data, actions, result)
      BY <1>4, InputsAssumption DEF Batches, DomainResults
  <2> QED
      BY <2>1, BatchType DEF Effect, Recomputed
<1>5. CASE op \in Deferrals
  <2>1. new = doc
      BY <1>5 DEF Deferrals, DomainResults
  <2> QED
      BY <2>1, UnchangedReflexive, UnchangedDerived DEF Effect
<1>6. CASE op \in Pauses
  <2>1. new = Pause(doc)
      BY <1>6 DEF Pauses, DomainResults
  <2> QED
      BY <2>1, PauseType, UnchangedDerived DEF Effect
<1>7. CASE op \in DomainConfirms
  <2>1. CanConfirmDomain(doc) /\ new = ConfirmDomain(doc)
      BY <1>7 DEF DomainConfirms, DomainResults
  <2>2. /\ new \in Documents /\ new.revision = doc.revision
        /\ SameCase(doc, new)
        /\ new.confirmed = doc.confirmed /\ new.reports = doc.reports
        /\ new.domain.outcome = doc.domain.outcome
        /\ new.domain.confirmation.hash = Fingerprint(doc)
      BY <2>1, ConfirmDomainType
  <2> QED
      BY <2>1, <2>2 DEF Effect, Derived, CurrentOutcome, SameCase
<1>8. CASE op \in ReportCalls
  <2>1. PICK partial \in BOOLEAN : CanReport(doc, partial) /\ new = Report(doc, partial)
      BY <1>8 DEF ReportCalls, DomainResults
  <2>2. /\ new \in Documents /\ new.revision = doc.revision
        /\ SameCase(doc, new) /\ SameDerived(doc, new)
        /\ \E report : NewReport(doc, report) /\ new.reports = Append(doc.reports, report)
      BY <2>1, ReportType
  <2> QED
      BY <2>2 DEF Effect, Derived, SameDerived, SameCase, CurrentOutcome
<1>9. CASE op \in RulingCalls
  <2>1. PICK key \in RulingKeys, result \in EngineResults : new = Rule(doc, key, result)
      BY <1>9, InputsAssumption DEF RulingCalls, DomainResults
  <2> QED
      BY <2>1, RuleType DEF Effect, Recomputed
<1> QED
    BY <1>1, <1>2, <1>3, <1>4, <1>5, <1>6, <1>7, <1>8, <1>9 DEF DomainOperations

LEMMA CalculationEffect ==
    ASSUME NEW doc \in Documents, NEW op \in CalculationOperations,
           NEW new \in CalculationResults(doc, op)
    PROVE  Effect(doc, new)
<1>1. CASE op \in Calculations
  <2>1. PICK inputs \in [CalculationFields -> Values], keep \in SUBSET Addresses,
             result \in EngineResults : new = Calculate(doc, inputs, keep, result)
      BY <1>1, InputsAssumption DEF Calculations, CalculationResults
  <2>2. Injective(CalculationBindings)
      BY CalculationAssumption DEF Injective
  <2> QED
      BY <2>1, <2>2, CalculateType DEF Effect, Recomputed
<1>2. CASE op \in Recalculations
  <2>1. PICK result \in EngineResults : new = Recalculate(doc, result)
      BY <1>2, InputsAssumption DEF Recalculations, CalculationResults
  <2>2. /\ new \in Documents /\ new.revision = doc.revision
        /\ SameCase(doc, new)
        /\ new.confirmed = doc.confirmed /\ new.reports = doc.reports
        /\ new.domain.confirmation = doc.domain.confirmation
        /\ CurrentOutcome(new)
      BY <2>1, RecalculateType
  <2> QED
      BY <2>2 DEF Effect, Derived
<1>3. CASE op \in ChatAnswers
  <2>1. PICK data \in DataAnswers, actions \in ActionAnswers, result \in EngineResults :
            new = Calculated(Answer(doc, data, actions, result))
      BY <1>3, InputsAssumption DEF ChatAnswers, CalculationResults
  <2> DEFINE old == Answer(doc, data, actions, result)
  <2>2. /\ old \in Documents /\ old.revision = doc.revision /\ old.bindings = doc.bindings
        /\ Revoked(doc, old) /\ CurrentOutcome(old)
      BY AnswerType
  <2> HIDE DEF old
  <2>3. new \in Documents /\ new.revision = old.revision /\ Unchanged(old, new)
      BY <2>1, <2>2, CalculatedKeeps DEF old
  <2> QED
      BY <2>2, <2>3, RevokedUnchanged DEF Effect, Recomputed, Unchanged, SameCase
<1>4. CASE op \in Collections
  <2>1. PICK changed \in BOOLEAN : new = Collect(doc, changed)
      BY <1>4 DEF Collections, CalculationResults
  <2>2. /\ new \in Documents /\ new.revision = doc.revision
        /\ SameCase(doc, new)
        /\ new.confirmed = doc.confirmed /\ new.reports = doc.reports
        /\ \/ SameDerived(doc, new)
           \/ StaleOutcome(new) /\ new.domain.confirmation = None
      BY <2>1, CollectType
  <2> QED
      BY <2>2, StaleIsCurrent DEF Effect, Derived, SameDerived, SameCase, CurrentOutcome
<1>5. CASE op \in Cancellations
  <2>1. new = CancelCalculation(doc)
      BY <1>5 DEF Cancellations, CalculationResults
  <2> QED
      BY <2>1, CancelType, UnchangedDerived DEF Effect
<1> QED
    BY <1>1, <1>2, <1>3, <1>4, <1>5 DEF CalculationOperations

\* Every result of every operation is a document, of the same revision, that
\* either revokes what was derived before or leaves the case as it was.
THEOREM ResultsEffect ==
    ASSUME NEW doc \in Documents, NEW op \in Operations, NEW new \in Results(doc, op)
    PROVE  Effect(doc, new)
BY ChatEffect, DomainEffect, CalculationEffect DEF Results, Operations

-----------------------------------------------------------------------------
(***************************************************************************)
(* A sound document is one whose confirmations, outcome and reports are    *)
(* about the case it holds.  Sound is the inductive invariant of the case: *)
(* every result of every operation on a sound document is sound.  What an  *)
(* operation does to a document is known by now, so there are two cases    *)
(* only, Recomputed and Derived.                                           *)
(***************************************************************************)

CurrentReport(d, r) ==
    /\ r.kind = "fsie" => r.basis = CaseFactsOf(d) /\ r.gaps = Gaps(CaseFactsOf(d))
    /\ r.kind = "structure" => r.basis = Fingerprint(d)

\* What makes a report's approval and its gaps legitimate, and its marks agree.
SoundReport(r) ==
    /\ r.gate = "sufficient_for_task" => r.kind = "fsie" /\ r.gaps = {}
    /\ r.gaps # {} => r.partial
    /\ r.review = "stale" <=> r.stale
    /\ r.review = "approved" => r.gate = "sufficient_for_task"

SoundReports(d) ==
    \A i \in DOMAIN d.reports : /\ SoundReport(d.reports[i])
                                /\ d.reports[i].stale \/ CurrentReport(d, d.reports[i])

SoundConfirmation(d) ==
    d.confirmed # None => /\ d.confirmed.facts = CaseFactsOf(d)
                          /\ ConflictFields(CaseFactsOf(d)) = {}

SoundDomain(d) ==
    /\ CurrentOutcome(d)
    /\ d.domain.confirmation # None => /\ d.domain.confirmation.hash = Fingerprint(d)
                                       /\ ~Conflicting(d)

Sound(d) ==
    /\ d \in Documents
    /\ SoundConfirmation(d)
    /\ SoundDomain(d)
    /\ SoundReports(d)
    /\ Injective(d.bindings)

-----------------------------------------------------------------------------
\* Documents that say the same of the case have the same facts and conflicts.
LEMMA SameCaseFacts ==
    ASSUME NEW d, NEW new, SameCase(d, new)
    PROVE  /\ CaseFactsOf(new) = CaseFactsOf(d)
           /\ Conflicting(new) <=> Conflicting(d)
           /\ \A r : CurrentReport(new, r) <=> CurrentReport(d, r)
BY DEF SameCase, CaseFactsOf, Conflicting, CurrentReport

LEMMA StaledReports ==
    ASSUME NEW d \in Documents, SoundReports(d), NEW new,
           new.reports = [i \in DOMAIN d.reports |-> Staled(d.reports[i])]
    PROVE  SoundReports(new)
<1> SUFFICES ASSUME NEW i \in DOMAIN d.reports
             PROVE  SoundReport(Staled(d.reports[i])) /\ Staled(d.reports[i]).stale
    BY DEF SoundReports
<1>1. d.reports[i] \in Reports
    BY DEF Documents
<1>2. SoundReport(d.reports[i])
    BY DEF SoundReports
<1>3. \A r \in Reports : /\ Staled(r).gate = r.gate /\ Staled(r).kind = r.kind
                         /\ Staled(r).gaps = r.gaps /\ Staled(r).partial = r.partial
                         /\ Staled(r).stale /\ Staled(r).review = "stale"
    BY DEF Staled, Reports
<1> QED
    BY <1>1, <1>2, <1>3 DEF SoundReport

LEMMA NewReportSound ==
    ASSUME NEW d, Sound(d), NEW r, NewReport(d, r)
    PROVE  /\ r \in Reports
           /\ SoundReport(r) /\ CurrentReport(d, r)
           /\ ~r.stale /\ r.review = "pending_final_review"
<1>1. ASSUME NEW dialogue \in Dialogues, NEW finding \in Findings, Eligible(d, dialogue),
             r = ReportProposal(d, dialogue, finding)
      PROVE  /\ r \in Reports
             /\ SoundReport(r) /\ CurrentReport(d, r)
             /\ ~r.stale /\ r.review = "pending_final_review"
  <2>1. d.confirmed # None /\ d.confirmed.facts = CaseFactsOf(d)
      BY <1>1 DEF Eligible, Sound, SoundConfirmation
  <2>2. r \in Reports
      BY <1>1, <2>1, ReportProposalType DEF Sound
  <2>3. Gaps(CaseFactsOf(d)) # {} => dialogue.consent # None
    <3>1. CaseFactsOf(d) # None
        BY CaseFactsType, FactsAssumption DEF Sound, Facts
    <3> QED
        BY <1>1, <3>1 DEF Eligible
  <2>4. /\ r.kind = "fsie" /\ r.basis = CaseFactsOf(d) /\ r.gaps = Gaps(CaseFactsOf(d))
        /\ ~r.stale /\ r.review = "pending_final_review"
        /\ r.partial = (dialogue.consent # None)
        /\ r.gaps # {} => r.gate = "insufficient"
      BY <1>1, <2>1 DEF ReportProposal
  <2> QED
      BY <2>2, <2>3, <2>4 DEF SoundReport, CurrentReport
<1>2. CASE /\ r \in Reports
           /\ r.kind = "structure" /\ r.basis = Fingerprint(d)
           /\ r.gaps = {} /\ r.gate = "insufficient"
           /\ ~r.stale /\ r.review = "pending_final_review"
    BY <1>2 DEF SoundReport, CurrentReport
<1> QED
    BY <1>1, <1>2 DEF NewReport

LEMMA ReviewedReport ==
    ASSUME NEW d \in Documents, SoundReports(d), NEW i, NEW decision \in Decisions,
           CanReview(d, i, decision)
    PROVE  /\ i \in DOMAIN d.reports /\ ~d.reports[i].stale
           /\ d.reports[i].review = "pending_final_review"
           /\ LET r == [d.reports[i] EXCEPT !.review = decision]
              IN  /\ r \in Reports /\ SoundReport(r) /\ CurrentReport(d, r)
                  /\ r.review = decision /\ ~r.stale
<1> DEFINE old == d.reports[i]
           r   == [old EXCEPT !.review = decision]
<1>1. /\ i \in DOMAIN d.reports /\ ~old.stale /\ old.review = "pending_final_review"
      /\ decision = "approved" => old.gate = "sufficient_for_task"
    BY DEF CanReview, Approvable
<1>2. old \in Reports /\ SoundReport(old) /\ CurrentReport(d, old)
    BY <1>1 DEF Documents, SoundReports
<1> HIDE DEF old
<1>3. /\ r \in Reports /\ r.review = decision /\ r.stale = old.stale
      /\ r.gate = old.gate /\ r.kind = old.kind /\ r.gaps = old.gaps
      /\ r.partial = old.partial /\ r.basis = old.basis
    BY <1>2 DEF Reports, Reviews
<1> HIDE DEF r
<1> QED
    BY <1>1, <1>2, <1>3 DEF r, old, SoundReport, CurrentReport, Decisions

LEMMA DerivedReports ==
    ASSUME NEW d, Sound(d), NEW new, Derived(d, new)
    PROVE  SoundReports(new)
<1>1. /\ d \in Documents /\ SoundReports(d) /\ d.reports \in Seq(Reports)
      /\ \A r : CurrentReport(new, r) <=> CurrentReport(d, r)
    BY SameCaseFacts DEF Sound, Derived, Documents
<1>2. CASE new.reports = d.reports
    BY <1>1, <1>2 DEF SoundReports
<1>3. ASSUME NEW report, NewReport(d, report), new.reports = Append(d.reports, report)
      PROVE  SoundReports(new)
  <2>1. report \in Reports /\ SoundReport(report) /\ CurrentReport(d, report)
      BY <1>3, NewReportSound
  <2>2. \A i \in DOMAIN new.reports : \/ i \in DOMAIN d.reports /\ new.reports[i] = d.reports[i]
                                      \/ new.reports[i] = report
      BY <1>1, <1>3, <2>1
  <2> QED
      BY <1>1, <2>1, <2>2 DEF SoundReports
<1>4. ASSUME NEW i \in DOMAIN d.reports, NEW decision \in Decisions, CanReview(d, i, decision),
             new.reports = [d.reports EXCEPT ![i].review = decision]
      PROVE  SoundReports(new)
  <2> DEFINE r == [d.reports[i] EXCEPT !.review = decision]
  <2>1. SoundReport(r) /\ CurrentReport(d, r)
      BY <1>1, <1>4, ReviewedReport
  <2>2. \A j \in DOMAIN new.reports :
            j \in DOMAIN d.reports /\ new.reports[j] = IF j = i THEN r ELSE d.reports[j]
      BY <1>1, <1>4
  <2> HIDE DEF r
  <2> QED
      BY <1>1, <2>1, <2>2 DEF SoundReports
<1> QED
    BY <1>2, <1>3, <1>4 DEF Derived

LEMMA EffectSound ==
    ASSUME NEW d, Sound(d), NEW new, Effect(d, new)
    PROVE  Sound(new)
<1>1. d \in Documents /\ new \in Documents
    BY DEF Sound, Effect
<1>2. CASE Recomputed(d, new)
  <2>1. SoundReports(new)
      BY <1>1, <1>2, StaledReports DEF Sound, Recomputed, Revoked
  <2>2. SoundConfirmation(new) /\ SoundDomain(new)
      BY <1>2 DEF Recomputed, Revoked, SoundConfirmation, SoundDomain
  <2>3. Injective(new.bindings)
      BY <1>2 DEF Sound, Recomputed
  <2> QED
      BY <1>1, <2>1, <2>2, <2>3 DEF Sound
<1>3. CASE Derived(d, new)
  <2>1. /\ CaseFactsOf(new) = CaseFactsOf(d) /\ Fingerprint(new) = Fingerprint(d)
        /\ Conflicting(new) <=> Conflicting(d)
        /\ new.bindings = d.bindings
      BY <1>3, SameCaseFacts DEF Derived, SameCase
  <2>2. SoundConfirmation(new)
      BY <1>3, <2>1 DEF Sound, SoundConfirmation, Derived, CanConfirm
  <2>3. SoundDomain(new)
      BY <1>3, <2>1 DEF Sound, SoundDomain, Derived, CanConfirmDomain
  <2>4. SoundReports(new)
      BY <1>3, DerivedReports
  <2> QED
      BY <1>1, <2>1, <2>2, <2>3, <2>4 DEF Sound
<1> QED
    BY <1>2, <1>3 DEF Effect

LEMMA FinishSound ==
    ASSUME NEW d, Sound(d)
    PROVE  /\ Sound(Finish(d))
           /\ Finish(d).reports = d.reports
<1> DEFINE new == Finish(d)
<1>1. /\ new \in Documents
      /\ new.records = d.records /\ new.bindings = d.bindings /\ new.domain = d.domain
      /\ new.confirmed = d.confirmed /\ new.reports = d.reports
    BY DEF Sound, Finish, Documents
<1> HIDE DEF new
<1>2. SameCase(d, new)
    BY <1>1 DEF SameCase, Fingerprint
<1>3. /\ CaseFactsOf(new) = CaseFactsOf(d) /\ Fingerprint(new) = Fingerprint(d)
      /\ Conflicting(new) <=> Conflicting(d)
      /\ \A r : CurrentReport(new, r) <=> CurrentReport(d, r)
    BY <1>2, SameCaseFacts DEF SameCase
<1> QED
    BY <1>1, <1>3 DEF new, Sound, SoundConfirmation, SoundDomain, SoundReports, CurrentOutcome, Injective

LEMMA InitSound == Sound(NewDocument)
<1>1. NewDialogue \in Dialogues
    BY DEF NewDialogue, Dialogues, Statuses
<1>2. NewDocument \in Documents
    BY <1>1, NewDomainType DEF NewDocument, Documents, States, Records, FactValues, Bindings
<1>3. /\ NewDocument.confirmed = None /\ NewDocument.reports = << >>
      /\ NewDocument.domain.outcome = None /\ NewDocument.domain.confirmation = None
      /\ \A f \in Fields : NewDocument.bindings[f] = None
    BY DEF NewDocument, NewDomain
<1> QED
    BY <1>2, <1>3
    DEF Sound, SoundConfirmation, SoundDomain, SoundReports, CurrentOutcome, Injective

-----------------------------------------------------------------------------
\* What a later document may make of the reports of an earlier one.
FrozenIn(reports, new) ==
    /\ Len(reports) <= Len(new)
    /\ \A i \in DOMAIN reports :
          /\ Frozen(new[i]) = Frozen(reports[i])
          /\ reports[i].stale => new[i].stale
          /\ reports[i].review \in Decisions => new[i].review \in {reports[i].review, "stale"}
          /\ new[i].review = "stale" <=> new[i].stale

LEMMA EffectFreezes ==
    ASSUME NEW d, Sound(d), NEW new, Effect(d, new)
    PROVE  FrozenIn(d.reports, new.reports)
<1>1. /\ d.reports \in Seq(Reports)
      /\ \A i \in DOMAIN d.reports : d.reports[i] \in Reports /\ SoundReport(d.reports[i])
    BY DEF Sound, Documents, SoundReports
<1>2. CASE new.reports = d.reports
    BY <1>1, <1>2 DEF FrozenIn, SoundReport
<1>3. CASE new.reports = [i \in DOMAIN d.reports |-> Staled(d.reports[i])]
  <2>1. \A r \in Reports : /\ Frozen(Staled(r)) = Frozen(r)
                           /\ Staled(r).stale /\ Staled(r).review = "stale"
      BY DEF Staled, Frozen, Reports
  <2> QED
      BY <1>1, <1>3, <2>1 DEF FrozenIn
<1>4. ASSUME NEW report, NewReport(d, report), new.reports = Append(d.reports, report)
      PROVE  FrozenIn(d.reports, new.reports)
  <2>1. report \in Reports
      BY <1>4, NewReportSound
  <2>2. /\ Len(new.reports) = Len(d.reports) + 1
        /\ \A i \in DOMAIN d.reports : new.reports[i] = d.reports[i]
      BY <1>1, <1>4, <2>1
  <2> QED
      BY <1>1, <2>2 DEF FrozenIn, SoundReport
<1>5. ASSUME NEW i \in DOMAIN d.reports, NEW decision \in Decisions, CanReview(d, i, decision),
             new.reports = [d.reports EXCEPT ![i].review = decision]
      PROVE  FrozenIn(d.reports, new.reports)
  <2> DEFINE old == d.reports[i]
             r   == [old EXCEPT !.review = decision]
  <2>1. SoundReport(r) /\ ~old.stale /\ old.review = "pending_final_review" /\ old \in Reports
      BY <1>1, <1>5, ReviewedReport DEF Sound
  <2>2. Frozen(r) = Frozen(old)
      BY <2>1 DEF Frozen, Reports
  <2>3. /\ Len(new.reports) = Len(d.reports)
        /\ \A j \in DOMAIN d.reports : new.reports[j] = IF j = i THEN r ELSE d.reports[j]
      BY <1>1, <1>5
  <2>4. old.review \notin Decisions
      BY <2>1 DEF Decisions
  <2> HIDE DEF r
  <2> QED
      BY <1>1, <2>1, <2>2, <2>3, <2>4 DEF FrozenIn, SoundReport
<1> QED
    BY <1>2, <1>3, <1>4, <1>5 DEF Effect, Recomputed, Revoked, Derived
=============================================================================
