------------------------- MODULE CaseRegisterProofs -------------------------
(***************************************************************************)
(* What holds of the register for every set of fields, addresses, values,  *)
(* inputs and receipts: what was confirmed, computed and reported is about *)
(* the case as it stands.                                                  *)
(***************************************************************************)
EXTENDS CaseRegister, CaseTypes

-----------------------------------------------------------------------------
\* Every step saves one result of one operation.
LEMMA StepSaves ==
    ASSUME Next
    PROVE  \E op \in Operations : \E new \in Results(doc, op) : doc' = Finish(new)
BY DEF Next, ChatNext, DomainNext, CalculationNext, Perform, Save,
       EditStep, OrganizeStep, ConfirmStep, RunStep, ReviewStep, MessageStep,
       SetupStep, PlanStep, AnswerStep, BatchStep, DeferStep, PauseStep, ResumeStep,
       ConfirmDomainStep, ReportStep, RuleStep,
       CalculateStep, RecalculateStep, ChatAnswerStep, CollectStep, CancelStep,
       Operations, ChatOperations, DomainOperations, CalculationOperations

LEMMA StepSound ==
    ASSUME Sound(doc), [Next]_doc
    PROVE  Sound(doc)'
<1>1. CASE Next
  <2>1. PICK op \in Operations : \E new \in Results(doc, op) : doc' = Finish(new)
      BY <1>1, StepSaves
  <2>2. PICK new \in Results(doc, op) : doc' = Finish(new)
      BY <2>1
  <2>3. Effect(doc, new)
      BY ResultsEffect DEF Sound
  <2>4. Sound(Finish(new))
      BY <2>3, EffectSound, FinishSound
  <2> QED
      BY <2>2, <2>4 DEF Sound, SoundConfirmation, SoundDomain, SoundReports
<1>2. CASE UNCHANGED doc
    BY <1>2 DEF Sound
<1> QED
    BY <1>1, <1>2

THEOREM RegisterSound == Spec => []Sound(doc)
<1>1. Init => Sound(doc)
    BY InitSound DEF Init
<1>2. Sound(doc) /\ [Next]_doc => Sound(doc)'
    BY StepSound
<1> QED
    BY <1>1, <1>2, PTL DEF Spec

\* The saved document of every reachable case is well formed.
THEOREM RegisterTyped == Spec => []TypeOK
<1>1. Sound(doc) => TypeOK
    BY DEF Sound, TypeOK
<1> QED
    BY <1>1, RegisterSound, PTL

\* No sequence of operations leaves a confirmation of facts the case no
\* longer has, or of facts in conflict (confirm, invalidate).
THEOREM RegisterConfirmation == Spec => []ConfirmationCurrent
<1>1. Sound(doc) => ConfirmationCurrent
    BY DEF Sound, SoundConfirmation, SoundDomain, ConfirmationCurrent
<1> QED
    BY <1>1, RegisterSound, PTL

\* Neither an outcome that counts nor a confirmation of the structure work
\* outlives the inputs it is about (_domain_execute, domain_confirm).
THEOREM RegisterOutcome == Spec => []OutcomeCurrent
<1>1. Sound(doc) => OutcomeCurrent
    BY DEF Sound, SoundDomain, CurrentOutcome, OutcomeCurrent
<1> QED
    BY <1>1, RegisterSound, PTL

\* A report that is not stale is about the case as it stands, and one over
\* gaps was asked for as a partial one (analysis_eligibility).
THEOREM RegisterReports == Spec => []ReportsCurrent
<1>1. Sound(doc) => ReportsCurrent
    BY DEF Sound, SoundReports, SoundReport, CurrentReport, ReportsCurrent, Live
<1> QED
    BY <1>1, RegisterSound, PTL

\* An approval stands on a complete, current report only (review_report).
THEOREM RegisterApproval == Spec => []ApprovalSound
<1>1. ASSUME Sound(doc) PROVE ApprovalSound
  <2> SUFFICES ASSUME NEW i \in DOMAIN doc.reports, doc.reports[i].review = "approved"
               PROVE  /\ doc.reports[i].kind = "fsie" /\ doc.reports[i].gaps = {}
                      /\ doc.reports[i].gate = "sufficient_for_task"
                      /\ doc.reports[i].basis = CaseFactsOf(doc)
                      /\ ~doc.reports[i].stale
      BY DEF ApprovalSound
  <2>1. /\ SoundReport(doc.reports[i])
        /\ doc.reports[i].stale \/ CurrentReport(doc, doc.reports[i])
        /\ doc.reports[i] \in Reports
      BY <1>1 DEF Sound, SoundReports, Documents
  <2> QED
      BY <2>1 DEF SoundReport, CurrentReport, Reports
<1> QED
    BY <1>1, RegisterSound, PTL

\* No two chat fields are ever bound to one address (install).
THEOREM RegisterBindings == Spec => []BindingsInjective
<1>1. Sound(doc) => BindingsInjective
    BY DEF Sound, Injective, BindingsInjective
<1> QED
    BY <1>1, RegisterSound, PTL

\* A frozen report changes by staleness and by one decision only.
THEOREM RegisterFreezes == Spec => ReportsFrozen
<1>1. ASSUME Sound(doc), [Next]_doc
      PROVE  [FrozenIn(doc.reports, doc'.reports)]_doc
  <2>1. CASE Next
    <3>1. PICK op \in Operations : \E new \in Results(doc, op) : doc' = Finish(new)
        BY <2>1, StepSaves
    <3>2. PICK new \in Results(doc, op) : doc' = Finish(new)
        BY <3>1
    <3>3. Effect(doc, new)
        BY <1>1, ResultsEffect DEF Sound
    <3>4. FrozenIn(doc.reports, new.reports) /\ Sound(new)
        BY <1>1, <3>3, EffectFreezes, EffectSound
    <3> QED
        BY <3>2, <3>4, FinishSound
  <2> QED
      BY <1>1, <2>1
<1>2. [FrozenIn(doc.reports, doc'.reports)]_doc =>
        [/\ Len(doc.reports) <= Len(doc'.reports)
         /\ \A i \in DOMAIN doc.reports :
              LET old == doc.reports[i]
                  new == doc'.reports[i]
              IN  /\ Frozen(new) = Frozen(old)
                  /\ old.stale => new.stale
                  /\ old.review \in Decisions => new.review \in {old.review, "stale"}
                  /\ new.review = "stale" <=> new.stale]_doc
    BY DEF FrozenIn
<1> QED
    BY <1>1, <1>2, RegisterSound, PTL DEF Spec, ReportsFrozen

-----------------------------------------------------------------------------
(***************************************************************************)
(* The interview alone (ChatSpec).  What the clients show of a case is     *)
(* true: its state, and the conflicts it keeps the competing values of.    *)
(* That a case with a conflict has no report that counts is what keeps a   *)
(* review from hiding the conflict.                                        *)
(***************************************************************************)
Conflicts(d) == ConflictFields(CaseFactsOf(d))
NoLiveReport(d) == \A i \in DOMAIN d.reports : d.reports[i].stale

Truthful(d) ==
    /\ d.disputed \subseteq Conflicts(d)
    /\ d.state = "needs_resolution" <=> Conflicts(d) # {}
    /\ d.state = "confirmed" => d.confirmed # None
    /\ NoLiveReport(d) \/ Conflicts(d) = {}

\* No two chat fields read the same record.
LEMMA AddressInjective ==
    ASSUME NEW bindings \in Bindings, Injective(bindings), NEW f \in Fields, NEW g \in Fields,
           AddressOf(bindings, f) = AddressOf(bindings, g)
    PROVE  f = g
<1>1. bindings[f] \in Addresses \cup {None} /\ bindings[g] \in Addresses \cup {None}
    BY DEF Bindings
<1>2. Fields \cap Addresses = {}
    BY FactsAssumption
<1> QED
    BY <1>1, <1>2 DEF AddressOf, Injective

\* So a patch changes the facts it names and no other.
LEMMA WrittenFacts ==
    ASSUME NEW d \in Documents, Injective(d.bindings), NEW patch \in Patches,
           NEW new, new.bindings = d.bindings, new.records = Write(d.records, d.bindings, patch)
    PROVE  CaseFactsOf(new) = Patched(CaseFactsOf(d), patch)
<1>1. d.records \in Records /\ d.bindings \in Bindings
    BY DEF Documents
<1>2. ASSUME NEW f \in Fields
      PROVE  new.records[AddressOf(d.bindings, f)]
                 = IF f \in DOMAIN patch THEN patch[f] ELSE d.records[AddressOf(d.bindings, f)]
  <2> DEFINE k == AddressOf(d.bindings, f)
  <2>1. k \in Keys
      BY <1>1, AddressType
  <2>2. DOMAIN patch \subseteq Fields
      BY PatchType
  <2>3. \A g \in DOMAIN patch : AddressOf(d.bindings, g) = k => g = f
      BY <1>1, <2>2, AddressInjective
  <2>4. CASE f \in DOMAIN patch
    <3>1. (CHOOSE g \in DOMAIN patch : AddressOf(d.bindings, g) = k) = f
        BY <2>3, <2>4
    <3> QED
        BY <2>1, <2>4, <3>1 DEF Write
  <2>5. CASE f \notin DOMAIN patch
      BY <2>1, <2>3, <2>5 DEF Write
  <2> QED
      BY <2>4, <2>5
<1> QED
    BY <1>2 DEF CaseFactsOf, FactsOf, Patched

LEMMA StateForTrue ==
    ASSUME NEW facts, NEW dialogue
    PROVE  /\ StateFor(facts, dialogue) = "needs_resolution" <=> ConflictFields(facts) # {}
           /\ StateFor(facts, dialogue) # "confirmed"
BY DEF StateFor

LEMMA RevokedReports ==
    ASSUME NEW d \in Documents, NEW new, Revoked(d, new)
    PROVE  NoLiveReport(new)
<1>1. \A r \in Reports : Staled(r).stale
    BY DEF Staled, Reports
<1> QED
    BY <1>1 DEF Revoked, NoLiveReport, Documents

LEMMA EditTruthful ==
    ASSUME NEW d, Sound(d), Truthful(d), NEW patch \in Patches
    PROVE  Truthful(Edit(d, patch))
<1> DEFINE heard == [d EXCEPT !.disputed = @ \ DOMAIN patch]
           base  == Invalidate(heard, TRUE, TRUE)
           asked == [base EXCEPT !.dialogue = AnswerByHand(base.dialogue, patch)]
           new   == ApplyFacts(asked, patch)
           last  == [new EXCEPT !.state = StateFor(CaseFactsOf(new), new.dialogue)]
<1>1. /\ d \in Documents /\ heard \in Documents /\ Injective(d.bindings)
      /\ heard.disputed = d.disputed \ DOMAIN patch /\ heard.state = d.state
      /\ heard.records = d.records /\ heard.bindings = d.bindings
      /\ heard.reports = d.reports /\ heard.confirmed = d.confirmed
    BY DEF Sound, Documents
<1>2. Edit(d, patch) = IF Changes(d, patch) THEN last ELSE heard
    BY DEF Edit
<1> HIDE DEF heard
<1>3. base \in Documents /\ base.bindings = heard.bindings /\ Revoked(heard, base)
    BY <1>1, InvalidateType
<1>4. base.disputed = heard.disputed /\ base.records = heard.records
    BY <1>1 DEF Invalidate, Documents
<1> HIDE DEF base
<1>5. AnswerByHand(base.dialogue, patch) \in Dialogues
    BY <1>3, AnswerByHandType DEF Documents
<1>6. /\ asked \in Documents /\ asked.bindings = d.bindings /\ asked.records = d.records
      /\ asked.disputed = heard.disputed /\ asked.reports = base.reports
    BY <1>1, <1>3, <1>4, <1>5 DEF Documents
<1> HIDE DEF asked
<1>7. /\ new \in Documents /\ new.bindings = d.bindings /\ new.records = Write(d.records, d.bindings, patch)
      /\ new.disputed = heard.disputed /\ new.reports = base.reports
    BY <1>6, ApplyFactsType DEF Documents
<1> HIDE DEF new
<1>8. /\ last.bindings = new.bindings /\ last.records = new.records /\ last.disputed = new.disputed
      /\ last.reports = new.reports /\ last.state = StateFor(CaseFactsOf(new), new.dialogue)
    BY <1>7 DEF Documents
<1> HIDE DEF last
<1>9. CASE Changes(d, patch)
  <2>1. CaseFactsOf(last) = CaseFactsOf(new) /\ CaseFactsOf(last) = Patched(CaseFactsOf(d), patch)
      BY <1>1, <1>7, <1>8, WrittenFacts DEF CaseFactsOf
  <2>2. \A f \in Fields : f \notin DOMAIN patch => CaseFactsOf(last)[f] = CaseFactsOf(d)[f]
      BY <2>1 DEF Patched
  <2>3. last.disputed \subseteq Conflicts(last)
      BY <1>1, <1>7, <1>8, <2>2 DEF Truthful, Conflicts, ConflictFields
  <2>4. NoLiveReport(last)
      BY <1>1, <1>3, <1>7, <1>8, RevokedReports DEF NoLiveReport
  <2> QED
      BY <1>2, <1>8, <1>9, <2>1, <2>3, <2>4, StateForTrue DEF Truthful, Conflicts
<1>10. CASE ~Changes(d, patch)
  <2>1. CaseFactsOf(heard) = CaseFactsOf(d)
      BY <1>1 DEF CaseFactsOf
  <2> QED
      BY <1>1, <1>2, <1>10, <2>1 DEF Truthful, Conflicts, NoLiveReport
<1> QED
    BY <1>9, <1>10

\* A new conflict is one the patch records.
LEMMA ContradictedPatched ==
    ASSUME NEW facts, NEW dialogue, NEW turn
    PROVE  LET patch == TurnPatch(facts, dialogue, turn)
           IN  \A f \in Contradicted(facts, dialogue, turn) : f \in DOMAIN patch /\ patch[f] = Conflict
<1> SUFFICES ASSUME NEW f \in Contradicted(facts, dialogue, turn)
             PROVE  /\ f \in DOMAIN TurnPatch(facts, dialogue, turn)
                    /\ TurnPatch(facts, dialogue, turn)[f] = Conflict
    OBVIOUS
<1> DEFINE proposed == ProposedFacts(facts, dialogue, turn)
<1>1. f \in DOMAIN proposed /\ proposed[f] # facts[f] /\ proposed[f] # Unknown
    BY DEF Contradicted, Resolved
<1> HIDE DEF proposed
<1> QED
    BY <1>1 DEF TurnPatch, proposed

LEMMA PreparedConflicts ==
    ASSUME NEW d, NEW turn, NEW p \in PreparedTurns(d, turn)
    PROVE  \A f \in p.conflicts : f \in DOMAIN p.patch /\ p.patch[f] = Conflict
<1>1. /\ p.patch = TurnPatch(CaseFactsOf(d), d.dialogue, turn)
      /\ p.conflicts = Contradicted(CaseFactsOf(d), d.dialogue, turn)
    BY DEF PreparedTurns
<1> QED
    BY <1>1, ContradictedPatched

\* What a confirmed case does not have is a conflict, so an analysis has none.
LEMMA EligibleNoConflict ==
    ASSUME NEW d, Sound(d), NEW dialogue, Eligible(d, dialogue)
    PROVE  Conflicts(d) = {}
BY DEF Sound, SoundConfirmation, Eligible, Conflicts

LEMMA CommitTruthful ==
    ASSUME NEW d, Sound(d), Truthful(d), NEW turn \in RoutedTurns, NEW p \in PreparedTurns(d, turn)
    PROVE  Truthful(CommitPrepared(d, p))
<1> DEFINE fresh   == DOMAIN p.patch # {}
           base    == IF fresh THEN Invalidate(d, TRUE, TRUE) ELSE d
           applied == ApplyFacts(base, p.patch)
           told    == [applied EXCEPT !.dialogue = p.dialogue,
                                      !.disputed = (@ \ DOMAIN p.patch) \cup p.conflicts]
           new     == IF fresh
                      THEN [told EXCEPT !.state = StateFor(CaseFactsOf(told), told.dialogue)]
                      ELSE told
<1>1. /\ d \in Documents /\ Injective(d.bindings)
      /\ p.patch \in Patches /\ p.conflicts \subseteq Fields /\ p.dialogue \in Dialogues
      /\ p.report # None => ~fresh /\ Eligible(d, p.dialogue) /\ p.report \in Reports
      /\ p.report \in Reports \cup {None}
    BY PreparedType DEF Sound
<1>2. CommitPrepared(d, p) = IF p.report = None THEN new ELSE AddReport(new, p.report)
    BY DEF CommitPrepared
<1>3. /\ base \in Documents /\ base.bindings = d.bindings /\ base.records = d.records
      /\ base.disputed = d.disputed /\ base.state = d.state
      /\ fresh => NoLiveReport(base)
      /\ ~fresh => base = d
  <2>1. fresh => base \in Documents /\ base.bindings = d.bindings /\ Revoked(d, base)
      BY <1>1, InvalidateType
  <2>2. base.records = d.records /\ base.disputed = d.disputed /\ base.state = d.state
      BY <1>1 DEF Invalidate, Documents
  <2> HIDE DEF base
  <2>3. fresh => NoLiveReport(base)
      BY <1>1, <2>1, RevokedReports
  <2>4. ~fresh => base = d
      BY DEF base
  <2> QED
      BY <1>1, <2>1, <2>2, <2>3, <2>4
<1> HIDE DEF base
<1>4. /\ applied \in Documents /\ applied.bindings = d.bindings
      /\ applied.records = Write(d.records, d.bindings, p.patch)
      /\ applied.disputed = d.disputed /\ applied.state = d.state
      /\ applied.reports = base.reports /\ applied.confirmed = base.confirmed
    BY <1>1, <1>3, ApplyFactsType DEF Documents
<1> HIDE DEF applied
<1>5. /\ told \in Documents /\ told.bindings = d.bindings /\ told.records = applied.records
      /\ told.disputed = (d.disputed \ DOMAIN p.patch) \cup p.conflicts /\ told.state = d.state
      /\ told.reports = base.reports /\ told.confirmed = base.confirmed
  <2>1. (applied.disputed \ DOMAIN p.patch) \cup p.conflicts \in SUBSET Fields
      BY <1>1, <1>4 DEF Documents
  <2> QED
      BY <1>1, <1>4, <2>1 DEF Documents
<1> HIDE DEF told
<1>6. /\ new \in Documents /\ new.bindings = d.bindings /\ new.records = told.records
      /\ new.disputed = told.disputed /\ new.reports = base.reports /\ new.confirmed = base.confirmed
      /\ new.state = IF fresh THEN StateFor(CaseFactsOf(told), told.dialogue) ELSE d.state
    BY <1>5, StateForType DEF Documents
<1> HIDE DEF new
<1>7. CaseFactsOf(new) = Patched(CaseFactsOf(d), p.patch) /\ CaseFactsOf(told) = CaseFactsOf(new)
    BY <1>1, <1>4, <1>5, <1>6, WrittenFacts DEF CaseFactsOf
<1>8. new.disputed \subseteq Conflicts(new)
  <2>1. ASSUME NEW f \in new.disputed PROVE f \in Fields /\ CaseFactsOf(new)[f] = Conflict
    <3>1. CASE f \in p.conflicts
        BY <1>1, <1>7, <3>1, PreparedConflicts DEF Patched
    <3>2. CASE f \in d.disputed \ DOMAIN p.patch
        BY <1>7, <3>2 DEF Patched, Truthful, Conflicts, ConflictFields
    <3> QED
        BY <1>5, <1>6, <2>1, <3>1, <3>2
  <2> QED
      BY <2>1 DEF Conflicts, ConflictFields
<1>9. ~fresh => Conflicts(new) = Conflicts(d)
    BY <1>7 DEF Patched, Conflicts, ConflictFields
<1>10. Truthful(new)
  <2>1. CASE fresh
      BY <1>3, <1>6, <1>7, <1>8, <2>1, StateForTrue DEF Truthful, Conflicts, NoLiveReport
  <2>2. CASE ~fresh
      BY <1>3, <1>6, <1>8, <1>9, <2>2 DEF Truthful, NoLiveReport
  <2> QED
      BY <2>1, <2>2
<1>11. CASE p.report # None
  <2> DEFINE last == AddReport(new, p.report)
  <2>1. /\ last.records = new.records /\ last.bindings = new.bindings /\ last.disputed = new.disputed
        /\ last.state = "review_required"
      BY <1>6 DEF AddReport, Documents
  <2>2. Conflicts(last) = Conflicts(new)
      BY <2>1 DEF Conflicts, CaseFactsOf
  <2>3. Conflicts(new) = {}
      BY <1>1, <1>9, <1>11, EligibleNoConflict
  <2> HIDE DEF last
  <2> QED
      BY <1>2, <1>10, <1>11, <2>1, <2>2, <2>3 DEF Truthful, last
<1> QED
    BY <1>1, <1>2, <1>10, <1>11

LEMMA ChatTruthful ==
    ASSUME NEW d, Sound(d), Truthful(d), NEW op \in ChatOperations, NEW new \in ChatResults(d, op)
    PROVE  Truthful(new)
<1>0. d \in Documents
    BY DEF Sound
<1>1. CASE op \in Edits
  <2>1. op.kind = "edit" /\ op.patch \in Patches
      BY <1>1, InputsAssumption DEF Edits
  <2> QED
      BY <2>1, EditTruthful DEF ChatResults
<1>2. CASE op \in Organizations
    BY <1>2 DEF Organizations, ChatResults, Organize
<1>3. CASE op \in Confirms
  <2>1. CanConfirm(d) /\ new = Confirm(d)
      BY <1>3 DEF Confirms, ChatResults
  <2>2. /\ new.records = d.records /\ new.bindings = d.bindings /\ new.disputed = d.disputed
        /\ new.state = "confirmed" /\ new.confirmed = [revision |-> d.revision + 1, facts |-> CaseFactsOf(d)]
      BY <1>0, <2>1 DEF Confirm, Documents
  <2>3. new.confirmed # None
    <3>1. new.confirmed.facts = CaseFactsOf(d) /\ new \in Documents
        BY <1>0, <2>1, ConfirmType
    <3>2. Confirm(d).confirmed \in Confirmations
        BY <1>0, <2>1, <2>2, CaseFactsType DEF Confirmations, Documents
    <3> QED
        BY <2>1, <3>2, NoneIsNoConfirmation
  <2>4. CaseFactsOf(new) = CaseFactsOf(d)
      BY <2>2 DEF CaseFactsOf
  <2> QED
      BY <2>1, <2>2, <2>3, <2>4 DEF Truthful, Conflicts, CanConfirm
<1>4. CASE op \in Runs
  <2>1. PICK finding \in Findings : new = Run(d, finding) /\ CanRun(d)
      BY <1>4 DEF Runs, ChatResults
  <2>2. /\ new.records = d.records /\ new.bindings = d.bindings /\ new.disputed = d.disputed
        /\ new.state = "review_required"
      BY <1>0, <2>1 DEF Run, AddReport, Documents
  <2>3. Conflicts(d) = {} /\ CaseFactsOf(new) = CaseFactsOf(d)
      BY <2>1, <2>2, EligibleNoConflict DEF CanRun, CaseFactsOf
  <2> QED
      BY <2>2, <2>3 DEF Truthful, Conflicts
<1>5. CASE op \in ReviewCalls
  <2>1. PICK i \in ReportNumbers, decision \in Decisions :
            CanReview(d, i, decision) /\ new = Review(d, i, decision)
      BY <1>5 DEF ReviewCalls, ChatResults
  <2>2. /\ new.records = d.records /\ new.bindings = d.bindings /\ new.disputed = d.disputed
        /\ new.state = "review_required"
      BY <1>0, <2>1 DEF Review, Documents
  <2>3. Conflicts(d) = {} /\ CaseFactsOf(new) = CaseFactsOf(d)
      BY <2>1, <2>2 DEF CanReview, Truthful, NoLiveReport, CaseFactsOf
  <2> QED
      BY <2>2, <2>3 DEF Truthful, Conflicts
<1>6. CASE op \in Messages
  <2>1. op.kind = "message" /\ op.turn \in RoutedTurns
      BY <1>6, InputsAssumption DEF Messages, Turns
  <2>2. PICK p \in PreparedTurns(d, op.turn) : new = CommitPrepared(d, p)
      BY <2>1 DEF ChatResults
  <2> QED
      BY <2>1, <2>2, CommitTruthful
<1> QED
    BY <1>1, <1>2, <1>3, <1>4, <1>5, <1>6 DEF ChatOperations

LEMMA ChatStep ==
    ASSUME Sound(doc), Truthful(doc), [ChatNext]_doc
    PROVE  (Sound(doc) /\ Truthful(doc))'
<1>1. CASE ChatNext
  <2>1. PICK op \in ChatOperations : \E new \in Results(doc, op) : doc' = Finish(new)
      BY <1>1 DEF ChatNext, Perform, Save, EditStep, OrganizeStep, ConfirmStep, RunStep, ReviewStep,
                  MessageStep, ChatOperations
  <2>2. PICK new \in ChatResults(doc, op) : doc' = Finish(new)
      BY <2>1 DEF Results
  <2>3. Truthful(new)
      BY ChatTruthful
  <2>4. Sound(new) /\ Sound(Finish(new))
      BY ChatEffect, EffectSound, FinishSound DEF Sound
  <2>5. /\ Finish(new).records = new.records /\ Finish(new).bindings = new.bindings
        /\ Finish(new).disputed = new.disputed /\ Finish(new).state = new.state
        /\ Finish(new).confirmed = new.confirmed /\ Finish(new).reports = new.reports
      BY <2>4 DEF Finish, Sound, Documents
  <2>6. Truthful(Finish(new))
      BY <2>3, <2>5 DEF Truthful, Conflicts, CaseFactsOf, NoLiveReport
  <2> QED
      BY <2>2, <2>4, <2>6 DEF Sound, SoundConfirmation, SoundDomain, SoundReports, Truthful, Conflicts, NoLiveReport
<1>2. CASE UNCHANGED doc
    BY <1>2
<1> QED
    BY <1>1, <1>2

THEOREM ChatSound == ChatSpec => [](Sound(doc) /\ Truthful(doc))
<1>1. Init => Sound(doc) /\ Truthful(doc)
  <2>1. Truthful(NewDocument)
    <3>1. \A f \in Fields : CaseFactsOf(NewDocument)[f] = Absent
        BY DEF NewDocument, CaseFactsOf, FactsOf, AddressOf, Keys
    <3>2. Conflicts(NewDocument) = {}
        BY <3>1 DEF Conflicts, ConflictFields, Absent, Conflict
    <3> QED
        BY <3>2 DEF Truthful, NewDocument
  <2> QED
      BY <2>1, InitSound DEF Init
<1>2. Sound(doc) /\ Truthful(doc) /\ [ChatNext]_doc => (Sound(doc) /\ Truthful(doc))'
    BY ChatStep
<1> QED
    BY <1>1, <1>2, PTL DEF ChatSpec

\* The state the clients show is the truth, whatever edits, messages,
\* confirmations, analyses and reviews follow each other (StateFor and the
\* states that confirm, run and review write).
THEOREM ChatStateTruthful == ChatSpec => []StateTruthful
<1>1. Truthful(doc) => StateTruthful
    BY DEF Truthful, Conflicts, StateTruthful, ConfirmedState
<1> QED
    BY <1>1, ChatSound, PTL

\* The competing values of a conflict are forgotten with the conflict
\* (edit and commit_prepared, fact_conflicts).
THEOREM ChatDisputes == ChatSpec => []DisputesAreConflicts
<1>1. Truthful(doc) => DisputesAreConflicts
    BY DEF Truthful, Conflicts, DisputesAreConflicts
<1> QED
    BY <1>1, ChatSound, PTL
-----------------------------------------------------------------------------
(***************************************************************************)
(* The consent to a partial result.  A turn that changes facts ends the    *)
(* consent first (Absorb), so what it leaves was given for the new facts.  *)
(***************************************************************************)
LEMMA AbsorbConsent ==
    ASSUME NEW old \in Dialogues, NEW facts, NEW patch,
           DOMAIN patch # {} \/ old.consent \in {None, facts}
    PROVE  Absorb(old, facts, patch).consent \in {None, facts}
BY DEF Dialogues, Absorb

LEMMA AskConsent ==
    ASSUME NEW d \in Dialogues
    PROVE  /\ \A f \in Fields : Ask(d, f).consent = d.consent
           /\ \A kind : AskMode(d, kind).consent = d.consent
BY DEF Dialogues, Ask, AskMode

LEMMA AdvanceConsent ==
    ASSUME NEW d \in Dialogues, NEW facts, NEW x \in Advance(facts, d)
    PROVE  x.consent = d.consent
<1>1. CASE NextFields(facts, d.deferred) # {}
    BY <1>1, AskConsent, NextFieldsType DEF Advance
<1>2. CASE NextFields(facts, d.deferred) = {} /\ Gaps(facts) # {}
    BY <1>2, AskConsent DEF Advance
<1>3. CASE NextFields(facts, d.deferred) = {} /\ Gaps(facts) = {}
    BY <1>3 DEF Advance, Dialogues
<1> QED
    BY <1>1, <1>2, <1>3

LEMMA CannotAnswerConsent ==
    ASSUME NEW d \in Dialogues, NEW turn, NEW patch
    PROVE  CannotAnswer(d, turn, patch).consent = d.consent
<1>1. ASSUME AskedField(d) # None
      PROVE  /\ [d EXCEPT !.deferred = @ \cup {AskedField(d)}] \in Dialogues
             /\ [d EXCEPT !.deferred = @ \cup {AskedField(d)}].consent = d.consent
    BY <1>1, QuestionType DEF Dialogues
<1> QED
    BY <1>1, AskConsent DEF CannotAnswer

LEMMA UpdateConsent ==
    ASSUME NEW facts \in Facts, NEW old \in Dialogues, NEW turn \in RoutedTurns, NEW patch \in Patches,
           DOMAIN patch # {} \/ old.consent \in {None, facts},
           NEW x \in UpdateDialogue(facts, old, turn, patch)
    PROVE  x.consent \in {None, facts}
<1> DEFINE d == Absorb(old, facts, patch)
<1>1. d \in Dialogues /\ d.consent \in {None, facts}
    BY AbsorbType, AbsorbConsent
<1>2. \A status : [d EXCEPT !.status = status].consent = d.consent
    BY <1>1 DEF Dialogues
<1>3. [d EXCEPT !.status = "partial", !.pending = None, !.consent = facts].consent = facts
    BY <1>1 DEF Dialogues
<1>4. /\ \A kind : AskMode(d, kind).consent = d.consent
      /\ CannotAnswer(d, turn, patch).consent = d.consent
      /\ \A y \in Advance(facts, d) : y.consent = d.consent
    BY <1>1, AskConsent, AdvanceConsent, CannotAnswerConsent
<1>5. /\ turn.intent \in {"chat", "research", "intake", "clarify", "unsupported"}
      /\ turn.action \in {"continue", "summary", "new_case", "pause", "resume",
                          "partial", "unknown", "unavailable"}
    BY DEF RoutedTurns
<1> HIDE DEF d
<1>6. \/ x = d \/ \E status : x = [d EXCEPT !.status = status]
      \/ x = [d EXCEPT !.status = "partial", !.pending = None, !.consent = facts]
      \/ \E kind : x = AskMode(d, kind)
      \/ x = CannotAnswer(d, turn, patch) \/ x \in Advance(facts, d)
    BY <1>5 DEF UpdateDialogue, d
<1> QED
    BY <1>1, <1>2, <1>3, <1>4, <1>6

\* A message that changes facts leaves no consent to other facts.
LEMMA FinalConsent ==
    ASSUME NEW facts \in Facts, NEW d \in Dialogues, NEW turn \in RoutedTurns,
           DOMAIN TurnPatch(facts, d, turn) # {},
           NEW x \in FinalDialogues(facts, d, turn)
    PROVE  x.consent \in {None, Patched(facts, TurnPatch(facts, d, turn))}
<1> DEFINE patch   == TurnPatch(facts, d, turn)
           known   == Patched(facts, patch)
           settled == SettledTurn(facts, d, turn)
           first   == UpdateDialogue(known, d, settled, patch)
           aside   == /\ turn.intent = "research" /\ ~turn.usesCase
                      /\ settled.intent \in {"intake", "unsupported"}
           rested  == IF aside THEN {[y EXCEPT !.status = "suspended", !.pending = None] : y \in first}
                      ELSE first
           Kept(y) == y \in Dialogues /\ y.consent \in {None, known}
<1>1. /\ patch \in Patches /\ known \in Facts /\ settled \in RoutedTurns
      /\ Continue(settled) \in RoutedTurns /\ NoFacts \in Patches /\ DOMAIN NoFacts = {}
    BY TurnPatchType, PatchedType, SettledTurnType, NoFactsType
<1> HIDE DEF patch, settled
<1>2. \A y \in first : Kept(y)
    BY <1>1, UpdateDialogueType, UpdateConsent DEF patch
<1> HIDE DEF known, first
<1>3. \A y \in first : Kept([y EXCEPT !.status = "suspended", !.pending = None])
    BY <1>2 DEF Dialogues, Statuses
<1>4. \A y \in rested : Kept(y)
    BY <1>2, <1>3
<1> HIDE DEF rested, aside
<1>5. \A y \in rested : AskMode(y, "mode").consent \in {None, known}
    BY <1>4, AskConsent
<1>6. \A y \in rested : \A z \in UpdateDialogue(known, y, Continue(settled), NoFacts) :
            z.consent \in {None, known}
    BY <1>1, <1>4, UpdateConsent
<1>7. ~(turn.action = "continue" /\ DOMAIN turn.facts = {})
  <2> SUFFICES ASSUME turn.action = "continue", DOMAIN turn.facts = {} PROVE FALSE
      OBVIOUS
  <2>1. DOMAIN ProposedFacts(facts, d, turn) = {}
      BY NoFactsType DEF ProposedFacts
  <2> QED
      BY <2>1 DEF TurnPatch
<1>8. \/ x \in rested \/ \E y \in rested : x = AskMode(y, "mode")
      \/ \E y \in rested : x \in UpdateDialogue(known, y, Continue(settled), NoFacts)
    BY <1>7 DEF FinalDialogues, patch, settled, known, first, rested, aside
<1> QED
    BY <1>4, <1>5, <1>6, <1>8 DEF known, patch

ConsentBound(d, new) == CaseFactsOf(new) # CaseFactsOf(d) => new.dialogue.consent \in {None, CaseFactsOf(new)}

LEMMA EditConsent ==
    ASSUME NEW d \in Documents, NEW patch \in Patches
    PROVE  ConsentBound(d, Edit(d, patch))
<1> DEFINE heard == [d EXCEPT !.disputed = @ \ DOMAIN patch]
           base  == Invalidate(heard, TRUE, TRUE)
           asked == [base EXCEPT !.dialogue = AnswerByHand(base.dialogue, patch)]
           new   == ApplyFacts(asked, patch)
           last  == [new EXCEPT !.state = StateFor(CaseFactsOf(new), new.dialogue)]
<1>1. /\ heard \in Documents /\ heard.records = d.records /\ heard.bindings = d.bindings
    BY DEF Documents
<1>2. Edit(d, patch) = IF Changes(d, patch) THEN last ELSE heard
    BY DEF Edit
<1> HIDE DEF heard
<1>3. base \in Documents
    BY <1>1, InvalidateType
<1> HIDE DEF base
<1>4. /\ AnswerByHand(base.dialogue, patch) \in Dialogues
      /\ AnswerByHand(base.dialogue, patch).consent = None
  <2>1. base.dialogue \in Dialogues
      BY <1>3 DEF Documents
  <2>2. AnswerByHand(base.dialogue, patch) \in Dialogues
      BY <2>1, AnswerByHandType
  <2>3. \A q \in Dialogues : AnswerByHand(q, patch).consent = None
      BY DEF AnswerByHand, Dialogues
  <2> QED
      BY <2>1, <2>2, <2>3
<1>5. asked \in Documents /\ asked.dialogue.consent = None
    BY <1>3, <1>4 DEF Documents
<1> HIDE DEF asked
<1>6. new \in Documents /\ new.dialogue = asked.dialogue
    BY <1>5, ApplyFactsType DEF Documents
<1> HIDE DEF new
<1>7. last.dialogue.consent = None
    BY <1>5, <1>6 DEF Documents
<1>8. CaseFactsOf(heard) = CaseFactsOf(d)
    BY <1>1 DEF CaseFactsOf
<1> HIDE DEF last
<1> QED
    BY <1>2, <1>7, <1>8 DEF ConsentBound

LEMMA CommitConsent ==
    ASSUME NEW d \in Documents, Injective(d.bindings), NEW turn \in RoutedTurns,
           NEW p \in PreparedTurns(d, turn)
    PROVE  ConsentBound(d, CommitPrepared(d, p))
<1> DEFINE fresh   == DOMAIN p.patch # {}
           base    == IF fresh THEN Invalidate(d, TRUE, TRUE) ELSE d
           applied == ApplyFacts(base, p.patch)
           told    == [applied EXCEPT !.dialogue = p.dialogue,
                                      !.disputed = (@ \ DOMAIN p.patch) \cup p.conflicts]
           new     == IF fresh
                      THEN [told EXCEPT !.state = StateFor(CaseFactsOf(told), told.dialogue)]
                      ELSE told
           last    == IF p.report = None THEN new ELSE AddReport(new, p.report)
<1>1. /\ p.patch \in Patches /\ p.conflicts \subseteq Fields /\ p.dialogue \in Dialogues
    BY PreparedType
<1>2. /\ p.patch = TurnPatch(CaseFactsOf(d), d.dialogue, turn)
      /\ p.dialogue \in FinalDialogues(CaseFactsOf(d), d.dialogue, turn)
    BY DEF PreparedTurns
<1>3. base \in Documents /\ base.bindings = d.bindings /\ base.records = d.records
  <2>1. Invalidate(d, TRUE, TRUE).records = d.records
      BY DEF Invalidate, Documents
  <2> QED
      BY <2>1, InvalidateType
<1> HIDE DEF base
<1>4. /\ applied \in Documents /\ applied.bindings = d.bindings
      /\ applied.records = Write(d.records, d.bindings, p.patch)
    BY <1>1, <1>3, ApplyFactsType DEF Documents
<1> HIDE DEF applied
<1>5. /\ told \in Documents /\ told.bindings = d.bindings /\ told.records = applied.records
      /\ told.dialogue = p.dialogue
  <2>1. (applied.disputed \ DOMAIN p.patch) \cup p.conflicts \in SUBSET Fields
      BY <1>1, <1>4 DEF Documents
  <2> QED
      BY <1>1, <1>4, <2>1 DEF Documents
<1> HIDE DEF told
<1>6. /\ new \in Documents /\ new.bindings = d.bindings /\ new.records = told.records
      /\ new.dialogue = p.dialogue
    BY <1>5, StateForType DEF Documents
<1> HIDE DEF new
<1>7. last.bindings = d.bindings /\ last.records = new.records /\ last.dialogue = p.dialogue
    BY <1>6 DEF AddReport, Documents
<1>8. CommitPrepared(d, p) = last
    BY DEF CommitPrepared, last, new, told, applied, base
<1> HIDE DEF last
<1>9. CaseFactsOf(last) = Patched(CaseFactsOf(d), p.patch)
    BY <1>1, <1>4, <1>5, <1>6, <1>7, WrittenFacts DEF CaseFactsOf
<1>10. d.dialogue \in Dialogues /\ CaseFactsOf(d) \in Facts
    BY CaseFactsType DEF Documents
<1>11. CASE fresh
    BY <1>2, <1>7, <1>8, <1>9, <1>10, <1>11, FinalConsent DEF ConsentBound
<1>12. CASE ~fresh
  <2>1. Patched(CaseFactsOf(d), p.patch) = CaseFactsOf(d)
      BY <1>10, <1>12 DEF Patched, Facts
  <2> QED
      BY <1>8, <1>9, <2>1 DEF ConsentBound
<1> QED
    BY <1>11, <1>12

LEMMA ChatConsent ==
    ASSUME NEW d, Sound(d), NEW op \in ChatOperations, NEW new \in ChatResults(d, op)
    PROVE  ConsentBound(d, new)
<1>0. d \in Documents /\ Injective(d.bindings)
    BY DEF Sound
<1>1. CASE op \in Edits
  <2>1. op.kind = "edit" /\ op.patch \in Patches
      BY <1>1, InputsAssumption DEF Edits
  <2> QED
      BY <1>0, <2>1, EditConsent DEF ChatResults
<1>2. CASE op \in Messages
  <2>1. op.kind = "message" /\ op.turn \in RoutedTurns
      BY <1>2, InputsAssumption DEF Messages, Turns
  <2>2. PICK p \in PreparedTurns(d, op.turn) : new = CommitPrepared(d, p)
      BY <2>1 DEF ChatResults
  <2> QED
      BY <1>0, <2>1, <2>2, CommitConsent
<1>3. CASE op \in Organizations \cup Confirms \cup Runs \cup ReviewCalls
  <2>1. new.records = d.records /\ new.bindings = d.bindings
      BY <1>0, <1>3 DEF Organizations, Confirms, Runs, ReviewCalls, ChatResults, Organize, Confirm, Run,
                        AddReport, Review, Documents
  <2> QED
      BY <2>1 DEF ConsentBound, CaseFactsOf
<1> QED
    BY <1>1, <1>2, <1>3 DEF ChatOperations

\* A step that changes facts leaves no consent to other facts, whether the
\* user wrote them by hand or a message told them (edit, update_dialogue).
THEOREM ChatConsentBound == ChatSpec => ConsentBoundToFacts
<1>1. ASSUME Sound(doc), [ChatNext]_doc
      PROVE  [ConsentBound(doc, doc')]_doc
  <2>1. CASE ChatNext
    <3>1. PICK op \in ChatOperations : \E new \in Results(doc, op) : doc' = Finish(new)
        BY <2>1 DEF ChatNext, Perform, Save, EditStep, OrganizeStep, ConfirmStep, RunStep, ReviewStep,
                    MessageStep, ChatOperations
    <3>2. PICK new \in ChatResults(doc, op) : doc' = Finish(new)
        BY <3>1 DEF Results
    <3>3. ConsentBound(doc, new)
        BY <1>1, <3>2, ChatConsent
    <3>4. Sound(new)
        BY <1>1, <3>2, ChatEffect, EffectSound DEF Sound
    <3>5. new \in Documents
        BY <3>4 DEF Sound
    <3>6. /\ Finish(new).records = new.records /\ Finish(new).bindings = new.bindings
          /\ Finish(new).dialogue = new.dialogue
        BY <3>5 DEF Finish, Documents
    <3> QED
        BY <3>2, <3>3, <3>6 DEF ConsentBound, CaseFactsOf
  <2> QED
      BY <1>1, <2>1
<1>2. [ConsentBound(doc, doc')]_doc =>
        [CaseFactsOf(doc') # CaseFactsOf(doc) => doc'.dialogue.consent \in {None, CaseFactsOf(doc')}]_doc
    BY DEF ConsentBound
<1>3. ChatSpec => []Sound(doc)
    BY ChatSound, PTL
<1> QED
    BY <1>1, <1>2, <1>3, PTL DEF ChatSpec, ConsentBoundToFacts
=============================================================================
