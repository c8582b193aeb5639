--------------------------- MODULE CaseOperations ---------------------------
(***************************************************************************)
(* What a client may ask of a case: every operation of ChatService and of  *)
(* DomainCoordinator as a record, and the documents its handler may save   *)
(* for it.  The chat calculation is part of a message: what the message    *)
(* asks the calculation to do is the operation here.                       *)
(***************************************************************************)
EXTENDS DomainDocument

CONSTANTS
    PatchInputs,      \* what clients send: fact patches,
    TurnInputs,       \* routed messages,
    StructureInputs,  \* company structures,
    ModeInputs,       \* modes of computing on it,
    BindingInputs,    \* bindings of chat fields to it,
    DataInputs,       \* answers to the engine's questions,
    ActionInputs,
    CalculationInputs,\* the inputs of a chat calculation,
    ResultInputs      \* and what the engine returns

ASSUME InputsAssumption ==
    /\ PatchInputs \subseteq Patches
    /\ TurnInputs \subseteq Turns
    /\ StructureInputs \subseteq Structures
    /\ ModeInputs \subseteq Modes
    /\ BindingInputs \subseteq Bindings
    /\ DataInputs \subseteq DataAnswers
    /\ ActionInputs \subseteq ActionAnswers
    /\ CalculationInputs \subseteq [CalculationFields -> Values]
    /\ ResultInputs \subseteq EngineResults

ReportNumbers == 1..MaxReceipts

Edits         == [kind : {"edit"}, patch : PatchInputs]
Organizations == [kind : {"organize"}]
Confirms      == [kind : {"confirm"}]
Runs          == [kind : {"run"}]
ReviewCalls   == [kind : {"review"}, report : ReportNumbers, decision : Decisions]
Messages      == [kind : {"message"}, turn : TurnInputs]

ChatOperations == Edits \cup Organizations \cup Confirms \cup Runs \cup ReviewCalls \cup Messages

Setups         == [kind : {"setup"}, case : StructureInputs, mode : ModeInputs, bound : BindingInputs]
Plans          == [kind : {"plan"}]
AnswerCalls    == [kind : {"answer"}, data : DataInputs, actions : ActionInputs]
Batches        == [kind : {"answers_batch"}, data : DataInputs, actions : ActionInputs]
Deferrals      == [kind : {"defer"}, question : EngineQuestions]
Pauses         == [kind : {"pause"}]
Resumes        == [kind : {"resume"}]
DomainConfirms == [kind : {"domain_confirm"}]
ReportCalls    == [kind : {"report"}, partial : BOOLEAN]
RulingCalls    == [kind : {"professional"}, key : RulingKeys]

DomainOperations ==
    Setups \cup Plans \cup AnswerCalls \cup Batches \cup Deferrals \cup Pauses \cup Resumes
    \cup DomainConfirms \cup ReportCalls \cup RulingCalls

Calculations   == [kind : {"calculate"}, inputs : CalculationInputs, keep : SUBSET Addresses]
Recalculations == [kind : {"recalculate"}]
ChatAnswers    == [kind : {"chat_answer"}, data : DataInputs, actions : ActionInputs]
Collections    == [kind : {"collect"}, changed : BOOLEAN]
Cancellations  == [kind : {"cancel"}]

CalculationOperations ==
    Calculations \cup Recalculations \cup ChatAnswers \cup Collections \cup Cancellations

Operations == ChatOperations \cup DomainOperations \cup CalculationOperations

\* The documents op's handler may save for doc; none if it refuses.
ChatResults(doc, op) ==
    CASE op.kind = "edit"     -> {Edit(doc, op.patch)}
      [] op.kind = "organize" -> {Organize(doc)}
      [] op.kind = "confirm"  -> IF CanConfirm(doc) THEN {Confirm(doc)} ELSE {}
      [] op.kind = "run"      -> IF CanRun(doc) THEN {Run(doc, f) : f \in Findings} ELSE {}
      [] op.kind = "review"   -> IF CanReview(doc, op.report, op.decision)
                                 THEN {Review(doc, op.report, op.decision)} ELSE {}
      [] op.kind = "message"  -> {CommitPrepared(doc, p) : p \in PreparedTurns(doc, op.turn)}

DomainResults(doc, op) ==
    CASE op.kind = "setup"  -> IF CanSetup(doc, op.case, op.bound)
                               THEN {Setup(doc, op.case, op.mode, op.bound)} ELSE {}
      [] op.kind = "plan"   -> IF CanExecute(doc)
                               THEN {Execute(doc, r) : r \in ResultInputs} ELSE {}
      [] op.kind = "answer" -> IF CanAnswer(doc, op.data, op.actions) /\ Single(op.data, op.actions)
                               THEN {Answer(doc, op.data, op.actions, r) : r \in ResultInputs} ELSE {}
      [] op.kind = "answers_batch"  -> IF CanAnswer(doc, op.data, op.actions)
                               THEN {AnswerBatch(doc, op.data, op.actions, r) : r \in ResultInputs} ELSE {}
      [] op.kind = "defer"  -> IF CanDefer(doc, op.question) THEN {doc} ELSE {}
      [] op.kind = "pause"  -> IF CanPause(doc) THEN {Pause(doc)} ELSE {}
      [] op.kind = "resume" -> IF CanResume(doc)
                               THEN {Resume(doc, r) : r \in ResultInputs} ELSE {}
      [] op.kind = "domain_confirm" -> IF CanConfirmDomain(doc) THEN {ConfirmDomain(doc)} ELSE {}
      [] op.kind = "report" -> IF CanReport(doc, op.partial) THEN {Report(doc, op.partial)} ELSE {}
      [] op.kind = "professional"   -> IF CanRule(doc, op.key)
                               THEN {Rule(doc, op.key, r) : r \in ResultInputs} ELSE {}

CalculationResults(doc, op) ==
    CASE op.kind = "calculate" -> IF CanCalculate(doc)
                THEN {Calculate(doc, op.inputs, op.keep, r) : r \in ResultInputs} ELSE {}
      [] op.kind = "recalculate" -> IF CanRecalculate(doc)
                THEN {Recalculate(doc, r) : r \in ResultInputs} ELSE {}
      [] op.kind = "chat_answer" -> IF CanAnswer(doc, op.data, op.actions) /\ Single(op.data, op.actions)
                THEN {Calculated(Answer(doc, op.data, op.actions, r)) : r \in ResultInputs} ELSE {}
      [] op.kind = "collect" -> {Collect(doc, op.changed)}
      [] op.kind = "cancel"  -> {CancelCalculation(doc)}

Results(doc, op) ==
    IF op \in ChatOperations THEN ChatResults(doc, op)
    ELSE IF op \in DomainOperations THEN DomainResults(doc, op)
    ELSE CalculationResults(doc, op)
=============================================================================
