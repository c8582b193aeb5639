\* The interview alone: every chat operation, at most MaxReceipts of them.
SPECIFICATION ChatSpec
CONSTANTS
    scope = scope
    detail = detail
    v1 = v1
    out = out
    None = None
    Fields = {scope, detail}
    Identification = {scope}
    Details = {detail}
    ScopeFields = {scope}
    CoverageFields = {detail}
    DataKeys = {}
    EventKeys = {}
    Values = {v1, out}
    Outside = out
    ActionKeys = {}
    RulingKeys = {}
    MaxReceipts = 7
    CalculationFields = {}
    CalculationBindings <- MCBindings
    PatchInputs <- MCPatches
    TurnInputs <- MCTurns
    StructureInputs = {}
    ModeInputs = {}
    BindingInputs = {}
    DataInputs = {}
    ActionInputs = {}
    CalculationInputs = {}
    ResultInputs = {}
INVARIANTS
    TypeOK
    ConfirmationCurrent
    ReportsCurrent
    ApprovalSound
    DisputesAreConflicts
    StateTruthful
PROPERTIES
    ReportsFrozen
    ConsentBoundToFacts
\* A case at its limit of receipts accepts nothing more.
CHECK_DEADLOCK FALSE
