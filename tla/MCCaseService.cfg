\* Concurrent handlers over one row.
SPECIFICATION Spec
CONSTANTS
    Handlers = {h1, h2}
    RequestIds = {i1, i2, i3}
    Offered <- MCOffered
    Hybrid = TRUE
    NoReceipt = NoReceipt
    Unsigned = Unsigned
    amount = amount
    dividend = dividend
    v1 = v1
    v2 = v2
    None = None
    Fields = {amount}
    Identification = {amount}
    Details = {}
    ScopeFields = {}
    CoverageFields = {}
    DataKeys = {}
    EventKeys = {dividend}
    Values = {v1, v2}
    Outside = outside
    ActionKeys = {}
    RulingKeys = {}
    MaxReceipts = 2
    CalculationFields = {}
    CalculationBindings <- MCBindings
    PatchInputs <- MCPatches
    TurnInputs <- MCTurns
    StructureInputs <- MCStructures
    ModeInputs = {"plan_structure"}
    BindingInputs <- MCBindingInputs
    DataInputs = {}
    ActionInputs = {}
    CalculationInputs = {}
    ResultInputs = {}
SYMMETRY MCSymmetry
INVARIANTS
    AtMostOnce
    RowMatchesLog
    DoneMeansCommitted
PROPERTIES
    ImplementsRegister
    RetryFindsResult
\* A case whose ids are used up and whose handlers are idle may rest.
CHECK_DEADLOCK FALSE
