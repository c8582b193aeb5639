\* The consent to a partial result after structure work: violated.
SPECIFICATION Spec
CONSTANTS
    amount = amount
    note = note
    dividend = dividend
    ratio = ratio
    act = act
    rule = rule
    v1 = v1
    v2 = v2
    None = None
    Fields = {amount, note}
    Identification = {amount}
    Details = {note}
    ScopeFields = {}
    CoverageFields = {}
    DataKeys = {ratio}
    EventKeys = {dividend}
    Values = {v1, v2}
    Outside = outside
    ActionKeys = {act}
    RulingKeys = {rule}
    MaxReceipts = 5
    CalculationFields = {amount}
    CalculationBindings <- MCBindings
    PatchInputs <- MCPatches
    TurnInputs <- MCTurns
    StructureInputs <- MCStructures
    ModeInputs = {"plan_structure"}
    BindingInputs <- MCBindingInputs
    DataInputs <- MCDataInputs
    ActionInputs <- MCActionInputs
    CalculationInputs <- MCCalculations
    ResultInputs <- MCResults
PROPERTIES
    ConsentNotRevived
\* A case at its limit of receipts accepts nothing more.
CHECK_DEADLOCK FALSE
