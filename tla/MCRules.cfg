SPECIFICATION MCSpec
CONSTANTS
    Rules <- MCRules
    Brackets <- MCBrackets
    Kind <- MCKind
    Nodes <- MCNodes
    Source <- cn
    Payee <- hk
    Destinations <- MCDestinations
    Entities <- MCEntities
    FactMoves <- MCFactMoves
    Mode = "record"
    Amount = 10000
    Values <- MCValues
    Stated <- MCStated
    FavourableAnswer <- MCFavourable
    FxRate <- MCFxRate
    CitRate <- MCCitRate
    LimitChoices <- MCLimits
    Codes = {"cn", "hk"}
    Treaties = {{"cn", "hk"}}
    Params <- MCParams
    Lists <- MCLists
    Clauses <- MCClauses
    Procedures = {"law#1"}
    Absences = {}
    FirstTables <- MCFirstTables
    Today = 40
    MaxEdits = 2
    Edits <- MCEdits
    SampleValues <- MCSampleValues
    ReceiptPaths = {"bank_or_account_path"}
    SubstanceFacts = {"hk_adequate_employees", "entity_activity_profile"}
    HoldingDetails = {}
    JudgementFacts = {"foreign_tax_on_dividend_or_underlying_profit"}
    OtherFacts = {"treaty"}
    ValuesOf <- MCValuesOf
    BelowMinimum = {"low"}
    ThresholdsGiven = TRUE
    Ordinal <- MCOrdinal
    Cards <- MCCards
    Evidence <- MCEvidence
    MaxSteps = 2
INVARIANTS FrontierExact AcceptedEvaluates OutcomeJustified VersionsFollow
PROPERTIES AnswersNarrow FindingsStand
CHECK_DEADLOCK FALSE

