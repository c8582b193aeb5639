SPECIFICATION MCSpec
CONSTANTS
  Texts = {"t"}
  OtherKinds = {"facts", "confirm"}
  MaxGestures = 2
  MaxOthers = 2
  Facts = {"reinvested", "form", "held", "paid_on", "topup", "group.revenue", "own.revenue"}
  CoreFacts = {"held"}
  Gates = {"paid", "adjusted"}
  Require <- MCRequire
  Members <- MCMembers
  Reviewed = {"topup"}
  Actions <- MCActions
  FactValues <- MCFactValues
  FirstCases <- MCFirstCases
  Needs <- MCNeeds
  EditedFacts = {"reinvested", "held"}
  MaxDetours = 1
INVARIANTS
  RetryRepeatsNothing
  NoDeadEnd
PROPERTIES
  TextKept
  AnalysisOfConfirmed
  Released
  InterviewEnds
\* An interview that has nothing left to ask, and no ruling to wait for, stops.
CHECK_DEADLOCK FALSE
