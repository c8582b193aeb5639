SPECIFICATION Spec
CONSTANTS
  p1 = p1
  p2 = p2
  r1 = r1
  NoRun = NoRun
  Packages = {p1, p2}
  Complete = {p1}
  Runs = {r1}
  RunOf <- MCOneRun
  Drafts <- MCDrafts
  Polishings <- MCPolishings
  Defects <- MCDefect
  DraftReturns = {"analysis"}
  FinalReturns = {"front"}
  MaxRounds = 2
  NodeLimit = 1
INVARIANTS
  DeliveredSound
PROPERTIES
  RegisteredAsRead
  ReviewBeforePolish
  RunEnds
