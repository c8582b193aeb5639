SPECIFICATION MCSpec
CONSTANTS
  Searches = {r1, r2, law}
  LawSearches = {law}
  Slots = 1
  Docs = {order}
  Suffixes = {html, pdf}
  Contents = {old, new}
  FirstSuffix = html
  FirstContent = old
  MaxFetches = 1
  MaxRuns = 3
INVARIANTS SlotsAccounted PulledWhole UploadExact
PROPERTIES SearchEnds
CHECK_DEADLOCK FALSE
