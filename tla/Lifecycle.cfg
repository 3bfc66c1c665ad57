CONSTANTS
  short = short
  long = long
  exact = exact
  bad = bad
  p1 = p1
  p2 = p2
  Empty = Empty
  Torn = Torn
  Files = {short, exact, bad}
  JsonLength <- MCLengths
  Corrupt = {bad}
  RegionSize = 3
  Pcbs = {p1, p2}
  MaxUploads = 2
  MaxRetries = 0
  Patient = TRUE
  PowerMayFail = FALSE
SPECIFICATION LifeFairSpec
INVARIANT LifeTypeOK
INVARIANT FlagHasOwner
INVARIANT ReceivedWholeFile
PROPERTY AnsweredUnlessCut
PROPERTY TakesEffectUnlessCut
CHECK_DEADLOCK FALSE
