CONSTANTS
  short = short
  long = long
  exact = exact
  bad = bad
  p1 = p1
  p2 = p2
  Empty = Empty
  Torn = Torn
  Files = {short, long, exact, bad}
  JsonLength <- MCLengths
  Corrupt = {bad}
  RegionSize = 3
  Pcbs = {p1, p2}
  MaxUploads = 2
  MaxRetries = 0
  Patient = TRUE
  PowerMayFail = FALSE
SPECIFICATION UploadSpec
PROPERTY GoodUploadAccepted
CHECK_DEADLOCK FALSE
