CONSTANTS
  short = short
  long = long
  exact = exact
  bad = bad
  p1 = p1
  p2 = p2
  Empty = Empty
  Torn = Torn
  Files = {short, exact, bad}
  JsonLength <- MCLengths
  Corrupt = {bad}
  RegionSize = 6
  Pcbs = {p1, p2}
  MaxUploads = 2
  MaxRetries = 2
  Patient = FALSE
  PowerMayFail = TRUE
SPECIFICATION UploadSpec
INVARIANT UploadTypeOK
PROPERTY StorageChangesByMove
PROPERTY AcceptedIsLoaded
PROPERTY ProgramsErased
SYMMETRY Transfers
CHECK_DEADLOCK FALSE
