\* A PUT refused for want of space answers 500 and keeps the connection with its body unread.
CONSTANTS
  BodyLens = {0, 2}
  RangeEnds = {0, 1, 3}
  STATUS_LEN = 1
  EXTRA_LEN = 1
  TAIL = 1
  KeepAlive = TRUE
  DiskErrors = FALSE
  MaxRequests = 2
  PutOutcomes = {"stored", "nospace"}
  Overrun = 0
SPECIFICATION Spec
INVARIANT
  StreamInSync
