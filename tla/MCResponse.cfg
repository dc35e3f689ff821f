\* GET and HEAD with and without ranges, and PUT stored or declined, over a socket that blocks and breaks.
CONSTANTS
  BodyLens = {0, 2}
  RangeEnds = {0, 1, 3}
  STATUS_LEN = 1
  EXTRA_LEN = 1
  TAIL = 1
  KeepAlive = TRUE
  DiskErrors = FALSE
  MaxRequests = 2
  PutOutcomes = {"stored", "declined", "refused", "bad"}
  Overrun = 1
SPECIFICATION Spec
INVARIANTS
  TypeOK
  ResponseExact
  StoredExact
  StreamInSync
