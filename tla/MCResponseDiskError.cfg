\* sendfile may fail with EIO; request_finalize then looks up the page of the 200 or 206 code.
CONSTANTS
  BodyLens = {0, 2}
  RangeEnds = {0, 1, 3}
  STATUS_LEN = 1
  EXTRA_LEN = 1
  TAIL = 1
  KeepAlive = TRUE
  DiskErrors = TRUE
  MaxRequests = 2
  PutOutcomes = {}
  Overrun = 0
SPECIFICATION Spec
INVARIANT
  FinalizeFindsPage
