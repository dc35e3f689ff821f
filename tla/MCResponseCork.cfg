\* A disk error in the 206 header handler finalizes the request with TCP_CORK still set, and keep-alive keeps it.
CONSTANTS
  BodyLens = {0, 2}
  RangeEnds = {0, 1, 3}
  STATUS_LEN = 1
  EXTRA_LEN = 1
  TAIL = 1
  KeepAlive = TRUE
  DiskErrors = TRUE
  MaxRequests = 2
  PutOutcomes = {"stored", "declined", "refused", "bad"}
  Overrun = 1
SPECIFICATION Spec
INVARIANT
  CorkReleased
