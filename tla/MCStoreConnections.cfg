\* A deleted server is freed while a keep-alive connection still refers to it.
CONSTANTS
  d1 = d1  d2 = d2  s1 = s1  s2 = s2  k1 = k1  k2 = k2  r1 = r1  r2 = r2
  Dev = {d1, d2}
  Srv = {s1, s2}
  Key = {k1}
  Req = {r1}
  NoDev = NoDev
  NoSrv = NoSrv
  SharedLru = SharedLru
  DevCapacity <- MCDevCapacity
  SrvCapacity <- MCSrvCapacity
  CapacityChoices = {0}
  DroppableSrv = {s1}
  DroppableDev = {d1}
  IPB_BEGIN = 9
  IPB_END = 12
  ItemMaxSize = 0
  Lengths = {400, 1000}
  ExpireDefault = 1
  ExpireForce = 0
  ExpireInputs = {0}
  PassbyEnable = FALSE
  PassbyBeginItemNr = 1
  PassbyBeginConsumed = 0
  PassbyLimitNr = 1
  PassbyExpire = 1
  CLEAR_BITS = 16
  MaxClear = 0
  BadblockPercent = 40
  LOOP_LIMIT = 2
  MaxItems = 2
  MaxFblocks = 3
  MaxPassby = 1
  MaxTime = 1
SPECIFICATION Spec
SYMMETRY Symmetry
INVARIANT ServerOutlivesConnections
