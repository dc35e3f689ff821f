\* A read of a record fails after the first one, so device_load_post never runs.
CONSTANTS
  d1 = d1  s1 = s1  k1 = k1  k2 = k2  r1 = r1
  Dev = {d1}
  Srv = {s1}
  Key = {k1, k2}
  Req = {r1}
  NoDev = NoDev
  NoSrv = NoSrv
  SharedLru = SharedLru
  DevCapacity <- MCDevCapacity
  SrvCapacity <- MCSrvCapacity
  CapacityChoices = {}
  DroppableSrv = {}
  DroppableDev = {}
  IPB_BEGIN = 9
  IPB_END = 12
  ItemMaxSize = 0
  Lengths = {400, 1000}
  ExpireDefault = 1
  ExpireForce = 0
  ExpireInputs = {0}
  PassbyEnable = FALSE
  PassbyBeginItemNr = 1
  PassbyBeginConsumed = 0
  PassbyLimitNr = 1
  PassbyExpire = 1
  CLEAR_BITS = 16
  MaxClear = 0
  BadblockPercent = 40
  LOOP_LIMIT = 2
  MaxItems = 2
  MaxFblocks = 3
  MaxPassby = 1
  MaxTime = 1
  FM_INFO_SIZE = 300
  FM_ITEM_SIZE = 100
  ReadFaults = {0, 1, 2}
  MaxRestarts = 2
SPECIFICATION FmSpec
SYMMETRY Symmetry
INVARIANT NoOops
