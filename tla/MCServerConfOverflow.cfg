\* Three running servers replaced by three on new ports: the slot count of server_conf_check passes, and server_indexs overruns.
CONSTANTS
  p1 = p1  p2 = p2  p3 = p3  p4 = p4  p5 = p5  p6 = p6  l1 = l1  l2 = l2
  Port = {p1, p2, p3, p4, p5, p6}
  Log = {l1}
  SERVERS_LIMIT = 5
  MaxConf = 3
  FdNum = {0, 1, 2, 3, 4, 5, 6, 7, 8, 9, 10, 11}
  Faults = {}
  OtherChecksFail = FALSE
  MaxReloads = 2
SPECIFICATION Spec
SYMMETRY Symmetry
INVARIANT IndexExact
CHECK_DEADLOCK FALSE
