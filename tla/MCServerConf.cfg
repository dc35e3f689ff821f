\* Four reloads of up to two servers, every failure of the checks, server_destroy and quit.
CONSTANTS
  p1 = p1  p2 = p2  p3 = p3  p4 = p4  p5 = p5  p6 = p6  l1 = l1  l2 = l2
  Port = {p1, p2}
  Log = {l1, l2}
  SERVERS_LIMIT = 4
  MaxConf = 2
  FdNum = {0, 1, 2, 3, 4, 5}
  Faults = {"timeout", "bind", "nomem", "fopen"}
  OtherChecksFail = TRUE
  MaxReloads = 4
SPECIFICATION Spec
SYMMETRY Symmetry
INVARIANTS
  TypeOK
  ResourcesOwned
PROPERTIES
  ReloadAllOrNothing
CHECK_DEADLOCK FALSE
