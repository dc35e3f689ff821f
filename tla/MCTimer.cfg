\* A monotonic clock and no failing malloc or epoll call.
CONSTANTS
  r1 = r1  r2 = r2  r3 = r3
  Req = {r1, r2, r3}
  Timeouts = {1, 2}
  MaxTime = 3
  ClockSteps = FALSE
  Fallible = FALSE
SPECIFICATION Spec
SYMMETRY ReqSymmetry
INVARIANTS
  TypeOK
  ExpireComplete
  TimerLinkage
