\* The wall clock may step backwards between two loop iterations.
CONSTANTS
  r1 = r1  r2 = r2  r3 = r3
  Req = {r1, r2, r3}
  Timeouts = {1, 2}
  MaxTime = 3
  ClockSteps = TRUE
  Fallible = FALSE
SPECIFICATION Spec
SYMMETRY ReqSymmetry
INVARIANT
  ExpireComplete
