\* A reload whose worker_create fails part-way, then a reload that fails a check.
CONSTANTS
  r1 = r1  r2 = r2  w1 = w1  w2 = w2  w3 = w3
  Req = {r1, r2}
  W = {w1, w2, w3}
  NoWorker = NoWorker
  Threads = 2
  MaxThreads = 4
  PipeCap = 1
SPECIFICATION Spec
PROPERTY
  RollbackPreservesPool
