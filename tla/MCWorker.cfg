\* Hand-off between the master and the workers, with reloads.
CONSTANTS
  r1 = r1  r2 = r2  w1 = w1  w2 = w2  w3 = w3
  Req = {r1, r2}
  W = {w1, w2, w3}
  NoWorker = NoWorker
  Threads = 2
  MaxThreads = 4
  PipeCap = 1
SPECIFICATION Spec
INVARIANTS
  TypeOK
  OwnershipHandoff
  RequestNrExact
PROPERTIES
  DeletedWorkerExits
