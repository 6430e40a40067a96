SPECIFICATION Spec
CONSTANTS
  w1 = w1  w2 = w2
  NoThread = NoThread
  Threads = {w1, w2}
  Ttl = 2
  RequestTime = 1
  Buffer = 2
  Leases = {0, 3, 5}
  MaxVersion = 2
  MaxTime = 7
SYMMETRY Symmetric
INVARIANTS TypeOK StalenessBounded TokenStillValid NoNeedlessLogin
