SPECIFICATION Spec
CONSTANTS
  Clients = {c1}
  Keys = {k1, k2}
  Vals = {v1}
  Mutations = {m1}
  Deleted = Deleted
  NoCursor = NoCursor
  NoSnapshot = NoSnapshot
  Idle = Idle
  System = System
  Retention = 0
  MaxId = 2
  MaxBatch = 2
  MaxVersion = 2
  MaxLog = 2
  MaxBackend = 1
  MaxSchema = 2
  MaxQueue = 1
SYMMETRY Symmetry
INVARIANTS TypeOK PokesSound CatchUpSound LmidMatchesLog
CHECK_DEADLOCK FALSE
