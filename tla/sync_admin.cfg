SPECIFICATION SyncSpec
CONSTANTS
  Clients = {c1}
  Keys = {k1}
  Vals = {v1}
  Mutations = {m1, m2}
  Deleted = Deleted
  NoCursor = NoCursor
  NoSnapshot = NoSnapshot
  Idle = Idle
  System = System
  Retention = 0
  MaxId = 1
  MaxBatch = 1
  MaxVersion = 1
  MaxLog = 2
  MaxBackend = 1
  MaxSchema = 1
  MaxQueue = 2
  Durable = FALSE
  Troubles = {"disconnect", "resync"}
  MaxTrouble = 1
  MaxUp = 2
  MaxFlight = 3
SYMMETRY Symmetry
INVARIANTS ReplicaSound
PROPERTIES NeverBackward
CHECK_DEADLOCK FALSE
