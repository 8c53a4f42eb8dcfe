SPECIFICATION SyncSpec
CONSTANTS
  Clients = {c1, c2}
  Keys = {k1}
  Vals = {v1}
  Mutations = {m1, m2}
  Deleted = Deleted
  NoCursor = NoCursor
  NoSnapshot = NoSnapshot
  Idle = Idle
  System = System
  Retention = 0
  MaxId = 1
  MaxBatch = 1
  MaxVersion = 2
  MaxLog = 2
  MaxBackend = 0
  MaxSchema = 1
  MaxQueue = 2
  Durable = TRUE
  Troubles = {"disconnect", "abort", "hello"}
  MaxTrouble = 1
  MaxUp = 2
  MaxFlight = 6
SYMMETRY Symmetry
INVARIANTS SyncTypeOK ReplicaSound OutboxOrdered NoGap
PROPERTIES KeepsContract
CHECK_DEADLOCK FALSE
