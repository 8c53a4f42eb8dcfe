SPECIFICATION OfflineSpec
CONSTANTS
  Clients = {c1}
  Keys = {k1}
  Vals = {v1}
  Mutations = {m1, m2}
  Deleted = Deleted
  NoCursor = NoCursor
  NoSnapshot = NoSnapshot
  Idle = Idle
  System = System
  Retention = 0
  MaxId = 1
  MaxBatch = 1
  MaxVersion = 2
  MaxLog = 2
  MaxBackend = 0
  MaxSchema = 1
  MaxQueue = 2
  Durable = TRUE
  Troubles = {"crash", "write", "load", "disconnect", "resync"}
  MaxTrouble = 2
  MaxUp = 1
  MaxFlight = 2
  MaxWrites = 2
SYMMETRY Symmetry
INVARIANTS OfflineTypeOK DiskSound DiskCatchesUp DurablyQueued OutboxOrdered
CHECK_DEADLOCK FALSE
