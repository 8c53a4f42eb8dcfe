SPECIFICATION FairSpec
CONSTANTS
  Clients = {c1, c2}
  Keys = {k1}
  Vals = {v1}
  Mutations = {m1, m2}
  Deleted = Deleted
  NoCursor = NoCursor
  NoSnapshot = NoSnapshot
  Idle = Idle
  System = System
  Retention = 0
  MaxId = 1
  MaxBatch = 1
  MaxVersion = 1
  MaxLog = 2
  MaxBackend = 0
  MaxSchema = 1
  MaxQueue = 1
  Durable = TRUE
  Troubles = {"disconnect", "close"}
  MaxTrouble = 1
  MaxUp = 1
  MaxFlight = 6
PROPERTIES Settles Converges
CHECK_DEADLOCK FALSE
