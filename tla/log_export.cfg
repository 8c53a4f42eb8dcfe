SPECIFICATION ExportFairSpec
CONSTANTS
  Entries = {e1, e2}
  Idle = Idle
  BatchRows = 2
  MaxObjects = 2
  MaxLog = 4
  Troubles = {"put", "restart", "quarantine", "reset"}
  MaxTrouble = 2
INVARIANTS ExportTypeOK ArchiveComplete
PROPERTIES ArchiveKeeps EventuallyArchived
