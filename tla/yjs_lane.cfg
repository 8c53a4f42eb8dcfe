SPECIFICATION FieldSpec
CONSTANTS
  Tabs = {t1, t2}
  Writers = {t1, t2}
  None = None
  MaxUpdate = 2
  MaxField = 3
  Threshold = 1
  Pastes = {1}
  Troubles = {"disconnect", "wake", "evict", "release", "import", "reset"}
  MaxTrouble = 2
  MaxHandles = 1
  MaxClock = 2
  MaxUp = 2
SYMMETRY Symmetry
INVARIANTS FieldTypeOK ReadableBack AcceptedSurvives CacheCoherent QuietAgrees
CHECK_DEADLOCK FALSE
