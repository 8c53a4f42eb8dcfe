SPECIFICATION FieldSpec
CONSTANTS
  Tabs = {t1, t2}
  Writers = {t1, t2}
  None = None
  MaxUpdate = 2
  MaxField = 3
  Threshold = 1
  Pastes = {1}
  Troubles = {"disconnect", "release"}
  MaxTrouble = 2
  MaxHandles = 1
  MaxClock = 2
  MaxUp = 2
INVARIANTS GapsHeal
CHECK_DEADLOCK FALSE
