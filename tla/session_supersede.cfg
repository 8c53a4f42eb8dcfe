SPECIFICATION SessionSpec
CONSTANTS
  Clients = {c1, c2}
  States = {a}
  None = None
  Sockets = {1, 2, 3}
  Troubled = {c1}
  Troubles = {"cut", "refresh"}
  MaxTrouble = 1
  MaxWakes = 1
  MaxSets = 0
INVARIANTS SupersedesZombies
CHECK_DEADLOCK FALSE
