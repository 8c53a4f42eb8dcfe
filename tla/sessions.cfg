SPECIFICATION SessionFairSpec
CONSTANTS
  Clients = {c1, c2}
  States = {a}
  None = None
  Sockets = {1, 2, 3}
  Troubled = {c1}
  Troubles = {"cut", "heartbeat", "fail", "reject", "expire", "kick", "refresh", "hibernate", "leave"}
  MaxTrouble = 1
  MaxWakes = 1
  MaxSets = 2
INVARIANTS SessionTypeOK NewerWins EntryOwned
PROPERTIES PresenceSettles
CHECK_DEADLOCK FALSE
