SPECIFICATION Spec
CONSTANTS
  a = a
  b = b
  c = c
  x = x
  Tables = {a, b, c}
  Ids = {x}
  Deleted = Deleted
  None = None
  Lazy = {b}
  Later = {c}
  FirstRows <- MCFirstRows
  Cached = TRUE
  Late = TRUE
  Programs <- MCPrograms
  Others <- MCOthers
  MaxVersion = 2
  MaxIntents = 0
  MaxRestarts = 1
  MaxCuts = 1
  MaxFrames = 4
  MaxPart = 2
INVARIANTS RestartServed
CHECK_DEADLOCK FALSE
