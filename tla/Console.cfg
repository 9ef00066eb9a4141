SPECIFICATION Spec
CONSTANTS
  Size = 4
  Null = Null
  Ptr = {p1, p2, p3, p4, p5}
  Free = Free
  Cmds = {clear, a, b}
  ClearCmd = clear
  MaxCmds = 5
  MaxPrints = 6
INVARIANTS
  ShowsLatest
  SlotsOwnHeap
  BrowsesCommands
  HistoryIsRecent
  LiteralFreedOnLoop
CHECK_DEADLOCK FALSE
