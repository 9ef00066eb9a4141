SPECIFICATION Spec
CONSTANTS
  PageSize = 3
  NumPages = 2
  nop = nop
  jmp = jmp
  Bytes = {nop, jmp}
  Memories <- MCMemories
  Zero = nop
  JmpOps = {jmp}
  Sites <- MCSites
  JmpSites <- MCJmpSites
  TrampSites <- MCTrampSites
  Foreign <- MCForeign
INVARIANTS
  RestoreExact
  NoPatchLeft
  OverwrittenIsMarked
  OriginalsMoved
CHECK_DEADLOCK FALSE
