SPECIFICATION PopupSpec
CONSTANTS
  Key = {k1}
  Mods = {plain, alt, ctrl}
  Actions = {None, a1, a2}
  None = None
  MaxNodes = 3
  MaxResets = 1
SYMMETRY TableSymmetry
INVARIANTS
  FreedOnce
  RebindFindsItself
  NeverStale
PROPERTY AtMostTwo
