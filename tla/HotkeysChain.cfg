SPECIFICATION Spec
CONSTANTS
  Key = {k1}
  Mods = {plain, alt}
  Actions = {None, a1, a2}
  None = None
  MaxNodes = 5
  MaxResets = 1
PROPERTY ChainKept
