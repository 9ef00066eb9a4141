SPECIFICATION Spec
CONSTANTS
  ScreenSize = 6
  Margin = 2
  MinSize = 2
  Rects <- MCRects
  Border <- MCBorder
  Commands <- MCCommands
  MaxMsgs = 3
  MaxDrift = 2
INVARIANTS
  ModeSettles
  RectMirrored
PROPERTY ReturnsToPlace
