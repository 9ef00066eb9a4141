SPECIFICATION Spec
CONSTANTS
  StartsWith = {}
  Vars = {"x"}
  Hotkeys = {"h"}
  Vals = {0, 1}
  Default <- MCDefault
  Profiles = {"Default", "Secondary"}
  CfgProfile = "Default"
  NewFile <- MCNewFile
  UserFiles <- MCUserFiles
  NoFile = NoFile
  NoLines = NoLines
  Unbound = Unbound
  MaxMark = 2
  MaxFaults = 2
INVARIANTS
  SavedMarkHonest
  NoDuplicates
PROPERTY BlocksKept
CONSTRAINT Closed
VIEW ButProfile
