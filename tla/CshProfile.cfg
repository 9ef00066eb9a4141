SPECIFICATION Spec
CONSTANTS
  StartsWith = {}
  Vars = {"x"}
  Hotkeys = {"h"}
  Vals = {0, 1}
  Default <- MCDefault
  Profiles = {"Default", "Secondary"}
  CfgProfile = "Default"
  NewFile <- MCNewFile
  UserFiles <- MCUserFiles
  NoFile = NoFile
  NoLines = NoLines
  Unbound = Unbound
  MaxMark = 2
  MaxFaults = 0
PROPERTY StartAppliesProfile
