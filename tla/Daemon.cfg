SPECIFICATION DaemonSpec
CONSTANTS
  MaxSockets = 6
  MasterFd = master
  IpcFd = ipc
  NoFd = none
  ClientFd = {f1, f2, f3, f4, f5}
  MaxSessions = 1
SYMMETRY ClientSymmetry
INVARIANTS
  ServedIsReady
  ServedInRound
CHECK_DEADLOCK FALSE
