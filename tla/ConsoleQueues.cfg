SPECIFICATION FairSpec
CONSTANTS
  QSize = 2
  MaxCmds = 5
INVARIANTS
  RoundTripInOrder
  EchoFirst
  HeapOwned
PROPERTIES
  AcceptedIsRun
  AcceptedIsPrinted
