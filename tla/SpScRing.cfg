SPECIFICATION FairSpec
CONSTANTS
  Values = {a, b}
  NoMsg = NoMsg
  Size = 2
  W = 4
  MaxPosts = 6
INVARIANTS
  InOrder
  SlotExclusive
PROPERTIES
  FifoRefinement
  AllDelivered
