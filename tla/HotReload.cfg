SPECIFICATION GFairSpec
CONSTANTS
  Main = main
  Extra = {w1, w2}
  NoDll = NoDll
  Own = own
  NoDebugger = none
  OfGame = game
  MaxCopies = 4
INVARIANTS
  LoadedIsKnown
  ThreadsRunAgain
  HooksEnterLoaded
  GameHandlerKept
  ContextOnce
PROPERTY HookEnds
CHECK_DEADLOCK FALSE
