CONSTANTS
  main = main
  worker = worker
  Threads = {main, worker}
  Main = main
  NoThread = NoThread
  MaxCalls = 3
SPECIFICATION FairSpec
INVARIANTS
  IteratorOwnsContext
  NoLostSignal
  OnlyHandlersWaitForThemselves
PROPERTY
  LoopServesCalls
CHECK_DEADLOCK FALSE
