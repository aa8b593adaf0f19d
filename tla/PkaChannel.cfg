CONSTANTS
  s1 = s1
  s2 = s2
  p1 = p1
  p2 = p2
  Sources = {s1, s2}
  Threads = {main}
  Main = main
  Pids = {p1, p2}
  External = external
  NoPid = NoPid
SPECIFICATION FairChannelSpec
INVARIANTS
  NoSourceLeftRunning
  InferiorIsKnown
  AttachedIsSpared
PROPERTIES
  KeepsLifecycle
  ExitStopsChannel
