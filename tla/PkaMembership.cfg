CONSTANTS
  Subscriptions = {s1, s2}
  Sources = {r1, r2}
  Channels = {c1}
  NoChannel = NoChannel
  MaxEntries = 2
  MaxRefs = 5
SPECIFICATION Spec
CHECK_DEADLOCK FALSE
SYMMETRY Symmetry
INVARIANTS
  HeldIsAlive
  ListedIsObserved
  ListedChannelTells
  FollowsChannel
