CONSTANTS
  fast = fast
  slow = slow
  Sources = {fast, slow}
  Freq <- MCFreq
  MaxList = 3
  MaxLate = 3
SPECIFICATION FairSpec
INVARIANTS
  WakesInTime
  NoLostWakeup
  PassIsComplete
PROPERTY
  ListedGetsInvoked
