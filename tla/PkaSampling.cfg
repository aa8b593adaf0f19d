CONSTANTS
  s1 = s1
  Sources = {s1}
  Threads = {main}
  Main = main
  Pids = {}
  External = external
  NoPid = NoPid
  MaxEntries = 2
  MaxEvents = 4
SPECIFICATION FairSamplingSpec
INVARIANTS
  ObservedIsAttached
  NoPileUp
  AutoMuteIsExact
PROPERTY
  ObservedGetsSampled
