CONSTANTS
  Base = 8
  Word = 1024
  LongWord = 8192
  DoubleSize = 2
  FloatSize = 1
  NsecPerUsec = 2
  UsecPerSec = 4
  Unit <- MCUnit
  Plugins <- MCPlugins
  SourceIds = {9}
  Clock <- MCClock
  Values <- MCValues
SPECIFICATION Spec
INVARIANTS
  ManifestSurvives
  SampleSurvives
  TimeWithinResolution
PROPERTIES
  RoundingIsMonotone
