SPECIFICATION Spec
CONSTANTS
  NULL = NULL
  Empty = Empty
  TmpDir = TmpDir
  c1 = c1
  c2 = c2
  cpu = cpu
  dbus = dbus
  target = target
  dir = dir
  arg = arg
  host = host
  version = version
  text = text
  HostName = host
  PKA_VERSION_S = version
  Plugins <- MCPlugins
  PluginInfo <- MCPluginInfo
  Callers <- MCCallers
  Wanted <- MCWanted
  Spawned <- MCSpawned
  ExitStatuses <- MCExitStatuses
  Setup <- MCSetup
  MaxCalls <- MCMaxCalls
INVARIANTS PathsAreRegistries AnswersAsDeclared AttachedOnce ShutdownStops
PROPERTIES IsService CallsEnd
CHECK_DEADLOCK FALSE
