SPECIFICATION Spec
CONSTANTS
  Actors = {cli}
  Pids = {1, 2}
  PreferredPort = 11
  FallbackPorts = {12}
  MaxBorn = 3
  Overrides = {TRUE, FALSE}
  MaxPolls = 1
  Windows = TRUE
  Renamed = FALSE
  StateFile = {TRUE, FALSE}
  Faults = {"spawn"}
  CrashPoints <- NoCrash
INVARIANTS
  TypeOK
  ProxyAsRecorded
  NoOrphanCore
  RecordReachesItsCore
PROPERTIES
  NoStaleCoreAnswers
  CommandsAreAtomic
