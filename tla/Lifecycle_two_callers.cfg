SPECIFICATION Spec
CONSTANTS
  Actors = {cli, gui}
  Pids = {1, 2}
  PreferredPort = 11
  FallbackPorts = {12}
  MaxBorn = 1
  Overrides = {}
  MaxPolls = 1
  Windows = TRUE
  Renamed = FALSE
  StateFile = {TRUE}
  Faults = {}
  CrashPoints <- NoCrash
INVARIANTS
  RecordOwnsTheCore
