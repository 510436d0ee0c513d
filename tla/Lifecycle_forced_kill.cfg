SPECIFICATION Spec
CONSTANTS
  Actors = {cli}
  Pids = {1}
  PreferredPort = 11
  FallbackPorts = {12}
  MaxBorn = 1
  Overrides = {}
  MaxPolls = 1
  Windows = TRUE
  Renamed = FALSE
  StateFile = {TRUE, FALSE}
  Faults = {}
  CrashPoints <- CrashAnywhere
PROPERTIES
  ReconcileHeals
