SPECIFICATION Spec
CONSTANTS
  Actors = {cli, gui}
  Pids = {1}
  PreferredPort = 11
  FallbackPorts = {12}
  MaxBorn = 1
  Overrides = {TRUE}
  MaxPolls = 1
  Windows = TRUE
  Renamed = FALSE
  StateFile = {TRUE, FALSE}
  Faults = {"load", "save", "clear", "set", "kill", "spawn"}
  CrashPoints <- CrashAnywhere
PROPERTIES
  CommandReturns
  RepairHeals
