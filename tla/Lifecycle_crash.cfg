SPECIFICATION Spec
CONSTANTS
  Actors = {cli}
  Pids = {1, 2}
  PreferredPort = 11
  FallbackPorts = {12}
  MaxBorn = 2
  Overrides = {TRUE, FALSE}
  MaxPolls = 1
  Windows = TRUE
  Renamed = FALSE
  StateFile = {TRUE, FALSE}
  Faults = {"load", "set", "kill", "spawn"}
  CrashPoints <- CrashOutsideWindow
INVARIANTS
  ProxyAccounted
  ProxyInv
PROPERTIES
  ReconcileHeals
  RepairHeals
