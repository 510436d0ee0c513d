SPECIFICATION Spec
CONSTANTS
  Profiles = {p1, p2}
  NoProfile = none
  Failures = TRUE
INVARIANTS
  TypeOK
PROPERTIES
  WatchdogReconnects
  ShownAfterATick
