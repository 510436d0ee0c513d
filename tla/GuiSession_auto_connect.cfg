SPECIFICATION Spec
CONSTANTS
  Profiles = {p1, p2}
  NoProfile = none
  Failures = FALSE
PROPERTIES
  AutoConnectOnlyWhenIdle
