SPECIFICATION Spec
CONSTANTS
  Writers = {w}
  Values = {v1, v2, v3}
  Default = default
  Torn = torn
  Files = {f1, f2, f3}
  NoFile = noFile
  RenameFails = TRUE
  WriteFails = TRUE
  Killed = TRUE
INVARIANTS
  TypeOK
  FileInv
PROPERTIES
  AtomicSave
  RemovedOnlyWhenReplaceable
