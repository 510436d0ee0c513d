SPECIFICATION Spec
CONSTANTS
  Feeds = {feed1, feed2}
  NoGroup = none
  Tasks = {t1, t2}
  MaxId = 2
  MaxFetch = 1
INVARIANTS
  TypeOK
  IdsFresh
  CacheCurrent
  
PROPERTIES
  DeletedForGood
