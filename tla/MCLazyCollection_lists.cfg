\* Callbacks at any time, MAPI calls that fail.
CONSTANTS
  r1 = r1  r2 = r2  r3 = r3
  Ids = {r1, r2, r3}
  InitialTable <- TwoRows
  Windows <- Shifted
  Wanted <- TwoIds
  All = All
  Callers = {t1, t2}
  Wrappers = {w1}
  Overlap = FALSE
  Collections = {"stores", "rootFolders", "subFolders", "items"}
  Async = TRUE
  Faults = {"read", "advise"}
  NotLoaded = NotLoaded
  NotFound = NotFound
  Failed = Failed
  Absent = Absent
  Null = Null
  PageSize = 2
  MaxChanges = 2
SPECIFICATION FairSpec
INVARIANTS
  IndexAgrees CacheIsCurrent
PROPERTIES
  AnswersAreCurrent CallsEnd
CHECK_DEADLOCK FALSE
