\* A callback in the middle of a call.
CONSTANTS
  r1 = r1  r2 = r2  r3 = r3
  Ids = {r1, r2, r3}
  InitialTable <- TwoRows
  Windows <- NoWindow
  Wanted <- NoIds
  All = All
  Callers = {t1, t2}
  Wrappers = {w1}
  Overlap = FALSE
  Collections = {"stores"}
  Async = TRUE
  Faults = {}
  NotLoaded = NotLoaded
  NotFound = NotFound
  Failed = Failed
  Absent = Absent
  Null = Null
  PageSize = 2
  MaxChanges = 1
SPECIFICATION Spec
INVARIANTS
  LoadedWhenUsed
CHECK_DEADLOCK FALSE
