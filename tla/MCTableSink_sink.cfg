\* Everything that can happen to the table around a window inside it.
CONSTANTS
  k1 = k1  k2 = k2  k3 = k3  k4 = k4
  Keys = {k1, k2, k3, k4}
  NoKey = NoKey
  InitialTable <- ThreeRows
  Windows <- OneWindow
  Absent = Absent
  Null = Null
  PageSize = 2
  Kinds = {"add", "modify", "move", "delete", "early", "reload"}
  MayThrow = TRUE
  MaxChanges = 3
SPECIFICATION FairSpec
INVARIANTS
  RowsAreAStretch ReplicaFollowsRows
PROPERTIES
  ReplicaConverges
CHECK_DEADLOCK FALSE
