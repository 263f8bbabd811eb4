\* One sink of each kind of owner.
CONSTANTS
  Owners <- EveryOwner
SPECIFICATION FairSpec
INVARIANTS
  RefcountCounts CallbackHasSink CallbackHasOwner NothingLeaks
PROPERTIES
  SinkGoes
CHECK_DEADLOCK FALSE
