SPECIFICATION Spec
CONSTANTS
  Names <- ThreeNames
  BuiltIns = {5}
  NamedIds <- FirstIds
  Misreads <- HalfGuids
  Objects <- SomeObjects
  Requests <- SomeRequests
  Faults = {"mapi", "allocate", "unnamed"}
  NoName = NoName
  Throws = Throws
  MaxCalls = 3
CHECK_DEADLOCK FALSE
INVARIANTS MapIsMapis AnswersAreAsked FailuresExplained
