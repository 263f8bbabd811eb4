\* Every mix of directives on every table of up to MaxRows rows.
CONSTANTS
  Absent = Absent
  Null = Null
  PageSize = 2
  MaxRows = 4
  MaxCount = 3
  Ids <- MCIds
  IdTexts <- MCIdTexts
  Columns <- MCColumns
  DefaultColumns <- MCDefaultColumns
  DefaultOrder <- MCDefaultOrder
  Requests <- MCRequests
  Tables <- MCTables
  TypeRank <- MCTypeRank
  Keys <- MCKeys
  Arguments <- MCArguments
  Names <- MCNames
  Leftovers <- MCLeftovers
  Times <- MCTimes
  Characters <- MCCharacters
  Binaries <- MCBinaries
  Missing = Missing
  Throws = Throws
  Undefined = Undefined
  NotText = NotText
  Nul = Nul
  Lone = Lone
  Replacement = Replacement
  IntLimit = 8
  letter = letter
SPECIFICATION OpSpec
INVARIANTS
  ReadIsWindow DefaultColumnsInPlace FailureIsExplained KeysAreOrdered
  ValuesComeBack TimesComeBack WholeNamesComeBack AnswersConform CrashIsExplained
CHECK_DEADLOCK FALSE
