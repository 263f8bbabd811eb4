SPECIFICATION Spec
CONSTANTS
  StoreKinds = {deleted}
  FolderKinds = {calendar}
  Inbox = inbox
  OtherKinds = {spam}
  Plain = {p1}
  Items = {i1}
  Mailboxes <- AnyMailbox
  Faults = {"open", "entry", "compare", "table", "time"}
  NotLoaded = NotLoaded
  Null = Null
  NoKind = NoKind
  MaxCalls = 3
CHECK_DEADLOCK FALSE
INVARIANTS SpecialAsDocumented NullOnlyHalfOpen AnswersAreAsked KindsAgree
