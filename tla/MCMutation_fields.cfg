\* Operations of every kind of field, with calls that fail.
CONSTANTS
  i1 = i1  i2 = i2  i3 = i3  root = root  inbox = inbox  trash = trash  new = new
  title = title  body = body  v1 = v1
  ItemIds = {i1, i2, i3}
  FolderIds = {root, inbox, trash, new}
  InitialItems <- OneOpenItem
  InitialFolders <- Folders
  RootFolder = root
  SpecialFolders = {trash, NoFolder}
  NoFolder = NoFolder
  Props = {title, body}
  Title = title
  Values = {v1}
  Requests <- EveryField
  NoRequest = NoRequest
  Gone = Gone
  NotOpened = NotOpened
  Unset = Unset
  Absent = Absent
  NoId = NoId
  MayFail = TRUE
  MaxFields = 3
SPECIFICATION Spec
INVARIANTS
  TypeOK
PROPERTIES
  AnsweredIsDone CommittedWasAsked CreatedWhole
CHECK_DEADLOCK FALSE
