------------------------------ MODULE Mutation ------------------------------
(***************************************************************************)
(* The fields of a mutation (Mutation.cpp).  The fields of an operation    *)
(* are resolved one after another and share the Item and Folder objects    *)
(* that Store::OpenItem and OpenFolder cache; at its end endSelectionSet   *)
(* empties the caches.  Each field is a series of MAPI calls, and any of   *)
(* them may fail.                                                          *)
(*                                                                         *)
(* An IMessage keeps the changes made to it to itself until SaveChanges; a *)
(* folder is changed at once.  A message keeps its ID when it moves.       *)
(*                                                                         *)
(* The empty ID, NoId, names the root of the IPM subtree, until a created  *)
(* sub-folder is cached under it.                                          *)
(***************************************************************************)
EXTENDS Naturals, Sequences, FiniteSets

CONSTANTS
  ItemIds, FolderIds,
  InitialItems, InitialFolders,  \* the store at the start
  RootFolder,      \* m_rootId: what OpenFolder opens for the empty ID
  SpecialFolders,  \* what Deleted Items may be: a folder, or NoFolder if there is none
  NoFolder,
  Props,         \* properties of items and folders
  Title,         \* PR_SUBJECT, PR_DISPLAY_NAME
  Values,
  Requests,      \* fields with their arguments
  NoRequest, Gone, NotOpened, Unset, Absent,
  NoId,          \* the empty ID
  MayFail,       \* any MAPI call may fail
  MaxFields      \* bound: fields that are resolved

\* What messages and folders are made of (external), and the inputs of a field.
Contents      == [Props -> Values \cup {Unset}]
Messages      == [folder : FolderIds, content : Contents, read : BOOLEAN]
FolderObjects == [parent : FolderIds, content : Contents]
FolderNames   == FolderIds \cup {NoId}
Inputs == [prop : Props, value : Values, type : STRING]
Fields == {"createItem", "createSubFolder", "modifyItem", "modifyFolder", "removeFolder",
           "markAsRead", "copyItems", "moveItems", "deleteItems"}
RequestRecords ==
  [field : Fields, id : ItemIds \cup FolderNames \cup {Absent}, folder : FolderNames,
   items : SUBSET ItemIds, destination : FolderNames \cup {Absent}, title : Values \cup {Absent},
   properties : Seq(Inputs), deleted : SUBSET Props, extras : Seq(STRING),
   read : BOOLEAN \cup {Absent}, hard : BOOLEAN \cup {Absent}]

ASSUME TitleAssumption == Title \in Props /\ Unset \notin Values /\ Absent \notin Values
ASSUME SpecialAssumption == SpecialFolders \subseteq FolderIds \cup {NoFolder}
ASSUME RootAssumption == RootFolder \in FolderIds /\ NoId \notin FolderIds
ASSUME BoundAssumption == MayFail \in BOOLEAN /\ MaxFields \in Nat
ASSUME InitialAssumption ==
  /\ InitialItems \in [ItemIds -> Messages \cup {Gone}]
  /\ InitialFolders \in [FolderIds -> FolderObjects \cup {Gone}]
\* What MAPI makes of removing a folder that has no ID is not modelled.
ASSUME RequestsAssumption ==
  \A r \in Requests :
    /\ r \in RequestRecords
    /\ r.field = "modifyItem" => r.id \in ItemIds
    /\ r.field = "modifyFolder" => r.id \in FolderNames
    /\ r.field = "removeFolder" => r.id \in FolderIds
    /\ r.field \in {"copyItems", "moveItems"} => r.destination \in FolderNames
ASSUME MarksAssumption ==
  /\ NoRequest \notin RequestRecords
  /\ Gone \notin Messages \cup FolderObjects
  /\ NotOpened \notin Contents \cup FolderIds
  /\ Absent \notin BOOLEAN

VARIABLES
  items,      \* the messages there are: folder, content, read (external)
  folders,    \* the folders there are: parent, content (external)
  deletedItems, \* the folder Deleted Items of the store, which stays
  itemCache,  \* m_itemCache: the content as the cached IMessage has it
  folderCache,\* m_folderCache: the parent ID the cached Folder has
  unnamed,    \* ... and the folder it has under the empty ID
  request,    \* the field being resolved
  pc,         \* which call is next
  target,     \* the message or folder it creates or modifies
  draft,      \* the content of the IMessage it creates or modifies
  answer,     \* its answer
  asked,      \* ghost: changes the fields of this operation ask for, by item
  resolved,   \* how many fields there were
  crashed

vars == <<items, folders, deletedItems, itemCache, folderCache, unnamed, request, pc, target, draft, answer,
          asked, resolved, crashed>>
store == <<items, folders, deletedItems>>
caches == <<itemCache, folderCache, unnamed>>
field == <<request, pc, target, draft, answer>>

NewContent == [p \in Props |-> Unset]

Init ==
  /\ items = InitialItems
  /\ folders = InitialFolders
  /\ deletedItems \in SpecialFolders
  /\ itemCache = [i \in ItemIds |-> NotOpened]
  /\ folderCache = [f \in FolderIds |-> NotOpened]
  /\ unnamed = NotOpened
  /\ request = NoRequest
  /\ pc = "idle"
  /\ target = Absent
  /\ draft = NewContent
  /\ answer = Absent
  /\ asked = [i \in ItemIds |-> {}]
  /\ resolved = 0
  /\ crashed = FALSE
-----------------------------------------------------------------------------
(* What a request asks for. *)

Creates(r)  == r.field \in {"createItem", "createSubFolder"}
OfItem(r)   == r.field \in {"createItem", "modifyItem"}

\* A property input is a record [prop, value, type]; the title comes first.
SetProp(c, p, v) == [c EXCEPT ![p] = v]
WithProperties(c, properties) ==
  [p \in Props |->
     IF \E i \in DOMAIN properties : properties[i].prop = p
     THEN properties[CHOOSE i \in DOMAIN properties :
                       /\ properties[i].prop = p
                       /\ \A j \in DOMAIN properties : properties[j].prop = p => j <= i].value
     ELSE c[p]]

\* SetProps
WithSets(c, r) ==
  WithProperties(IF r.title = Absent THEN c ELSE SetProp(c, Title, r.title), r.properties)

\* DeleteProps
WithoutDeleted(c, r) == [p \in Props |-> IF p \in r.deleted THEN Unset ELSE c[p]]

SetCount(r) == (IF r.title = Absent THEN 0 ELSE 1) + Len(r.properties)

\* Whether there is anything to modify.
Changes(r) == r.deleted # {} \/ SetCount(r) > 0

Asked(r) ==
  {<<p, Unset>> : p \in r.deleted} \cup {<<p, WithSets(NewContent, r)[p]>> :
     p \in {q \in Props : WithSets(NewContent, r)[q] # Unset}}
-----------------------------------------------------------------------------
(* How a field ends. *)

Answer(a) ==
  /\ answer' = a
  /\ pc' = "idle"
  /\ request' = NoRequest
  /\ target' = Absent
  /\ draft' = NewContent

\* Mutant of Throw: what the field was about is kept.
ThrowKeepingTarget ==
  /\ answer' = "error"
  /\ pc' = "idle"
  /\ request' = NoRequest
  /\ UNCHANGED <<target, draft>>

\* CORt, CFRt: the field is null, with an error.
Throw == Answer("error")

\* A null pointer is used.
Crash == crashed' = TRUE /\ UNCHANGED <<store, caches, field, asked, resolved>>

Goto(to) == pc' = to /\ UNCHANGED <<request, target, answer>>

\* The next call of a field, when it is one of these.
At(at, fields) == ~crashed /\ pc = at /\ request.field \in fields

\* Argument<CreateItemInput>: a new item is unread if nothing is said of it.
CreateItemInput(r) == [r EXCEPT !.read = IF @ = Absent THEN FALSE ELSE @]

\* resolveMarkAsRead, resolveRemoveFolder and resolveDeleteItems have defaults.
MarkAsReadArguments(r) == [r EXCEPT !.read = IF @ = Absent THEN TRUE ELSE @]
DeleteArguments(r)     == [r EXCEPT !.hard = IF @ = Absent THEN FALSE ELSE @]

Arguments(r) ==
  CASE r.field = "createItem" -> CreateItemInput(r)
    [] r.field = "markAsRead" -> MarkAsReadArguments(r)
    [] r.field \in {"removeFolder", "deleteItems"} -> DeleteArguments(r)
    [] OTHER -> r

\* The resolver of the next field of the operation, up to its call of the method.
Resolve ==
  /\ ~crashed
  /\ pc = "idle"
  /\ resolved < MaxFields
  /\ \E r \in {Arguments(q) : q \in Requests} :
       /\ request' = r
       /\ asked' = IF r.field = "modifyItem" THEN [asked EXCEPT ![r.id] = @ \cup Asked(r)]
                                             ELSE asked
  /\ pc' = "open"
  /\ resolved' = resolved + 1
  /\ UNCHANGED <<store, caches, target, draft, answer, crashed>>
-----------------------------------------------------------------------------
(* Store::OpenFolder and OpenItem.                                         *)

\* The folder that OpenFolder returns.
Where(name) == IF name # NoId THEN name ELSE IF unnamed # NotOpened THEN unnamed ELSE RootFolder

\* The root is not looked up in the cache under the ID it has.
CanOpenFolder(name) ==
  IF name = NoId THEN unnamed # NotOpened \/ folders[RootFolder] # Gone
                 ELSE folderCache[name] # NotOpened \/ folders[name] # Gone

ParentOf(f) == IF folderCache[f] # NotOpened THEN folderCache[f] ELSE folders[f].parent

\* The folders `opened` are cached by their own IDs, where they are not already.
CacheFolders(opened) ==
  LET ids == (opened \ {NoId}) \cup {f \in {RootFolder} : NoId \in opened /\ unnamed = NotOpened}
  IN  /\ folderCache' = [f \in FolderIds |-> IF f \in ids THEN ParentOf(f) ELSE folderCache[f]]
      /\ UNCHANGED unnamed

\* One of the folders fs, opened in this order, or the call that follows fails.
OpenFails(fs) ==
  \E n \in 1..(Len(fs) + 1) :
    /\ \A m \in 1..(n - 1) : CanOpenFolder(fs[m])
    /\ MayFail \/ (n <= Len(fs) /\ ~CanOpenFolder(fs[n]))
    /\ CacheFolders({fs[m] : m \in 1..(n - 1)})
    /\ Throw
    /\ UNCHANGED <<store, itemCache>>

\* MAPI: the ID of a new message is none that a message has or had while it was opened.
FreshItems == {i \in ItemIds : items[i] = Gone /\ itemCache[i] = NotOpened}

\* Mutant of CreateMessage: saved before its properties are set.
CreateMessageSaved ==
  /\ folders[Where(request.folder)] # Gone
  /\ \E i \in FreshItems :
       /\ target' = i
       /\ items' = [items EXCEPT ![i] = [folder |-> Where(request.folder),
                                         content |-> NewContent, read |-> FALSE]]
  /\ draft' = NewContent
  /\ UNCHANGED <<folders, deletedItems>>

\* CreateMessage: nothing is in the folder before SaveChanges.
CreateMessage ==
  /\ folders[Where(request.folder)] # Gone
  /\ \E i \in FreshItems : target' = i
  /\ draft' = NewContent
  /\ UNCHANGED store

\* CreateFolder: an unnamed folder is there at once.
CreateFolder ==
  /\ folders[Where(request.folder)] # Gone
  /\ \E f \in {g \in FolderIds \ {unnamed} : folders[g] = Gone /\ folderCache[g] = NotOpened} :
       /\ target' = f
       /\ folders' = [folders EXCEPT ![f] = [parent |-> Where(request.folder), content |-> NewContent]]
  /\ UNCHANGED <<items, deletedItems, draft>>

Create ==
  /\ At("open", {"createItem", "createSubFolder"})
  /\ \/ OpenFails(<<request.folder>>)
     \/ /\ CanOpenFolder(request.folder)
        /\ CacheFolders({request.folder})
        /\ IF OfItem(request) THEN CreateMessage ELSE CreateFolder
        /\ pc' = "convert"
        /\ UNCHANGED <<itemCache, request, answer>>
  /\ UNCHANGED <<asked, resolved, crashed>>

\* OpenItem: the cached IMessage with what it has of earlier fields, or a new one.
OpenItem ==
  /\ At("open", {"modifyItem"})
  /\ LET i == request.id
         opened == IF itemCache[i] # NotOpened THEN itemCache[i] ELSE items[i].content
     IN  \/ /\ itemCache[i] = NotOpened /\ items[i] = Gone
            /\ Throw
            /\ UNCHANGED itemCache
         \/ /\ itemCache[i] # NotOpened \/ items[i] # Gone
            /\ itemCache' = [itemCache EXCEPT ![i] = opened]
            /\ target' = i
            /\ draft' = opened
            /\ pc' = "delete"
            /\ UNCHANGED <<request, answer>>
         \/ MayFail /\ Throw /\ UNCHANGED itemCache
  /\ UNCHANGED <<store, folderCache, unnamed, asked, resolved, crashed>>

OpenFolder ==
  /\ At("open", {"modifyFolder"})
  /\ \/ OpenFails(<<request.id>>)
     \/ /\ CanOpenFolder(request.id)
        /\ CacheFolders({request.id})
        /\ target' = Where(request.id)
        /\ pc' = "delete"
        /\ UNCHANGED <<store, itemCache, request, draft, answer>>
  /\ UNCHANGED <<asked, resolved, crashed>>
-----------------------------------------------------------------------------
(* IMAPIProp of the message or the folder.                                 *)

\* A message keeps a change to itself; a cached one keeps it after the field, too.
Change(content) ==
  IF OfItem(request)
  THEN /\ draft' = content
       /\ itemCache' = IF itemCache[target] # NotOpened
                       THEN [itemCache EXCEPT ![target] = content] ELSE itemCache
       /\ UNCHANGED store
  ELSE /\ folders[target] # Gone
       /\ folders' = [folders EXCEPT ![target].content = content]
       /\ UNCHANGED <<items, deletedItems, itemCache, draft>>

\* The folder has been removed since it was opened.
FolderGone == ~OfItem(request) /\ folders[target] = Gone

Current == IF OfItem(request) \/ folders[target] = Gone THEN draft ELSE folders[target].content

DeleteProps ==
  /\ At("delete", {"modifyItem", "modifyFolder"})
  /\ IF request.deleted = {}
     THEN Goto("convert") /\ UNCHANGED <<store, caches, draft>>
     ELSE \/ /\ Change(WithoutDeleted(Current, request))
             /\ Goto("convert")
             /\ UNCHANGED <<folderCache, unnamed>>
          \/ (MayFail \/ FolderGone) /\ Throw /\ UNCHANGED <<store, caches>>
  /\ UNCHANGED <<asked, resolved, crashed>>

\* A title is followed by CFRt(nextProp < count): it may not come alone, except in
\* createItem, where the read flag follows.
TitleAlone(r) == r.title # Absent /\ r.properties = <<>> /\ r.field # "createItem"

\* ConvertPropertyInputs stops at the first input it rejects.  For a time it uses the
\* Guid that is not there.
ConvertPropertyInputs(r) ==
  LET bad == {i \in DOMAIN r.properties : r.properties[i].type \in {"time", "stream", "none"}}
  IN  IF bad = {} THEN "done"
      ELSE IF r.properties[CHOOSE i \in bad : \A j \in bad : i <= j].type = "time"
           THEN "undefined" ELSE "throw"

Convert ==
  /\ At("convert", {"createItem", "createSubFolder", "modifyItem", "modifyFolder"})
  /\ LET outcome == ConvertPropertyInputs(request) IN
     \/ /\ TitleAlone(request) \/ outcome # "done" \/ MayFail
        /\ Throw
        /\ UNCHANGED <<store, caches, asked, resolved, crashed>>
     \/ ~TitleAlone(request) /\ outcome = "undefined" /\ Crash
     \/ /\ ~TitleAlone(request) /\ outcome = "done"
        /\ Goto(IF Creates(request) \/ SetCount(request) > 0 THEN "set" ELSE "save")
        /\ UNCHANGED <<store, caches, draft, asked, resolved, crashed>>

SetProps ==
  /\ At("set", {"createItem", "createSubFolder", "modifyItem", "modifyFolder"})
  /\ \/ Change(WithSets(Current, request)) /\ Goto("save") /\ UNCHANGED <<folderCache, unnamed>>
     \/ (MayFail \/ FolderGone) /\ Throw /\ UNCHANGED <<store, caches>>
  /\ UNCHANGED <<asked, resolved, crashed>>

\* The message as the store has it once SaveChanges has returned.
Saved ==
  IF request.field = "createItem"
  THEN [folder |-> Where(request.folder), content |-> draft, read |-> request.read]
  ELSE [items[target] EXCEPT !.content = draft]

SaveChanges ==
  /\ At("save", {"createItem", "createSubFolder", "modifyItem", "modifyFolder"})
  /\ LET needed == Creates(request) \/ Changes(request)
         there  == IF OfItem(request) THEN items[target] # Gone \/ Creates(request)
                                      ELSE folders[target] # Gone
     IN  \/ /\ there \/ ~needed
            /\ items' = IF OfItem(request) /\ needed THEN [items EXCEPT ![target] = Saved]
                                                     ELSE items
            /\ Goto(IF request.field = "modifyItem" THEN "read" ELSE "wrap")
            /\ UNCHANGED <<folders, deletedItems, caches, draft>>
         \/ needed /\ (MayFail \/ ~there) /\ Throw /\ UNCHANGED <<store, caches>>
  /\ UNCHANGED <<asked, resolved, crashed>>

\* `inputArg.read ? 0 : CLEAR_READ_FLAG`: read iff the optional argument is there.
SetReadFlag ==
  /\ At("read", {"modifyItem"})
  /\ \/ /\ items[target] # Gone
        /\ items' = [items EXCEPT ![target].read = (request.read # Absent)]
        /\ Goto("wrap")
        /\ UNCHANGED <<folders, deletedItems, caches, draft>>
     \/ (MayFail \/ items[target] = Gone) /\ Throw /\ UNCHANGED <<store, caches>>
  /\ UNCHANGED <<asked, resolved, crashed>>

\* A created object takes the properties that were set for the columns its
\* constructor knows by index.
Columns(r) ==
  (IF r.field = "createItem" THEN <<"string", "integer">> \o r.extras ELSE <<"string">>)
    \o [i \in DOMAIN r.properties |-> r.properties[i].type]

Constructs(r) ==
  LET columns == Columns(r) IN
  IF r.field = "createItem"
  THEN Len(columns) >= 11 /\ columns[9] = "time" /\ columns[10] = "time"
  ELSE Len(columns) >= 6

\* The answer is the object.  A created Folder is cached under its second column, where
\* Folder looks for an ID: the first property.  Unless that is binary, the ID is empty.
\* (Binary, it is an ID of the client's own making, which no field is asked for here.)
\* CacheItem is not reached: to be constructed, an Item has to be given times, see Convert.
CacheFolder ==
  unnamed' = IF request.field = "createSubFolder" /\ unnamed = NotOpened THEN target ELSE unnamed

Wrap ==
  /\ At("wrap", {"createItem", "createSubFolder", "modifyItem", "modifyFolder"})
  /\ IF Creates(request) /\ ~Constructs(request)
     THEN Throw /\ UNCHANGED unnamed
     ELSE Answer("object") /\ CacheFolder
  /\ UNCHANGED <<store, itemCache, folderCache, asked, resolved, crashed>>

Resolving(name) == pc # "idle" /\ request.field = name

applyCreateItem ==
  Resolving("createItem") /\ (Create \/ Convert \/ SetProps \/ SaveChanges \/ Wrap)

applyCreateSubFolder ==
  Resolving("createSubFolder") /\ (Create \/ Convert \/ SetProps \/ SaveChanges \/ Wrap)

applyModifyItem ==
  /\ Resolving("modifyItem")
  /\ OpenItem \/ DeleteProps \/ Convert \/ SetProps \/ SaveChanges \/ SetReadFlag \/ Wrap

applyModifyFolder ==
  /\ Resolving("modifyFolder")
  /\ OpenFolder \/ DeleteProps \/ Convert \/ SetProps \/ SaveChanges \/ Wrap
-----------------------------------------------------------------------------
(* Several messages at once: one MAPI call, which may do a part of the work and *)
(* say so, MAPI_W_PARTIAL_COMPLETION.                                           *)

\* Mutant of BulkAnswer: FAILED(result) alone makes the difference.
BulkAnswerSucceeded(complete) == Answer("true")

BulkAnswer(complete) == Answer(IF complete THEN "true" ELSE "false")

\* The named messages that are in the folder.
Named(r) == {i \in r.items : items[i] # Gone /\ items[i].folder = Where(r.folder)}

\* opened: the folders the field opens; those in `used` must be there for the call.
BulkThrows(opened, used) ==
  \/ OpenFails(opened)
  \/ /\ \A n \in DOMAIN opened : CanOpenFolder(opened[n])
     /\ \E name \in used : folders[Where(name)] = Gone
     /\ CacheFolders({opened[n] : n \in DOMAIN opened})
     /\ Throw
     /\ UNCHANGED <<store, itemCache>>

\* The call does what it is to do for the messages in `done`.
Bulk(opened, used, done) ==
  /\ \A n \in DOMAIN opened : CanOpenFolder(opened[n])
  /\ \A name \in used : folders[Where(name)] # Gone
  /\ MayFail \/ done = Named(request)
  /\ CacheFolders({opened[n] : n \in DOMAIN opened})
  /\ BulkAnswer(done = request.items)
  /\ UNCHANGED <<folders, deletedItems, itemCache>>

Moved(done, destination) ==
  items' = [i \in ItemIds |-> IF i \in done THEN [items[i] EXCEPT !.folder = destination]
                                            ELSE items[i]]

\* Bound: a copy is made only while there are IDs for the copies.
Copied(done, destination) ==
  \E original \in UNION {[S -> done] : S \in SUBSET FreshItems} :
    /\ Cardinality(DOMAIN original) = Cardinality(done)
    /\ {original[i] : i \in DOMAIN original} = done
    /\ items' = [i \in ItemIds |-> IF i \in DOMAIN original
                                   THEN [items[original[i]] EXCEPT !.folder = destination]
                                   ELSE items[i]]

CopyItems(fields, first, destination, moveItems) ==
  /\ At("open", fields)
  /\ LET opened == first \o <<request.folder, destination>>
         used   == {request.folder, destination}
     IN  \/ BulkThrows(opened, used)
         \/ \E done \in SUBSET Named(request) :
              /\ Bulk(opened, used, done)
              /\ IF moveItems THEN Moved(done, Where(destination))
                              ELSE Copied(done, Where(destination))
  /\ UNCHANGED <<asked, resolved, crashed>>

applyCopyItems == pc = "open" /\ CopyItems({"copyItems"}, <<>>, request.destination, FALSE)

applyMoveItems == pc = "open" /\ CopyItems({"moveItems"}, <<>>, request.destination, TRUE)

applyMarkAsRead ==
  /\ At("open", {"markAsRead"})
  /\ \/ BulkThrows(<<request.folder>>, {request.folder})
     \/ \E done \in SUBSET Named(request) :
          /\ Bulk(<<request.folder>>, {request.folder}, done)
          /\ items' = [i \in ItemIds |-> IF i \in done THEN [items[i] EXCEPT !.read = request.read]
                                                       ELSE items[i]]
  /\ UNCHANGED <<asked, resolved, crashed>>

DeleteHard ==
  \/ BulkThrows(<<request.folder>>, {request.folder})
  \/ \E done \in SUBSET Named(request) :
       /\ Bulk(<<request.folder>>, {request.folder}, done)
       /\ items' = [i \in ItemIds |-> IF i \in done THEN Gone ELSE items[i]]

\* Moved to Deleted Items, or deleted for good.
applyDeleteItems ==
  /\ At("open", {"deleteItems"})
  /\ \/ ~request.hard /\ deletedItems # NoFolder
        /\ CopyItems({"deleteItems"}, <<deletedItems>>, deletedItems, TRUE)
     \/ ~request.hard /\ deletedItems = NoFolder
        /\ Throw
        /\ UNCHANGED <<store, caches, asked, resolved, crashed>>
     \/ request.hard /\ DeleteHard /\ UNCHANGED <<asked, resolved, crashed>>

\* f, and the folders in it, up to three deep.
Below(f) ==
  LET In(fs) == fs \cup {g \in FolderIds : folders[g] # Gone /\ folders[g].parent \in fs}
  IN  In(In(In({f})))

\* The folder to remove, and what its parent was when it was opened.
Removable(f) == folders[f] # Gone /\ folders[f].parent = ParentOf(f) /\ folders[ParentOf(f)] # Gone

RemoveHard(f) ==
  \/ /\ folders' = [g \in FolderIds |-> IF g \in Below(f) THEN Gone ELSE folders[g]]
     /\ items' = [i \in ItemIds |->
                    IF items[i] # Gone /\ items[i].folder \in Below(f) THEN Gone ELSE items[i]]
     /\ BulkAnswer(TRUE)
  \/ /\ MayFail
     /\ \E left \in SUBSET {i \in ItemIds : items[i] # Gone /\ items[i].folder = f} :
          items' = [i \in ItemIds |-> IF items[i] # Gone /\ items[i].folder = f /\ i \notin left
                                     THEN Gone ELSE items[i]]
     /\ BulkAnswer(FALSE)
     /\ UNCHANGED folders

RemoveSoft(f) ==
  /\ UNCHANGED items
  /\ \/ /\ folders' = [folders EXCEPT ![f].parent = deletedItems]
        /\ BulkAnswer(TRUE)
     \/ MayFail /\ BulkAnswer(FALSE) /\ UNCHANGED folders

\* Without Deleted Items targetFolder is null, and not checked.  The root has no parent.
applyRemoveFolder ==
  /\ At("open", {"removeFolder"})
  /\ LET f      == request.id
         parent == IF CanOpenFolder(f) /\ ParentOf(f) # f THEN <<ParentOf(f)>> ELSE <<>>
         moves  == ~request.hard /\ deletedItems # NoFolder
         opened == <<f>> \o parent \o (IF parent # <<>> /\ moves THEN <<deletedItems>> ELSE <<>>)
         ready  == \A n \in DOMAIN opened : CanOpenFolder(opened[n])
         able   == parent # <<>> /\ Removable(f)
                     /\ (moves => folders[deletedItems] # Gone /\ deletedItems \notin Below(f))
     IN  \/ OpenFails(opened) /\ UNCHANGED <<asked, resolved, crashed>>
         \/ ready /\ parent # <<>> /\ ~request.hard /\ deletedItems = NoFolder /\ Crash
         \/ /\ ready /\ (parent = <<>> \/ request.hard \/ moves)
            /\ CacheFolders({opened[n] : n \in DOMAIN opened})
            /\ \/ ~able /\ Throw /\ UNCHANGED <<items, folders>>
               \/ able /\ request.hard /\ RemoveHard(f)
               \/ able /\ moves /\ RemoveSoft(f)
            /\ UNCHANGED <<deletedItems, itemCache, asked, resolved, crashed>>
-----------------------------------------------------------------------------
\* Mutant of endSelectionSet: the messages stay in the cache.
endSelectionSetOfFolders ==
  /\ ~crashed
  /\ pc = "idle"
  /\ folderCache' = [f \in FolderIds |-> NotOpened]
  /\ unnamed' = NotOpened
  /\ asked' = [i \in ItemIds |-> {}]
  /\ UNCHANGED <<store, itemCache, field, resolved, crashed>>

\* The operation is over: what the cached messages have not saved is forgotten.
endSelectionSet ==
  /\ ~crashed
  /\ pc = "idle"
  /\ itemCache' = [i \in ItemIds |-> NotOpened]
  /\ folderCache' = [f \in FolderIds |-> NotOpened]
  /\ unnamed' = NotOpened
  /\ asked' = [i \in ItemIds |-> {}]
  /\ UNCHANGED <<store, field, resolved, crashed>>

Next ==
  \/ Resolve
  \/ applyCreateItem \/ applyCreateSubFolder \/ applyModifyItem \/ applyModifyFolder
  \/ applyRemoveFolder \/ applyMarkAsRead
  \/ applyCopyItems \/ applyMoveItems \/ applyDeleteItems
  \/ endSelectionSet

Spec == Init /\ [][Next]_vars
-----------------------------------------------------------------------------
(* Properties *)

\* Types; between fields nothing is left of the last one but the caches; a message in
\* the making is in no cache.
TypeOK ==
  /\ items \in [ItemIds -> Messages \cup {Gone}]
  /\ folders \in [FolderIds -> FolderObjects \cup {Gone}]
  /\ deletedItems \in SpecialFolders
  /\ itemCache \in [ItemIds -> Contents \cup {NotOpened}]
  /\ folderCache \in [FolderIds -> FolderIds \cup {NotOpened}]
  /\ unnamed \in FolderIds \cup {NotOpened}
  /\ pc \in {"idle", "open", "delete", "convert", "set", "save", "read", "wrap"}
  /\ pc = "idle" <=> request = NoRequest
  /\ pc \in {"idle", "open"} => target = Absent /\ draft = NewContent
  /\ pc \notin {"idle", "open"} => target \in ItemIds \cup FolderIds
  /\ draft \in Contents
  /\ answer \in {Absent, "error", "object", "true", "false"}
  /\ \A i \in ItemIds : asked[i] \subseteq Props \X (Values \cup {Unset})
  /\ resolved \in 0..MaxFields
  /\ crashed \in BOOLEAN

\* The folder a field means by a name.
Meant(name) == IF name = NoId THEN RootFolder ELSE name

\* What a field that did not fail was to bring about.  Of `read` of modifyItem only what
\* the code gives: an item is marked read if the client asks for it.  One it asks to be
\* marked unread is marked read, and one it says nothing of is marked unread, see
\* SetReadFlag.
Done(r) ==
  CASE r.field = "modifyItem" ->
         /\ items[r.id] # Gone
         /\ items[r.id].content = WithSets(WithoutDeleted(items[r.id].content, r), r)
         /\ r.read = TRUE => items[r.id].read
    [] r.field = "modifyFolder" ->
         LET f == folders[Meant(r.id)]
         IN  Changes(r) => f # Gone /\ f.content = WithSets(WithoutDeleted(f.content, r), r)
    [] r.field = "createItem" ->
         \E i \in ItemIds : items[i] # Gone /\ items[i].folder = Meant(r.folder)
                            /\ items[i].content = WithSets(NewContent, r)
    [] r.field = "createSubFolder" ->
         \E f \in FolderIds : folders[f] # Gone /\ folders[f].parent = Meant(r.folder)
                              /\ folders[f].content = WithSets(NewContent, r)
    [] r.field = "copyItems" ->
         \A i \in r.items : \E j \in ItemIds :
           items[j] # Gone /\ items[j] = [items[i] EXCEPT !.folder = Meant(r.destination)]
    [] r.field = "moveItems" ->
         \A i \in r.items : items[i] # Gone /\ items[i].folder = Meant(r.destination)
    [] r.field = "markAsRead" -> \A i \in r.items : items[i] # Gone /\ items[i].read = r.read
    [] r.field = "deleteItems" ->
         \A i \in r.items : IF r.hard THEN items[i] = Gone
                             ELSE items[i] # Gone /\ items[i].folder = deletedItems
    [] r.field = "removeFolder" ->
         IF r.hard THEN folders[r.id] = Gone
         ELSE folders[r.id] # Gone /\ folders[r.id].parent = deletedItems

\* Whether the names a field uses have their meaning: the empty ID has not, once a
\* created folder of the operation is cached under it.
Means(r) == unnamed = NotOpened \/ NoId \notin {r.id, r.folder, r.destination}

\* A field that answers with an object or with true has done what Done says it was asked
\* to, whatever calls failed or did a part, and whatever earlier fields left in the
\* caches, but for the empty ID.
AnsweredIsDone ==
  [][\A r \in {Arguments(q) : q \in Requests} :
       (request = r /\ pc # "idle" /\ pc' = "idle" /\ answer' \in {"object", "true"} /\ Means(r))
         => Done(r)']_vars

\* SaveChanges commits all that a cached message has gathered, also from fields that
\* failed before they saved.  It is nothing but what fields of this operation asked.
CommittedWasAsked ==
  [][\A i \in ItemIds : (items[i] # Gone /\ items'[i] # Gone) =>
       \A p \in Props : items'[i].content[p] # items[i].content[p] =>
         <<p, items'[i].content[p]>> \in asked[i]]_vars

\* No message is in a folder without the properties it was to be created with.
CreatedWhole ==
  [][\A i \in ItemIds :
       (items[i] = Gone /\ items'[i] # Gone /\ request.field = "createItem") =>
         /\ items'[i].content = WithSets(NewContent, request)
         /\ items'[i].read = request.read]_vars
=============================================================================
