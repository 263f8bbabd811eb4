------------------------------- MODULE Store -------------------------------
(***************************************************************************)
(* Opening a store, its special folders, its folders and its items         *)
(* (Store.cpp, Folder.cpp, Item.cpp).                                      *)
(*                                                                         *)
(* OpenStore assigns one member after the other and may throw between any  *)
(* two of them; it starts with an early return when the first of them is   *)
(* set.  LoadSpecialFolders assigns an empty map before it opens the store *)
(* and fills the map afterwards.  So a call that failed leaves a store     *)
(* that later calls take for whole.                                        *)
(*                                                                         *)
(* Calls come one at a time: the fields of one Store wrapper exclude each  *)
(* other by its mutex.  MAPI's side is `mailbox`: which entry IDs the      *)
(* properties of the store, the Inbox and the IPM subtree give.            *)
(***************************************************************************)
EXTENDS Integers, SequencesExt

CONSTANTS
  StoreKinds,   \* special folders named by the store: DELETED, OUTBOX, SENT
  FolderKinds,  \* named by the Inbox or the IPM subtree: CALENDAR, CONTACTS ...
  Inbox,        \* the kind INBOX
  OtherKinds,   \* kinds no property gives: SPAM
  Plain,        \* the sub-folders of the root that are not special
  Items,        \* messages, all of them in the first of the Plain folders
  Mailboxes,    \* the mailboxes considered
  Faults,       \* which MAPI calls may fail
  NotLoaded, Null, NoKind,
  MaxCalls      \* bound: how many fields are resolved

Kinds  == StoreKinds \cup FolderKinds \cup OtherKinds \cup {Inbox}
Places == {"store", "inbox", "subtree"}

ASSUME KindsAssumption ==
  /\ StoreKinds \cap FolderKinds = {} /\ Inbox \notin StoreKinds \cup FolderKinds
  /\ OtherKinds \cap (StoreKinds \cup FolderKinds \cup {Inbox}) = {}
  /\ NoKind \notin Kinds
ASSUME MailboxesAssumption ==
  \A m \in Mailboxes :
    /\ m.subtree \in BOOLEAN /\ m.inbox \in BOOLEAN
    /\ m.names \in [Places -> SUBSET Kinds]
    /\ m.names["store"] \subseteq StoreKinds
    /\ m.names["inbox"] \cup m.names["subtree"] \subseteq FolderKinds
ASSUME FaultsAssumption == Faults \subseteq {"open", "entry", "compare", "table", "time"}
ASSUME PlainAssumption == IsFiniteSet(Plain) /\ (Items = {} \/ Plain # {})
ASSUME MaxCallsAssumption == MaxCalls \in Nat

(***************************************************************************)
(* Entry IDs: of the root (the IPM subtree) and the folder above it, of    *)
(* the special folders, as `place` names them, and of the other folders.   *)
(***************************************************************************)
Empty == <<>>
Root  == <<"root">>
Above == <<"above">>
New   == <<"new">>       \* a folder createSubFolder has made
At(place, kind) == <<place, kind>>
PlainIds   == {<<"plain", p>> : p \in Plain}
SpecialIds == {At(place, kind) : place \in Places, kind \in Kinds}
FolderIds  == {Empty, Root, Above, New} \cup SpecialIds \cup PlainIds

\* MAPI: the parent of a folder, as its columns give it.  The folder above the
\* root is its own parent, and a folder just made has no columns.
ParentOf(id) == CASE id \in {Root, Above} -> Above [] id = Empty -> Empty [] OTHER -> Root
Home == CHOOSE id \in PlainIds : TRUE   \* where the Items are

\* The objects of Folder: their ID, the folder of the mailbox they stand for, and
\* whether m_folder is set.
FolderObjects == [id : FolderIds, is : FolderIds, kind : Kinds \cup {NoKind}, opened : BOOLEAN]

ASSUME MarksAssumption ==
  /\ NotLoaded # <<>> /\ \A S \in SUBSET Kinds : NotLoaded \notin [S -> SpecialIds]
  /\ Kinds \cap FolderIds = {} /\ Null \notin FolderObjects

VARIABLES
  mailbox,  \* what MAPI says of this store (external)
  reached,  \* how many of OpenSteps are done
  special,  \* m_specialFolders
  folders,  \* m_folderCache
  items,    \* m_itemCache
  call,     \* the field that is being resolved
  answer,   \* the folders it has answered with
  asked,    \* what it was asked for: kinds, or IDs (of no variable of the program)
  calls,    \* how many fields were resolved
  failed,   \* a MAPI call has failed (of no variable of the program)
  crashed   \* how the process has ended

vars == <<mailbox, reached, special, folders, items, call, answer, asked, calls, failed, crashed>>

\* The members OpenStore assigns, in this order.
OpenSteps == <<"m_store", "m_storeProps", "m_rootId", "m_ipmSubtree", "m_ipmSubtreeProps",
               "m_eidInboxId", "m_inboxProps">>
Has(n, member) == \E i \in 1..n : OpenSteps[i] = member
Whole == IF mailbox.inbox THEN Len(OpenSteps) ELSE 5

\* at: what is done next; for: the field; todo: the kinds still to be looked
\* up; wanted: the ID being opened.
Idle == [at |-> "idle", for |-> "none", todo |-> <<>>, wanted |-> Empty]
Crashes == {"no", "null pointer", "terminate", "null folder"}

Init ==
  /\ mailbox \in Mailboxes
  /\ reached = 0 /\ special = NotLoaded
  /\ folders = <<>> /\ items = {}
  /\ call = Idle /\ answer = <<>> /\ asked = <<>> /\ calls = 0
  /\ failed = FALSE /\ crashed = "no"
-----------------------------------------------------------------------------
(***************************************************************************)
(* Opening the store.  GetReceiveFolder alone may fail without a throw:    *)
(* the store is then taken to have no Inbox.                               *)
(***************************************************************************)
OpenStoreFails ==
  /\ "open" \in Faults
  /\ failed' = TRUE
  /\ reached' \in 0..(IF mailbox.subtree THEN Whole ELSE 2)

OpenStore(result) ==
  \/ reached > 0 /\ result = "ok" /\ UNCHANGED <<reached, failed>>
  \/ /\ reached = 0 /\ mailbox.subtree /\ result = "ok"
     /\ reached' = Whole /\ UNCHANGED failed
  \/ /\ reached = 0 /\ mailbox.subtree /\ mailbox.inbox /\ result = "ok"
     /\ "open" \in Faults /\ reached' = 5 /\ failed' = TRUE
  \/ /\ reached = 0 /\ ~mailbox.subtree /\ result = "throw"
     /\ reached' = 2 /\ UNCHANGED failed
  \/ reached = 0 /\ result = "throw" /\ OpenStoreFails

\* map::insert keeps the entries there are.
Inserted(map, entries) ==
  [k \in DOMAIN map \cup DOMAIN entries |-> IF k \in DOMAIN map THEN map[k] ELSE entries[k]]

\* Adds the kinds that a set of properties gives and the map lacks.
FillIn(place, kinds, idMap) ==
  Inserted(idMap, [k \in mailbox.names[place] \cap kinds |-> At(place, k)])
FillInInbox(idMap) == Inserted([k \in {Inbox} |-> At("inbox", k)], idMap)
FillInStoreProps(idMap)         == FillIn("store", StoreKinds, idMap)
FillInFolderProps(place, idMap) == FillIn(place, FolderKinds, idMap)

\* mutant: the IPM subtree is asked before the Inbox.
SpecialFolderMapSubtreeFirst(n) ==
  LET fromTree == FillInFolderProps("subtree", FillInStoreProps(<<>>))
  IN  IF Has(n, "m_inboxProps")
      THEN FillInFolderProps("inbox", FillInInbox(fromTree))
      ELSE fromTree

SpecialFolderMap(n) ==
  LET fromStore == FillInStoreProps(<<>>)
      fromInbox == IF Has(n, "m_inboxProps")
                   THEN FillInFolderProps("inbox", FillInInbox(fromStore))
                   ELSE fromStore
  IN  FillInFolderProps("subtree", fromInbox)

\* mutant: the store is taken to be open.
LoadSpecialFoldersUnopened(result) ==
  \/ special # NotLoaded /\ result = "ok" /\ UNCHANGED <<special, reached, failed>>
  \/ /\ special = NotLoaded
     /\ IF Has(reached, "m_ipmSubtreeProps")
        THEN result = "ok" /\ special' = SpecialFolderMap(reached)
        ELSE result = "null pointer" /\ special' = <<>>
     /\ UNCHANGED <<reached, failed>>

\* Only a store without an IPM subtree, or without properties, is caught
\* before a property that is not there is read.
LoadSpecialFolders(result) ==
  \/ special # NotLoaded /\ result = "ok" /\ UNCHANGED <<special, reached, failed>>
  \/ /\ special = NotLoaded
     /\ \E opened \in {"ok", "throw"} :
          /\ OpenStore(opened)
          /\ \/ /\ opened = "throw" /\ result = "throw"
                /\ special' = <<>>
             \/ /\ opened = "ok" /\ Has(reached', "m_storeProps") /\ ~mailbox.subtree
                /\ result = "throw" /\ special' = <<>>
             \/ /\ opened = "ok" /\ ~Has(reached', "m_ipmSubtreeProps")
                /\ Has(reached', "m_storeProps") => mailbox.subtree
                /\ result = "null pointer" /\ special' = <<>>
             \/ /\ opened = "ok" /\ Has(reached', "m_ipmSubtreeProps")
                /\ result = "ok" /\ special' = SpecialFolderMap(reached')

-----------------------------------------------------------------------------
(* How a field ends. *)

Ends == call' = Idle
Crash(how) == crashed' = how /\ Ends

\* An exception reaches the service, unless it leaves the noexcept lambda of
\* getSpecialFolders.
Throws ==
  /\ answer' = <<>> /\ Ends
  /\ crashed' = IF call.for = "specialFolders" /\ call.at # "kinds" THEN "terminate" ELSE "no"

Answers(folder) ==
  /\ answer' = Append(answer, folder)
  /\ call' = IF call.for = "specialFolders" THEN [call EXCEPT !.at = "lookup"] ELSE Idle
  /\ UNCHANGED crashed

Fails(result) == \/ result = "throw" /\ Throws
                 \/ result = "null pointer" /\ Crash("null pointer") /\ UNCHANGED answer
-----------------------------------------------------------------------------
(* The fields. *)

\* CacheFolder keeps what is there.
CacheFolder(folder) == folders' = Inserted(folders, [id \in {folder.id} |-> folder])

Begin(field, at, todo, wanted) ==
  /\ call.at = "idle" /\ crashed = "no" /\ calls < MaxCalls
  /\ calls' = calls + 1
  /\ call' = [at |-> at, for |-> field, todo |-> todo, wanted |-> wanted]
  /\ UNCHANGED <<mailbox, reached, special, folders, items, failed, crashed>>

getSpecialFolders(kinds) ==
  Begin("specialFolders", "kinds", kinds, Empty) /\ asked' = kinds /\ answer' = <<>>
getRootFolders           ==
  Begin("rootFolders", "rows", <<>>, Empty) /\ asked' = <<>> /\ answer' = <<>>
getFolderProperties(id)  ==
  Begin("folderProperties", "open", <<>>, id) /\ asked' = <<id>> /\ answer' = <<>>
getItemProperties(i)     ==
  Begin("itemProperties", "item", <<>>, i) /\ asked' = <<>> /\ answer' = <<>>

Known == {answer[i] : i \in DOMAIN answer} \ {Null}

\* Folder::getParentFolder of a folder that was answered.
getParentFolder(folder) ==
  LET parent == ParentOf(folder.id)
  IN  /\ folder \in Known
      /\ asked' = <<parent>>
      /\ IF parent = folder.id
         THEN Begin("parentFolder", "idle", <<>>, Empty) /\ answer' = <<Null>>
         ELSE Begin("parentFolder", "open", <<>>, parent) /\ answer' = <<>>

\* Item::getParentFolder of an item that was opened.
getParentOfItem(i) ==
  i \in items /\ Begin("parentFolder", "open", <<>>, Home) /\ asked' = <<Home>> /\ answer' = <<>>

\* Mutation::applyCreateSubFolder in a folder opened before.  The new object
\* takes the properties of the input for its columns: it has no ID, and is
\* cached without one.
createSubFolder ==
  /\ call.at = "idle" /\ crashed = "no" /\ calls < MaxCalls /\ folders # <<>>
  /\ calls' = calls + 1
  /\ LET created == [id |-> Empty, is |-> New, kind |-> NoKind, opened |-> TRUE]
     IN  /\ CacheFolder(created)
         /\ answer' = <<created>> /\ asked' = <<New>>
  /\ UNCHANGED <<mailbox, reached, special, items, call, failed, crashed>>

\* Query::endSelectionSet clears the caches; the client is done with the answers.
endSelectionSet ==
  /\ call.at = "idle" /\ crashed = "no" /\ answer # <<>>
  /\ folders' = <<>> /\ items' = {}
  /\ answer' = <<>> /\ asked' = <<>>
  /\ UNCHANGED <<mailbox, reached, special, call, calls, failed, crashed>>

\* The client selects a field of a folder that was answered as missing: the
\* wrapper calls through its null pointer.
selectMissing ==
  /\ call.at = "idle" /\ crashed = "no"
  /\ \E i \in DOMAIN answer : answer[i] = Null
  /\ Crash("null folder")
  /\ UNCHANGED <<mailbox, reached, special, folders, items, answer, asked, calls, failed>>

\* The first step of getSpecialFolders.
LoadKinds ==
  /\ call.at = "kinds"
  /\ \E result \in {"ok", "throw", "null pointer"} :
       /\ LoadSpecialFolders(result)
       /\ \/ result = "ok" /\ call' = [call EXCEPT !.at = "lookup"] /\ UNCHANGED <<answer, crashed>>
          \/ Fails(result)
  /\ UNCHANGED <<mailbox, folders, items, asked, calls>>

lookupSpecialFolder ==
  /\ call.at = "lookup" /\ call.todo # <<>>
  /\ LET kind == Head(call.todo)
         rest == [call EXCEPT !.todo = Tail(@)]
     IN  IF kind \in DOMAIN special
         THEN call' = [rest EXCEPT !.at = "open", !.wanted = special[kind]] /\ UNCHANGED answer
         ELSE call' = rest /\ answer' = Append(answer, Null)
  /\ UNCHANGED <<mailbox, reached, special, folders, items, asked, calls, failed, crashed>>

EndLookups ==
  /\ call.at = "lookup" /\ call.todo = <<>>
  /\ Ends
  /\ UNCHANGED <<mailbox, reached, special, folders, items, answer, asked, calls, failed, crashed>>
-----------------------------------------------------------------------------
(***************************************************************************)
(* Opening a folder.  An empty ID stands for the root, whose ID is empty   *)
(* while OpenStore has not got to it; MAPI opens the folder above the root *)
(* for an empty ID.                                                        *)
(***************************************************************************)
\* mutant: the empty ID goes to MAPI as it is.
EntryOfAsItIs(id, n) == IF id # Empty THEN id ELSE Above

EntryOf(id, n) == IF id # Empty THEN id ELSE IF Has(n, "m_rootId") THEN Root ELSE Above

\* `is` is the folder of the mailbox, `opened` whether m_folder is set.
Object(id, kind, opened) == [id |-> id, is |-> id, kind |-> kind, opened |-> opened]

\* mutant: a comparison that succeeds counts as equal.
KindOfComparable(id, map, incomparable) ==
  LET same == DOMAIN map \ incomparable
  IN  IF same = {} THEN NoKind ELSE CHOOSE k \in same : TRUE

\* Folder::Folder compares the ID with those of the special folders, in order;
\* a comparison that fails counts as different.
KindOf(id, map, incomparable) ==
  LET same == {k \in DOMAIN map \ incomparable : map[k] = id}
  IN  IF same = {} THEN NoKind ELSE CHOOSE k \in same : TRUE

Incomparable == IF "compare" \in Faults THEN SUBSET DOMAIN special' ELSE {{}}

\* store()->OpenEntry and GetProps.  The call that has found the folder goes
\* on to its constructor with the ID the folder has.
OpenFolder ==
  /\ call.at = "open"
  /\ IF call.wanted \in DOMAIN folders
     THEN Answers(folders[call.wanted]) /\ UNCHANGED <<reached, failed>>
     ELSE \/ /\ OpenStore("ok")
             /\ call' = [call EXCEPT !.at = "construct", !.wanted = EntryOf(@, reached')]
             /\ UNCHANGED <<answer, crashed>>
          \/ OpenStore("throw") /\ Throws
  /\ UNCHANGED <<mailbox, special, folders, items, asked, calls>>

OpenEntryFails ==
  /\ "entry" \in Faults
  /\ \/ call.at = "open" /\ call.wanted \notin DOMAIN folders
     \/ call.at = "item" /\ call.wanted \notin items
  /\ OpenStore("ok")
  /\ Throws
  /\ UNCHANGED <<mailbox, special, folders, items, asked, calls>>

Construct ==
  /\ call.at = "construct"
  /\ \E result \in {"ok", "throw", "null pointer"} :
       /\ LoadSpecialFolders(result)
       /\ \/ /\ result = "ok"
             /\ \E incomparable \in Incomparable :
                  LET folder == Object(call.wanted, KindOf(call.wanted, special', incomparable), TRUE)
                  IN  CacheFolder(folder) /\ Answers(folder)
          \/ Fails(result) /\ UNCHANGED folders
  /\ UNCHANGED <<mailbox, items, asked, calls>>

\* LoadRootFolders.  The folders of rows are opened when they are asked for
\* more than their columns.
Rows == PlainIds \cup {At("inbox", Inbox)}

LoadRootFolders ==
  /\ call.at = "rows"
  /\ \E opened \in {"ok", "throw"} :
       /\ OpenStore(opened)
       /\ \/ opened = "ok" /\ call' = [call EXCEPT !.at = "table"] /\ UNCHANGED <<answer, crashed>>
          \/ opened = "throw" /\ Throws
  /\ UNCHANGED <<mailbox, special, folders, items, asked, calls>>

ReadTable ==
  /\ call.at = "table"
  /\ \E result \in {"ok", "throw", "null pointer"} :
       /\ LoadSpecialFolders(result)
       /\ \/ Fails(result) /\ UNCHANGED <<folders, asked>>
          \/ result = "ok" /\ "table" \in Faults /\ Throws /\ UNCHANGED <<folders, asked>>
          \/ /\ result = "ok" /\ ~Has(reached', "m_ipmSubtree")
             /\ Crash("null pointer") /\ UNCHANGED <<folders, answer, asked>>
          \/ /\ result = "ok" /\ Has(reached', "m_ipmSubtree")
             /\ LET row(id) == Object(id, KindOf(id, special', {}), FALSE)
                IN  /\ folders' = Inserted(folders, [id \in Rows |-> row(id)])
                    /\ asked' = SetToSeq(Rows)
                    /\ answer' = [i \in DOMAIN asked' |-> row(asked'[i])]
             /\ Ends /\ UNCHANGED crashed
  /\ UNCHANGED <<mailbox, items, calls>>

\* Item::Item throws unless the message has its two times.
OpenItem ==
  /\ call.at = "item"
  /\ IF call.wanted \in items
     THEN Ends /\ UNCHANGED <<reached, failed, items, answer, crashed>>
     ELSE \/ OpenStore("ok") /\ items' = items \cup {call.wanted} /\ Ends /\ UNCHANGED <<answer, crashed>>
          \/ OpenStore("ok") /\ "time" \in Faults /\ Throws /\ UNCHANGED items
          \/ OpenStore("throw") /\ Throws /\ UNCHANGED items
  /\ UNCHANGED <<mailbox, special, folders, asked, calls>>
-----------------------------------------------------------------------------
Requests == {kinds \in SeqOf(Kinds, 2) : kinds # <<>>}

Next ==
  \/ \E kinds \in Requests : getSpecialFolders(kinds)
  \/ getRootFolders
  \/ \E id \in {Empty} \cup PlainIds : getFolderProperties(id)
  \/ \E i \in Items : getItemProperties(i) \/ getParentOfItem(i)
  \/ \E folder \in Known : getParentFolder(folder)
  \/ createSubFolder \/ endSelectionSet \/ selectMissing
  \/ LoadKinds \/ lookupSpecialFolder \/ EndLookups
  \/ OpenFolder \/ OpenEntryFails \/ Construct
  \/ LoadRootFolders \/ ReadTable \/ OpenItem

Spec == Init /\ [][Next]_vars
-----------------------------------------------------------------------------
(* Properties. *)

\* The members keep their types; there are folders and items only of a store
\* that was opened, and folders only after the special folders were loaded.
TypeOK ==
  /\ mailbox \in Mailboxes
  /\ reached \in 0..Whole
  /\ special # NotLoaded => DOMAIN special \subseteq Kinds /\ \A k \in DOMAIN special : special[k] \in SpecialIds
  /\ DOMAIN folders \subseteq FolderIds /\ \A id \in DOMAIN folders : folders[id] \in FolderObjects
  /\ items \subseteq Items
  /\ folders # <<>> => special # NotLoaded
  /\ folders # <<>> \/ items # {} => reached > 0
  /\ crashed \in Crashes

\* Where a kind is named; an Inbox that is not there names none.
PlacesOf(k) == {place \in Places : k \in mailbox.names[place] /\ (place = "inbox" => mailbox.inbox)}

\* The folders the schema and the comment at Store.cpp:53 promise: three from
\* the store, the Inbox, and the others from the Inbox or else the IPM subtree.
DocumentedKinds ==
  {k \in Kinds : PlacesOf(k) # {}} \cup (IF mailbox.inbox THEN {Inbox} ELSE {})
Documented ==
  [k \in DocumentedKinds |->
     IF k \in StoreKinds THEN At("store", k)
     ELSE IF k = Inbox \/ "inbox" \in PlacesOf(k) THEN At("inbox", k) ELSE At("subtree", k)]

\* Nothing has gone wrong with this store so far.
Sound == ~failed /\ mailbox.subtree

\* As long as no MAPI call has failed, the special folders are those of the
\* mailbox, whichever field came first.
SpecialAsDocumented == special # NotLoaded /\ Sound => special = Documented

\* A null member is dereferenced only in a store that was not opened whole.
NullOnlyHalfOpen == TypeOK /\ (crashed = "null pointer" => ~Sound)

\* Every answer is the folder asked for, in its place in the list, and missing
\* only if the mailbox has no such folder; caches and cached rows make no
\* difference.  The folder createSubFolder makes is cached under the empty ID,
\* which is the root's, until the operation ends.
AnswersAreAsked ==
  Sound /\ crashed = "no" /\ Empty \notin DOMAIN folders =>
    \A i \in DOMAIN answer :
      IF asked[i] \in Kinds
      THEN IF asked[i] \in DOMAIN Documented
           THEN answer[i] # Null /\ answer[i].is = Documented[asked[i]]
           ELSE answer[i] = Null
      ELSE answer[i] # Null => answer[i].is = (IF asked[i] = Empty THEN Root ELSE asked[i])

\* A folder that says it is special is the one the store lists as such, whether
\* it was opened, a row of a list or looked up.
KindsAgree ==
  \A id \in DOMAIN folders : \A k \in Kinds :
    folders[id].kind = k => k \in DOMAIN special /\ special[k] = folders[id].is
=============================================================================
