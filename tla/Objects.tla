------------------------------ MODULE Objects ------------------------------
(***************************************************************************)
(* A selection as it walks down the objects: the types of the schema       *)
(* (schema/...Object.cpp), the classes that stand for them (Types.h) with  *)
(* what their getters answer, and who keeps the Store alive that folders   *)
(* and items have only a weak_ptr to.                                      *)
(*                                                                         *)
(* One walk goes from the root of an operation to one leaf.  What an       *)
(* answer holds is abstracted to its class and to whether there is an      *)
(* object in the wrapper object::T: a wrapper may be made of a null        *)
(* pointer.  Each step that selects from such a wrapper, or uses a Store   *)
(* that is gone, ends the process.  (__typename is answered without the    *)
(* object, and introspection is the library's.)                            *)
(***************************************************************************)
EXTENDS Naturals, FiniteSets
-----------------------------------------------------------------------------
(* The schema: what type each field declares. *)

Declared(type, list, null) == [type |-> type, list |-> list, null |-> null]

One(type)    == Declared(type, FALSE, FALSE)  \* T!
Maybe(type)  == Declared(type, FALSE, TRUE)   \* T
List(type)   == Declared(type, TRUE, FALSE)   \* [T!]!
Sparse(type) == Declared(type, TRUE, TRUE)    \* [T]!

QueryFields == [stores |-> List("Store")]

MutationFields ==
  [createItem |-> One("Item"), createSubFolder |-> One("Folder"), modifyItem |-> One("Item"),
   modifyFolder |-> One("Folder"), removeFolder |-> One("Boolean"), markAsRead |-> One("Boolean"),
   copyItems |-> One("Boolean"), moveItems |-> One("Boolean"), deleteItems |-> One("Boolean")]

SubscriptionFields ==
  [items |-> List("ItemChange"), subFolders |-> List("FolderChange"),
   rootFolders |-> List("FolderChange")]

StoreFields ==
  [id |-> One("ID"), name |-> One("String"), columns |-> Sparse("Property"),
   rootFolders |-> List("Folder"), specialFolders |-> Sparse("Folder"),
   folderProperties |-> Sparse("Property"), itemProperties |-> Sparse("Property")]

FolderFields ==
  [id |-> One("ID"), parentFolder |-> Maybe("Folder"), store |-> One("Store"),
   name |-> One("String"), count |-> One("Int"), unread |-> One("Int"),
   specialFolder |-> Maybe("SpecialFolder"), columns |-> Sparse("Property"),
   subFolders |-> List("Folder"), conversations |-> List("Conversation"), items |-> List("Item")]

ItemFields ==
  [id |-> One("ID"), parentFolder |-> One("Folder"), conversation |-> Maybe("Conversation"),
   subject |-> One("String"), sender |-> Maybe("String"), to |-> Maybe("String"),
   cc |-> Maybe("String"), body |-> Maybe("Stream"), read |-> One("Boolean"),
   received |-> Maybe("DateTime"), modified |-> Maybe("DateTime"), preview |-> Maybe("String"),
   columns |-> Sparse("Property"), attachments |-> List("Attachment")]

ConversationFields ==
  [id |-> One("ID"), subject |-> One("String"), count |-> One("Int"), unread |-> One("Int"),
   received |-> Maybe("DateTime"), items |-> List("Item")]

FileAttachmentFields ==
  [id |-> One("ID"), name |-> One("String"), contents |-> Maybe("Stream"),
   properties |-> Sparse("Property")]

PropertyFields == [id |-> One("PropId"), value |-> One("PropValue")]
NamedIdFields  == [propset |-> One("Guid"), id |-> One("NamedPropId")]
IntIdFields    == [id |-> One("Int")]
StringIdFields == [name |-> One("String")]

IntValueFields      == [value |-> One("Int")]
BoolValueFields     == [value |-> One("Boolean")]
StringValueFields   == [value |-> One("String")]
GuidValueFields     == [value |-> One("Guid")]
DateTimeValueFields == [value |-> One("DateTime")]
BinaryValueFields   == [value |-> One("ID")]
StreamValueFields   == [value |-> One("Stream")]

ItemAddedFields     == [index |-> One("Int"), added |-> One("Item")]
ItemUpdatedFields   == [index |-> One("Int"), updated |-> One("Item")]
ItemRemovedFields   == [index |-> One("Int"), removed |-> One("ID")]
ItemsReloadedFields == [reloaded |-> List("Item")]

FolderAddedFields     == [index |-> One("Int"), added |-> One("Folder")]
FolderUpdatedFields   == [index |-> One("Int"), updated |-> One("Folder")]
FolderRemovedFields   == [index |-> One("Int"), removed |-> One("ID")]
FoldersReloadedFields == [reloaded |-> List("Folder")]

ObjectTypes ==
  [Query |-> QueryFields, Mutation |-> MutationFields, Subscription |-> SubscriptionFields,
   Store |-> StoreFields, Folder |-> FolderFields, Item |-> ItemFields,
   Conversation |-> ConversationFields, FileAttachment |-> FileAttachmentFields,
   Property |-> PropertyFields, NamedId |-> NamedIdFields, IntId |-> IntIdFields,
   StringId |-> StringIdFields, IntValue |-> IntValueFields, BoolValue |-> BoolValueFields,
   StringValue |-> StringValueFields, GuidValue |-> GuidValueFields,
   DateTimeValue |-> DateTimeValueFields, BinaryValue |-> BinaryValueFields,
   StreamValue |-> StreamValueFields, ItemAdded |-> ItemAddedFields,
   ItemUpdated |-> ItemUpdatedFields, ItemRemoved |-> ItemRemovedFields,
   ItemsReloaded |-> ItemsReloadedFields, FolderAdded |-> FolderAddedFields,
   FolderUpdated |-> FolderUpdatedFields, FolderRemoved |-> FolderRemovedFields,
   FoldersReloaded |-> FoldersReloadedFields]

AttachmentTypes   == {"Item", "FileAttachment"}
PropIdTypes       == {"IntId", "NamedId"}
NamedPropIdTypes  == {"IntId", "StringId"}
PropValueTypes    == {"IntValue", "BoolValue", "StringValue", "GuidValue", "DateTimeValue",
                      "BinaryValue", "StreamValue"}
ItemChangeTypes   == {"ItemAdded", "ItemUpdated", "ItemRemoved", "ItemsReloaded"}
FolderChangeTypes == {"FolderAdded", "FolderUpdated", "FolderRemoved", "FoldersReloaded"}

Unions ==
  [Attachment |-> AttachmentTypes, PropId |-> PropIdTypes, NamedPropId |-> NamedPropIdTypes,
   PropValue |-> PropValueTypes, ItemChange |-> ItemChangeTypes,
   FolderChange |-> FolderChangeTypes]

Members(type) == IF type \in DOMAIN Unions THEN Unions[type] ELSE {type}
-----------------------------------------------------------------------------
(* The classes: what each getter may answer.  A getter is a set of         *)
(* alternatives, each with the entries it may answer, whether they are a   *)
(* list, and what it has to do with the Store of the object: it is unused, *)
(* it is used without a look whether it is gone, or the answer is this one *)
(* if the Store is alive, or if it is gone.                                *)

Wrapper(type)  == [type |-> type, there |-> TRUE]
Dangling(type) == [type |-> type, there |-> FALSE]
NullEntry      == [type |-> "null", there |-> FALSE]

Gives(entries, list, store) == [entries |-> entries, list |-> list, store |-> store]

Always(type)    == {Gives({Wrapper(type)}, FALSE, "unused")}
Never           == {Gives({NullEntry}, FALSE, "unused")}
Sometimes(type) == {Gives({Wrapper(type), NullEntry}, FALSE, "unused")}
Every(types)    == {Gives({Wrapper(type) : type \in types}, TRUE, "unused")}
Empty           == {Gives({}, TRUE, "unused")}

\* Rows of a table, or those asked for by ID: an unknown ID is a wrapper of nothing.
LookUps(type) == {Gives({Wrapper(type), Dangling(type)}, TRUE, "unused")}

\* The same of an object that has only a weak_ptr to its Store; a list that was loaded
\* before does not need it.
OwnLookUps(type) ==
  {Gives({Wrapper(type), Dangling(type)}, TRUE, store) : store \in {"unused", "used"}}

\* Columns of a row: the Store knows their names.
OwnColumns == {Gives({Wrapper("Property")}, TRUE, "used")}

\* Store::OpenFolder(m_parentId)
ParentFolder == {Gives({Wrapper("Folder")}, FALSE, "used")}

QueryGetters == [stores |-> LookUps("Store")]

MutationGetters ==
  [createItem |-> Always("Item"), createSubFolder |-> Always("Folder"),
   modifyItem |-> Always("Item"), modifyFolder |-> Always("Folder"),
   removeFolder |-> Always("Boolean"), markAsRead |-> Always("Boolean"),
   copyItems |-> Always("Boolean"), moveItems |-> Always("Boolean"),
   deleteItems |-> Always("Boolean")]

SubscriptionGetters == [items |-> Empty, subFolders |-> Empty, rootFolders |-> Empty]

ItemsSubscriptionGetters == [SubscriptionGetters EXCEPT !.items = Every(ItemChangeTypes)]
SubFoldersSubscriptionGetters ==
  [SubscriptionGetters EXCEPT !.subFolders = Every(FolderChangeTypes)]
RootFoldersSubscriptionGetters ==
  [SubscriptionGetters EXCEPT !.rootFolders = Every(FolderChangeTypes)]

StoreGetters ==
  [id |-> Always("ID"), name |-> Always("String"), columns |-> Every({"Property"}),
   rootFolders |-> LookUps("Folder"), specialFolders |-> LookUps("Folder"),
   folderProperties |-> Every({"Property"}), itemProperties |-> Every({"Property"})]

\* The root is its own parent, and its parentFolder is a wrapper of nothing; so is the
\* store of a folder whose Store is gone.
FolderGetters ==
  [id |-> Always("ID"),
   parentFolder |-> ParentFolder \cup {Gives({Dangling("Folder")}, FALSE, "unused")},
   store |-> {Gives({Wrapper("Store")}, FALSE, "alive"),
              Gives({Dangling("Store")}, FALSE, "gone")},
   name |-> Always("String"), count |-> Always("Int"), unread |-> Always("Int"),
   specialFolder |-> Sometimes("SpecialFolder"), columns |-> OwnColumns,
   subFolders |-> OwnLookUps("Folder"), conversations |-> Empty, items |-> OwnLookUps("Item")]

ItemGetters ==
  [id |-> Always("ID"), parentFolder |-> ParentFolder, conversation |-> Never,
   subject |-> Always("String"), sender |-> Always("String"), to |-> Always("String"),
   cc |-> Always("String"), body |-> Never, read |-> Always("Boolean"),
   received |-> Always("DateTime"), modified |-> Always("DateTime"),
   preview |-> Always("String"), columns |-> OwnColumns, attachments |-> Empty]

\* Mutant of PropertyGetters: the name of a named property stands for the property.
PropertyGettersUnnamed ==
  [id |-> Always("IntId") \cup Always("StringId"),
   value |-> (UNION {Always(type) : type \in PropValueTypes \ {"StreamValue"}}) \cup Never]

\* A type that is not implemented has no value.
PropertyGetters ==
  [id |-> Always("IntId") \cup Always("NamedId"),
   value |-> (UNION {Always(type) : type \in PropValueTypes \ {"StreamValue"}}) \cup Never]

NamedIdGetters  == [propset |-> Always("Guid"), id |-> Always("IntId") \cup Always("StringId")]
IntIdGetters    == [id |-> Always("Int")]
StringIdGetters == [name |-> Always("String")]

IntValueGetters      == [value |-> Always("Int")]
BoolValueGetters     == [value |-> Always("Boolean")]
StringValueGetters   == [value |-> Always("String")]
GuidValueGetters     == [value |-> Always("Guid")]
DateTimeValueGetters == [value |-> Always("DateTime")]
BinaryValueGetters   == [value |-> Always("ID")]

ItemAddedGetters     == [index |-> Always("Int"), added |-> Always("Item")]
ItemUpdatedGetters   == [index |-> Always("Int"), updated |-> Always("Item")]
ItemRemovedGetters   == [index |-> Always("Int"), removed |-> Always("ID")]
ItemsReloadedGetters == [reloaded |-> Every({"Item"})]

FolderAddedGetters     == [index |-> Always("Int"), added |-> Always("Folder")]
FolderUpdatedGetters   == [index |-> Always("Int"), updated |-> Always("Folder")]
FolderRemovedGetters   == [index |-> Always("Int"), removed |-> Always("ID")]
FoldersReloadedGetters == [reloaded |-> Every({"Folder"})]

\* Nobody implements Conversation, FileAttachment and StreamValue.
Classes ==
  [Query |-> QueryGetters, Mutation |-> MutationGetters, Subscription |-> SubscriptionGetters,
   ItemsSubscription |-> ItemsSubscriptionGetters,
   SubFoldersSubscription |-> SubFoldersSubscriptionGetters,
   RootFoldersSubscription |-> RootFoldersSubscriptionGetters,
   Store |-> StoreGetters, Folder |-> FolderGetters, Item |-> ItemGetters,
   Property |-> PropertyGetters, NamedId |-> NamedIdGetters, IntId |-> IntIdGetters,
   StringId |-> StringIdGetters, IntValue |-> IntValueGetters, BoolValue |-> BoolValueGetters,
   StringValue |-> StringValueGetters, GuidValue |-> GuidValueGetters,
   DateTimeValue |-> DateTimeValueGetters, BinaryValue |-> BinaryValueGetters,
   ItemAdded |-> ItemAddedGetters, ItemUpdated |-> ItemUpdatedGetters,
   ItemRemoved |-> ItemRemovedGetters, ItemsReloaded |-> ItemsReloadedGetters,
   FolderAdded |-> FolderAddedGetters, FolderUpdated |-> FolderUpdatedGetters,
   FolderRemoved |-> FolderRemovedGetters, FoldersReloaded |-> FoldersReloadedGetters]

\* The class that stands at the root of an operation: a subscription has Subscription
\* when it comes and goes, and the payload of its field when it is told of something.
RootClasses ==
  [query |-> {"Query"}, mutation |-> {"Mutation"},
   subscription |-> {"Subscription", "ItemsSubscription", "SubFoldersSubscription",
                     "RootFoldersSubscription"}]
-----------------------------------------------------------------------------
(* The walk. *)

VARIABLES
  root,      \* the class at the root
  at,        \* the wrapper reached, and the field that answered it
  answer,    \* to the field selected last
  inStores,  \* Query::m_stores has the Store
  inSink,    \* a TableSink has it
  onPath,    \* a wrapper on the way has it
  dead       \* the process has ended

walkVars == <<root, at, answer, inStores, inSink, onPath, dead>>

NoField  == <<"none", "none">>
NoAnswer == [to |-> NoField, entries |-> {}, list |-> FALSE]

Operations == DOMAIN RootClasses
RootsOf(operation) == RootClasses[operation]

\* The type of an object: the payloads stand for Subscription.
TypeOf(class) ==
  IF class \in RootsOf("subscription") THEN "Subscription" ELSE class

StoreAlive == inStores \/ inSink \/ onPath

\* Mutant of HoldsStore: a wrapper has a weak pointer, too.
HoldsStoreWeakly(entry) == FALSE

\* object::Store has a shared_ptr.
HoldsStore(entry) == entry = Wrapper("Store")

\* A getter answers one entry, or a list of them.
AnswersOf(getter) ==
  IF getter.list THEN SUBSET getter.entries ELSE {{entry} : entry \in getter.entries}

Objects(entries) == {entry \in entries : entry.type \in DOMAIN ObjectTypes}

\* Whatever operations went before have left the Store in both places; either may go
\* before the next begins.
WalkInit ==
  /\ root = "none" /\ at = [type |-> "none", there |-> FALSE, by |-> NoField]
  /\ answer = NoAnswer
  /\ inStores = TRUE /\ inSink = TRUE /\ onPath = FALSE
  /\ dead = FALSE

\* An operation begins, or the callback of a sink delivers a payload.
Begin(class) ==
  /\ root = "none"
  /\ root' = class
  /\ at' = [type |-> class, there |-> TRUE, by |-> NoField]
  /\ class \in RootsOf("subscription") \ {"Subscription"} => inSink
  /\ UNCHANGED <<answer, inStores, inSink, onPath, dead>>

Selectable(field) ==
  /\ ~dead /\ root # "none"
  /\ field \in DOMAIN ObjectTypes[TypeOf(at.type)]

\* The walk goes on in one of the objects answered, if there is one.
Descend(entries, field) ==
  IF Objects(entries) = {} THEN UNCHANGED <<at, onPath>>
  ELSE \E entry \in Objects(entries) :
         /\ at' = [type |-> entry.type, there |-> entry.there, by |-> field]
         /\ onPath' = (onPath \/ HoldsStore(entry))

\* The getters of Query and Mutation load the stores.
Select(field) ==
  /\ Selectable(field) /\ at.there
  /\ inStores' = (inStores \/ at.type \in {"Query", "Mutation"})
  /\ \E getter \in Classes[at.type][field] :
       /\ getter.store \in {"used", "alive"} => StoreAlive
       /\ getter.store = "gone" => ~StoreAlive
       /\ \E entries \in AnswersOf(getter) :
            /\ answer' = [to |-> <<TypeOf(at.type), field>>, entries |-> entries,
                          list |-> getter.list]
            /\ Descend(entries, <<TypeOf(at.type), field>>)
  /\ UNCHANGED <<root, inSink, dead>>

\* CORt or CFRt throws: the field is null, with an error.
SelectThrows(field) ==
  /\ Selectable(field) /\ at.there
  /\ \E getter \in Classes[at.type][field] : getter.list \/ getter.store = "used"
  /\ answer' = NoAnswer
  /\ UNCHANGED <<root, at, inStores, inSink, onPath, dead>>

\* A null pointer is used.
SelectCrashes(field) ==
  /\ Selectable(field)
  /\ ~at.there \/ \E getter \in Classes[at.type][field] : getter.store = "used" /\ ~StoreAlive
  /\ dead' = TRUE
  /\ UNCHANGED <<root, at, answer, inStores, inSink, onPath>>

\* The callback of the table of stores.
ResetStores ==
  /\ inStores /\ ~dead
  /\ inStores' = FALSE
  /\ UNCHANGED <<root, at, answer, inSink, onPath, dead>>

\* The last registration of a sink is erased; nobody waits for deliver.
Unsubscribe ==
  /\ inSink /\ ~dead
  /\ inSink' = FALSE
  /\ UNCHANGED <<root, at, answer, inStores, onPath, dead>>

WalkNext ==
  \/ \E operation \in Operations : \E class \in RootsOf(operation) : Begin(class)
  \/ \E field \in UNION {DOMAIN ObjectTypes[type] : type \in DOMAIN ObjectTypes} :
       Select(field) \/ SelectThrows(field) \/ SelectCrashes(field)
  \/ ResetStores \/ Unsubscribe

WalkSpec == WalkInit /\ [][WalkNext]_walkVars
-----------------------------------------------------------------------------
(* Properties. *)

Implemented(type) ==
  type \in DOMAIN ObjectTypes =>
    type \in DOMAIN Classes /\ DOMAIN ObjectTypes[type] \subseteq DOMAIN Classes[type]

\* schema/mapi.graphql promises the type of every field, and nobody compares the types
\* behind a wrapper with it: whatever is answered anywhere on a walk is a member of the
\* declared type, with a list for a list and null only for what may be null (and for a
\* property value of an unsupported type), and has a class with all its fields.
AnswersConform ==
  answer # NoAnswer =>
    LET declared == ObjectTypes[answer.to[1]][answer.to[2]] IN
    /\ answer.list = declared.list
    /\ \A entry \in answer.entries :
         IF entry = NullEntry
         THEN declared.null \/ answer.to = <<"Property", "value">>
         ELSE entry.type \in Members(declared.type) /\ Implemented(entry.type)

\* What may answer a wrapper of nothing.
MayDangle ==
  {<<"Query", "stores">>, <<"Store", "rootFolders">>, <<"Store", "specialFolders">>,
   <<"Folder", "subFolders">>, <<"Folder", "items">>, <<"Folder", "parentFolder">>}

\* Folders and items never outlive their Store in a query: whatever the callback of the
\* stores drops in between, the wrappers on the way keep it.  The process ends only by
\* a selection from something looked up that is not there, or from what a mutation or
\* a delivery answered when its Store is gone.
CrashIsExplained ==
  dead => \/ ~at.there /\ at.by \in MayDangle
          \/ root # "Query" /\ ~StoreAlive
=============================================================================
