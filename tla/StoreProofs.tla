---------------------------- MODULE StoreProofs ----------------------------
(***************************************************************************)
(* Theorems about Store, for every set of folders and kinds, every mailbox *)
(* and all faults.                                                         *)
(***************************************************************************)
EXTENDS Store, FiniteSetTheorems, TLAPS

(***************************************************************************)
(* Maps and the members of a store.                                        *)
(***************************************************************************)

\* A map that entries were put into.
LEMMA Extension ==
  ASSUME NEW f, NEW g
  PROVE  /\ DOMAIN Inserted(f, g) = DOMAIN f \cup DOMAIN g
         /\ \A n \in DOMAIN f : Inserted(f, g)[n] = f[n]
         /\ \A n \in DOMAIN g \ DOMAIN f : Inserted(f, g)[n] = g[n]
  BY DEF Inserted

LEMMA Members ==
  /\ Whole \in {5, 7} /\ Whole \in Nat
  /\ Whole = (IF mailbox.inbox THEN 7 ELSE 5)
  /\ \A m \in {"m_store", "m_storeProps", "m_rootId", "m_ipmSubtree", "m_ipmSubtreeProps"} :
       Has(Whole, m) /\ Has(5, m)
  /\ Has(Whole, "m_inboxProps") <=> mailbox.inbox
  /\ ~Has(5, "m_inboxProps")
  <1>1. Len(OpenSteps) = 7 /\ \A i \in 1..7 : OpenSteps[i] = (CASE i = 1 -> "m_store" [] i = 2 -> "m_storeProps"
            [] i = 3 -> "m_rootId" [] i = 4 -> "m_ipmSubtree" [] i = 5 -> "m_ipmSubtreeProps" [] i = 6 -> "m_eidInboxId"
            [] i = 7 -> "m_inboxProps")
    BY DEF OpenSteps
  <1>2. \A m \in {"m_store", "m_storeProps", "m_rootId", "m_ipmSubtree", "m_ipmSubtreeProps"} :
       Has(7, m) /\ Has(5, m)
    BY <1>1 DEF Has
  <1>3. Has(7, "m_inboxProps") /\ ~Has(5, "m_inboxProps")
    BY <1>1 DEF Has
  <1>4. Whole = (IF mailbox.inbox THEN 7 ELSE 5)
    BY <1>1 DEF Whole
  <1>5. QED
    BY <1>2, <1>3, <1>4

(***************************************************************************)
(* The special folders of a mailbox whose store was opened whole.          *)
(***************************************************************************)
LEMMA FilledIn ==
  ASSUME NEW place, NEW kinds, NEW map
  PROVE  /\ DOMAIN FillIn(place, kinds, map) = DOMAIN map \cup (mailbox.names[place] \cap kinds)
         /\ \A k \in DOMAIN map : FillIn(place, kinds, map)[k] = map[k]
         /\ \A k \in (mailbox.names[place] \cap kinds) \ DOMAIN map :
              FillIn(place, kinds, map)[k] = At(place, k)
  <1> DEFINE entries == [k \in mailbox.names[place] \cap kinds |-> At(place, k)]
  <1>1. FillIn(place, kinds, map) = Inserted(map, entries)
    BY DEF FillIn
  <1>2. DOMAIN entries = mailbox.names[place] \cap kinds
    OBVIOUS
  <1>3. \A k \in DOMAIN entries : entries[k] = At(place, k)
    OBVIOUS
  <1> HIDE DEF entries
  <1>4. /\ DOMAIN Inserted(map, entries) = DOMAIN map \cup DOMAIN entries
        /\ \A n \in DOMAIN map : Inserted(map, entries)[n] = map[n]
        /\ \A n \in DOMAIN entries \ DOMAIN map : Inserted(map, entries)[n] = entries[n]
    BY Extension
  <1>5. QED
    BY <1>1, <1>2, <1>3, <1>4

LEMMA FilledInInbox ==
  ASSUME NEW map
  PROVE  /\ DOMAIN FillInInbox(map) = DOMAIN map \cup {Inbox}
         /\ FillInInbox(map)[Inbox] = At("inbox", Inbox)
         /\ \A k \in DOMAIN map \ {Inbox} : FillInInbox(map)[k] = map[k]
  <1> DEFINE entries == [k \in {Inbox} |-> At("inbox", k)]
  <1>1. FillInInbox(map) = Inserted(entries, map)
    BY DEF FillInInbox
  <1>2. DOMAIN entries = {Inbox} /\ entries[Inbox] = At("inbox", Inbox)
    OBVIOUS
  <1> HIDE DEF entries
  <1>3. /\ DOMAIN Inserted(entries, map) = DOMAIN entries \cup DOMAIN map
        /\ \A n \in DOMAIN entries : Inserted(entries, map)[n] = entries[n]
        /\ \A n \in DOMAIN map \ DOMAIN entries : Inserted(entries, map)[n] = map[n]
    BY Extension
  <1>4. QED
    BY <1>1, <1>2, <1>3

LEMMA MapIsDocumented ==
  ASSUME mailbox \in Mailboxes
  PROVE  SpecialFolderMap(Whole) = Documented
  <1> DEFINE none      == <<>>
             fromStore == FillIn("store", StoreKinds, none)
             inboxOnly == FillInInbox(fromStore)
             fromInbox == IF mailbox.inbox THEN FillIn("inbox", FolderKinds, inboxOnly) ELSE fromStore
             map       == FillIn("subtree", FolderKinds, fromInbox)
             names(p)  == mailbox.names[p]
  <1>1. SpecialFolderMap(Whole) = map
    BY Members DEF SpecialFolderMap, FillInStoreProps, FillInFolderProps
  <1>2. DOMAIN none = {}
    OBVIOUS
  <1>3. /\ names("store") \subseteq StoreKinds /\ names("inbox") \subseteq FolderKinds
        /\ names("subtree") \subseteq FolderKinds
        /\ mailbox.inbox \in BOOLEAN
    BY MailboxesAssumption
  <1> HIDE DEF none
  <1>4. /\ DOMAIN fromStore = names("store")
        /\ \A k \in names("store") : fromStore[k] = At("store", k)
    <2>1. /\ DOMAIN FillIn("store", StoreKinds, none) = DOMAIN none \cup (names("store") \cap StoreKinds)
          /\ \A k \in (names("store") \cap StoreKinds) \ DOMAIN none :
               FillIn("store", StoreKinds, none)[k] = At("store", k)
      BY FilledIn
    <2>2. QED
      BY <2>1, <1>2, <1>3
  <1> HIDE DEF fromStore
  <1>5. /\ DOMAIN inboxOnly = names("store") \cup {Inbox}
        /\ inboxOnly[Inbox] = At("inbox", Inbox)
        /\ \A k \in names("store") : inboxOnly[k] = At("store", k)
    BY <1>3, <1>4, FilledInInbox, KindsAssumption
  <1> HIDE DEF inboxOnly
  <1> DEFINE inboxKinds == IF mailbox.inbox THEN names("inbox") \cup {Inbox} ELSE {}
  <1>6. /\ DOMAIN fromInbox = names("store") \cup inboxKinds
        /\ \A k \in names("store") : fromInbox[k] = At("store", k)
        /\ \A k \in inboxKinds : fromInbox[k] = At("inbox", k)
    <2>1. CASE mailbox.inbox
      <3>1. /\ DOMAIN FillIn("inbox", FolderKinds, inboxOnly) = DOMAIN inboxOnly \cup (names("inbox") \cap FolderKinds)
            /\ \A k \in DOMAIN inboxOnly : FillIn("inbox", FolderKinds, inboxOnly)[k] = inboxOnly[k]
            /\ \A k \in (names("inbox") \cap FolderKinds) \ DOMAIN inboxOnly :
                 FillIn("inbox", FolderKinds, inboxOnly)[k] = At("inbox", k)
        BY FilledIn
      <3>2. QED
        BY <2>1, <3>1, <1>3, <1>5, KindsAssumption
    <2>2. CASE ~mailbox.inbox
      BY <2>2, <1>4
    <2>3. QED
      BY <2>1, <2>2
  <1> HIDE DEF fromInbox
  <1>7. /\ DOMAIN map = names("store") \cup inboxKinds \cup names("subtree")
        /\ \A k \in names("store") : map[k] = At("store", k)
        /\ \A k \in inboxKinds : map[k] = At("inbox", k)
        /\ \A k \in names("subtree") \ inboxKinds : map[k] = At("subtree", k)
    <2>1. /\ DOMAIN map = DOMAIN fromInbox \cup (names("subtree") \cap FolderKinds)
          /\ \A k \in DOMAIN fromInbox : map[k] = fromInbox[k]
          /\ \A k \in (names("subtree") \cap FolderKinds) \ DOMAIN fromInbox : map[k] = At("subtree", k)
      BY FilledIn
    <2>2. QED
      BY <2>1, <1>3, <1>6, KindsAssumption
  <1> HIDE DEF map
  <1>8. \A k : "inbox" \in PlacesOf(k) <=> k \in names("inbox") /\ mailbox.inbox
    BY DEF PlacesOf, Places
  <1>9. DocumentedKinds = names("store") \cup inboxKinds \cup names("subtree")
    BY <1>3 DEF DocumentedKinds, PlacesOf, Places, Kinds
  <1>10. \A k \in DocumentedKinds : map[k] = Documented[k]
    BY <1>3, <1>7, <1>8, <1>9, KindsAssumption DEF Documented
  <1>11. DOMAIN Documented = DocumentedKinds
    BY DEF Documented
  <1>12. map = [k \in DOMAIN map |-> map[k]]
    BY DEF map, FillIn, Inserted
  <1>13. QED
    BY <1>1, <1>7, <1>9, <1>10, <1>11, <1>12 DEF Documented

(***************************************************************************)
(* The invariant.                                                          *)
(***************************************************************************)
Ats  == {"idle", "kinds", "lookup", "open", "construct", "item", "rows", "table"}
Fors == {"none", "specialFolders", "rootFolders", "folderProperties", "itemProperties",
         "parentFolder"}

CallType == [at : Ats, for : Fors, todo : Seq(Kinds), wanted : FolderIds \cup Items]

\* Types, and what is there at each place of a field.
Shape ==
  /\ TypeOK
  /\ call \in CallType
  /\ answer \in Seq(FolderObjects \cup {Null})
  /\ asked \in Seq(Kinds \cup FolderIds)
  /\ crashed # "no" => call.at = "idle"
  /\ call.at \in {"open", "construct"} => call.wanted \in FolderIds
  /\ call.at = "item" => call.wanted \in Items
  /\ call.at \in {"construct", "table"} => reached > 0
  /\ call.at \in {"kinds", "lookup"} => call.for = "specialFolders"
  /\ (call.for = "specialFolders" /\ call.at # "kinds") => special # NotLoaded

\* While nothing has failed, a store is closed or whole, and it is whole before its
\* special folders are there.
Opened ==
  Sound => /\ reached \in {0, Whole}
           /\ special # NotLoaded => reached = Whole /\ special = Documented
           /\ crashed # "null pointer"

\* Only a folder that createSubFolder made is another one than its ID says.
Named == Empty \notin DOMAIN folders => \A id \in DOMAIN folders : folders[id].is = id

StoreInv == Shape /\ Opened /\ KindsAgree /\ Named

LEMMA InitStore == Init => StoreInv
  <1> SUFFICES ASSUME Init PROVE StoreInv
    OBVIOUS
  <1>1. DOMAIN folders = {} /\ special = NotLoaded /\ items = {} /\ folders = <<>> /\ reached = 0
        /\ mailbox \in Mailboxes /\ crashed = "no" /\ call = Idle
    BY DEF Init
  <1>2. TypeOK
    BY <1>1, Members DEF TypeOK, Crashes
  <1>3. call \in CallType
    BY <1>1 DEF Idle, CallType, Ats, Fors, FolderIds
  <1>4. answer \in Seq(FolderObjects \cup {Null}) /\ asked \in Seq(Kinds \cup FolderIds)
    BY DEF Init
  <1>5. Shape
    BY <1>1, <1>2, <1>3, <1>4 DEF Shape, Idle
  <1>6. Opened /\ KindsAgree /\ Named
    BY <1>1 DEF Opened, KindsAgree, Named
  <1>7. QED
    BY <1>5, <1>6 DEF StoreInv

(***************************************************************************)
(* What opening the store and loading the special folders come to.         *)
(***************************************************************************)
LEMMA OpenStoreOutcome ==
  ASSUME StoreInv, mailbox' = mailbox, NEW result \in {"ok", "throw"}, OpenStore(result)
  PROVE  /\ Whole' = Whole /\ reached' \in 0..Whole
         /\ reached > 0 => reached' > 0
         /\ result = "ok" => reached' > 0
         /\ Sound' => Sound /\ result = "ok" /\ reached' = Whole
  <1>1. Whole' = Whole
    BY DEF Whole
  <1>2. reached \in 0..Whole /\ (mailbox.subtree \in BOOLEAN) /\ (mailbox.inbox \in BOOLEAN)
    BY MailboxesAssumption DEF StoreInv, Shape, TypeOK
  <1>3. Sound => reached \in {0, Whole}
    BY DEF StoreInv, Opened
  <1>4. QED
    BY <1>1, <1>2, <1>3, Members DEF OpenStore, OpenStoreFails, Sound

\* Maps of special folders.
MapType(map) == DOMAIN map \subseteq Kinds /\ \A k \in DOMAIN map : map[k] \in SpecialIds

LEMMA EntryIds ==
  /\ \A place \in Places, k \in Kinds : At(place, k) \in SpecialIds
  /\ SpecialIds \subseteq FolderIds /\ PlainIds \subseteq FolderIds
  /\ {Empty, Root, Above, New} \subseteq FolderIds
  /\ Empty \notin SpecialIds \cup PlainIds \cup {Root, Above, New}
  <1>1. Empty \notin SpecialIds \cup PlainIds \cup {Root, Above, New}
    BY DEF SpecialIds, PlainIds, At, Empty, Root, Above, New
  <1>2. QED
    BY <1>1 DEF SpecialIds, FolderIds

LEMMA NoSpecialFolders == MapType(<<>>) /\ <<>> # NotLoaded
  <1>1. DOMAIN <<>> = {}
    OBVIOUS
  <1>2. MapType(<<>>)
    BY <1>1, Zenon DEF MapType
  <1>3. <<>> # NotLoaded
    BY MarksAssumption, Zenon
  <1>4. QED
    BY <1>2, <1>3

LEMMA FilledInType ==
  ASSUME NEW place, place \in Places, NEW kinds, kinds \subseteq Kinds, NEW map, MapType(map)
  PROVE  MapType(FillIn(place, kinds, map))
  <1>1. /\ DOMAIN FillIn(place, kinds, map) = DOMAIN map \cup (mailbox.names[place] \cap kinds)
        /\ \A k \in DOMAIN map : FillIn(place, kinds, map)[k] = map[k]
        /\ \A k \in (mailbox.names[place] \cap kinds) \ DOMAIN map :
             FillIn(place, kinds, map)[k] = At(place, k)
    BY FilledIn, Zenon
  <1>2. QED
    BY <1>1, EntryIds DEF MapType

\* The map has special folders of kinds, and is a map.
LEMMA MapOfKinds ==
  ASSUME NEW n
  PROVE  /\ MapType(SpecialFolderMap(n))
         /\ SpecialFolderMap(n) # NotLoaded
  <1> DEFINE none      == <<>>
             fromStore == FillIn("store", StoreKinds, none)
             inboxOnly == FillInInbox(fromStore)
             fromInbox == IF Has(n, "m_inboxProps") THEN FillIn("inbox", FolderKinds, inboxOnly)
                          ELSE fromStore
             map       == FillIn("subtree", FolderKinds, fromInbox)
  <1>1. SpecialFolderMap(n) = map
    BY DEF SpecialFolderMap, FillInStoreProps, FillInFolderProps
  <1>2. StoreKinds \subseteq Kinds /\ FolderKinds \subseteq Kinds /\ Inbox \in Kinds
    BY DEF Kinds
  <1>3. MapType(none)
    BY DEF MapType
  <1>4. MapType(fromStore)
    BY <1>2, <1>3, FilledInType DEF Places
  <1> HIDE DEF fromStore
  <1>5. MapType(inboxOnly)
    BY <1>2, <1>4, FilledInInbox, EntryIds DEF MapType, Places
  <1> HIDE DEF inboxOnly
  <1>6. MapType(FillIn("inbox", FolderKinds, inboxOnly))
    BY <1>2, <1>5, FilledInType DEF Places
  <1>7. MapType(fromInbox)
    BY <1>4, <1>6
  <1> HIDE DEF fromInbox
  <1>8. MapType(map)
    BY <1>2, <1>7, FilledInType DEF Places
  <1>9. map = [k \in DOMAIN map |-> map[k]]
    BY DEF FillIn, Inserted
  <1> HIDE DEF map
  <1>10. map \in [DOMAIN map -> SpecialIds]
    BY <1>8, <1>9 DEF MapType
  <1>11. map # NotLoaded
    BY <1>8, <1>10, MarksAssumption DEF MapType
  <1>12. QED
    BY <1>1, <1>8, <1>11

LEMMA LoadOutcome ==
  ASSUME StoreInv, mailbox' = mailbox,
         NEW result \in {"ok", "throw", "null pointer"}, LoadSpecialFolders(result)
  PROVE  /\ Whole' = Whole /\ reached' \in 0..Whole
         /\ reached > 0 => reached' > 0
         /\ MapType(special')
         /\ special # NotLoaded => special' = special
         /\ special' # NotLoaded
         /\ Sound' => /\ Sound /\ result = "ok" /\ reached' = Whole
                      /\ special' = Documented /\ Has(reached', "m_ipmSubtree")
  <1>1. Whole' = Whole /\ mailbox \in Mailboxes /\ reached \in 0..Whole
    BY DEF Whole, StoreInv, Shape, TypeOK
  <1>2. CASE special # NotLoaded
    <2>1. result = "ok" /\ UNCHANGED <<special, reached, failed>>
      BY <1>2 DEF LoadSpecialFolders
    <2>2. Sound' = Sound
      BY <2>1 DEF Sound
    <2>3. MapType(special)
      BY <1>2 DEF StoreInv, Shape, TypeOK, MapType
    <2>4. QED
      BY <1>1, <1>2, <2>1, <2>2, <2>3, Members DEF StoreInv, Opened
  <1>3. CASE special = NotLoaded
    <2>1. PICK opened \in {"ok", "throw"} :
            /\ OpenStore(opened)
            /\ \/ /\ opened = "throw" /\ result = "throw"
                  /\ special' = <<>>
               \/ /\ opened = "ok" /\ Has(reached', "m_storeProps") /\ ~mailbox.subtree
                  /\ result = "throw" /\ special' = <<>>
               \/ /\ opened = "ok" /\ ~Has(reached', "m_ipmSubtreeProps")
                  /\ Has(reached', "m_storeProps") => mailbox.subtree
                  /\ result = "null pointer" /\ special' = <<>>
               \/ /\ opened = "ok" /\ Has(reached', "m_ipmSubtreeProps")
                  /\ result = "ok" /\ special' = SpecialFolderMap(reached')
      BY <1>3 DEF LoadSpecialFolders
    <2>2. /\ reached' \in 0..Whole
          /\ reached > 0 => reached' > 0
          /\ Sound' => Sound /\ opened = "ok" /\ reached' = Whole
      BY <2>1, OpenStoreOutcome
    <2>3. MapType(special') /\ special' # NotLoaded
      <3>1. CASE special' = <<>>
        BY <3>1, NoSpecialFolders
      <3>2. CASE special' = SpecialFolderMap(reached')
        BY <3>2, MapOfKinds
      <3>3. QED
        BY <2>1, <3>1, <3>2
    <2>4. ASSUME Sound'
          PROVE  result = "ok" /\ special' = Documented /\ Has(reached', "m_ipmSubtree")
      <3>1. mailbox.subtree /\ reached' = Whole
        BY <2>2, <2>4 DEF Sound
      <3>2. result = "ok" /\ special' = SpecialFolderMap(reached')
        BY <2>1, <2>2, <2>4, <3>1, Members
      <3>3. QED
        BY <1>1, <3>1, <3>2, Members, MapIsDocumented
    <2>5. QED
      BY <1>1, <1>3, <2>2, <2>3, <2>4
  <1>4. QED
    BY <1>2, <1>3

(***************************************************************************)
(* The ends of a field.                                                    *)
(***************************************************************************)
LEMMA IdleShape ==
  /\ Idle \in CallType /\ Idle.at = "idle" /\ Idle.for = "none"
  BY EntryIds DEF Idle, CallType, Ats, Fors

\* What the shape asks of the members; the rest is about the field in progress.
StoreShape ==
  /\ mailbox \in Mailboxes /\ reached \in 0..Whole
  /\ special # NotLoaded => MapType(special)
  /\ DOMAIN folders \subseteq FolderIds /\ \A id \in DOMAIN folders : folders[id] \in FolderObjects
  /\ items \subseteq Items
  /\ folders # <<>> => special # NotLoaded
  /\ (folders # <<>> \/ items # {}) => reached > 0

FieldShape ==
  /\ crashed \in Crashes
  /\ call \in CallType
  /\ answer \in Seq(FolderObjects \cup {Null})
  /\ asked \in Seq(Kinds \cup FolderIds)
  /\ crashed # "no" => call.at = "idle"
  /\ call.at \in {"open", "construct"} => call.wanted \in FolderIds
  /\ call.at = "item" => call.wanted \in Items
  /\ call.at \in {"construct", "table"} => reached > 0
  /\ call.at \in {"kinds", "lookup"} => call.for = "specialFolders"
  /\ (call.for = "specialFolders" /\ call.at # "kinds") => special # NotLoaded

LEMMA ShapeParts == Shape <=> StoreShape /\ FieldShape
  BY DEF Shape, TypeOK, StoreShape, FieldShape, MapType

\* A field that ends leaves no trace in its place.
LEMMA EndedField ==
  ASSUME StoreInv, Ends, answer' \in Seq(FolderObjects \cup {Null}),
         asked' \in Seq(Kinds \cup FolderIds), crashed' \in Crashes
  PROVE  FieldShape'
  BY IdleShape DEF Ends, FieldShape

LEMMA FieldThrows ==
  ASSUME StoreInv, Throws, UNCHANGED asked
  PROVE  FieldShape'
  <1>1. answer' \in Seq(FolderObjects \cup {Null})
    BY DEF Throws
  <1>2. asked' \in Seq(Kinds \cup FolderIds) /\ crashed' \in Crashes
    BY DEF StoreInv, Shape, Throws, Crashes
  <1>3. QED
    BY <1>1, <1>2, EndedField DEF Throws

LEMMA FieldFails ==
  ASSUME StoreInv, NEW result, Fails(result), UNCHANGED asked
  PROVE  FieldShape'
  <1>1. CASE Throws
    BY <1>1, FieldThrows
  <1>2. CASE Crash("null pointer") /\ UNCHANGED answer
    <2>1. answer' \in Seq(FolderObjects \cup {Null}) /\ asked' \in Seq(Kinds \cup FolderIds)
      BY <1>2 DEF StoreInv, Shape
    <2>2. QED
      BY <1>2, <2>1, EndedField DEF Crash, Crashes
  <1>3. QED
    BY <1>1, <1>2 DEF Fails

LEMMA FieldAnswers ==
  ASSUME StoreInv, call.at \in {"open", "construct"}, NEW folder \in FolderObjects, Answers(folder),
         UNCHANGED asked, special # NotLoaded => special' # NotLoaded
  PROVE  FieldShape'
  <1>1. answer' \in Seq(FolderObjects \cup {Null}) /\ asked' \in Seq(Kinds \cup FolderIds)
        /\ crashed' \in Crashes
    BY DEF Answers, StoreInv, Shape, TypeOK
  <1>2. CASE call.for = "specialFolders"
    <2>1. call' = [call EXCEPT !.at = "lookup"] /\ crashed' = crashed
      BY <1>2 DEF Answers
    <2>2. call' \in CallType /\ call'.at = "lookup" /\ call'.for = "specialFolders"
      BY <1>2, <2>1 DEF StoreInv, Shape, CallType, Ats
    <2>3. QED
      BY <1>1, <1>2, <2>1, <2>2 DEF FieldShape, StoreInv, Shape
  <1>3. CASE call.for # "specialFolders"
    BY <1>1, <1>3, EndedField DEF Answers, Ends
  <1>4. QED
    BY <1>2, <1>3

LEMMA FieldBegins ==
  ASSUME StoreInv, NEW field \in Fors, NEW at \in Ats, NEW todo \in Seq(Kinds),
         NEW wanted \in FolderIds \cup Items, Begin(field, at, todo, wanted),
         answer' \in Seq(FolderObjects \cup {Null}), asked' \in Seq(Kinds \cup FolderIds),
         at \notin {"construct", "table", "lookup"},
         at = "open" => wanted \in FolderIds, at = "item" => wanted \in Items,
         at = "kinds" <=> field = "specialFolders"
  PROVE  Shape'
  <1>1. /\ call' = [at |-> at, for |-> field, todo |-> todo, wanted |-> wanted]
        /\ UNCHANGED <<mailbox, reached, special, folders, items, failed, crashed>> /\ crashed = "no"
    BY DEF Begin
  <1>2. call' \in CallType /\ call'.at = at /\ call'.for = field /\ call'.wanted = wanted
    BY <1>1 DEF CallType
  <1>3. FieldShape'
    BY <1>1, <1>2 DEF FieldShape, Crashes
  <1>4. StoreShape'
    BY <1>1, ShapeParts DEF StoreInv, StoreShape, MapType, Whole
  <1>5. QED
    BY <1>3, <1>4 DEF Shape, TypeOK, StoreShape, FieldShape, MapType

(***************************************************************************)
(* The shape is kept.                                                      *)
(***************************************************************************)
LEMMA Parts == (StoreShape' /\ FieldShape') => Shape'
  BY DEF Shape, TypeOK, StoreShape, FieldShape, MapType

LEMMA ParentIds == \A id : ParentOf(id) \in {Above, Empty, Root} /\ ParentOf(id) \in FolderIds
  BY EntryIds DEF ParentOf

LEMMA BeginShape ==
  ASSUME StoreInv,
         \/ \E kinds \in Requests : getSpecialFolders(kinds)
         \/ getRootFolders
         \/ \E id \in {Empty} \cup PlainIds : getFolderProperties(id)
         \/ \E i \in Items : getItemProperties(i) \/ getParentOfItem(i)
         \/ \E folder \in Known : getParentFolder(folder)
  PROVE  Shape'
  <1>0. <<>> \in Seq(FolderObjects \cup {Null}) /\ <<>> \in Seq(Kinds \cup FolderIds) /\ <<>> \in Seq(Kinds)
        /\ Empty \in FolderIds \cup Items
    BY EntryIds
  <1>1. ASSUME NEW kinds \in Requests, getSpecialFolders(kinds) PROVE Shape'
    <2>1. kinds \in Seq(Kinds) /\ kinds \in Seq(Kinds \cup FolderIds)
      <3>1. PICK m \in 0..2 : kinds \in [1..m -> Kinds]
        BY DEF Requests, SeqOf
      <3>2. QED
        BY <3>1
    <2>2. QED
      BY <1>0, <1>1, <2>1, FieldBegins DEF getSpecialFolders, Fors, Ats
  <1>2. CASE getRootFolders
    BY <1>0, <1>2, FieldBegins DEF getRootFolders, Fors, Ats
  <1>3. ASSUME NEW id \in {Empty} \cup PlainIds, getFolderProperties(id) PROVE Shape'
    <2>1. id \in FolderIds /\ <<id>> \in Seq(Kinds \cup FolderIds)
      BY EntryIds
    <2>2. QED
      BY <1>0, <1>3, <2>1, FieldBegins DEF getFolderProperties, Fors, Ats
  <1>4. ASSUME NEW i \in Items, getItemProperties(i) PROVE Shape'
    BY <1>0, <1>4, FieldBegins DEF getItemProperties, Fors, Ats
  <1>5. ASSUME NEW i \in Items, getParentOfItem(i) PROVE Shape'
    <2>1. Home \in FolderIds
      <3>1. PlainIds # {}
        BY PlainAssumption DEF PlainIds
      <3>2. QED
        BY <3>1, EntryIds DEF Home
    <2>2. <<Home>> \in Seq(Kinds \cup FolderIds)
      BY <2>1
    <2>3. QED
      BY <1>0, <1>5, <2>1, <2>2, FieldBegins DEF getParentOfItem, Fors, Ats
  <1>6. ASSUME NEW folder \in Known, getParentFolder(folder) PROVE Shape'
    <2> DEFINE parent == ParentOf(folder.id)
    <2>1. parent \in FolderIds
      BY ParentIds
    <2> HIDE DEF parent
    <2>2. <<parent>> \in Seq(Kinds \cup FolderIds) /\ <<Null>> \in Seq(FolderObjects \cup {Null})
      BY <2>1
    <2>3. /\ asked' = <<parent>>
          /\ \/ Begin("parentFolder", "idle", <<>>, Empty) /\ answer' = <<Null>>
             \/ Begin("parentFolder", "open", <<>>, parent) /\ answer' = <<>>
      BY <1>6 DEF getParentFolder, parent
    <2>4. QED
      BY <1>0, <2>1, <2>2, <2>3, FieldBegins DEF Fors, Ats
  <1>7. QED
    BY <1>1, <1>2, <1>3, <1>4, <1>5, <1>6

\* Folders that are put into the cache.
LEMMA CachedFolders ==
  ASSUME StoreInv, NEW more, DOMAIN more \subseteq FolderIds,
         \A id \in DOMAIN more : more[id] \in FolderObjects,
         folders' = Inserted(folders, more)
  PROVE  /\ DOMAIN folders' = DOMAIN folders \cup DOMAIN more
         /\ DOMAIN folders' \subseteq FolderIds
         /\ \A id \in DOMAIN folders' : folders'[id] \in FolderObjects
         /\ \A id \in DOMAIN folders : folders'[id] = folders[id]
         /\ \A id \in DOMAIN more \ DOMAIN folders : folders'[id] = more[id]
  <1>1. /\ DOMAIN Inserted(folders, more) = DOMAIN folders \cup DOMAIN more
        /\ \A n \in DOMAIN folders : Inserted(folders, more)[n] = folders[n]
        /\ \A n \in DOMAIN more \ DOMAIN folders : Inserted(folders, more)[n] = more[n]
    BY Extension
  <1>2. DOMAIN folders \subseteq FolderIds /\ \A id \in DOMAIN folders : folders[id] \in FolderObjects
    BY DEF StoreInv, Shape, TypeOK
  <1>3. QED
    BY <1>1, <1>2

LEMMA CachedFolder ==
  ASSUME StoreInv, NEW folder \in FolderObjects, CacheFolder(folder)
  PROVE  /\ DOMAIN folders' = DOMAIN folders \cup {folder.id}
         /\ DOMAIN folders' \subseteq FolderIds
         /\ \A id \in DOMAIN folders' : folders'[id] \in FolderObjects
         /\ \A id \in DOMAIN folders : folders'[id] = folders[id]
         /\ \A id \in {folder.id} \ DOMAIN folders : folders'[id] = folder
  <1> DEFINE more == [id \in {folder.id} |-> folder]
  <1>1. folders' = Inserted(folders, more)
    BY DEF CacheFolder
  <1>2. DOMAIN more = {folder.id} /\ more[folder.id] = folder /\ folder.id \in FolderIds
    BY DEF FolderObjects
  <1> HIDE DEF more
  <1>3. /\ DOMAIN more \subseteq FolderIds /\ \A id \in DOMAIN more : more[id] \in FolderObjects
    BY <1>2
  <1>4. QED
    BY <1>1, <1>2, <1>3, CachedFolders

LEMMA KindIsKind ==
  ASSUME NEW id, NEW map, MapType(map), NEW incomparable
  PROVE  /\ KindOf(id, map, incomparable) \in Kinds \cup {NoKind}
         /\ \A k \in Kinds : KindOf(id, map, incomparable) = k => k \in DOMAIN map /\ map[k] = id
  <1> DEFINE same == {k \in DOMAIN map \ incomparable : map[k] = id}
  <1>1. same \subseteq Kinds /\ \A k \in same : k \in DOMAIN map /\ map[k] = id
    BY DEF MapType
  <1>2. KindOf(id, map, incomparable) = IF same = {} THEN NoKind ELSE CHOOSE k \in same : TRUE
    BY DEF KindOf
  <1> HIDE DEF same
  <1>3. QED
    BY <1>1, <1>2, KindsAssumption

\* The ID a folder is constructed with.
LEMMA Entries == \A id \in FolderIds : \A n : EntryOf(id, n) \in FolderIds
  BY EntryIds DEF EntryOf

LEMMA OpeningShape ==
  ASSUME StoreInv, LoadKinds \/ lookupSpecialFolder \/ EndLookups \/ OpenFolder \/ OpenEntryFails
                   \/ LoadRootFolders \/ OpenItem
  PROVE  Shape'
  <1>0. StoreShape /\ FieldShape
    BY ShapeParts DEF StoreInv
  <1>1. CASE LoadKinds
    <2>1. PICK result \in {"ok", "throw", "null pointer"} :
            /\ LoadSpecialFolders(result)
            /\ \/ result = "ok" /\ call' = [call EXCEPT !.at = "lookup"] /\ UNCHANGED <<answer, crashed>>
               \/ Fails(result)
      BY <1>1 DEF LoadKinds
    <2>2. /\ reached' \in 0..Whole' /\ MapType(special') /\ special' # NotLoaded
          /\ reached > 0 => reached' > 0
      BY <1>1, <2>1, LoadOutcome DEF LoadKinds
    <2>3. StoreShape'
      BY <1>0, <1>1, <2>2 DEF LoadKinds, StoreShape, MapType
    <2>4. FieldShape'
      <3>1. CASE Fails(result)
        BY <1>1, <3>1, FieldFails DEF LoadKinds
      <3>2. CASE call' = [call EXCEPT !.at = "lookup"] /\ UNCHANGED <<answer, crashed>>
        <4>1. call' \in CallType /\ call'.at = "lookup" /\ call'.for = "specialFolders"
          BY <1>0, <1>1, <3>2 DEF LoadKinds, CallType, FieldShape, Ats
        <4>2. QED
          BY <1>0, <1>1, <2>2, <3>2, <4>1 DEF LoadKinds, FieldShape
      <3>3. QED
        BY <2>1, <3>1, <3>2
    <2>5. QED
      BY <2>3, <2>4, Parts
  <1>2. CASE lookupSpecialFolder
    <2>1. StoreShape'
      BY <1>0, <1>2 DEF lookupSpecialFolder, StoreShape, MapType, Whole
    <2>2. /\ special # NotLoaded /\ MapType(special) /\ call.for = "specialFolders"
          /\ call.todo \in Seq(Kinds) /\ call.todo # <<>>
      BY <1>0, <1>2 DEF lookupSpecialFolder, StoreShape, FieldShape, CallType
    <2>3. Tail(call.todo) \in Seq(Kinds)
      BY <2>2
    <2> DEFINE kind == Head(call.todo)
               rest == [call EXCEPT !.todo = Tail(@)]
    <2>4. rest \in CallType /\ rest.at = "lookup" /\ rest.for = "specialFolders"
      BY <1>0, <1>2, <2>2, <2>3 DEF lookupSpecialFolder, FieldShape, CallType
    <2>5. \/ /\ kind \in DOMAIN special
             /\ call' = [rest EXCEPT !.at = "open", !.wanted = special[kind]] /\ UNCHANGED answer
          \/ call' = rest /\ answer' = Append(answer, Null)
      BY <1>2 DEF lookupSpecialFolder
    <2> HIDE DEF kind, rest
    <2>6. FieldShape'
      <3>1. CASE call' = rest /\ answer' = Append(answer, Null)
        <4>1. answer' \in Seq(FolderObjects \cup {Null})
          BY <1>0, <3>1 DEF FieldShape
        <4>2. QED
          BY <1>0, <1>2, <2>2, <2>4, <3>1, <4>1 DEF lookupSpecialFolder, FieldShape
      <3>2. CASE /\ kind \in DOMAIN special
                 /\ call' = [rest EXCEPT !.at = "open", !.wanted = special[kind]] /\ UNCHANGED answer
        <4>1. special[kind] \in FolderIds
          BY <2>2, <3>2, EntryIds DEF MapType
        <4>2. call' \in CallType /\ call'.at = "open" /\ call'.for = "specialFolders"
              /\ call'.wanted \in FolderIds
          BY <2>4, <3>2, <4>1 DEF CallType, Ats
        <4>3. QED
          BY <1>0, <1>2, <2>2, <3>2, <4>2 DEF lookupSpecialFolder, FieldShape
      <3>3. QED
        BY <2>5, <3>1, <3>2
    <2>7. QED
      BY <2>1, <2>6, Parts
  <1>3. CASE EndLookups
    <2>1. StoreShape'
      BY <1>0, <1>3 DEF EndLookups, StoreShape, MapType, Whole
    <2>2. FieldShape'
      BY <1>0, <1>3, EndedField DEF EndLookups, FieldShape
    <2>3. QED
      BY <2>1, <2>2, Parts
  <1>4. CASE OpenFolder
    <2>1. CASE call.wanted \in DOMAIN folders
      <3>1. Answers(folders[call.wanted]) /\ folders[call.wanted] \in FolderObjects
            /\ UNCHANGED <<mailbox, reached, special, folders, items, asked>>
        BY <1>0, <1>4, <2>1 DEF OpenFolder, StoreShape
      <3>2. StoreShape'
        BY <1>0, <3>1 DEF StoreShape, MapType, Whole
      <3>3. FieldShape'
        BY <1>4, <3>1, FieldAnswers DEF OpenFolder
      <3>4. QED
        BY <3>2, <3>3, Parts
    <2>2. CASE call.wanted \notin DOMAIN folders
      <3>1. PICK result \in {"ok", "throw"} :
              /\ OpenStore(result)
              /\ \/ /\ result = "ok"
                    /\ call' = [call EXCEPT !.at = "construct", !.wanted = EntryOf(@, reached')]
                    /\ UNCHANGED <<answer, crashed>>
                 \/ result = "throw" /\ Throws
        BY <1>4, <2>2 DEF OpenFolder
      <3>2. /\ reached' \in 0..Whole' /\ (reached > 0 => reached' > 0)
            /\ result = "ok" => reached' > 0
        BY <1>4, <3>1, OpenStoreOutcome DEF OpenFolder
      <3>3. StoreShape'
        BY <1>0, <1>4, <3>2 DEF OpenFolder, StoreShape, MapType
      <3>4. CASE result = "throw"
        BY <1>4, <3>1, <3>3, <3>4, FieldThrows, Parts DEF OpenFolder
      <3>5. CASE result = "ok"
        <4>1. EntryOf(call.wanted, reached') \in FolderIds
          BY <1>0, <1>4, Entries DEF OpenFolder, FieldShape
        <4>2. call' \in CallType /\ call'.at = "construct" /\ call'.wanted \in FolderIds /\ call'.for = call.for
          BY <1>0, <3>1, <3>5, <4>1 DEF FieldShape, CallType, Ats
        <4>3. FieldShape'
          BY <1>0, <1>4, <3>1, <3>2, <3>5, <4>2 DEF OpenFolder, FieldShape
        <4>4. QED
          BY <3>3, <4>3, Parts
      <3>6. QED
        BY <3>4, <3>5
    <2>3. QED
      BY <2>1, <2>2
  <1>5. CASE OpenEntryFails
    <2>1. /\ reached' \in 0..Whole' /\ (reached > 0 => reached' > 0)
      BY <1>5, OpenStoreOutcome DEF OpenEntryFails
    <2>2. StoreShape'
      BY <1>0, <1>5, <2>1 DEF OpenEntryFails, StoreShape, MapType
    <2>3. QED
      BY <1>5, <2>2, FieldThrows, Parts DEF OpenEntryFails
  <1>6. CASE LoadRootFolders
    <2>1. PICK result \in {"ok", "throw"} :
            /\ OpenStore(result)
            /\ \/ result = "ok" /\ call' = [call EXCEPT !.at = "table"] /\ UNCHANGED <<answer, crashed>>
               \/ result = "throw" /\ Throws
      BY <1>6 DEF LoadRootFolders
    <2>2. /\ reached' \in 0..Whole' /\ (reached > 0 => reached' > 0)
          /\ result = "ok" => reached' > 0
      BY <1>6, <2>1, OpenStoreOutcome DEF LoadRootFolders
    <2>3. StoreShape'
      BY <1>0, <1>6, <2>2 DEF LoadRootFolders, StoreShape, MapType
    <2>4. CASE result = "throw"
      BY <1>6, <2>1, <2>3, <2>4, FieldThrows, Parts DEF LoadRootFolders
    <2>5. CASE result = "ok"
      <3>1. call' \in CallType /\ call'.at = "table" /\ call'.for = call.for
        BY <1>0, <2>1, <2>5 DEF FieldShape, CallType, Ats
      <3>2. FieldShape'
        BY <1>0, <1>6, <2>1, <2>2, <2>5, <3>1 DEF LoadRootFolders, FieldShape
      <3>3. QED
        BY <2>3, <3>2, Parts
    <2>6. QED
      BY <2>4, <2>5
  <1>7. CASE OpenItem
    <2>0. answer \in Seq(FolderObjects \cup {Null}) /\ asked \in Seq(Kinds \cup FolderIds)
          /\ crashed \in Crashes /\ call.wanted \in Items
      BY <1>0, <1>7 DEF OpenItem, FieldShape
    <2>1. CASE call.wanted \in items
      <3>1. StoreShape'
        BY <1>0, <1>7, <2>1 DEF OpenItem, StoreShape, MapType, Whole
      <3>2. FieldShape'
        BY <1>7, <2>0, <2>1, EndedField DEF OpenItem
      <3>3. QED
        BY <3>1, <3>2, Parts
    <2>2. CASE call.wanted \notin items
      <3>1. PICK result \in {"ok", "throw"} :
              /\ OpenStore(result)
              /\ \/ result = "ok" /\ items' = items \cup {call.wanted} /\ Ends /\ UNCHANGED <<answer, crashed>>
                 \/ Throws /\ UNCHANGED items
        BY <1>7, <2>2 DEF OpenItem
      <3>2. /\ reached' \in 0..Whole' /\ (reached > 0 => reached' > 0)
            /\ result = "ok" => reached' > 0
        BY <1>7, <3>1, OpenStoreOutcome DEF OpenItem
      <3>3. StoreShape'
        BY <1>0, <1>7, <2>0, <3>1, <3>2 DEF OpenItem, StoreShape, MapType
      <3>4. FieldShape'
        BY <1>7, <2>0, <3>1, EndedField, FieldThrows DEF OpenItem
      <3>5. QED
        BY <3>3, <3>4, Parts
    <2>3. QED
      BY <2>1, <2>2
  <1>8. QED
    BY <1>1, <1>2, <1>3, <1>4, <1>5, <1>6, <1>7

\* Rows of the table of root folders, in some order.
LEMMA RowIds ==
  /\ Rows \subseteq FolderIds /\ Empty \notin Rows /\ Rows \cap Kinds = {}
  /\ SetToSeq(Rows) \in Seq(Rows)
  <1>1. IsFiniteSet(PlainIds)
    <2>1. PlainIds = {<<"plain", p>> : p \in Plain}
      BY DEF PlainIds
    <2> DEFINE f == [p \in Plain |-> <<"plain", p>>]
    <2>2. f \in Surjection(Plain, PlainIds)
      BY <2>1 DEF Surjection
    <2>3. QED
      BY <2>2, FS_Surjection, PlainAssumption DEF ExistsSurjection
  <1>2. IsFiniteSet(Rows)
    BY <1>1, FS_AddElement, FS_Union, FS_Singleton DEF Rows
  <1>3. PICK n \in Nat : ExistsBijection(1..n, Rows)
    BY <1>2, FS_NatBijection
  <1>4. PICK f \in [1..n -> Rows] : \A a, b \in 1..n : f[a] = f[b] => a = b
    BY <1>3 DEF ExistsBijection, Bijection, Injection, IsInjective
  <1>5. n = Cardinality(Rows)
    BY <1>2, <1>3, FS_CountingElements
  <1> DEFINE Injective(g) == \A a, b \in DOMAIN g : g[a] = g[b] => a = b
  <1>6. \E g \in [1..Cardinality(Rows) -> Rows] : Injective(g)
    BY <1>4, <1>5
  <1>7. SetToSeq(Rows) = CHOOSE g \in [1..Cardinality(Rows) -> Rows] : Injective(g)
    BY DEF SetToSeq, IsInjective
  <1> HIDE DEF Injective
  <1>8. SetToSeq(Rows) \in [1..Cardinality(Rows) -> Rows]
    BY <1>6, <1>7, Zenon
  <1>9. SetToSeq(Rows) \in Seq(Rows)
    BY <1>5, <1>8
  <1>10. Rows \subseteq FolderIds /\ Empty \notin Rows
    BY EntryIds DEF Rows, Kinds, Places
  <1>11. QED
    BY <1>9, <1>10, MarksAssumption

\* Construct makes one folder, special if the map says so, or fails.
LEMMA ConstructOutcome ==
  ASSUME StoreInv, Construct
  PROVE  /\ call.at = "construct" /\ call.wanted \in FolderIds /\ reached > 0 /\ mailbox' = mailbox
         /\ UNCHANGED <<mailbox, items, asked, calls>>
         /\ \E result \in {"ok", "throw", "null pointer"} :
              /\ LoadSpecialFolders(result)
              /\ \/ /\ result = "ok"
                    /\ \E folder \in FolderObjects :
                         /\ folder.id = call.wanted /\ folder.is = call.wanted
                         /\ \A k \in Kinds : folder.kind = k => k \in DOMAIN special' /\ special'[k] = folder.is
                         /\ CacheFolder(folder) /\ Answers(folder)
                 \/ Fails(result) /\ UNCHANGED folders
  <1>1. /\ call.at = "construct" /\ call.wanted \in FolderIds /\ reached > 0 /\ mailbox' = mailbox
    BY DEF Construct, StoreInv, Shape
  <1>2. PICK result \in {"ok", "throw", "null pointer"} :
          /\ LoadSpecialFolders(result)
          /\ \/ /\ result = "ok"
                /\ \E incomparable \in Incomparable :
                     LET folder == Object(call.wanted, KindOf(call.wanted, special', incomparable), TRUE)
                     IN  CacheFolder(folder) /\ Answers(folder)
             \/ Fails(result) /\ UNCHANGED folders
    BY DEF Construct
  <1>3. MapType(special')
    BY <1>1, <1>2, LoadOutcome
  <1>4. CASE Fails(result) /\ UNCHANGED folders
    BY <1>1, <1>2, <1>4 DEF Construct
  <1>5. CASE ~(Fails(result) /\ UNCHANGED folders)
    <2>1. PICK incomparable \in Incomparable :
            LET folder == Object(call.wanted, KindOf(call.wanted, special', incomparable), TRUE)
            IN  CacheFolder(folder) /\ Answers(folder)
      BY <1>2, <1>5
    <2> DEFINE folder == Object(call.wanted, KindOf(call.wanted, special', incomparable), TRUE)
    <2>2. /\ folder \in FolderObjects /\ folder.id = call.wanted /\ folder.is = call.wanted
          /\ \A k \in Kinds : folder.kind = k => k \in DOMAIN special' /\ special'[k] = call.wanted
      <3>1. /\ KindOf(call.wanted, special', incomparable) \in Kinds \cup {NoKind}
            /\ \A k \in Kinds : KindOf(call.wanted, special', incomparable) = k =>
                 k \in DOMAIN special' /\ special'[k] = call.wanted
        BY <1>3, KindIsKind
      <3>2. QED
        BY <1>1, <3>1 DEF Object, FolderObjects
    <2>3. CacheFolder(folder) /\ Answers(folder)
      BY <2>1
    <2> HIDE DEF folder
    <2>4. QED
      BY <1>1, <1>2, <1>5, <2>2, <2>3 DEF Construct
  <1>6. QED
    BY <1>4, <1>5

\* ReadTable makes the folders of the rows, or fails.
RowObjects(row) ==
  /\ DOMAIN row = Rows
  /\ \A id \in Rows : /\ row[id] \in FolderObjects /\ row[id].is = id
                      /\ \A k \in Kinds : row[id].kind = k => k \in DOMAIN special' /\ special'[k] = id

LEMMA ReadOutcome ==
  ASSUME StoreInv, ReadTable
  PROVE  /\ call.at = "table" /\ reached > 0 /\ UNCHANGED <<mailbox, items, calls>>
         /\ \E result \in {"ok", "throw", "null pointer"} :
              /\ LoadSpecialFolders(result)
              /\ \/ Fails(result) /\ UNCHANGED <<folders, asked>>
                 \/ result = "ok" /\ Throws /\ UNCHANGED <<folders, asked>>
                 \/ /\ result = "ok" /\ ~Has(reached', "m_ipmSubtree")
                    /\ Crash("null pointer") /\ UNCHANGED <<folders, answer, asked>>
                 \/ /\ result = "ok" /\ Ends /\ UNCHANGED crashed
                    /\ asked' = SetToSeq(Rows)
                    /\ \E row : /\ RowObjects(row)
                                /\ folders' = Inserted(folders, row)
                                /\ answer' = [i \in DOMAIN asked' |-> row[asked'[i]]]
  <1>1. call.at = "table" /\ reached > 0 /\ UNCHANGED <<mailbox, items, calls>>
    BY DEF ReadTable, StoreInv, Shape
  <1>2. PICK result \in {"ok", "throw", "null pointer"} :
          /\ LoadSpecialFolders(result)
          /\ \/ Fails(result) /\ UNCHANGED <<folders, asked>>
             \/ result = "ok" /\ Throws /\ UNCHANGED <<folders, asked>>
             \/ /\ result = "ok" /\ ~Has(reached', "m_ipmSubtree")
                /\ Crash("null pointer") /\ UNCHANGED <<folders, answer, asked>>
             \/ /\ result = "ok" /\ Ends /\ UNCHANGED crashed
                /\ LET row(id) == Object(id, KindOf(id, special', {}), FALSE)
                   IN  /\ folders' = Inserted(folders, [id \in Rows |-> row(id)])
                       /\ asked' = SetToSeq(Rows)
                       /\ answer' = [i \in DOMAIN asked' |-> row(asked'[i])]
    BY DEF ReadTable
  <1>3. MapType(special')
    BY <1>1, <1>2, LoadOutcome
  <1> DEFINE made == [id \in Rows |-> Object(id, KindOf(id, special', {}), FALSE)]
  <1>4. ASSUME NEW id \in Rows
        PROVE  /\ made[id] \in FolderObjects /\ made[id].is = id
               /\ \A k \in Kinds : made[id].kind = k => k \in DOMAIN special' /\ special'[k] = id
    <2>1. /\ KindOf(id, special', {}) \in Kinds \cup {NoKind}
          /\ \A k \in Kinds : KindOf(id, special', {}) = k => k \in DOMAIN special' /\ special'[k] = id
      BY <1>3, KindIsKind
    <2>2. id \in FolderIds
      BY RowIds
    <2>3. QED
      BY <2>1, <2>2 DEF Object, FolderObjects
  <1>5. RowObjects(made)
    BY <1>4 DEF RowObjects
  <1>6. ASSUME /\ result = "ok" /\ Ends /\ UNCHANGED crashed
               /\ LET row(id) == Object(id, KindOf(id, special', {}), FALSE)
                  IN  /\ folders' = Inserted(folders, [id \in Rows |-> row(id)])
                      /\ asked' = SetToSeq(Rows)
                      /\ answer' = [i \in DOMAIN asked' |-> row(asked'[i])]
        PROVE  \E row : /\ RowObjects(row)
                        /\ folders' = Inserted(folders, row)
                        /\ answer' = [i \in DOMAIN asked' |-> row[asked'[i]]]
    <2>1. folders' = Inserted(folders, made)
      BY <1>6
    <2>2. \A i \in DOMAIN asked' : asked'[i] \in Rows
      BY <1>6, RowIds
    <2>3. answer' = [i \in DOMAIN asked' |-> made[asked'[i]]]
      BY <1>6, <2>2
    <2> HIDE DEF made
    <2>4. QED
      BY <1>5, <2>1, <2>3, Zenon
  <1>7. QED
    BY <1>1, <1>2, <1>6

\* Folders of rows that are put into the cache.
LEMMA CachedRows ==
  ASSUME StoreInv, NEW row, RowObjects(row), folders' = Inserted(folders, row)
  PROVE  /\ DOMAIN folders' = DOMAIN folders \cup Rows
         /\ DOMAIN folders' \subseteq FolderIds
         /\ \A id \in DOMAIN folders' : folders'[id] \in FolderObjects
         /\ \A id \in DOMAIN folders : folders'[id] = folders[id]
         /\ \A id \in Rows \ DOMAIN folders : folders'[id] = row[id]
  <1>1. DOMAIN row = Rows /\ Rows \subseteq FolderIds /\ \A id \in Rows : row[id] \in FolderObjects
    BY RowIds DEF RowObjects
  <1>2. QED
    BY <1>1, CachedFolders

LEMMA WiderSeq ==
  ASSUME NEW S, NEW T, S \subseteq T, NEW s \in Seq(S)
  PROVE  s \in Seq(T)
  <1>1. s \in [1..Len(s) -> S] /\ Len(s) \in Nat
    OBVIOUS
  <1>2. QED
    BY <1>1

LEMMA MappedSeq ==
  ASSUME NEW S, NEW T, NEW s \in Seq(S), NEW row, \A x \in S : row[x] \in T
  PROVE  [i \in DOMAIN s |-> row[s[i]]] \in Seq(T)
  <1>1. s \in [1..Len(s) -> S] /\ Len(s) \in Nat
    OBVIOUS
  <1>2. [i \in 1..Len(s) |-> row[s[i]]] \in [1..Len(s) -> T]
    BY <1>1
  <1>3. QED
    BY <1>1, <1>2

LEMMA MakingShape ==
  ASSUME StoreInv, Construct \/ ReadTable \/ createSubFolder \/ endSelectionSet \/ selectMissing
                   \/ UNCHANGED vars
  PROVE  Shape'
  <1>0. StoreShape /\ FieldShape
    BY ShapeParts DEF StoreInv
  <1>1. CASE Construct
    <2>1. /\ call.at = "construct" /\ call.wanted \in FolderIds /\ reached > 0
          /\ UNCHANGED <<mailbox, items, asked, calls>>
      BY <1>1, ConstructOutcome
    <2>2. PICK result \in {"ok", "throw", "null pointer"} :
            /\ LoadSpecialFolders(result)
            /\ \/ \E folder \in FolderObjects : CacheFolder(folder) /\ Answers(folder)
               \/ Fails(result) /\ UNCHANGED folders
      BY <1>1, ConstructOutcome
    <2>3. /\ reached' \in 0..Whole' /\ MapType(special') /\ special' # NotLoaded /\ reached' > 0
      BY <2>1, <2>2, LoadOutcome
    <2>4. CASE Fails(result) /\ UNCHANGED folders
      <3>1. StoreShape'
        BY <1>0, <2>1, <2>3, <2>4 DEF StoreShape, MapType
      <3>2. QED
        BY <2>1, <2>4, <3>1, FieldFails, Parts
    <2>5. ASSUME NEW folder \in FolderObjects, CacheFolder(folder), Answers(folder) PROVE Shape'
      <3>1. DOMAIN folders' \subseteq FolderIds /\ \A id \in DOMAIN folders' : folders'[id] \in FolderObjects
        BY <2>5, CachedFolder
      <3>2. StoreShape'
        BY <1>0, <2>1, <2>3, <3>1 DEF StoreShape, MapType
      <3>3. FieldShape'
        BY <2>1, <2>3, <2>5, FieldAnswers
      <3>4. QED
        BY <3>2, <3>3, Parts
    <2>6. QED
      BY <2>2, <2>4, <2>5
  <1>2. CASE ReadTable
    <2>1. /\ call.at = "table" /\ reached > 0 /\ UNCHANGED <<mailbox, items, calls>>
      BY <1>2, ReadOutcome
    <2>2. PICK result \in {"ok", "throw", "null pointer"} :
            /\ LoadSpecialFolders(result)
            /\ \/ Fails(result) /\ UNCHANGED <<folders, asked>>
               \/ Throws /\ UNCHANGED <<folders, asked>>
               \/ Crash("null pointer") /\ UNCHANGED <<folders, answer, asked>>
               \/ /\ Ends /\ UNCHANGED crashed /\ asked' = SetToSeq(Rows)
                  /\ \E row : /\ RowObjects(row)
                              /\ folders' = Inserted(folders, row)
                              /\ answer' = [i \in DOMAIN asked' |-> row[asked'[i]]]
      BY <1>2, ReadOutcome
    <2>3. /\ reached' \in 0..Whole' /\ MapType(special') /\ special' # NotLoaded /\ reached' > 0
      BY <2>1, <2>2, LoadOutcome
    <2>4. CASE UNCHANGED <<folders, asked>>
               /\ (Fails(result) \/ Throws \/ (Crash("null pointer") /\ UNCHANGED answer))
      <3>1. StoreShape'
        BY <1>0, <2>1, <2>3, <2>4 DEF StoreShape, MapType
      <3>2. CASE Crash("null pointer") /\ UNCHANGED answer
        <4>1. Fails("null pointer")
          BY <3>2 DEF Fails
        <4>2. QED
          BY <2>4, <3>1, <4>1, FieldFails, Parts
      <3>3. QED
        BY <2>4, <3>1, <3>2, FieldFails, FieldThrows, Parts
    <2>5. ASSUME NEW row, RowObjects(row), folders' = Inserted(folders, row),
                 answer' = [i \in DOMAIN asked' |-> row[asked'[i]]],
                 Ends, UNCHANGED crashed, asked' = SetToSeq(Rows)
          PROVE  Shape'
      <3>1. DOMAIN folders' \subseteq FolderIds /\ \A id \in DOMAIN folders' : folders'[id] \in FolderObjects
        BY <2>5, CachedRows
      <3>2. StoreShape'
        BY <1>0, <2>1, <2>3, <3>1 DEF StoreShape, MapType
      <3> DEFINE list    == SetToSeq(Rows)
                 objects == FolderObjects \cup {Null}
      <3>3. list \in Seq(Rows) /\ list \in Seq(Kinds \cup FolderIds)
        BY RowIds, WiderSeq
      <3>4. \A id \in Rows : row[id] \in objects
        BY <2>5 DEF RowObjects
      <3> HIDE DEF list, objects
      <3>5. [i \in DOMAIN list |-> row[list[i]]] \in Seq(objects)
        BY <3>3, <3>4, MappedSeq
      <3>8. answer' \in Seq(FolderObjects \cup {Null}) /\ asked' \in Seq(Kinds \cup FolderIds)
        BY <2>5, <3>3, <3>5 DEF list, objects
      <3>6. crashed' \in Crashes
        BY <1>0, <2>5 DEF FieldShape
      <3>7. Ends
        BY <2>5
      <3>9. FieldShape'
        BY <3>6, <3>7, <3>8, EndedField, Zenon
      <3>10. QED
        BY <3>2, <3>9, Parts, Zenon
    <2>6. ASSUME ~(UNCHANGED <<folders, asked>>
                     /\ (Fails(result) \/ Throws \/ (Crash("null pointer") /\ UNCHANGED answer)))
          PROVE  Shape'
      <3>1. /\ Ends /\ UNCHANGED crashed /\ asked' = SetToSeq(Rows)
            /\ \E row : /\ RowObjects(row)
                        /\ folders' = Inserted(folders, row)
                        /\ answer' = [i \in DOMAIN asked' |-> row[asked'[i]]]
        BY <2>2, <2>6, Zenon
      <3>2. PICK row : /\ RowObjects(row)
                       /\ folders' = Inserted(folders, row)
                       /\ answer' = [i \in DOMAIN asked' |-> row[asked'[i]]]
        BY <3>1, Zenon
      <3>3. QED
        BY <2>5, <3>1, <3>2, Zenon
    <2>7. QED
      BY <2>4, <2>6
  <1>3. CASE createSubFolder
    <2> DEFINE created == [id |-> Empty, is |-> New, kind |-> NoKind, opened |-> TRUE]
    <2>1. created \in FolderObjects
      BY EntryIds DEF FolderObjects
    <2>2. CacheFolder(created) /\ answer' = <<created>> /\ asked' = <<New>>
      BY <1>3 DEF createSubFolder
    <2> HIDE DEF created
    <2>3. DOMAIN folders' \subseteq FolderIds /\ \A id \in DOMAIN folders' : folders'[id] \in FolderObjects
      BY <2>1, <2>2, CachedFolder
    <2>4. StoreShape'
      BY <1>0, <1>3, <2>3 DEF createSubFolder, StoreShape, MapType, Whole
    <2>5. FieldShape'
      <3>1. New \in FolderIds
        BY EntryIds
      <3>2. answer' \in Seq(FolderObjects \cup {Null}) /\ asked' \in Seq(Kinds \cup FolderIds)
        BY <2>1, <2>2, <3>1
      <3>3. QED
        BY <1>0, <1>3, <3>2 DEF createSubFolder, FieldShape
    <2>6. QED
      BY <2>4, <2>5, Parts
  <1>4. CASE endSelectionSet
    <2>1. DOMAIN folders' = {} /\ items' = {} /\ folders' = <<>> /\ asked' = <<>> /\ answer' = <<>>
      BY <1>4 DEF endSelectionSet
    <2>2. StoreShape'
      BY <1>0, <1>4, <2>1 DEF endSelectionSet, StoreShape, MapType, Whole
    <2>3. FieldShape'
      BY <1>0, <1>4 DEF endSelectionSet, FieldShape
    <2>4. QED
      BY <2>2, <2>3, Parts
  <1>5. CASE selectMissing
    <2>1. StoreShape'
      BY <1>0, <1>5 DEF selectMissing, StoreShape, MapType, Whole
    <2>2. crashed' \in Crashes /\ UNCHANGED <<answer, asked>> /\ Ends
      BY <1>5 DEF selectMissing, Crash, Crashes
    <2>3. QED
      BY <1>0, <2>1, <2>2, EndedField, Parts DEF FieldShape
  <1>6. CASE UNCHANGED vars
    BY <1>0, <1>6, Parts DEF vars, StoreShape, FieldShape, MapType, Whole
  <1>7. QED
    BY <1>1, <1>2, <1>3, <1>4, <1>5, <1>6

(***************************************************************************)
(* The store is whole while nothing has failed.                            *)
(***************************************************************************)
LEMMA DocumentedStays ==
  ASSUME mailbox' = mailbox
  PROVE  Documented' = Documented /\ Whole' = Whole
  BY DEF Documented, DocumentedKinds, PlacesOf, Whole

\* An action that leaves the members alone and does not crash for a null member.
LEMMA OpenedFrame ==
  ASSUME StoreInv, UNCHANGED <<mailbox, reached, special, failed>>,
         crashed' = crashed \/ crashed' # "null pointer"
  PROVE  Opened'
  BY DocumentedStays DEF StoreInv, Opened, Sound

LEMMA OpenedStep == StoreInv /\ [Next]_vars => Opened'
  <1> SUFFICES ASSUME StoreInv, [Next]_vars PROVE Opened'
    OBVIOUS
  <1>1. ASSUME NEW field, NEW at, NEW todo, NEW wanted, Begin(field, at, todo, wanted)
        PROVE  Opened'
    BY <1>1, OpenedFrame DEF Begin
  <1>2. ASSUME \/ \E kinds \in Requests : getSpecialFolders(kinds)
               \/ getRootFolders
               \/ \E id \in {Empty} \cup PlainIds : getFolderProperties(id)
               \/ \E i \in Items : getItemProperties(i) \/ getParentOfItem(i)
               \/ \E folder \in Known : getParentFolder(folder)
        PROVE  Opened'
    <2>1. \E field, at, todo, wanted : Begin(field, at, todo, wanted)
      BY <1>2, Zenon DEF getSpecialFolders, getRootFolders, getFolderProperties, getItemProperties,
                  getParentOfItem, getParentFolder
    <2>2. QED
      BY <1>1, <2>1
  <1>3. CASE createSubFolder \/ endSelectionSet \/ selectMissing \/ lookupSpecialFolder \/ EndLookups
             \/ UNCHANGED vars
    <2>1. UNCHANGED <<mailbox, reached, special, failed>>
      BY <1>3 DEF createSubFolder, endSelectionSet, selectMissing, lookupSpecialFolder, EndLookups, vars
    <2>2. crashed' = crashed \/ crashed' # "null pointer"
      BY <1>3 DEF createSubFolder, endSelectionSet, selectMissing, lookupSpecialFolder, EndLookups, vars,
                  Crash
    <2>3. QED
      BY <2>1, <2>2, OpenedFrame
  <1>4. ASSUME mailbox' = mailbox, NEW result \in {"ok", "throw"}, OpenStore(result),
               UNCHANGED special, crashed' = crashed \/ crashed' # "null pointer"
        PROVE  Opened'
    <2>1. Sound' => Sound /\ reached' = Whole /\ Whole' = Whole
      BY <1>4, OpenStoreOutcome
    <2>2. QED
      BY <1>4, <2>1, DocumentedStays DEF StoreInv, Opened
  <1>5. ASSUME mailbox' = mailbox, NEW result \in {"ok", "throw", "null pointer"},
               LoadSpecialFolders(result),
               crashed' = "null pointer" /\ crashed # "null pointer" =>
                 result = "null pointer" \/ ~Has(reached', "m_ipmSubtree")
        PROVE  Opened'
    <2>1. Sound' => /\ Sound /\ result = "ok" /\ reached' = Whole
                    /\ special' = Documented /\ Has(reached', "m_ipmSubtree")
      BY <1>5, LoadOutcome
    <2>2. QED
      BY <1>5, <2>1, DocumentedStays DEF StoreInv, Opened
  <1>6. CASE OpenFolder
    <2>1. CASE call.wanted \in DOMAIN folders
      BY <1>6, <2>1, OpenedFrame DEF OpenFolder, Answers
    <2>2. CASE call.wanted \notin DOMAIN folders
      BY <1>4, <1>6, <2>2 DEF OpenFolder, Throws
    <2>3. QED
      BY <2>1, <2>2
  <1>7. CASE OpenEntryFails
    BY <1>4, <1>7 DEF OpenEntryFails, Throws
  <1>8. CASE LoadRootFolders
    BY <1>4, <1>8 DEF LoadRootFolders, Throws
  <1>9. CASE OpenItem
    <2>1. CASE call.wanted \in items
      BY <1>9, <2>1, OpenedFrame DEF OpenItem
    <2>2. CASE call.wanted \notin items
      BY <1>4, <1>9, <2>2 DEF OpenItem, Throws
    <2>3. QED
      BY <2>1, <2>2
  <1>10. CASE LoadKinds
    BY <1>5, <1>10 DEF LoadKinds, Fails, Throws, Crash
  <1>11. CASE Construct
    BY <1>5, <1>11, ConstructOutcome DEF Fails, Throws, Crash, Answers
  <1>12. CASE ReadTable
    BY <1>5, <1>12, ReadOutcome DEF Fails, Throws, Crash
  <1>13. QED
    BY <1>2, <1>3, <1>6, <1>7, <1>8, <1>9, <1>10, <1>11, <1>12 DEF Next

(***************************************************************************)
(* The cached folders are of the kind their ID says.                       *)
(***************************************************************************)
LEMMA FoldersStep == StoreInv /\ [Next]_vars => KindsAgree' /\ Named'
  <1> SUFFICES ASSUME StoreInv, [Next]_vars PROVE KindsAgree' /\ Named'
    OBVIOUS
  <1>0. KindsAgree /\ Named /\ (folders # <<>> => special # NotLoaded)
    BY DEF StoreInv, Shape, TypeOK
  <1>a. DOMAIN folders # {} => special # NotLoaded
    <2>1. CASE folders = <<>>
      BY <2>1
    <2>2. CASE folders # <<>>
      BY <1>0, <2>2
    <2>3. QED
      BY <2>1, <2>2
  <1>1. ASSUME UNCHANGED folders, special # NotLoaded => special' = special
        PROVE  KindsAgree' /\ Named'
    <2>1. CASE special # NotLoaded
      BY <1>0, <1>1, <2>1 DEF KindsAgree, Named
    <2>2. CASE special = NotLoaded
      <3>1. DOMAIN folders = {}
        BY <1>0, <2>2
      <3>2. QED
        BY <1>1, <3>1 DEF KindsAgree, Named
    <2>3. QED
      BY <2>1, <2>2
  <1>2. ASSUME \/ \E kinds \in Requests : getSpecialFolders(kinds)
               \/ getRootFolders
               \/ \E id \in {Empty} \cup PlainIds : getFolderProperties(id)
               \/ \E i \in Items : getItemProperties(i) \/ getParentOfItem(i)
               \/ \E folder \in Known : getParentFolder(folder)
        PROVE  UNCHANGED <<folders, special>>
    <2>1. \E field, at, todo, wanted : Begin(field, at, todo, wanted)
      BY <1>2, Zenon DEF getSpecialFolders, getRootFolders, getFolderProperties, getItemProperties,
                  getParentOfItem, getParentFolder
    <2>2. QED
      BY <2>1 DEF Begin
  <1>3. CASE selectMissing \/ lookupSpecialFolder \/ EndLookups \/ UNCHANGED vars
             \/ OpenFolder \/ OpenEntryFails \/ LoadRootFolders \/ OpenItem
    BY <1>1, <1>3 DEF selectMissing, lookupSpecialFolder, EndLookups, vars, OpenFolder, OpenEntryFails,
                      LoadRootFolders, OpenItem
  <1>4. CASE LoadKinds
    <2>1. special # NotLoaded => special' = special
      BY <1>4, LoadOutcome DEF LoadKinds
    <2>2. QED
      BY <1>1, <1>4, <2>1 DEF LoadKinds
  <1>5. CASE createSubFolder
    <2> DEFINE created == [id |-> Empty, is |-> New, kind |-> NoKind, opened |-> TRUE]
    <2>1. created \in FolderObjects /\ created.id = Empty /\ created.kind = NoKind
      BY EntryIds DEF FolderObjects
    <2>2. CacheFolder(created) /\ UNCHANGED special
      BY <1>5 DEF createSubFolder
    <2> HIDE DEF created
    <2>3. /\ DOMAIN folders' = DOMAIN folders \cup {Empty}
          /\ \A id \in DOMAIN folders : folders'[id] = folders[id]
          /\ \A id \in {Empty} \ DOMAIN folders : folders'[id] = created
      BY <2>1, <2>2, CachedFolder
    <2>4. QED
      BY <1>0, <2>1, <2>2, <2>3, KindsAssumption DEF KindsAgree, Named
  <1>6. CASE endSelectionSet
    <2>1. DOMAIN folders' = {}
      BY <1>6 DEF endSelectionSet
    <2>2. QED
      BY <2>1 DEF KindsAgree, Named
  <1>7. CASE Construct
    <2>1. PICK result \in {"ok", "throw", "null pointer"} :
            /\ LoadSpecialFolders(result)
            /\ \/ \E folder \in FolderObjects :
                    /\ folder.id = call.wanted /\ folder.is = call.wanted
                    /\ \A k \in Kinds : folder.kind = k => k \in DOMAIN special' /\ special'[k] = folder.is
                    /\ CacheFolder(folder)
               \/ UNCHANGED folders
      BY <1>7, ConstructOutcome
    <2>2. special # NotLoaded => special' = special
      BY <1>7, <2>1, LoadOutcome, ConstructOutcome
    <2>3. CASE UNCHANGED folders
      BY <1>1, <2>2, <2>3
    <2>4. ASSUME NEW folder \in FolderObjects, folder.id = call.wanted, folder.is = call.wanted,
                 \A k \in Kinds : folder.kind = k => k \in DOMAIN special' /\ special'[k] = folder.is,
                 CacheFolder(folder)
          PROVE  KindsAgree' /\ Named'
      <3>1. /\ DOMAIN folders' = DOMAIN folders \cup {folder.id}
            /\ \A id \in DOMAIN folders : folders'[id] = folders[id]
            /\ \A id \in {folder.id} \ DOMAIN folders : folders'[id] = folder
        BY <2>4, CachedFolder
      <3>2. DOMAIN folders # {} => special' = special
        BY <1>a, <2>2
      <3>3. ASSUME NEW id \in DOMAIN folders', NEW k \in Kinds, folders'[id].kind = k
            PROVE  k \in DOMAIN special' /\ special'[k] = folders'[id].is
        <4>1. CASE id \in DOMAIN folders
          BY <1>0, <3>1, <3>2, <3>3, <4>1 DEF KindsAgree
        <4>2. CASE id \notin DOMAIN folders
          BY <2>4, <3>1, <3>3, <4>2
        <4>3. QED
          BY <4>1, <4>2
      <3>4. Named'
        BY <1>0, <2>4, <3>1 DEF Named
      <3>5. QED
        BY <3>3, <3>4 DEF KindsAgree
    <2>5. QED
      BY <2>1, <2>3, <2>4
  <1>8. CASE ReadTable
    <2>1. PICK result \in {"ok", "throw", "null pointer"} :
            /\ LoadSpecialFolders(result)
            /\ \/ UNCHANGED folders
               \/ \E row : RowObjects(row) /\ folders' = Inserted(folders, row)
      BY <1>8, ReadOutcome
    <2>2. special # NotLoaded => special' = special
      BY <1>8, <2>1, LoadOutcome, ReadOutcome
    <2>3. CASE UNCHANGED folders
      BY <1>1, <2>2, <2>3
    <2>4. ASSUME NEW row, RowObjects(row), folders' = Inserted(folders, row)
          PROVE  KindsAgree' /\ Named'
      <3>a. \A id \in Rows : /\ row[id].is = id
                             /\ \A k \in Kinds : row[id].kind = k => k \in DOMAIN special' /\ special'[k] = id
        BY <2>4 DEF RowObjects
      <3>1. /\ DOMAIN folders' = DOMAIN folders \cup Rows
            /\ \A id \in DOMAIN folders : folders'[id] = folders[id]
            /\ \A id \in Rows \ DOMAIN folders : folders'[id] = row[id]
        BY <2>4, CachedRows
      <3>2. DOMAIN folders # {} => special' = special
        BY <1>a, <2>2
      <3>3. ASSUME NEW id \in DOMAIN folders', NEW k \in Kinds, folders'[id].kind = k
            PROVE  k \in DOMAIN special' /\ special'[k] = folders'[id].is
        <4>1. CASE id \in DOMAIN folders
          <5>1. folders'[id] = folders[id] /\ special' = special
            BY <3>1, <3>2, <4>1
          <5>2. folders[id].kind = k => k \in DOMAIN special /\ special[k] = folders[id].is
            BY <1>0, <4>1 DEF KindsAgree
          <5>3. QED
            BY <3>3, <5>1, <5>2
        <4>2. CASE id \notin DOMAIN folders
          <5>1. id \in Rows /\ folders'[id] = row[id]
            BY <3>1, <3>3, <4>2
          <5>2. row[id].is = id /\ (row[id].kind = k => k \in DOMAIN special' /\ special'[k] = id)
            BY <3>3, <3>a, <5>1
          <5>3. QED
            BY <3>3, <5>1, <5>2
        <4>3. QED
          BY <4>1, <4>2
      <3>4. Named'
        <4>1. ASSUME Empty \notin DOMAIN folders', NEW id \in DOMAIN folders'
              PROVE  folders'[id].is = id
          <5>1. CASE id \in DOMAIN folders
            BY <1>0, <3>1, <4>1, <5>1 DEF Named
          <5>2. CASE id \notin DOMAIN folders
            BY <3>1, <3>a, <4>1, <5>2
          <5>3. QED
            BY <5>1, <5>2
        <4>2. QED
          BY <4>1 DEF Named
      <3>5. QED
        BY <3>3, <3>4 DEF KindsAgree
    <2>5. QED
      BY <2>1, <2>3, <2>4
  <1>9. QED
    BY <1>1, <1>2, <1>3, <1>4, <1>5, <1>6, <1>7, <1>8 DEF Next

(***************************************************************************)
(* Theorems.                                                               *)
(***************************************************************************)
\* The members of a store keep their types, a store is whole while nothing has
\* failed, and the cached folders are what their IDs say.
THEOREM StoreCorrect == Spec => []StoreInv
  <1>1. StoreInv /\ [Next]_vars => StoreInv'
    <2>1. ASSUME StoreInv, [Next]_vars PROVE Shape'
      BY <2>1, BeginShape, OpeningShape, MakingShape DEF Next
    <2>2. QED
      BY <2>1, OpenedStep, FoldersStep DEF StoreInv
  <1>2. QED
    BY <1>1, InitStore, PTL DEF Spec

\* Whatever was asked first, the special folders of a store that has not failed are
\* the documented ones (Store.cpp:53).
THEOREM SpecialFoldersAreDocumented == Spec => []SpecialAsDocumented
  <1>1. StoreInv => SpecialAsDocumented
    BY DEF StoreInv, Opened, SpecialAsDocumented
  <1>2. QED
    BY <1>1, StoreCorrect, PTL

\* A null member is used only after a MAPI call has failed, or in a store without
\* an IPM subtree (Store.cpp:831).
THEOREM NullIsHalfOpen == Spec => []NullOnlyHalfOpen
  <1>1. StoreInv => NullOnlyHalfOpen
    BY DEF StoreInv, Shape, Opened, NullOnlyHalfOpen
  <1>2. QED
    BY <1>1, StoreCorrect, PTL

\* A folder that says it is special is the one the store lists (Folder.cpp:44).
THEOREM KindsAlwaysAgree == Spec => []KindsAgree
  <1>1. StoreInv => KindsAgree
    BY DEF StoreInv
  <1>2. QED
    BY <1>1, StoreCorrect, PTL
-----------------------------------------------------------------------------
(***************************************************************************)
(* What a store answers.  The invariant follows a field from its question  *)
(* to its answer, StoreInv says what is cached on the way.                 *)
(***************************************************************************)

\* The answer to one question of a field, `map` being the special folders.
Right(map, question, folder) ==
  IF question \in Kinds
  THEN IF question \in DOMAIN map
       THEN folder # Null /\ folder.is = map[question]
       ELSE folder = Null
  ELSE folder # Null => folder.is = (IF question = Empty THEN Root ELSE question)

\* A store that nothing has happened to, and no sub-folder cached under the
\* root's ID.
Untouched == Sound /\ crashed = "no" /\ Empty \notin DOMAIN folders

RightSoFar == \A i \in DOMAIN answer : i \in DOMAIN asked /\ Right(Documented, asked[i], answer[i])

\* getSpecialFolders: the kinds that were looked up have answers, the one being
\* opened is next, the others are still to do.
Done == Len(asked) - Len(call.todo)
KindsToDo ==
  /\ asked \in Seq(Kinds) /\ call.todo \in Seq(Kinds) /\ Done \in Nat
  /\ \A j \in 1..Len(call.todo) : call.todo[j] = asked[Done + j]
  /\ call.at \in {"kinds", "lookup"} => Len(answer) = Done
  /\ call.at \in {"open", "construct"} =>
       /\ Len(answer) + 1 = Done
       /\ asked[Done] \in DOMAIN special /\ call.wanted = special[asked[Done]]

\* One folder by its ID; an empty ID has become the root's by the time it is
\* constructed.
FolderToOpen ==
  /\ answer = <<>> /\ Len(asked) = 1 /\ asked[1] \in FolderIds
  /\ call.at = "open" => call.wanted = asked[1]
  /\ call.at = "construct" => call.wanted = (IF asked[1] = Empty THEN Root ELSE asked[1])

InProgress ==
  /\ call.for = "specialFolders" /\ call.at \in {"kinds", "lookup", "open", "construct"} => KindsToDo
  /\ call.for # "specialFolders" /\ call.at \in {"open", "construct"} => FolderToOpen

AnswersInv == Untouched => RightSoFar /\ InProgress

\* How far the list of kinds is done.
LEMMA NextToDo ==
  ASSUME NEW a \in Nat, NEW b \in Nat, NEW n \in Nat, n + 1 = a - b
  PROVE  a - b \in 1..a
  OBVIOUS

LEMMA OneLess ==
  ASSUME NEW a \in Nat, NEW b \in Nat, NEW n, n = b - 1
  PROVE  a - n = (a - b) + 1
  OBVIOUS

LEMMA SeqElement ==
  ASSUME NEW S, NEW q \in Seq(S), NEW i \in DOMAIN q
  PROVE  q[i] \in S
  OBVIOUS

LEMMA InitAnswers == Init => AnswersInv
  BY DEF Init, AnswersInv, RightSoFar, InProgress, Idle

\* Kinds and IDs are different questions.
LEMMA RightFolder ==
  ASSUME NEW map, NEW id \in FolderIds, NEW folder, folder.is = (IF id = Empty THEN Root ELSE id)
  PROVE  Right(map, id, folder)
  BY MarksAssumption DEF Right

\* The questions and answers a step leaves alone.
LEMMA SoFar ==
  ASSUME AnswersInv, Untouched, UNCHANGED <<mailbox, answer, asked>>
  PROVE  RightSoFar'
  BY DocumentedStays DEF AnswersInv, RightSoFar

\* A field that ends with what it had, or with nothing.
LEMMA Ended ==
  ASSUME AnswersInv, Untouched' => Untouched, mailbox' = mailbox, call'.at \notin {"kinds", "lookup", "open", "construct"},
         answer' = <<>> \/ UNCHANGED <<answer, asked>>
  PROVE  AnswersInv'
  <1>1. CASE answer' = <<>>
    BY <1>1 DEF AnswersInv, RightSoFar, InProgress
  <1>2. CASE UNCHANGED <<answer, asked>>
    BY <1>2, SoFar DEF AnswersInv, InProgress
  <1>3. QED
    BY <1>1, <1>2

(***************************************************************************)
(* A store is not mended: only the end of an operation forgets folders.    *)
(***************************************************************************)
Asks ==
  \/ \E kinds \in Requests : getSpecialFolders(kinds)
  \/ getRootFolders
  \/ \E id \in {Empty} \cup PlainIds : getFolderProperties(id)
  \/ \E i \in Items : getItemProperties(i) \/ getParentOfItem(i)
  \/ \E folder \in Known : getParentFolder(folder)

LEMMA AsksBegin ==
  ASSUME Asks
  PROVE  \E field, at, todo, wanted : Begin(field, at, todo, wanted)
  BY Zenon DEF Asks, getSpecialFolders, getRootFolders, getFolderProperties, getItemProperties,
               getParentOfItem, getParentFolder

LEMMA CacheGrows ==
  ASSUME NEW entries, folders' = Inserted(folders, entries)
  PROVE  DOMAIN folders \subseteq DOMAIN folders'
  BY Extension

LEMMA UntouchedBefore ==
  ASSUME StoreInv, [Next]_vars, ~endSelectionSet
  PROVE  Untouched' => Untouched
  <1>1. ASSUME Sound' => Sound, crashed = "no", DOMAIN folders \subseteq DOMAIN folders'
        PROVE  Untouched' => Untouched
    BY <1>1 DEF Untouched
  <1>2. call.at # "idle" => crashed = "no"
    BY DEF StoreInv, Shape
  <1>3. CASE UNCHANGED vars
    BY <1>3 DEF vars, Untouched, Sound
  <1>4. CASE Asks
    BY <1>1, <1>4, AsksBegin DEF Begin, Sound
  <1>5. CASE createSubFolder
    <2>1. \E entries : folders' = Inserted(folders, entries)
      BY <1>5 DEF createSubFolder, CacheFolder
    <2>2. UNCHANGED <<mailbox, failed, crashed>> /\ crashed = "no"
      BY <1>5 DEF createSubFolder
    <2>3. QED
      BY <1>1, <2>1, <2>2, CacheGrows DEF Sound
  <1>6. CASE selectMissing \/ lookupSpecialFolder \/ EndLookups
    BY <1>1, <1>2, <1>6 DEF selectMissing, lookupSpecialFolder, EndLookups, Sound
  <1>7. ASSUME mailbox' = mailbox, call.at # "idle", UNCHANGED folders,
               NEW result \in {"ok", "throw"}, OpenStore(result)
        PROVE  Untouched' => Untouched
    BY <1>1, <1>2, <1>7, OpenStoreOutcome
  <1>8. ASSUME mailbox' = mailbox, call.at # "idle", DOMAIN folders \subseteq DOMAIN folders',
               NEW result \in {"ok", "throw", "null pointer"}, LoadSpecialFolders(result)
        PROVE  Untouched' => Untouched
    BY <1>1, <1>2, <1>8, LoadOutcome
  <1>9. CASE OpenFolder
    <2>1. CASE call.wanted \in DOMAIN folders
      BY <1>1, <1>2, <1>9, <2>1 DEF OpenFolder, Sound, Answers
    <2>2. CASE call.wanted \notin DOMAIN folders
      BY <1>7, <1>9, <2>2 DEF OpenFolder
    <2>3. QED
      BY <2>1, <2>2
  <1>10. CASE OpenEntryFails
    BY <1>7, <1>10 DEF OpenEntryFails
  <1>11. CASE LoadRootFolders
    BY <1>7, <1>11 DEF LoadRootFolders
  <1>12. CASE OpenItem
    <2>1. CASE call.wanted \in items
      BY <1>1, <1>2, <1>12, <2>1 DEF OpenItem, Sound
    <2>2. CASE call.wanted \notin items
      BY <1>7, <1>12, <2>2 DEF OpenItem
    <2>3. QED
      BY <2>1, <2>2
  <1>13. CASE LoadKinds
    BY <1>8, <1>13 DEF LoadKinds
  <1>14. CASE Construct
    BY <1>8, <1>14, ConstructOutcome, CacheGrows DEF CacheFolder
  <1>15. CASE ReadTable
    BY <1>8, <1>15, ReadOutcome, CacheGrows
  <1>16. QED
    BY <1>3, <1>4, <1>5, <1>6, <1>9, <1>10, <1>11, <1>12, <1>13, <1>14, <1>15 DEF Next, Asks

(***************************************************************************)
(* Every step.                                                             *)
(***************************************************************************)
LEMMA AsksAnswers ==
  ASSUME StoreInv, AnswersInv, Asks, Untouched
  PROVE  AnswersInv'
  <1>0. ASSUME NEW field, NEW at, NEW todo, NEW wanted, Begin(field, at, todo, wanted)
        PROVE  call' = [at |-> at, for |-> field, todo |-> todo, wanted |-> wanted] /\ mailbox' = mailbox
    BY <1>0 DEF Begin
  <1>1. ASSUME NEW kinds \in Requests, getSpecialFolders(kinds)
        PROVE  AnswersInv'
    <2>1. call' = [at |-> "kinds", for |-> "specialFolders", todo |-> kinds, wanted |-> Empty]
          /\ asked' = kinds /\ answer' = <<>>
      BY <1>0, <1>1 DEF getSpecialFolders
    <2>2. kinds \in Seq(Kinds)
      <3>1. PICK m \in 0..2 : kinds \in [1..m -> Kinds]
        BY DEF Requests, SeqOf
      <3>2. QED
        BY <3>1
    <2>3. KindsToDo'
      BY <2>1, <2>2 DEF KindsToDo, Done
    <2>4. QED
      BY <2>1, <2>3 DEF AnswersInv, RightSoFar, InProgress
  <1>2. CASE getRootFolders
    BY <1>0, <1>2 DEF getRootFolders, AnswersInv, RightSoFar, InProgress
  <1>3. ASSUME NEW i \in Items, getItemProperties(i)
        PROVE  AnswersInv'
    BY <1>0, <1>3 DEF getItemProperties, AnswersInv, RightSoFar, InProgress
  <1>4. ASSUME NEW id \in FolderIds, NEW field \in {"folderProperties", "parentFolder"},
               Begin(field, "open", <<>>, id), asked' = <<id>>, answer' = <<>>
        PROVE  AnswersInv'
    <2>1. call'.at = "open" /\ call'.for # "specialFolders" /\ call'.wanted = id
      BY <1>0, <1>4
    <2>2. FolderToOpen'
      BY <1>4, <2>1 DEF FolderToOpen
    <2>3. QED
      BY <1>4, <2>1, <2>2 DEF AnswersInv, RightSoFar, InProgress
  <1>5. ASSUME NEW id \in {Empty} \cup PlainIds, getFolderProperties(id)
        PROVE  AnswersInv'
    BY <1>4, <1>5, EntryIds DEF getFolderProperties
  <1>6. ASSUME NEW i \in Items, getParentOfItem(i)
        PROVE  AnswersInv'
    <2>1. Home \in FolderIds
      <3>1. \E p \in Plain : <<"plain", p>> \in PlainIds
        BY PlainAssumption DEF PlainIds
      <3>2. QED
        BY <3>1, EntryIds DEF Home
    <2>2. QED
      BY <1>4, <1>6, <2>1 DEF getParentOfItem
  <1>7. ASSUME NEW folder \in Known, getParentFolder(folder)
        PROVE  AnswersInv'
    <2> DEFINE parent == ParentOf(folder.id)
    <2>1. parent \in FolderIds
      BY ParentIds
    <2>2. CASE parent = folder.id
      <3>1. call'.at = "idle" /\ asked' = <<parent>> /\ answer' = <<Null>> /\ mailbox' = mailbox
        BY <1>0, <1>7, <2>2 DEF getParentFolder
      <3>2. parent \notin Kinds
        BY <2>1, MarksAssumption
      <3> HIDE DEF parent
      <3>3. RightSoFar'
        BY <3>1, <3>2 DEF RightSoFar, Right
      <3>4. QED
        BY <3>1, <3>3 DEF AnswersInv, InProgress
    <2>3. CASE parent # folder.id
      <3>1. Begin("parentFolder", "open", <<>>, parent) /\ asked' = <<parent>> /\ answer' = <<>>
        BY <1>7, <2>3 DEF getParentFolder
      <3> HIDE DEF parent
      <3>2. QED
        BY <1>4, <2>1, <3>1
    <2>4. QED
      BY <2>2, <2>3
  <1>8. QED
    BY <1>1, <1>2, <1>3, <1>5, <1>6, <1>7 DEF Asks

\* A folder that is the one asked for is the right answer, and the next kind's
\* turn comes.
LEMMA Answered ==
  ASSUME StoreInv, AnswersInv, Untouched, mailbox' = mailbox, UNCHANGED asked,
         call.at \in {"open", "construct"},
         call.for = "specialFolders" => special # NotLoaded,
         special # NotLoaded => special' = special,
         NEW folder \in FolderObjects, Answers(folder),
         call.for = "specialFolders" => folder.is = call.wanted,
         call.for # "specialFolders" =>
           folder.is = (IF asked[1] = Empty THEN Root ELSE asked[1])
  PROVE  AnswersInv'
  <1>0. answer \in Seq(FolderObjects \cup {Null}) /\ asked \in Seq(Kinds \cup FolderIds)
        /\ RightSoFar /\ InProgress /\ answer' = Append(answer, folder) /\ folder # Null
    BY MarksAssumption DEF StoreInv, Shape, AnswersInv, Answers
  <1>1. \A i \in DOMAIN answer : i \in DOMAIN asked' /\ Right(Documented', asked'[i], answer'[i])
    <2>1. ASSUME NEW i \in DOMAIN answer
          PROVE  i \in DOMAIN asked' /\ Right(Documented', asked'[i], answer'[i])
      <3>1. i \in DOMAIN asked /\ Right(Documented, asked[i], answer[i])
        BY <1>0 DEF RightSoFar
      <3>2. answer'[i] = answer[i] /\ asked'[i] = asked[i]
        BY <1>0
      <3>3. QED
        BY <3>1, <3>2, DocumentedStays
    <2>2. QED
      BY <2>1
  <1>2. DOMAIN answer' = DOMAIN answer \cup {Len(answer) + 1} /\ answer'[Len(answer) + 1] = folder
    BY <1>0
  <1>3. CASE call.for = "specialFolders"
    <2>1. call' = [call EXCEPT !.at = "lookup"] /\ call \in CallType
      BY <1>3 DEF Answers, StoreInv, Shape
    <2>2. call'.at = "lookup" /\ call'.todo = call.todo
      BY <2>1 DEF CallType
    <2>3. /\ KindsToDo /\ Len(answer) + 1 = Done
          /\ asked[Done] \in DOMAIN special /\ call.wanted = special[asked[Done]]
      BY <1>0, <1>3 DEF InProgress, KindsToDo
    <2>4. special = Documented
      BY <1>3 DEF StoreInv, Opened, Untouched
    <2>a. asked \in Seq(Kinds) /\ call.todo \in Seq(Kinds) /\ Len(answer) \in Nat
      BY <1>0, <2>3 DEF KindsToDo
    <2>b. Len(call.todo) \in Nat /\ Len(asked) \in Nat
      BY <2>a
    <2>c. Done \in 1..Len(asked)
      <3>1. Len(answer) + 1 = Len(asked) - Len(call.todo)
        BY <2>3 DEF Done
      <3>2. Len(asked) - Len(call.todo) \in 1..Len(asked)
        BY <2>a, <2>b, <3>1, NextToDo
      <3>3. QED
        BY <3>2 DEF Done
    <2>5. Done \in DOMAIN asked /\ asked[Done] \in Kinds
      BY <2>a, <2>c
    <2>6. Right(Documented, asked[Done], folder)
      BY <1>0, <1>3, <2>3, <2>4, <2>5 DEF Right
    <2>7. RightSoFar'
      BY <1>1, <1>2, <2>3, <2>5, <2>6, DocumentedStays DEF RightSoFar
    <2>d. Len(answer') = Len(answer) + 1
      BY <1>0
    <2>8. Done' = Done /\ Len(answer') = Done
      BY <2>2, <2>3, <2>d DEF Done
    <2>9. KindsToDo'
      BY <2>2, <2>3, <2>8 DEF KindsToDo
    <2>10. QED
      BY <2>2, <2>7, <2>9 DEF AnswersInv, InProgress
  <1>4. CASE call.for # "specialFolders"
    <2>1. answer = <<>> /\ Len(asked) = 1 /\ asked[1] \in FolderIds
      BY <1>0, <1>4 DEF InProgress, FolderToOpen
    <2>2. Right(Documented, asked[1], folder)
      BY <1>4, <2>1, RightFolder
    <2>3. RightSoFar'
      BY <1>0, <1>1, <1>2, <2>1, <2>2, DocumentedStays DEF RightSoFar
    <2>4. call'.at = "idle"
      BY <1>4, IdleShape DEF Answers, Ends
    <2>5. QED
      BY <2>3, <2>4 DEF AnswersInv, InProgress
  <1>5. QED
    BY <1>3, <1>4

LEMMA AnswersStep ==
  ASSUME StoreInv, AnswersInv, [Next]_vars
  PROVE  AnswersInv'
  <1>0. CASE endSelectionSet
    <2>1. answer' = <<>> /\ call'.at = "idle"
      BY <1>0 DEF endSelectionSet
    <2>2. QED
      BY <2>1 DEF AnswersInv, RightSoFar, InProgress
  <1> SUFFICES ASSUME ~endSelectionSet, Untouched'
               PROVE  AnswersInv'
    BY <1>0 DEF AnswersInv
  <1>a. Untouched
    BY UntouchedBefore
  <1>b. RightSoFar /\ InProgress /\ Sound' /\ crashed' = "no" /\ Sound
    BY <1>a DEF AnswersInv, Untouched
  <1>c. /\ answer \in Seq(FolderObjects \cup {Null}) /\ asked \in Seq(Kinds \cup FolderIds)
        /\ call \in CallType /\ reached \in {0, Whole}
        /\ \A id \in DOMAIN folders : folders[id] \in FolderObjects /\ folders[id].is = id
        /\ call.for = "specialFolders" /\ call.at # "kinds" => special # NotLoaded
        /\ special # NotLoaded => special = Documented
        /\ call.at \in {"open", "construct"} => call.wanted \in FolderIds
    BY <1>a DEF StoreInv, Shape, TypeOK, Opened, Named, Untouched
  <1>1. ASSUME mailbox' = mailbox, Ends, answer' = <<>> \/ UNCHANGED <<answer, asked>>
        PROVE  AnswersInv'
    <2>1. call'.at = "idle"
      BY <1>1, IdleShape DEF Ends
    <2>2. QED
      BY <1>1, <1>a, <2>1, Ended
  <1>2. CASE UNCHANGED vars
    BY <1>2, <1>b, DocumentedStays DEF vars, AnswersInv, RightSoFar, InProgress, KindsToDo, FolderToOpen, Done
  <1>3. CASE Asks
    BY <1>3, <1>a, AsksAnswers
  <1>4. CASE createSubFolder
    <2> DEFINE created == [id |-> Empty, is |-> New, kind |-> NoKind, opened |-> TRUE]
    <2>1. CacheFolder(created) /\ created.id = Empty
      BY <1>4 DEF createSubFolder
    <2> HIDE DEF created
    <2>2. folders' = Inserted(folders, [id \in {Empty} |-> created])
      BY <2>1 DEF CacheFolder
    <2>3. Empty \in DOMAIN folders'
      BY <2>2, Extension
    <2>4. QED
      BY <2>3 DEF Untouched
  <1>5. CASE selectMissing
    BY <1>5, <1>b DEF selectMissing, Crash
  <1>6. CASE EndLookups
    BY <1>1, <1>6 DEF EndLookups
  <1>7. CASE LoadKinds
    <2>1. PICK result \in {"ok", "throw", "null pointer"} :
            /\ LoadSpecialFolders(result)
            /\ \/ result = "ok" /\ call' = [call EXCEPT !.at = "lookup"] /\ UNCHANGED <<answer, crashed>>
               \/ Fails(result)
      BY <1>7 DEF LoadKinds
    <2>2. UNCHANGED <<mailbox, asked>> /\ call.at = "kinds" /\ call.for = "specialFolders"
      BY <1>7 DEF LoadKinds, StoreInv, Shape
    <2>3. result = "ok"
      BY <2>1, <2>2, <1>b, LoadOutcome
    <2>4. call' = [call EXCEPT !.at = "lookup"] /\ UNCHANGED answer
      BY <2>1, <2>3 DEF Fails
    <2>5. call'.at = "lookup" /\ call'.for = call.for /\ call'.todo = call.todo
      BY <1>c, <2>4 DEF CallType
    <2>6. KindsToDo
      BY <1>b, <2>2 DEF InProgress
    <2>7. KindsToDo'
      BY <2>2, <2>4, <2>5, <2>6 DEF KindsToDo, Done
    <2>8. RightSoFar'
      BY <1>a, <2>2, <2>4, SoFar
    <2>9. QED
      BY <2>2, <2>5, <2>7, <2>8 DEF AnswersInv, InProgress
  <1>8. CASE lookupSpecialFolder
    <2> DEFINE kind == Head(call.todo)
               rest == [call EXCEPT !.todo = Tail(@)]
    <2>1. /\ call.at = "lookup" /\ call.todo # <<>> /\ call.for = "specialFolders"
          /\ UNCHANGED <<mailbox, special, asked>>
      BY <1>8 DEF lookupSpecialFolder, StoreInv, Shape
    <2>2. IF kind \in DOMAIN special
          THEN call' = [rest EXCEPT !.at = "open", !.wanted = special[kind]] /\ UNCHANGED answer
          ELSE call' = rest /\ answer' = Append(answer, Null)
      BY <1>8 DEF lookupSpecialFolder
    <2>3. KindsToDo /\ Len(answer) = Done
      BY <1>b, <2>1 DEF InProgress, KindsToDo
    <2>4. /\ asked \in Seq(Kinds) /\ call.todo \in Seq(Kinds) /\ Len(call.todo) \in Nat \ {0}
          /\ Len(answer) \in Nat /\ Len(asked) \in Nat /\ Done \in Nat /\ Done = Len(asked) - Len(call.todo)
      BY <1>c, <2>1, <2>3 DEF KindsToDo, Done
    <2>5. Len(Tail(call.todo)) = Len(call.todo) - 1 /\ Tail(call.todo) \in Seq(Kinds)
          /\ \A j \in 1..(Len(call.todo) - 1) : Tail(call.todo)[j] = call.todo[j + 1]
      BY <2>1, <2>4
    <2>a. 1 \in 1..Len(call.todo)
      BY <2>4
    <2>6. kind = asked[Done + 1] /\ Done + 1 \in 1..Len(asked)
      <3>1. call.todo[1] = asked[Done + 1]
        BY <2>3, <2>a DEF KindsToDo
      <3>2. kind = call.todo[1]
        BY <2>1, <2>4
      <3>3. Done + 1 \in 1..Len(asked)
        BY <2>4
      <3>4. QED
        BY <3>1, <3>2, <3>3
    <2>7. kind \in Kinds /\ special = Documented
      BY <1>c, <2>1, <2>4, <2>6
    <2>8. call'.for = "specialFolders" /\ call'.todo = Tail(call.todo)
      BY <1>c, <2>1, <2>2 DEF CallType
    <2>9. Done' = Done + 1
      <3>1. Done' = Len(asked) - Len(Tail(call.todo))
        BY <2>1, <2>8 DEF Done
      <3>2. Len(asked) - Len(Tail(call.todo)) = (Len(asked) - Len(call.todo)) + 1
        BY <2>4, <2>5, OneLess
      <3>3. Done = Len(asked) - Len(call.todo)
        BY DEF Done
      <3>4. QED
        BY <3>1, <3>2, <3>3
    <2>10. \A j \in 1..Len(call'.todo) : call'.todo[j] = asked'[Done' + j]
      <3>1. ASSUME NEW j \in 1..Len(call'.todo)
            PROVE  call'.todo[j] = asked'[Done' + j]
        <4>1. j + 1 \in 1..Len(call.todo) /\ j \in 1..(Len(call.todo) - 1)
          BY <2>4, <2>5, <2>8, <3>1
        <4>2. call.todo[j + 1] = asked[Done + (j + 1)]
          BY <2>3, <4>1 DEF KindsToDo
        <4>3. Done' + j = Done + (j + 1)
          BY <2>4, <2>9, <4>1
        <4>4. QED
          BY <2>1, <2>5, <2>8, <4>1, <4>2, <4>3
      <3>2. QED
        BY <3>1
    <2>b. asked' \in Seq(Kinds) /\ call'.todo \in Seq(Kinds) /\ Done' \in Nat
      BY <2>1, <2>4, <2>5, <2>8, <2>9
    <2>11. CASE kind \in DOMAIN special
      <3>1. call'.at = "open" /\ call'.wanted = special[kind] /\ UNCHANGED answer
        BY <1>c, <2>2, <2>11 DEF CallType
      <3>2. KindsToDo'
        <4>1. Len(answer') + 1 = Done'
          BY <2>3, <2>9, <3>1
        <4>2. asked'[Done'] \in DOMAIN special' /\ call'.wanted = special'[asked'[Done']]
          BY <2>1, <2>6, <2>9, <2>11, <3>1
        <4>3. QED
          BY <2>b, <2>10, <3>1, <4>1, <4>2 DEF KindsToDo
      <3>3. QED
        BY <1>a, <2>1, <2>8, <3>1, <3>2, SoFar DEF AnswersInv, InProgress
    <2>12. CASE kind \notin DOMAIN special
      <3>1. call'.at = "lookup" /\ answer' = Append(answer, Null)
        BY <1>c, <2>1, <2>2, <2>12 DEF CallType
      <3>2. Len(answer') = Done'
        BY <1>c, <2>3, <2>9, <3>1
      <3>3. KindsToDo'
        BY <2>b, <2>10, <3>1, <3>2 DEF KindsToDo
      <3>4. ASSUME NEW i \in DOMAIN answer'
            PROVE  i \in DOMAIN asked' /\ Right(Documented', asked'[i], answer'[i])
        <4>1. CASE i \in DOMAIN answer
          <5>1. i \in DOMAIN asked /\ Right(Documented, asked[i], answer[i])
            BY <1>b, <4>1 DEF RightSoFar
          <5>2. answer'[i] = answer[i]
            BY <1>c, <3>1, <4>1
          <5>3. QED
            BY <2>1, <5>1, <5>2, DocumentedStays
        <4>2. CASE i \notin DOMAIN answer
          <5>1. i = Done + 1 /\ answer'[i] = Null
            BY <1>c, <2>3, <3>1, <3>4, <4>2
          <5>2. Right(Documented, kind, Null)
            BY <2>7, <2>12 DEF Right
          <5>3. QED
            <6>1. asked'[i] = kind /\ i \in DOMAIN asked'
              <7>1. DOMAIN asked = 1..Len(asked) /\ asked' = asked
                BY <2>1, <2>4
              <7>2. QED
                BY <2>6, <5>1, <7>1
            <6>2. QED
              BY <2>1, <5>1, <5>2, <6>1, DocumentedStays
        <4>3. QED
          BY <4>1, <4>2
      <3>5. QED
        BY <2>8, <3>1, <3>3, <3>4 DEF AnswersInv, InProgress, RightSoFar
    <2>13. QED
      BY <2>11, <2>12
  <1>9. CASE OpenFolder
    <2>1. UNCHANGED <<mailbox, special, folders, items, asked>> /\ call.at = "open"
      BY <1>9 DEF OpenFolder
    <2>2. CASE call.wanted \in DOMAIN folders
      <3>1. Answers(folders[call.wanted])
        BY <1>9, <2>2 DEF OpenFolder
      <3>2. folders[call.wanted] \in FolderObjects /\ folders[call.wanted].is = call.wanted
        BY <1>c, <2>2
      <3>3. call.for # "specialFolders" => call.wanted = asked[1] /\ call.wanted # Empty
        BY <1>a, <1>b, <2>1, <2>2 DEF InProgress, FolderToOpen, Untouched
      <3>4. QED
        BY <1>a, <1>c, <2>1, <3>1, <3>2, <3>3, Answered
    <2>3. CASE call.wanted \notin DOMAIN folders
      <3>1. PICK result \in {"ok", "throw"} :
              /\ OpenStore(result)
              /\ \/ /\ result = "ok"
                    /\ call' = [call EXCEPT !.at = "construct", !.wanted = EntryOf(@, reached')]
                    /\ UNCHANGED <<answer, crashed>>
                 \/ result = "throw" /\ Throws
        BY <1>9, <2>3 DEF OpenFolder
      <3>2. result = "ok" /\ reached' = Whole
        BY <1>b, <2>1, <3>1, OpenStoreOutcome
      <3>3. call' = [call EXCEPT !.at = "construct", !.wanted = EntryOf(@, reached')] /\ UNCHANGED answer
        BY <3>1, <3>2
      <3>4. call'.at = "construct" /\ call'.for = call.for /\ call'.todo = call.todo
            /\ call'.wanted = EntryOf(call.wanted, reached')
        BY <1>c, <3>3 DEF CallType
      <3>5. call'.wanted = (IF call.wanted = Empty THEN Root ELSE call.wanted)
        BY <3>2, <3>4, Members DEF EntryOf
      <3>6. RightSoFar'
        BY <1>a, <2>1, <3>3, SoFar
      <3>7. CASE call.for = "specialFolders"
        <4>1. KindsToDo /\ Len(answer) + 1 = Done /\ asked[Done] \in DOMAIN special
              /\ call.wanted = special[asked[Done]]
          BY <1>b, <2>1, <3>7 DEF InProgress, KindsToDo
        <4>2. call.wanted # Empty
          <5>1. special # NotLoaded /\ MapType(special)
            BY <1>c, <2>1, <3>7 DEF StoreInv, Shape, TypeOK, MapType
          <5>2. QED
            BY <4>1, <5>1, EntryIds DEF MapType
        <4>3. Done' = Done
          BY <2>1, <3>4 DEF Done
        <4>4. KindsToDo'
          BY <2>1, <3>3, <3>4, <3>5, <4>1, <4>2, <4>3 DEF KindsToDo
        <4>5. QED
          BY <3>4, <3>6, <3>7, <4>4 DEF AnswersInv, InProgress
      <3>8. CASE call.for # "specialFolders"
        <4>1. FolderToOpen /\ call.wanted = asked[1]
          BY <1>b, <2>1, <3>8 DEF InProgress, FolderToOpen
        <4>2. FolderToOpen'
          BY <2>1, <3>3, <3>4, <3>5, <4>1 DEF FolderToOpen
        <4>3. QED
          BY <3>4, <3>6, <3>8, <4>2 DEF AnswersInv, InProgress
      <3>9. QED
        BY <3>7, <3>8
    <2>4. QED
      BY <2>2, <2>3
  <1>10. CASE OpenEntryFails
    BY <1>1, <1>10 DEF OpenEntryFails, Throws
  <1>11. CASE Construct
    <2>1. PICK result \in {"ok", "throw", "null pointer"} :
            /\ LoadSpecialFolders(result)
            /\ \/ /\ result = "ok"
                  /\ \E folder \in FolderObjects :
                       /\ folder.id = call.wanted /\ folder.is = call.wanted
                       /\ \A k \in Kinds : folder.kind = k => k \in DOMAIN special' /\ special'[k] = folder.is
                       /\ CacheFolder(folder) /\ Answers(folder)
               \/ Fails(result) /\ UNCHANGED folders
      BY <1>11, ConstructOutcome
    <2>2. UNCHANGED <<mailbox, asked>> /\ call.at = "construct"
      BY <1>11, ConstructOutcome
    <2>3. result = "ok" /\ (special # NotLoaded => special' = special)
      BY <1>b, <2>1, <2>2, LoadOutcome
    <2>4. PICK folder \in FolderObjects : folder.is = call.wanted /\ Answers(folder)
      BY <2>1, <2>3 DEF Fails
    <2>5. call.for # "specialFolders" => call.wanted = (IF asked[1] = Empty THEN Root ELSE asked[1])
      BY <1>b, <2>2 DEF InProgress, FolderToOpen
    <2>6. QED
      BY <1>a, <1>c, <2>2, <2>3, <2>4, <2>5, Answered
  <1>12. CASE LoadRootFolders
    <2>1. UNCHANGED <<mailbox, asked>> /\ call.at = "rows"
      BY <1>12 DEF LoadRootFolders
    <2>2. CASE call' = [call EXCEPT !.at = "table"] /\ UNCHANGED answer
      <3>1. call'.at = "table"
        BY <1>c, <2>2 DEF CallType
      <3>2. QED
        BY <1>a, <2>1, <2>2, <3>1, Ended
    <2>3. CASE Throws
      BY <1>1, <2>1, <2>3 DEF Throws
    <2>4. QED
      BY <1>12, <2>2, <2>3 DEF LoadRootFolders
  <1>13. CASE ReadTable
    <2>1. PICK result \in {"ok", "throw", "null pointer"} :
            /\ LoadSpecialFolders(result)
            /\ \/ Fails(result) /\ UNCHANGED <<folders, asked>>
               \/ result = "ok" /\ Throws /\ UNCHANGED <<folders, asked>>
               \/ /\ result = "ok" /\ ~Has(reached', "m_ipmSubtree")
                  /\ Crash("null pointer") /\ UNCHANGED <<folders, answer, asked>>
               \/ /\ result = "ok" /\ Ends /\ UNCHANGED crashed
                  /\ asked' = SetToSeq(Rows)
                  /\ \E row : /\ RowObjects(row)
                              /\ folders' = Inserted(folders, row)
                              /\ answer' = [i \in DOMAIN asked' |-> row[asked'[i]]]
      BY <1>13, ReadOutcome
    <2>2. mailbox' = mailbox
      BY <1>13, ReadOutcome
    <2>3. CASE Throws \/ Crash("null pointer")
      BY <1>1, <1>b, <2>2, <2>3 DEF Throws, Crash
    <2>4. ASSUME NEW row, RowObjects(row), Ends, asked' = SetToSeq(Rows),
                 answer' = [i \in DOMAIN asked' |-> row[asked'[i]]]
          PROVE  AnswersInv'
      <3>1. ASSUME NEW i \in DOMAIN answer'
            PROVE  i \in DOMAIN asked' /\ Right(Documented', asked'[i], answer'[i])
        <4>1. i \in DOMAIN asked' /\ asked'[i] \in Rows /\ answer'[i] = row[asked'[i]]
          <5>1. DOMAIN answer' = DOMAIN asked' /\ answer'[i] = row[asked'[i]]
            BY <2>4, <3>1
          <5>2. asked' \in Seq(Rows)
            BY <2>4, RowIds
          <5>3. i \in DOMAIN asked'
            BY <3>1, <5>1
          <5>4. asked'[i] \in Rows
            BY <5>2, <5>3, SeqElement
          <5>5. QED
            BY <5>1, <5>3, <5>4
        <4>2. row[asked'[i]].is = asked'[i]
          BY <2>4, <4>1 DEF RowObjects
        <4>3. asked'[i] \notin Kinds /\ asked'[i] # Empty
          BY <4>1, RowIds
        <4>4. QED
          BY <4>1, <4>2, <4>3 DEF Right
      <3>2. call'.at = "idle"
        BY <2>4, IdleShape DEF Ends
      <3>3. QED
        BY <3>1, <3>2 DEF AnswersInv, RightSoFar, InProgress
    <2>5. QED
      BY <2>1, <2>3, <2>4 DEF Fails
  <1>14. CASE OpenItem
    <2>1. UNCHANGED <<mailbox, asked>> /\ Ends /\ (answer' = <<>> \/ UNCHANGED answer)
      BY <1>14 DEF OpenItem, Throws
    <2>2. QED
      BY <1>1, <2>1
  <1>15. QED
    BY <1>2, <1>3, <1>4, <1>5, <1>6, <1>7, <1>8, <1>9, <1>10, <1>11, <1>12, <1>13, <1>14 DEF Next, Asks

(***************************************************************************)
(* Theorem.                                                                *)
(***************************************************************************)
\* While nothing has failed, a field is answered with the folders it asked for, in
\* their places, whatever is cached: getSpecialFolders, getRootFolders,
\* getFolderProperties and the parent folders (Store.cpp:1120-1146, Folder.cpp:392).
THEOREM AnswersAreRight == Spec => []AnswersAreAsked
  <1>1. StoreInv /\ AnswersInv => AnswersAreAsked
    BY DEF AnswersInv, RightSoFar, Right, Untouched, AnswersAreAsked
  <1>2. Init => AnswersInv
    BY InitAnswers
  <1>3. StoreInv /\ AnswersInv /\ [Next]_vars => AnswersInv'
    BY AnswersStep
  <1>4. QED
    BY <1>1, <1>2, <1>3, StoreCorrect, PTL DEF Spec
=============================================================================
