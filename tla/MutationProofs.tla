--------------------------- MODULE MutationProofs ---------------------------
(***************************************************************************)
(* Theorems about Mutation, for all messages, folders, properties and      *)
(* fields, and with any call failing.                                      *)
(***************************************************************************)
EXTENDS Mutation, WellFoundedInduction, TLAPS

(***************************************************************************)
(* What SetProps and DeleteProps do to the properties of an object.        *)
(***************************************************************************)

\* Of several inputs for one property there is a last one.
LEMMA LastInput ==
  ASSUME NEW inputs \in Seq(Inputs), NEW p,
         \E i \in DOMAIN inputs : inputs[i].prop = p
  PROVE  \E i \in DOMAIN inputs : /\ inputs[i].prop = p
                                  /\ \A j \in DOMAIN inputs : inputs[j].prop = p => j <= i
  <1> DEFINE last  == Len(inputs)
             after == {n \in Nat : \E i \in DOMAIN inputs : inputs[i].prop = p /\ n = last - i}
  <1>1. last \in Nat /\ DOMAIN inputs = 1..last
    OBVIOUS
  <1> HIDE DEF last
  <1>2. after # {}
    <2>1. PICK i \in DOMAIN inputs : inputs[i].prop = p
      OBVIOUS
    <2>2. last - i \in Nat
      BY <1>1, <2>1
    <2>3. last - i \in after
      BY <2>1, <2>2
    <2>4. QED
      BY <2>3
  <1>3. after \subseteq Nat
    OBVIOUS
  <1>4. PICK n \in after : \A m \in after : ~(<<m, n>> \in OpToRel(<, Nat))
    <2> HIDE DEF after
    <2>1. QED
      BY <1>2, <1>3, NatLessThanWellFounded, WFMin
  <1>5. \A m \in after : n <= m
    <2>1. ASSUME NEW m \in after PROVE n <= m
      <3>1. ~(m < n)
        BY <1>3, <1>4, <2>1 DEF OpToRel
      <3>2. m \in Nat /\ n \in Nat
        BY <1>3
      <3>3. QED
        BY <3>1, <3>2
    <2>2. QED
      BY <2>1
  <1>6. PICK i \in DOMAIN inputs : inputs[i].prop = p /\ n = last - i
    OBVIOUS
  <1>7. ASSUME NEW j \in DOMAIN inputs, inputs[j].prop = p
        PROVE  j <= i
    <2>1. last - j \in after
      BY <1>1, <1>7
    <2>2. last - i <= last - j
      BY <1>5, <1>6, <2>1
    <2>3. QED
      BY <1>1, <1>6, <1>7, <2>2
  <1>8. QED
    BY <1>6, <1>7

\* SetProps gives the properties in `set` a value each and leaves the others.
Sets(set, value, r) ==
  \A c \in Contents : WithSets(c, r) = [p \in Props |-> IF p \in set THEN value[p] ELSE c[p]]

LEMMA InputsSet ==
  ASSUME NEW inputs \in Seq(Inputs)
  PROVE  \E set \in SUBSET Props, value \in [Props -> Values \cup {Unset}] :
           /\ \A p \in set : value[p] \in Values
           /\ \A c : WithProperties(c, inputs) = [p \in Props |-> IF p \in set THEN value[p] ELSE c[p]]
           /\ inputs = <<>> => set = {}
  <1> DEFINE set     == {p \in Props : \E i \in DOMAIN inputs : inputs[i].prop = p}
             last(p) == CHOOSE i \in DOMAIN inputs :
                          /\ inputs[i].prop = p
                          /\ \A j \in DOMAIN inputs : inputs[j].prop = p => j <= i
             value   == [p \in Props |-> IF p \in set THEN inputs[last(p)].value ELSE Unset]
  <1>1. ASSUME NEW p \in set PROVE inputs[last(p)].value \in Values
    <2>1. last(p) \in DOMAIN inputs
      BY LastInput
    <2> HIDE DEF last
    <2>2. inputs[last(p)] \in Inputs
      BY <2>1
    <2>3. QED
      BY <2>2 DEF Inputs
  <1>2. \A c : WithProperties(c, inputs) = [p \in Props |-> IF p \in set THEN value[p] ELSE c[p]]
    <2>1. ASSUME NEW c
          PROVE  WithProperties(c, inputs) = [p \in Props |-> IF p \in set THEN value[p] ELSE c[p]]
      BY DEF WithProperties
    <2>2. QED
      BY <2>1
  <1>3. inputs = <<>> => set = {}
    OBVIOUS
  <1> HIDE DEF last
  <1>4. value \in [Props -> Values \cup {Unset}] /\ \A p \in set : value[p] \in Values
    BY <1>1
  <1>5. set \in SUBSET Props
    OBVIOUS
  <1> HIDE DEF set, value
  <1>6. QED
    BY <1>2, <1>3, <1>4, <1>5

LEMMA RequestSets ==
  ASSUME NEW r \in RequestRecords
  PROVE  \E set \in SUBSET Props, value \in [Props -> Values \cup {Unset}] :
           /\ \A p \in set : value[p] \in Values
           /\ Sets(set, value, r)
           /\ SetCount(r) = 0 => set = {}
  <1>1. r.properties \in Seq(Inputs) /\ (r.title = Absent \/ r.title \in Values)
    BY DEF RequestRecords
  <1>2. PICK set \in SUBSET Props, value \in [Props -> Values \cup {Unset}] :
           /\ \A p \in set : value[p] \in Values
           /\ \A c : WithProperties(c, r.properties) = [p \in Props |-> IF p \in set THEN value[p] ELSE c[p]]
           /\ r.properties = <<>> => set = {}
    BY <1>1, InputsSet
  <1>3. CASE r.title = Absent
    <2>1. Sets(set, value, r)
      BY <1>2, <1>3 DEF Sets, WithSets
    <2>2. SetCount(r) = 0 => r.properties = <<>>
      BY <1>1, <1>3 DEF SetCount
    <2>3. QED
      BY <1>2, <2>1, <2>2
  <1>4. CASE r.title # Absent
    <2> DEFINE set2   == set \cup {Title}
               value2 == [p \in Props |-> IF p \in set THEN value[p]
                                          ELSE IF p = Title THEN r.title ELSE Unset]
    <2>1. Sets(set2, value2, r)
      <3>1. ASSUME NEW c \in Contents
            PROVE  WithSets(c, r) = [p \in Props |-> IF p \in set2 THEN value2[p] ELSE c[p]]
        <4>1. WithSets(c, r) = [p \in Props |-> IF p \in set THEN value[p]
                                                ELSE SetProp(c, Title, r.title)[p]]
          BY <1>2, <1>4 DEF WithSets
        <4>2. ASSUME NEW p \in Props
              PROVE  SetProp(c, Title, r.title)[p] = (IF p = Title THEN r.title ELSE c[p])
          BY TitleAssumption DEF SetProp, Contents
        <4>3. QED
          BY <4>1, <4>2
      <3>2. QED
        BY <3>1 DEF Sets
    <2>2. set2 \in SUBSET Props /\ value2 \in [Props -> Values \cup {Unset}]
          /\ \A p \in set2 : value2[p] \in Values
      BY <1>1, <1>2, <1>4, TitleAssumption
    <2>3. SetCount(r) # 0
      BY <1>1, <1>4 DEF SetCount
    <2> HIDE DEF set2, value2
    <2>4. QED
      BY <2>1, <2>2, <2>3
  <1>5. QED
    BY <1>3, <1>4

LEMMA NewIsContent == NewContent \in Contents
  BY DEF NewContent, Contents

\* What a field sets and deletes is what it asks for, and doing it again changes nothing.
LEMMA Modified ==
  ASSUME NEW r \in RequestRecords
  PROVE  /\ Asked(r) \subseteq Props \X (Values \cup {Unset})
         /\ \A c \in Contents :
              /\ WithSets(c, r) \in Contents /\ WithoutDeleted(c, r) \in Contents
              /\ \A p \in Props : /\ WithSets(c, r)[p] # c[p] => <<p, WithSets(c, r)[p]>> \in Asked(r)
                                  /\ WithoutDeleted(c, r)[p] # c[p] => <<p, WithoutDeleted(c, r)[p]>> \in Asked(r)
              /\ WithoutDeleted(WithoutDeleted(c, r), r) = WithoutDeleted(c, r)
              /\ r.deleted = {} => WithoutDeleted(c, r) = c
              /\ SetCount(r) = 0 => WithSets(c, r) = c
              /\ WithoutDeleted(c, r) = c =>
                   WithSets(WithoutDeleted(WithSets(c, r), r), r) = WithSets(c, r)
  <1>1. PICK set \in SUBSET Props, value \in [Props -> Values \cup {Unset}] :
          /\ \A p \in set : value[p] \in Values
          /\ Sets(set, value, r)
          /\ SetCount(r) = 0 => set = {}
    BY RequestSets
  <1>2. r.deleted \subseteq Props
    BY DEF RequestRecords
  <1>3. \A c \in Contents : WithSets(c, r) = [p \in Props |-> IF p \in set THEN value[p] ELSE c[p]]
    BY <1>1 DEF Sets
  <1>4. \A c \in Contents : WithoutDeleted(c, r) = [p \in Props |-> IF p \in r.deleted THEN Unset ELSE c[p]]
    BY DEF WithoutDeleted
  <1>5. \A p \in Props : WithSets(NewContent, r)[p] = (IF p \in set THEN value[p] ELSE Unset)
    BY <1>3, NewIsContent DEF NewContent
  <1>6. Asked(r) = {<<p, Unset>> : p \in r.deleted} \cup {<<p, value[p]>> : p \in set}
    <2>1. {q \in Props : WithSets(NewContent, r)[q] # Unset} = set
      BY <1>1, <1>5, TitleAssumption
    <2>2. {<<p, WithSets(NewContent, r)[p]>> : p \in set} = {<<p, value[p]>> : p \in set}
      BY <1>5
    <2>3. QED
      BY <2>1, <2>2 DEF Asked
  <1>7. Asked(r) \subseteq Props \X (Values \cup {Unset})
    BY <1>1, <1>2, <1>6
  <1>8. ASSUME NEW c \in Contents
        PROVE  /\ WithSets(c, r) \in Contents /\ WithoutDeleted(c, r) \in Contents
               /\ \A p \in Props : /\ WithSets(c, r)[p] # c[p] => <<p, WithSets(c, r)[p]>> \in Asked(r)
                                   /\ WithoutDeleted(c, r)[p] # c[p] => <<p, WithoutDeleted(c, r)[p]>> \in Asked(r)
    <2>1. WithSets(c, r) \in Contents
      BY <1>1, <1>3, <1>8 DEF Contents
    <2>2. WithoutDeleted(c, r) \in Contents
      BY <1>4, <1>8 DEF Contents
    <2>3. ASSUME NEW p \in Props, WithSets(c, r)[p] # c[p]
          PROVE  <<p, WithSets(c, r)[p]>> \in Asked(r)
      <3>1. p \in set /\ WithSets(c, r)[p] = value[p]
        BY <1>3, <2>3
      <3>2. QED
        BY <1>6, <3>1
    <2>4. ASSUME NEW p \in Props, WithoutDeleted(c, r)[p] # c[p]
          PROVE  <<p, WithoutDeleted(c, r)[p]>> \in Asked(r)
      <3>1. p \in r.deleted /\ WithoutDeleted(c, r)[p] = Unset
        BY <1>4, <2>4
      <3>2. QED
        BY <1>6, <3>1
    <2>5. QED
      BY <2>1, <2>2, <2>3, <2>4
  <1>9. ASSUME NEW c \in Contents
        PROVE  /\ WithoutDeleted(WithoutDeleted(c, r), r) = WithoutDeleted(c, r)
               /\ r.deleted = {} => WithoutDeleted(c, r) = c
               /\ SetCount(r) = 0 => WithSets(c, r) = c
    <2>1. c = [p \in Props |-> c[p]]
      BY <1>9 DEF Contents
    <2>2. \A p \in Props : WithoutDeleted(WithoutDeleted(c, r), r)[p] = WithoutDeleted(c, r)[p]
      BY <1>4, <1>8
    <2>3. WithoutDeleted(WithoutDeleted(c, r), r) = WithoutDeleted(c, r)
      BY <2>2 DEF WithoutDeleted
    <2>4. r.deleted = {} => WithoutDeleted(c, r) = c
      BY <1>4, <2>1
    <2>5. SetCount(r) = 0 => WithSets(c, r) = c
      BY <1>1, <1>3, <2>1
    <2>6. QED
      BY <2>3, <2>4, <2>5
  <1>10. ASSUME NEW c \in Contents, WithoutDeleted(c, r) = c
         PROVE  WithSets(WithoutDeleted(WithSets(c, r), r), r) = WithSets(c, r)
    <2> DEFINE d == WithSets(c, r)
               e == WithoutDeleted(d, r)
    <2>1. d \in Contents /\ e \in Contents
      BY <1>8
    <2>2. \A p \in Props : d[p] = (IF p \in set THEN value[p] ELSE c[p])
      BY <1>3
    <2>3. \A p \in r.deleted : c[p] = Unset
      BY <1>2, <1>4, <1>10
    <2>4. \A p \in Props : e[p] = (IF p \in r.deleted THEN Unset ELSE d[p])
      BY <1>4, <2>1
    <2> HIDE DEF d, e
    <2>5. \A p \in Props : WithSets(e, r)[p] = d[p]
      <3>1. \A p \in Props : WithSets(e, r)[p] = (IF p \in set THEN value[p] ELSE e[p])
        BY <1>3, <2>1
      <3>2. QED
        BY <2>2, <2>3, <2>4, <3>1
    <2>6. WithSets(e, r) \in Contents
      BY <1>8, <2>1
    <2>7. WithSets(e, r) = d
      BY <2>1, <2>5, <2>6 DEF Contents
    <2>8. QED
      BY <2>7 DEF d, e
  <1>11. QED
    BY <1>7, <1>8, <1>9, <1>10

\* Content that shows what a field deletes and sets.
Applied(c, r) == WithSets(WithoutDeleted(c, r), r) = c

LEMMA ModifiedBy ==
  ASSUME NEW r \in RequestRecords, NEW c \in Contents
  PROVE  /\ WithSets(c, r) \in Contents /\ WithoutDeleted(c, r) \in Contents
         /\ \A p \in Props : WithSets(c, r)[p] # c[p] => <<p, WithSets(c, r)[p]>> \in Asked(r)
         /\ \A p \in Props : WithoutDeleted(c, r)[p] # c[p] => <<p, WithoutDeleted(c, r)[p]>> \in Asked(r)
         /\ WithoutDeleted(WithoutDeleted(c, r), r) = WithoutDeleted(c, r)
         /\ r.deleted = {} => WithoutDeleted(c, r) = c
         /\ WithoutDeleted(c, r) = c => Applied(WithSets(c, r), r)
         /\ (SetCount(r) = 0 /\ WithoutDeleted(c, r) = c) => Applied(c, r)
         /\ (SetCount(r) = 0 /\ r.deleted = {}) => Applied(c, r)
  <1>1. /\ WithSets(c, r) \in Contents /\ WithoutDeleted(c, r) \in Contents
        /\ \A p \in Props : /\ WithSets(c, r)[p] # c[p] => <<p, WithSets(c, r)[p]>> \in Asked(r)
                            /\ WithoutDeleted(c, r)[p] # c[p] => <<p, WithoutDeleted(c, r)[p]>> \in Asked(r)
        /\ WithoutDeleted(WithoutDeleted(c, r), r) = WithoutDeleted(c, r)
        /\ r.deleted = {} => WithoutDeleted(c, r) = c
        /\ SetCount(r) = 0 => WithSets(c, r) = c
        /\ WithoutDeleted(c, r) = c =>
             WithSets(WithoutDeleted(WithSets(c, r), r), r) = WithSets(c, r)
    BY Modified
  <1>2. WithoutDeleted(c, r) = c => Applied(WithSets(c, r), r)
    BY <1>1 DEF Applied
  <1>3. (SetCount(r) = 0 /\ WithoutDeleted(c, r) = c) => Applied(c, r)
    BY <1>1 DEF Applied
  <1>4. (SetCount(r) = 0 /\ r.deleted = {}) => Applied(c, r)
    BY <1>1 DEF Applied
  <1>5. ASSUME NEW p \in Props
        PROVE  /\ WithSets(c, r)[p] # c[p] => <<p, WithSets(c, r)[p]>> \in Asked(r)
               /\ WithoutDeleted(c, r)[p] # c[p] => <<p, WithoutDeleted(c, r)[p]>> \in Asked(r)
    BY <1>1, Zenon
  <1>6. /\ WithSets(c, r) \in Contents /\ WithoutDeleted(c, r) \in Contents
        /\ WithoutDeleted(WithoutDeleted(c, r), r) = WithoutDeleted(c, r)
        /\ r.deleted = {} => WithoutDeleted(c, r) = c
    BY <1>1
  <1>7. QED
    BY <1>2, <1>3, <1>4, <1>5, <1>6, Zenon

\* The arguments of a field, with their defaults.
Resolved == {Arguments(q) : q \in Requests}

LEMMA ResolvedType ==
  ASSUME NEW r \in Resolved
  PROVE  /\ r \in RequestRecords /\ r # NoRequest /\ r.field \in Fields
         /\ r.field = "modifyItem" => r.id \in ItemIds
         /\ r.field = "modifyFolder" => r.id \in FolderNames
         /\ r.field = "removeFolder" => r.id \in FolderIds
         /\ r.field \in {"copyItems", "moveItems"} => r.destination \in FolderNames
         /\ r.field \in {"createItem", "markAsRead"} => r.read \in BOOLEAN
         /\ r.field \in {"removeFolder", "deleteItems"} => r.hard \in BOOLEAN
  <1>1. PICK q \in Requests : r = Arguments(q)
    BY DEF Resolved
  <1>2. q \in RequestRecords
    BY RequestsAssumption
  <1>3. r = q \/ (\E b \in BOOLEAN : r = [q EXCEPT !.read = b]) \/ (\E b \in BOOLEAN : r = [q EXCEPT !.hard = b])
        \/ r = [q EXCEPT !.read = q.read] \/ r = [q EXCEPT !.hard = q.hard]
    BY <1>1 DEF Arguments, CreateItemInput, MarkAsReadArguments, DeleteArguments
  <1>4. r \in RequestRecords /\ r.field = q.field /\ r.id = q.id /\ r.destination = q.destination
    BY <1>2, <1>3 DEF RequestRecords
  <1>5. r.field \in {"createItem", "markAsRead"} => r.read \in BOOLEAN
    BY <1>1, <1>2, <1>4 DEF Arguments, CreateItemInput, MarkAsReadArguments, DeleteArguments, RequestRecords
  <1>6. r.field \in {"removeFolder", "deleteItems"} => r.hard \in BOOLEAN
    BY <1>1, <1>2, <1>4 DEF Arguments, CreateItemInput, MarkAsReadArguments, DeleteArguments, RequestRecords
  <1>7. r # NoRequest /\ r.field \in Fields
    BY <1>4, MarksAssumption DEF RequestRecords
  <1>8. QED
    BY <1>4, <1>5, <1>6, <1>7, RequestsAssumption

(***************************************************************************)
(* The invariant.                                                          *)
(***************************************************************************)
Changed == Props \X (Values \cup {Unset})

Members ==
  /\ items \in [ItemIds -> Messages \cup {Gone}]
  /\ folders \in [FolderIds -> FolderObjects \cup {Gone}]
  /\ deletedItems \in SpecialFolders
  /\ itemCache \in [ItemIds -> Contents \cup {NotOpened}]
  /\ folderCache \in [FolderIds -> FolderIds \cup {NotOpened}]
  /\ unnamed \in FolderIds \cup {NotOpened}
  /\ asked \in [ItemIds -> SUBSET Changed]
  /\ resolved \in 0..MaxFields
  /\ crashed \in BOOLEAN

Answers == {Absent, "error", "object", "true", "false"}

FieldType ==
  /\ pc \in {"idle", "open", "delete", "convert", "set", "save", "read", "wrap"}
  /\ pc = "idle" <=> request = NoRequest
  /\ request # NoRequest => request \in Resolved
  /\ pc \in {"idle", "open"} => target = Absent /\ draft = NewContent
  /\ draft \in Contents
  /\ answer \in Answers

\* How far each field has come with what it creates or modifies.
MakingItem ==
  /\ pc \in {"convert", "set", "save", "wrap"} /\ target \in ItemIds
  /\ pc # "wrap" => items[target] = Gone /\ itemCache[target] = NotOpened
  /\ pc \in {"convert", "set"} => draft = NewContent
  /\ pc = "save" => draft = WithSets(NewContent, request)
  /\ pc = "wrap" => items[target] = [folder |-> Where(request.folder), read |-> request.read,
                                     content |-> WithSets(NewContent, request)]
MakingFolder ==
  /\ pc \in {"convert", "set", "save", "wrap"} /\ target \in FolderIds
  /\ folders[target] = [parent |-> Where(request.folder),
                        content |-> IF pc \in {"save", "wrap"} THEN WithSets(NewContent, request)
                                                               ELSE NewContent]
ModifyingItem ==
  /\ target = request.id /\ itemCache[target] = draft
  /\ pc \in {"convert", "set"} => WithoutDeleted(draft, request) = draft
  /\ pc = "save" => Applied(draft, request)
  /\ pc \in {"read", "wrap"} /\ items[target] # Gone => Applied(items[target].content, request)
  /\ pc = "wrap" => items[target] # Gone /\ (request.read = TRUE => items[target].read = TRUE)
ModifyingFolder ==
  /\ pc # "read" /\ target = Where(request.id) /\ target \in FolderIds
  /\ folders[target] # Gone =>
       /\ pc \in {"convert", "set"} => WithoutDeleted(folders[target].content, request) = folders[target].content
       /\ pc \in {"save", "wrap"} => Applied(folders[target].content, request)
  /\ pc = "wrap" /\ Changes(request) => folders[target] # Gone

InMaking ==
  pc \notin {"idle", "open"} =>
    \/ request.field = "createItem" /\ MakingItem
    \/ request.field = "createSubFolder" /\ MakingFolder
    \/ request.field = "modifyItem" /\ ModifyingItem
    \/ request.field = "modifyFolder" /\ ModifyingFolder

\* What a cached message has that the store has not was asked for in this operation.
Unsaved ==
  \A i \in ItemIds : (itemCache[i] # NotOpened /\ items[i] # Gone) =>
    \A p \in Props : itemCache[i][p] # items[i].content[p] => <<p, itemCache[i][p]>> \in asked[i]

AskedFirst ==
  (request # NoRequest /\ request.field = "modifyItem") => Asked(request) \subseteq asked[request.id]

MutInv == Members /\ FieldType /\ InMaking /\ Unsaved /\ AskedFirst

LEMMA InitMutation == Init => MutInv
  <1> SUFFICES ASSUME Init PROVE MutInv
    OBVIOUS
  <1>1. Members
    <2>1. items \in [ItemIds -> Messages \cup {Gone}] /\ folders \in [FolderIds -> FolderObjects \cup {Gone}]
      BY InitialAssumption DEF Init
    <2>2. deletedItems \in SpecialFolders /\ itemCache \in [ItemIds -> Contents \cup {NotOpened}]
          /\ folderCache \in [FolderIds -> FolderIds \cup {NotOpened}]
      BY DEF Init
    <2>3. asked \in [ItemIds -> SUBSET Changed] /\ crashed \in BOOLEAN
          /\ unnamed \in FolderIds \cup {NotOpened}
      BY DEF Init
    <2>4. resolved \in 0..MaxFields
      BY BoundAssumption DEF Init
    <2>5. QED
      BY <2>1, <2>2, <2>3, <2>4 DEF Members
  <1>2. FieldType
    BY NewIsContent DEF Init, FieldType, Answers
  <1>3. InMaking /\ Unsaved /\ AskedFirst
    BY DEF Init, InMaking, Unsaved, AskedFirst
  <1>4. QED
    BY <1>1, <1>2, <1>3 DEF MutInv

LEMMA MutInvTypes == MutInv => TypeOK
  <1> SUFFICES ASSUME MutInv PROVE TypeOK
    OBVIOUS
  <1>1. Members /\ FieldType /\ InMaking
    BY DEF MutInv
  <1>2. pc \notin {"idle", "open"} => target \in ItemIds \cup FolderIds
    <2>1. request # NoRequest => request \in Resolved
      BY <1>1 DEF FieldType
    <2>2. pc \notin {"idle", "open"} => request \in Resolved
      BY <1>1, <2>1 DEF FieldType
    <2>3. QED
      BY <1>1, <2>2, ResolvedType DEF InMaking, MakingItem, MakingFolder, ModifyingItem, ModifyingFolder
  <1>3. \A i \in ItemIds : asked[i] \subseteq Props \X (Values \cup {Unset})
    BY <1>1 DEF Members, Changed
  <1>4. QED
    BY <1>1, <1>2, <1>3 DEF TypeOK, Members, FieldType, Answers

(***************************************************************************)
(* The end of a field, and the folders it opens.                           *)
(***************************************************************************)
LEMMA Ended ==
  ASSUME MutInv, NEW a \in Answers, Answer(a), Members', Unsaved'
  PROVE  MutInv'
  <1>1. pc' = "idle" /\ request' = NoRequest /\ target' = Absent /\ draft' = NewContent /\ answer' = a
    BY DEF Answer
  <1>2. FieldType'
    <2>1. NewContent' = NewContent
      BY DEF NewContent
    <2>2. QED
      BY <1>1, <2>1, NewIsContent DEF FieldType, Answers
  <1>3. InMaking' /\ AskedFirst'
    BY <1>1 DEF InMaking, AskedFirst
  <1>4. QED
    BY <1>2, <1>3 DEF MutInv

LEMMA UnsavedStays ==
  ASSUME MutInv, UNCHANGED <<items, itemCache, asked>>
  PROVE  Unsaved'
  BY DEF MutInv, Unsaved

LEMMA WhereIsFolder ==
  ASSUME MutInv, NEW name \in FolderNames
  PROVE  Where(name) \in FolderIds
  BY RootAssumption DEF MutInv, Members, Where, FolderNames

LEMMA ParentIsFolder ==
  ASSUME MutInv, NEW f \in FolderIds, CanOpenFolder(f)
  PROVE  ParentOf(f) \in FolderIds
  <1>1. folderCache[f] \in FolderIds \cup {NotOpened} /\ folders[f] \in FolderObjects \cup {Gone}
    BY DEF MutInv, Members
  <1>2. QED
    BY <1>1, RootAssumption DEF CanOpenFolder, ParentOf, FolderObjects

LEMMA FoldersCached ==
  ASSUME MutInv, NEW opened, \A name \in opened : name \in FolderNames /\ CanOpenFolder(name),
         CacheFolders(opened)
  PROVE  folderCache' \in [FolderIds -> FolderIds \cup {NotOpened}] /\ UNCHANGED unnamed
  <1> DEFINE ids == (opened \ {NoId}) \cup {f \in {RootFolder} : NoId \in opened /\ unnamed = NotOpened}
  <1>1. ASSUME NEW f \in ids PROVE ParentOf(f) \in FolderIds
    <2>1. CASE f \in opened /\ f # NoId
      BY <2>1, ParentIsFolder DEF FolderNames
    <2>2. CASE f = RootFolder /\ NoId \in opened /\ unnamed = NotOpened
      <3>1. folders[RootFolder] # Gone /\ RootFolder \in FolderIds /\ RootFolder # NoId
        BY <2>2, RootAssumption DEF CanOpenFolder
      <3>2. QED
        BY <2>2, <3>1, ParentIsFolder DEF CanOpenFolder
    <2>3. QED
      BY <1>1, <2>1, <2>2
  <1>2. \A f \in FolderIds : folderCache[f] \in FolderIds \cup {NotOpened}
    BY DEF MutInv, Members
  <1>3. folderCache' = [f \in FolderIds |-> IF f \in ids THEN ParentOf(f) ELSE folderCache[f]]
        /\ UNCHANGED unnamed
    BY DEF CacheFolders
  <1> HIDE DEF ids
  <1>4. QED
    BY <1>1, <1>2, <1>3

LEMMA Thrown ==
  ASSUME MutInv, Throw, UNCHANGED <<store, itemCache, asked, resolved, crashed>>,
         folderCache' \in [FolderIds -> FolderIds \cup {NotOpened}] /\ UNCHANGED unnamed
  PROVE  MutInv'
  <1>1. Members'
    BY DEF MutInv, Members, store
  <1>2. Unsaved'
    BY UnsavedStays DEF store
  <1>3. QED
    BY <1>1, <1>2, Ended DEF Throw, Answers

LEMMA NotOpenedFolders ==
  ASSUME MutInv, NEW fs \in Seq(FolderNames), OpenFails(fs), UNCHANGED <<asked, resolved, crashed>>
  PROVE  MutInv'
  <1>1. PICK n \in 1..(Len(fs) + 1) :
          /\ \A m \in 1..(n - 1) : CanOpenFolder(fs[m])
          /\ CacheFolders({fs[m] : m \in 1..(n - 1)})
          /\ Throw
          /\ UNCHANGED <<store, itemCache>>
    BY DEF OpenFails
  <1>2. \A m \in 1..(n - 1) : fs[m] \in FolderNames
    <2>1. ASSUME NEW m \in 1..(n - 1) PROVE fs[m] \in FolderNames
      <3>1. m \in 1..Len(fs)
        OBVIOUS
      <3>2. QED
        BY <3>1
    <2>2. QED
      BY <2>1
  <1> DEFINE opened == {fs[m] : m \in 1..(n - 1)}
  <1>3. \A f \in opened : f \in FolderNames /\ CanOpenFolder(f)
    BY <1>1, <1>2
  <1>4. CacheFolders(opened)
    BY <1>1
  <1> HIDE DEF opened
  <1>5. folderCache' \in [FolderIds -> FolderIds \cup {NotOpened}] /\ UNCHANGED unnamed
    BY <1>3, <1>4, FoldersCached
  <1>6. QED
    BY <1>1, <1>5, Thrown

(***************************************************************************)
(* Every step keeps the invariant.                                         *)
(***************************************************************************)

\* What the invariant says of a field in progress.
LEMMA InProgress ==
  ASSUME MutInv, NEW fields, request.field \in fields, pc # "idle"
  PROVE  /\ request \in Resolved /\ request \in RequestRecords
         /\ request.field = "modifyItem" => request.id \in ItemIds /\ Asked(request) \subseteq asked[request.id]
         /\ request.field = "modifyFolder" => request.id \in FolderNames
         /\ request.field = "removeFolder" => request.id \in FolderIds
         /\ request.field \in {"copyItems", "moveItems"} => request.destination \in FolderNames
         /\ request.field \in {"createItem", "markAsRead"} => request.read \in BOOLEAN
         /\ request.field \in {"removeFolder", "deleteItems"} => request.hard \in BOOLEAN
         /\ request.folder \in FolderNames /\ request.items \subseteq ItemIds
  <1>1. request \in Resolved
    BY DEF MutInv, FieldType
  <1>2. request \in RequestRecords /\ request # NoRequest
    BY <1>1, ResolvedType
  <1>3. request.folder \in FolderNames /\ request.items \subseteq ItemIds
    BY <1>2 DEF RequestRecords
  <1>4. QED
    BY <1>1, <1>2, <1>3, ResolvedType DEF MutInv, AskedFirst

LEMMA ResolveKeeps ==
  ASSUME MutInv, Resolve
  PROVE  MutInv'
  <1>1. PICK r \in Resolved :
          /\ request' = r
          /\ asked' = IF r.field = "modifyItem" THEN [asked EXCEPT ![r.id] = @ \cup Asked(r)]
                                                ELSE asked
    BY DEF Resolve, Resolved
  <1>2. pc = "idle" /\ pc' = "open" /\ resolved < MaxFields /\ resolved' = resolved + 1
        /\ UNCHANGED <<items, folders, deletedItems, itemCache, folderCache, unnamed, target, draft, answer, crashed>>
    BY DEF Resolve, store, caches
  <1>3. /\ r \in RequestRecords /\ r # NoRequest
        /\ r.field = "modifyItem" => r.id \in ItemIds
        /\ Asked(r) \subseteq Changed
    BY ResolvedType, Modified DEF Changed
  <1>4. asked \in [ItemIds -> SUBSET Changed] /\ resolved \in 0..MaxFields /\ MaxFields \in Nat
    BY BoundAssumption DEF MutInv, Members
  <1>5. asked' \in [ItemIds -> SUBSET Changed]
    BY <1>1, <1>3, <1>4
  <1>6. \A i \in ItemIds : asked[i] \subseteq asked'[i]
    BY <1>1, <1>3, <1>4
  <1>7. resolved' \in 0..MaxFields
    BY <1>2, <1>4
  <1>8. Members'
    BY <1>2, <1>5, <1>7 DEF MutInv, Members
  <1>9. FieldType'
    <2>1. NewContent' = NewContent
      BY DEF NewContent
    <2>2. QED
      BY <1>1, <1>2, <1>3, <2>1 DEF MutInv, FieldType
  <1>10. Unsaved'
    BY <1>2, <1>6 DEF MutInv, Unsaved
  <1>11. AskedFirst'
    BY <1>1, <1>3, <1>4 DEF AskedFirst
  <1>12. QED
    BY <1>2, <1>8, <1>9, <1>10, <1>11 DEF MutInv, InMaking

LEMMA CreateKeeps ==
  ASSUME MutInv, Create
  PROVE  MutInv'
  <1>1. /\ pc = "open" /\ request.field \in {"createItem", "createSubFolder"}
        /\ UNCHANGED <<asked, resolved, crashed>>
    BY DEF Create, At
  <1>2. request \in Resolved /\ request # NoRequest /\ request.folder \in FolderNames
        /\ Where(request.folder) \in FolderIds
    BY <1>1, InProgress, ResolvedType, WhereIsFolder
  <1>3. CASE OpenFails(<<request.folder>>)
    <2>1. <<request.folder>> \in Seq(FolderNames)
      BY <1>2
    <2>2. QED
      BY <1>1, <1>3, <2>1, NotOpenedFolders
  <1>4. CASE /\ CanOpenFolder(request.folder)
             /\ CacheFolders({request.folder})
             /\ IF OfItem(request) THEN CreateMessage ELSE CreateFolder
             /\ pc' = "convert"
             /\ UNCHANGED <<itemCache, request, answer>>
    <2>1. folderCache' \in [FolderIds -> FolderIds \cup {NotOpened}] /\ UNCHANGED unnamed
      BY <1>2, <1>4, FoldersCached
    <2>2. CASE request.field = "createItem"
      <3>1. CreateMessage
        BY <1>4, <2>2 DEF OfItem
      <3>2. PICK i \in ItemIds : items[i] = Gone /\ itemCache[i] = NotOpened /\ target' = i
        BY <3>1 DEF CreateMessage, FreshItems
      <3>3. UNCHANGED <<items, folders, deletedItems>> /\ draft' = NewContent
        BY <3>1 DEF CreateMessage, store
      <3>4. Members'
        BY <1>1, <1>4, <2>1, <3>3 DEF MutInv, Members
      <3>5. FieldType'
        BY <1>1, <1>2, <1>4, <3>3, NewIsContent DEF MutInv, FieldType
      <3>6. MakingItem'
        <4>1. NewContent' = NewContent
          BY DEF NewContent
        <4>2. QED
          BY <1>4, <3>2, <3>3, <4>1 DEF MakingItem, Where
      <3>7. Unsaved'
        BY <1>1, <1>4, <3>3, UnsavedStays
      <3>8. QED
        BY <1>1, <1>4, <2>2, <3>4, <3>5, <3>6, <3>7 DEF MutInv, InMaking, AskedFirst
    <2>3. CASE request.field = "createSubFolder"
      <3>1. CreateFolder
        BY <1>4, <2>3 DEF OfItem
      <3>2. PICK f \in FolderIds :
              /\ target' = f
              /\ folders' = [folders EXCEPT ![f] = [parent |-> Where(request.folder), content |-> NewContent]]
        BY <3>1 DEF CreateFolder
      <3>3. UNCHANGED <<items, deletedItems, draft>>
        BY <3>1 DEF CreateFolder
      <3>4. folders \in [FolderIds -> FolderObjects \cup {Gone}]
            /\ [parent |-> Where(request.folder), content |-> NewContent] \in FolderObjects
        BY <1>2, NewIsContent DEF MutInv, Members, FolderObjects
      <3>5. folders' \in [FolderIds -> FolderObjects \cup {Gone}]
            /\ folders'[f] = [parent |-> Where(request.folder), content |-> NewContent]
        BY <3>2, <3>4
      <3>6. Members'
        BY <1>1, <1>4, <2>1, <3>3, <3>5 DEF MutInv, Members
      <3>7. FieldType'
        BY <1>1, <1>2, <1>4, <3>3 DEF MutInv, FieldType
      <3>8. MakingFolder'
        <4>1. NewContent' = NewContent
          BY DEF NewContent
        <4>2. QED
          BY <1>4, <2>1, <3>2, <3>5, <4>1 DEF MakingFolder, Where
      <3>9. Unsaved'
        BY <1>1, <1>4, <3>3, UnsavedStays
      <3>10. QED
        BY <1>1, <1>4, <2>3, <3>6, <3>7, <3>8, <3>9 DEF MutInv, InMaking, AskedFirst
    <2>4. QED
      BY <1>1, <2>2, <2>3
  <1>5. QED
    BY <1>3, <1>4 DEF Create

LEMMA OpenItemKeeps ==
  ASSUME MutInv, OpenItem
  PROVE  MutInv'
  <1> DEFINE i      == request.id
             opened == IF itemCache[i] # NotOpened THEN itemCache[i] ELSE items[i].content
  <1>1. /\ pc = "open" /\ request.field = "modifyItem"
        /\ UNCHANGED <<items, folders, deletedItems, folderCache, unnamed, asked, resolved, crashed>>
    BY DEF OpenItem, At, store
  <1>2. request \in Resolved /\ request # NoRequest /\ i \in ItemIds
    BY <1>1, InProgress, ResolvedType
  <1>3. CASE Throw /\ UNCHANGED itemCache
    <2>1. folderCache' \in [FolderIds -> FolderIds \cup {NotOpened}] /\ UNCHANGED unnamed
      BY <1>1 DEF MutInv, Members
    <2>2. QED
      BY <1>1, <1>3, <2>1, Thrown DEF store
  <1>4. CASE /\ itemCache[i] # NotOpened \/ items[i] # Gone
             /\ itemCache' = [itemCache EXCEPT ![i] = opened]
             /\ target' = i
             /\ draft' = opened
             /\ pc' = "delete"
             /\ UNCHANGED <<request, answer>>
    <2>1. itemCache \in [ItemIds -> Contents \cup {NotOpened}] /\ items \in [ItemIds -> Messages \cup {Gone}]
      BY DEF MutInv, Members
    <2>2. opened \in Contents
      <3>1. itemCache[i] \in Contents \cup {NotOpened} /\ items[i] \in Messages \cup {Gone}
        BY <1>2, <2>1
      <3>2. QED
        BY <1>4, <3>1 DEF Messages
    <2>3. items[i] # Gone /\ itemCache[i] = NotOpened => opened = items[i].content
      OBVIOUS
    <2>4. itemCache[i] # NotOpened => opened = itemCache[i]
      OBVIOUS
    <2> HIDE DEF i, opened
    <2>5. itemCache' \in [ItemIds -> Contents \cup {NotOpened}] /\ itemCache'[i] = opened
          /\ \A j \in ItemIds \ {i} : itemCache'[j] = itemCache[j]
      BY <1>2, <1>4, <2>1, <2>2
    <2>6. Members'
      BY <1>1, <2>5 DEF MutInv, Members
    <2>7. FieldType'
      BY <1>1, <1>2, <1>4, <2>2 DEF MutInv, FieldType
    <2>8. ModifyingItem'
      BY <1>4, <2>5 DEF ModifyingItem, i
    <2>9. Unsaved'
      <3>1. ASSUME NEW j \in ItemIds, itemCache'[j] # NotOpened, items[j] # Gone,
                   NEW p \in Props, itemCache'[j][p] # items[j].content[p]
            PROVE  <<p, itemCache'[j][p]>> \in asked[j]
        <4>1. itemCache[j] # NotOpened /\ itemCache'[j] = itemCache[j]
          BY <2>3, <2>4, <2>5, <3>1
        <4>2. QED
          BY <3>1, <4>1 DEF MutInv, Unsaved
      <3>2. QED
        BY <1>1, <3>1 DEF Unsaved
    <2>10. QED
      BY <1>1, <1>4, <2>6, <2>7, <2>8, <2>9 DEF MutInv, InMaking, AskedFirst
  <1>5. QED
    BY <1>3, <1>4 DEF OpenItem

LEMMA OpenFolderKeeps ==
  ASSUME MutInv, OpenFolder
  PROVE  MutInv'
  <1>1. /\ pc = "open" /\ request.field = "modifyFolder" /\ UNCHANGED <<asked, resolved, crashed>>
    BY DEF OpenFolder, At
  <1>2. request \in Resolved /\ request # NoRequest /\ request.id \in FolderNames
        /\ Where(request.id) \in FolderIds
    BY <1>1, InProgress, ResolvedType, WhereIsFolder
  <1>3. CASE OpenFails(<<request.id>>)
    <2>1. <<request.id>> \in Seq(FolderNames)
      BY <1>2
    <2>2. QED
      BY <1>1, <1>3, <2>1, NotOpenedFolders
  <1>4. CASE /\ CanOpenFolder(request.id)
             /\ CacheFolders({request.id})
             /\ target' = Where(request.id)
             /\ pc' = "delete"
             /\ UNCHANGED <<store, itemCache, request, draft, answer>>
    <2>1. folderCache' \in [FolderIds -> FolderIds \cup {NotOpened}] /\ UNCHANGED unnamed
      BY <1>2, <1>4, FoldersCached
    <2>2. Members'
      BY <1>1, <1>4, <2>1 DEF MutInv, Members, store
    <2>3. FieldType'
      BY <1>1, <1>2, <1>4 DEF MutInv, FieldType
    <2>4. ModifyingFolder'
      BY <1>2, <1>4, <2>1 DEF ModifyingFolder, Where
    <2>5. Unsaved'
      BY <1>1, <1>4, UnsavedStays DEF store
    <2>6. QED
      BY <1>1, <1>4, <2>2, <2>3, <2>4, <2>5 DEF MutInv, InMaking, AskedFirst
  <1>5. QED
    BY <1>3, <1>4 DEF OpenFolder

\* A field that goes on.
LEMMA GoesOn ==
  ASSUME MutInv, pc # "idle", NEW to \in {"convert", "set", "save", "read", "wrap"}, Goto(to), draft' \in Contents,
         Members', Unsaved', UNCHANGED asked, InMaking'
  PROVE  MutInv'
  <1>1. pc' = to /\ request' = request /\ target' = target /\ answer' = answer
    BY DEF Goto
  <1>2. FieldType'
    BY <1>1 DEF MutInv, FieldType
  <1>3. AskedFirst'
    BY <1>1 DEF MutInv, AskedFirst
  <1>4. QED
    BY <1>2, <1>3 DEF MutInv

LEMMA ItemChanged ==
  ASSUME MutInv, request.field = "modifyItem", pc \notin {"idle", "open"},
         NEW c \in Contents, \A p \in Props : c[p] # draft[p] => <<p, c[p]>> \in Asked(request),
         itemCache' = [itemCache EXCEPT ![target] = c], UNCHANGED <<items, asked>>
  PROVE  Unsaved' /\ itemCache' \in [ItemIds -> Contents \cup {NotOpened}] /\ itemCache'[target] = c
  <1>1. target = request.id /\ itemCache[target] = draft
    BY DEF MutInv, InMaking, ModifyingItem
  <1>2. target \in ItemIds /\ Asked(request) \subseteq asked[target]
    BY <1>1, InProgress
  <1>3. draft \in Contents /\ draft # NotOpened
    BY MarksAssumption DEF MutInv, FieldType
  <1>4. itemCache \in [ItemIds -> Contents \cup {NotOpened}]
    BY DEF MutInv, Members
  <1>5. /\ itemCache' \in [ItemIds -> Contents \cup {NotOpened}] /\ itemCache'[target] = c
        /\ \A j \in ItemIds \ {target} : itemCache'[j] = itemCache[j]
    BY <1>2, <1>4
  <1>6. ASSUME NEW j \in ItemIds, itemCache'[j] # NotOpened, items[j] # Gone,
               NEW p \in Props, itemCache'[j][p] # items[j].content[p]
        PROVE  <<p, itemCache'[j][p]>> \in asked[j]
    <2>1. CASE j # target
      BY <1>5, <1>6, <2>1 DEF MutInv, Unsaved
    <2>2. CASE j = target /\ c[p] # draft[p]
      BY <1>2, <1>5, <2>2
    <2>3. CASE j = target /\ c[p] = draft[p]
      <3>1. itemCache[j] # NotOpened /\ itemCache[j][p] = c[p]
        BY <1>1, <1>3, <2>3
      <3>2. QED
        BY <1>5, <1>6, <2>3, <3>1 DEF MutInv, Unsaved
    <2>4. QED
      BY <2>1, <2>2, <2>3
  <1>7. QED
    BY <1>5, <1>6 DEF Unsaved

LEMMA FolderChanged ==
  ASSUME MutInv, NEW f \in FolderIds, folders[f] # Gone, NEW c \in Contents,
         folders' = [folders EXCEPT ![f].content = c]
  PROVE  /\ folders' \in [FolderIds -> FolderObjects \cup {Gone}]
         /\ folders'[f] = [parent |-> folders[f].parent, content |-> c]
         /\ folders'[f] # Gone /\ folders'[f].content = c
  <1>1. folders \in [FolderIds -> FolderObjects \cup {Gone}]
    BY DEF MutInv, Members
  <1>2. folders[f] \in FolderObjects
    BY <1>1
  <1>3. [folders[f] EXCEPT !.content = c] = [parent |-> folders[f].parent, content |-> c]
        /\ [folders[f] EXCEPT !.content = c] \in FolderObjects
    BY <1>2 DEF FolderObjects
  <1>4. folders'[f] = [folders[f] EXCEPT !.content = c] /\ folders' \in [FolderIds -> FolderObjects \cup {Gone}]
    BY <1>1, <1>3
  <1>5. QED
    BY <1>3, <1>4, MarksAssumption

\* The content a folder or a message in the making has.
LEMMA CurrentIsContent ==
  ASSUME MutInv, pc \notin {"idle", "open"}
  PROVE  /\ Current \in Contents
         /\ OfItem(request) => Current = draft
         /\ ~OfItem(request) => target \in FolderIds
         /\ (~OfItem(request) /\ folders[target] # Gone) => Current = folders[target].content
  <1>1. draft \in Contents
    BY DEF MutInv, FieldType
  <1>2. ~OfItem(request) => target \in FolderIds
    BY DEF MutInv, InMaking, MakingFolder, ModifyingFolder, OfItem
  <1>3. (~OfItem(request) /\ folders[target] # Gone) => folders[target].content \in Contents
    <2>1. ASSUME ~OfItem(request), folders[target] # Gone PROVE folders[target] \in FolderObjects
      BY <1>2, <2>1 DEF MutInv, Members
    <2>2. QED
      BY <2>1 DEF FolderObjects
  <1>4. QED
    BY <1>1, <1>2, <1>3 DEF Current

LEMMA ThrowsInField ==
  ASSUME MutInv, Throw, UNCHANGED <<store, caches, asked, resolved, crashed>>
  PROVE  MutInv'
  <1>1. folderCache' \in [FolderIds -> FolderIds \cup {NotOpened}] /\ UNCHANGED unnamed
    BY DEF MutInv, Members, caches
  <1>2. QED
    BY <1>1, Thrown DEF caches

LEMMA DeletePropsKeeps ==
  ASSUME MutInv, DeleteProps
  PROVE  MutInv'
  <1>1. /\ pc = "delete" /\ request.field \in {"modifyItem", "modifyFolder"}
        /\ UNCHANGED <<asked, resolved, crashed>>
    BY DEF DeleteProps, At
  <1>2. request \in RequestRecords
    BY <1>1, InProgress
  <1>3. /\ Current \in Contents /\ draft \in Contents
        /\ OfItem(request) => Current = draft
        /\ ~OfItem(request) => target \in FolderIds
        /\ (~OfItem(request) /\ folders[target] # Gone) => Current = folders[target].content
    BY <1>1, CurrentIsContent DEF MutInv, FieldType
  <1> DEFINE c == WithoutDeleted(Current, request)
  <1>4. /\ c \in Contents /\ WithoutDeleted(c, request) = c
        /\ request.deleted = {} => c = Current
        /\ \A p \in Props : c[p] # Current[p] => <<p, c[p]>> \in Asked(request)
    BY <1>2, <1>3, ModifiedBy
  <1>5. CASE Throw /\ UNCHANGED <<store, caches>>
    BY <1>1, <1>5, ThrowsInField
  <1>6. CASE request.deleted = {} /\ Goto("convert") /\ UNCHANGED <<store, caches, draft>>
    <2>1. Members'
      BY <1>1, <1>6 DEF MutInv, Members, store, caches
    <2>2. Unsaved'
      BY <1>1, <1>6, UnsavedStays DEF store, caches
    <2>3. InMaking'
      <3>1. pc' = "convert" /\ UNCHANGED <<request, target, draft, items, folders, itemCache, unnamed>>
        BY <1>6 DEF Goto, store, caches
      <3>2. CASE request.field = "modifyItem"
        BY <1>1, <1>3, <1>4, <1>6, <3>1, <3>2 DEF MutInv, InMaking, ModifyingItem, OfItem
      <3>3. CASE request.field = "modifyFolder"
        BY <1>1, <1>3, <1>4, <1>6, <3>1, <3>3 DEF MutInv, InMaking, ModifyingFolder, Where, OfItem
      <3>4. QED
        BY <1>1, <3>2, <3>3
    <2>4. QED
      BY <1>1, <1>3, <1>6, <2>1, <2>2, <2>3, GoesOn
  <1>7. CASE Change(c) /\ Goto("convert") /\ UNCHANGED <<folderCache, unnamed>>
    <2>0. pc' = "convert" /\ UNCHANGED <<request, target, answer, folderCache, unnamed>>
      BY <1>7 DEF Goto
    <2>1. CASE request.field = "modifyItem"
      <3>1. draft' = c /\ UNCHANGED <<items, folders, deletedItems>> /\ itemCache[target] # NotOpened
            /\ itemCache' = [itemCache EXCEPT ![target] = c]
        BY <1>1, <1>3, <1>7, <2>1, MarksAssumption DEF Change, OfItem, store, MutInv, InMaking, ModifyingItem
      <3>2. Unsaved' /\ itemCache' \in [ItemIds -> Contents \cup {NotOpened}] /\ itemCache'[target] = c
        BY <1>1, <1>3, <1>4, <2>1, <3>1, ItemChanged DEF OfItem
      <3>3. Members'
        BY <1>1, <2>0, <3>1, <3>2 DEF MutInv, Members
      <3>4. ModifyingItem'
        BY <1>1, <1>4, <2>0, <2>1, <3>1, <3>2 DEF MutInv, InMaking, ModifyingItem
      <3>5. InMaking'
        BY <2>0, <2>1, <3>4 DEF InMaking
      <3>6. QED
        BY <1>1, <1>4, <1>7, <3>1, <3>2, <3>3, <3>5, GoesOn
    <2>2. CASE request.field = "modifyFolder"
      <3>1. folders[target] # Gone /\ folders' = [folders EXCEPT ![target].content = c]
            /\ UNCHANGED <<items, deletedItems, itemCache, draft>>
        BY <1>7, <2>2 DEF Change, OfItem
      <3>2. /\ folders' \in [FolderIds -> FolderObjects \cup {Gone}]
            /\ folders'[target] # Gone /\ folders'[target].content = c
        BY <1>3, <1>4, <2>2, <3>1, FolderChanged DEF OfItem
      <3>3. Members'
        BY <1>1, <2>0, <3>1, <3>2 DEF MutInv, Members
      <3>4. Unsaved'
        BY <1>1, <3>1, UnsavedStays
      <3>5. ModifyingFolder'
        BY <1>1, <1>4, <2>0, <2>2, <3>2 DEF MutInv, InMaking, ModifyingFolder, Where
      <3>6. InMaking'
        BY <2>0, <2>2, <3>5 DEF InMaking
      <3>7. QED
        BY <1>1, <1>3, <1>7, <3>1, <3>3, <3>4, <3>6, GoesOn
    <2>3. QED
      BY <1>1, <2>1, <2>2
  <1>8. QED
    BY <1>5, <1>6, <1>7 DEF DeleteProps

LEMMA CrashKeeps ==
  ASSUME MutInv, Crash
  PROVE  MutInv'
  <1>1. UNCHANGED <<items, folders, deletedItems, itemCache, folderCache, unnamed, request, pc, target, draft, answer,
                    asked, resolved>> /\ crashed' = TRUE
    BY DEF Crash, store, caches, field
  <1>2. Members' /\ Unsaved'
    BY <1>1, UnsavedStays DEF MutInv, Members
  <1>3. FieldType' /\ AskedFirst'
    BY <1>1 DEF MutInv, FieldType, AskedFirst, NewContent
  <1>4. InMaking'
    BY <1>1 DEF MutInv, InMaking, MakingItem, MakingFolder, ModifyingItem, ModifyingFolder, Where
  <1>5. QED
    BY <1>2, <1>3, <1>4 DEF MutInv

LEMMA ConvertKeeps ==
  ASSUME MutInv, Convert
  PROVE  MutInv'
  <1>1. /\ pc = "convert" /\ UNCHANGED <<asked, resolved>>
        /\ request.field \in {"createItem", "createSubFolder", "modifyItem", "modifyFolder"}
    BY DEF Convert, At, Crash
  <1>2. request \in RequestRecords
    BY <1>1, InProgress
  <1>3. CASE Throw /\ UNCHANGED <<store, caches, asked, resolved, crashed>>
    BY <1>3, ThrowsInField
  <1>4. CASE Crash
    BY <1>4, CrashKeeps
  <1>5. CASE /\ Goto(IF Creates(request) \/ SetCount(request) > 0 THEN "set" ELSE "save")
             /\ UNCHANGED <<store, caches, draft, asked, resolved, crashed>>
    <2> DEFINE to == IF Creates(request) \/ SetCount(request) > 0 THEN "set" ELSE "save"
    <2>1. pc' = to /\ UNCHANGED <<request, target, answer, draft, items, folders, deletedItems, itemCache, folderCache, unnamed,
                                  asked, resolved, crashed>>
      BY <1>5 DEF Goto, store, caches
    <2>2. Members' /\ Unsaved'
      BY <2>1, UnsavedStays DEF MutInv, Members
    <2>3. to = "save" => ~Creates(request) /\ SetCount(request) = 0
      <3>1. SetCount(request) \in Nat
        BY <1>2 DEF SetCount, RequestRecords
      <3>2. QED
        BY <3>1
    <2>4. \A c \in Contents : SetCount(request) = 0 /\ WithoutDeleted(c, request) = c => Applied(c, request)
      <3>1. \A c \in Contents : SetCount(request) = 0 => WithSets(c, request) = c
        BY <1>2, Modified
      <3>2. QED
        BY <3>1 DEF Applied
    <2>5. to \in {"set", "save"} /\ draft \in Contents
      BY DEF MutInv, FieldType
    <2>a. NewContent' = NewContent
      BY DEF NewContent
    <2> HIDE DEF to
    <2>6. InMaking'
      <3>1. CASE request.field = "createItem"
        BY <1>1, <2>1, <2>3, <2>5, <2>a, <3>1 DEF MutInv, InMaking, MakingItem, Where, Creates
      <3>2. CASE request.field = "createSubFolder"
        BY <1>1, <2>1, <2>3, <2>5, <2>a, <3>2 DEF MutInv, InMaking, MakingFolder, Where, Creates
      <3>3. CASE request.field = "modifyItem"
        BY <1>1, <2>1, <2>3, <2>4, <2>5, <3>3 DEF MutInv, InMaking, ModifyingItem
      <3>4. CASE request.field = "modifyFolder"
        <4>1. folders[target] # Gone => folders[target].content \in Contents
          BY <1>1, <3>4, CurrentIsContent DEF OfItem
        <4>2. QED
          BY <1>1, <2>1, <2>3, <2>4, <2>5, <3>4, <4>1 DEF MutInv, InMaking, ModifyingFolder, Where
      <3>5. QED
        BY <1>1, <3>1, <3>2, <3>3, <3>4
    <2>7. Goto(to) /\ draft' \in Contents
      BY <1>5, <2>1, <2>5 DEF to
    <2>8. QED
      BY <1>1, <2>1, <2>2, <2>5, <2>6, <2>7, GoesOn
  <1>6. QED
    BY <1>3, <1>4, <1>5 DEF Convert

LEMMA SetPropsKeeps ==
  ASSUME MutInv, SetProps
  PROVE  MutInv'
  <1>1. /\ pc = "set" /\ UNCHANGED <<asked, resolved, crashed>>
        /\ request.field \in {"createItem", "createSubFolder", "modifyItem", "modifyFolder"}
    BY DEF SetProps, At
  <1>2. request \in RequestRecords
    BY <1>1, InProgress
  <1>3. /\ Current \in Contents /\ draft \in Contents
        /\ OfItem(request) => Current = draft
        /\ ~OfItem(request) => target \in FolderIds
        /\ (~OfItem(request) /\ folders[target] # Gone) => Current = folders[target].content
    BY <1>1, CurrentIsContent DEF MutInv, FieldType
  <1> DEFINE c == WithSets(Current, request)
  <1>4. /\ c \in Contents
        /\ WithoutDeleted(Current, request) = Current => Applied(c, request)
        /\ \A p \in Props : c[p] # Current[p] => <<p, c[p]>> \in Asked(request)
    BY <1>2, <1>3, ModifiedBy
  <1>5. CASE Throw /\ UNCHANGED <<store, caches>>
    BY <1>1, <1>5, ThrowsInField
  <1>6. CASE Change(c) /\ Goto("save") /\ UNCHANGED <<folderCache, unnamed>>
    <2>0. pc' = "save" /\ UNCHANGED <<request, target, answer, folderCache, unnamed>>
      BY <1>6 DEF Goto
    <2>a. NewContent' = NewContent
      BY DEF NewContent
    <2>1. CASE request.field = "modifyItem"
      <3>1. draft' = c /\ UNCHANGED <<items, folders, deletedItems>> /\ itemCache[target] # NotOpened
            /\ itemCache' = [itemCache EXCEPT ![target] = c]
        BY <1>1, <1>3, <1>6, <2>1, MarksAssumption DEF Change, OfItem, store, MutInv, InMaking, ModifyingItem
      <3>2. Unsaved' /\ itemCache' \in [ItemIds -> Contents \cup {NotOpened}] /\ itemCache'[target] = c
        BY <1>1, <1>3, <1>4, <2>1, <3>1, ItemChanged DEF OfItem
      <3>3. Members'
        BY <1>1, <2>0, <3>1, <3>2 DEF MutInv, Members
      <3>4. ModifyingItem'
        BY <1>1, <1>3, <1>4, <2>0, <2>1, <3>1, <3>2 DEF MutInv, InMaking, ModifyingItem, OfItem
      <3>5. InMaking'
        BY <2>0, <2>1, <3>4 DEF InMaking
      <3>6. QED
        BY <1>1, <1>4, <1>6, <3>1, <3>2, <3>3, <3>5, GoesOn
    <2>2. CASE request.field = "createItem"
      <3>1. MakingItem /\ itemCache[target] = NotOpened
        BY <1>1, <2>2 DEF MutInv, InMaking, MakingItem, Where
      <3>2. draft' = c /\ UNCHANGED <<items, folders, deletedItems, itemCache>>
        BY <1>6, <2>2, <3>1 DEF Change, OfItem, store
      <3>3. c = WithSets(NewContent, request)
        BY <1>1, <1>3, <2>2, <3>1 DEF MakingItem, Where, OfItem
      <3>4. Members' /\ Unsaved'
        BY <1>1, <2>0, <3>2, UnsavedStays DEF MutInv, Members
      <3>5. MakingItem'
        BY <1>1, <2>0, <2>a, <3>1, <3>2, <3>3 DEF MakingItem, Where
      <3>6. InMaking'
        BY <2>0, <2>2, <3>5 DEF InMaking
      <3>7. QED
        BY <1>1, <1>4, <1>6, <3>2, <3>4, <3>6, GoesOn
    <2>3. CASE request.field \in {"createSubFolder", "modifyFolder"}
      <3>1. folders[target] # Gone /\ folders' = [folders EXCEPT ![target].content = c]
            /\ UNCHANGED <<items, deletedItems, itemCache, draft>>
        BY <1>6, <2>3 DEF Change, OfItem
      <3>2. target \in FolderIds /\ Current = folders[target].content
        BY <1>3, <2>3, <3>1 DEF OfItem
      <3>3. /\ folders' \in [FolderIds -> FolderObjects \cup {Gone}]
            /\ folders'[target] = [parent |-> folders[target].parent, content |-> c]
            /\ folders'[target] # Gone /\ folders'[target].content = c
        BY <1>4, <3>1, <3>2, FolderChanged
      <3>4. Members' /\ Unsaved'
        BY <1>1, <2>0, <3>1, <3>3, UnsavedStays DEF MutInv, Members
      <3>5. ASSUME request.field = "createSubFolder" PROVE InMaking'
        <4>1. MakingFolder
          BY <1>1, <3>5 DEF MutInv, InMaking
        <4>2. folders[target].parent = Where(request.folder) /\ folders[target].content = NewContent
          BY <1>1, <4>1 DEF MakingFolder, Where
        <4>3. c = WithSets(NewContent, request)
          BY <3>2, <4>2
        <4>4. MakingFolder'
          BY <2>0, <2>a, <3>2, <3>3, <4>2, <4>3 DEF MakingFolder, Where
        <4>5. QED
          BY <2>0, <3>5, <4>4 DEF InMaking
      <3>6. ASSUME request.field = "modifyFolder" PROVE InMaking'
        <4>1. ModifyingFolder
          BY <1>1, <3>6 DEF MutInv, InMaking
        <4>2. Applied(c, request)
          BY <1>1, <1>4, <3>1, <3>2, <4>1 DEF ModifyingFolder, Where
        <4>3. ModifyingFolder'
          BY <1>1, <2>0, <3>3, <4>1, <4>2 DEF ModifyingFolder, Where
        <4>4. QED
          BY <2>0, <3>6, <4>3 DEF InMaking
      <3>7. InMaking'
        BY <2>3, <3>5, <3>6
      <3>8. QED
        BY <1>1, <1>3, <1>6, <3>1, <3>4, <3>7, GoesOn
    <2>4. QED
      BY <1>1, <2>1, <2>2, <2>3
  <1>7. QED
    BY <1>5, <1>6 DEF SetProps

LEMMA SaveChangesKeeps ==
  ASSUME MutInv, SaveChanges
  PROVE  MutInv'
  <1> DEFINE needed == Creates(request) \/ Changes(request)
  <1>1. /\ pc = "save" /\ UNCHANGED <<asked, resolved, crashed>>
        /\ request.field \in {"createItem", "createSubFolder", "modifyItem", "modifyFolder"}
    BY DEF SaveChanges, At
  <1>2. request \in RequestRecords /\ Where(request.folder) \in FolderIds
        /\ (request.field = "createItem" => request.read \in BOOLEAN)
        /\ (request.field = "modifyItem" => request.id \in ItemIds)
    BY <1>1, InProgress, WhereIsFolder
  <1>3. draft \in Contents /\ items \in [ItemIds -> Messages \cup {Gone}] /\ InMaking
    BY DEF MutInv, FieldType, Members
  <1>4. CASE Throw /\ UNCHANGED <<store, caches>>
    BY <1>1, <1>4, ThrowsInField
  <1>5. CASE /\ (IF OfItem(request) THEN items[target] # Gone \/ Creates(request)
                                      ELSE folders[target] # Gone) \/ ~needed
             /\ items' = IF OfItem(request) /\ needed THEN [items EXCEPT ![target] = Saved] ELSE items
             /\ Goto(IF request.field = "modifyItem" THEN "read" ELSE "wrap")
             /\ UNCHANGED <<folders, deletedItems, caches, draft>>
    <2>0. pc' = (IF request.field = "modifyItem" THEN "read" ELSE "wrap")
          /\ UNCHANGED <<request, target, answer, folders, deletedItems, itemCache, folderCache, unnamed, draft>>
      BY <1>5 DEF Goto, caches
    <2>a. NewContent' = NewContent
      BY DEF NewContent
    <2>1. CASE request.field = "createItem"
      <3>1. MakingItem
        BY <1>1, <1>3, <2>1 DEF InMaking
      <3>2. target \in ItemIds /\ itemCache[target] = NotOpened /\ draft = WithSets(NewContent, request)
        BY <1>1, <3>1 DEF MakingItem, Where
      <3>3. items' = [items EXCEPT ![target] = Saved]
            /\ Saved = [folder |-> Where(request.folder), content |-> draft, read |-> request.read]
        BY <1>5, <2>1 DEF Saved, OfItem, Creates
      <3>4. Saved \in Messages
        BY <1>2, <1>3, <2>1, <3>3 DEF Messages
      <3> HIDE DEF Saved
      <3>5. items' \in [ItemIds -> Messages \cup {Gone}] /\ items'[target] = Saved
            /\ \A j \in ItemIds \ {target} : items'[j] = items[j]
        BY <1>3, <3>2, <3>3, <3>4
      <3>6. Members'
        BY <1>1, <2>0, <3>5 DEF MutInv, Members
      <3>7. Unsaved'
        <4>1. ASSUME NEW j \in ItemIds, itemCache[j] # NotOpened PROVE items'[j] = items[j]
          BY <3>2, <3>5, <4>1
        <4>2. QED
          BY <1>1, <2>0, <4>1 DEF MutInv, Unsaved
      <3>8. MakingItem'
        BY <2>0, <2>1, <2>a, <3>2, <3>3, <3>5 DEF MakingItem, Where
      <3>9. InMaking'
        BY <2>0, <2>1, <3>8 DEF InMaking
      <3>10. Goto("wrap")
        BY <1>5, <2>1
      <3>11. QED
        BY <1>1, <1>3, <2>0, <3>6, <3>7, <3>9, <3>10, GoesOn
    <2>2. CASE request.field \in {"createSubFolder", "modifyFolder"}
      <3>1. items' = items /\ pc' = "wrap"
        BY <1>5, <2>0, <2>2 DEF OfItem
      <3>2. Members' /\ Unsaved'
        BY <1>1, <2>0, <3>1, UnsavedStays DEF MutInv, Members
      <3>3. ASSUME request.field = "createSubFolder" PROVE InMaking'
        <4>1. MakingFolder
          BY <1>1, <1>3, <3>3 DEF InMaking
        <4>2. MakingFolder'
          BY <1>1, <2>0, <2>a, <3>1, <4>1 DEF MakingFolder, Where
        <4>3. QED
          BY <2>0, <3>3, <4>2 DEF InMaking
      <3>4. ASSUME request.field = "modifyFolder" PROVE InMaking'
        <4>1. ModifyingFolder
          BY <1>1, <1>3, <3>4 DEF InMaking
        <4>2. Changes(request) => folders[target] # Gone
          BY <1>5, <3>4 DEF OfItem
        <4>3. Changes(request)' = Changes(request)
          BY <2>0 DEF Changes, SetCount
        <4>4. ModifyingFolder'
          BY <1>1, <2>0, <3>1, <4>1, <4>2, <4>3 DEF ModifyingFolder, Where
        <4>5. QED
          BY <2>0, <3>4, <4>4 DEF InMaking
      <3>5. Goto("wrap")
        BY <1>5, <2>2
      <3>6. QED
        BY <1>1, <1>3, <2>0, <2>2, <3>2, <3>3, <3>4, <3>5, GoesOn
    <2>3. CASE request.field = "modifyItem"
      <3>1. ModifyingItem
        BY <1>1, <1>3, <2>3 DEF InMaking
      <3>2. target = request.id /\ target \in ItemIds /\ itemCache[target] = draft /\ Applied(draft, request)
        BY <1>1, <1>2, <2>3, <3>1 DEF ModifyingItem
      <3>3. ASSUME Changes(request)
            PROVE  /\ items' \in [ItemIds -> Messages \cup {Gone}]
                   /\ items'[target] \in Messages /\ items'[target].content = draft
                   /\ \A j \in ItemIds \ {target} : items'[j] = items[j]
        <4>1. items[target] # Gone /\ items' = [items EXCEPT ![target] = [items[target] EXCEPT !.content = draft]]
          BY <1>5, <2>3, <3>3 DEF OfItem, Creates, Saved
        <4>2. items[target] \in Messages
          BY <1>3, <3>2, <4>1
        <4>3. [items[target] EXCEPT !.content = draft] \in Messages
              /\ [items[target] EXCEPT !.content = draft].content = draft
          BY <1>3, <4>2 DEF Messages
        <4>4. QED
          BY <1>3, <3>2, <4>1, <4>3
      <3>4. ~Changes(request) => items' = items
        BY <1>5, <2>3 DEF Creates
      <3>5. Members'
        BY <1>1, <1>3, <2>0, <3>3, <3>4 DEF MutInv, Members
      <3>6. Unsaved'
        <4>1. CASE Changes(request)
          BY <1>1, <2>0, <3>2, <3>3, <4>1 DEF MutInv, Unsaved
        <4>2. CASE ~Changes(request)
          BY <1>1, <2>0, <3>4, <4>2, UnsavedStays
        <4>3. QED
          BY <4>1, <4>2
      <3>7. items'[target] # Gone => Applied(items'[target].content, request)
        <4>1. ASSUME ~Changes(request), items[target] # Gone
              PROVE  Applied(items[target].content, request)
          <5>1. items[target].content \in Contents
            BY <1>3, <3>2, <4>1 DEF Messages
          <5>2. request.deleted = {} /\ SetCount(request) = 0
            <6>1. SetCount(request) \in Nat
              BY <1>2 DEF SetCount, RequestRecords
            <6>2. QED
              BY <4>1, <6>1 DEF Changes
          <5>3. QED
            BY <1>2, <5>1, <5>2, ModifiedBy
        <4>2. QED
          BY <3>2, <3>3, <3>4, <4>1
      <3>8. ModifyingItem'
        BY <2>0, <2>3, <3>2, <3>7 DEF ModifyingItem
      <3>9. InMaking'
        BY <2>0, <2>3, <3>8 DEF InMaking
      <3>10. Goto("read")
        BY <1>5, <2>3
      <3>11. QED
        BY <1>1, <1>3, <2>0, <3>5, <3>6, <3>9, <3>10, GoesOn
    <2>4. QED
      BY <1>1, <2>1, <2>2, <2>3
  <1>6. QED
    BY <1>4, <1>5 DEF SaveChanges

LEMMA SetReadFlagKeeps ==
  ASSUME MutInv, SetReadFlag
  PROVE  MutInv'
  <1>1. /\ pc = "read" /\ request.field = "modifyItem" /\ UNCHANGED <<asked, resolved, crashed>>
    BY DEF SetReadFlag, At
  <1>2. CASE Throw /\ UNCHANGED <<store, caches>>
    BY <1>1, <1>2, ThrowsInField
  <1>3. CASE /\ items[target] # Gone
             /\ items' = [items EXCEPT ![target].read = (request.read # Absent)]
             /\ Goto("wrap")
             /\ UNCHANGED <<folders, deletedItems, caches, draft>>
    <2>0. pc' = "wrap" /\ UNCHANGED <<request, target, folders, deletedItems, itemCache, folderCache, unnamed, draft>>
      BY <1>3 DEF Goto, caches
    <2>1. ModifyingItem
      BY <1>1 DEF MutInv, InMaking
    <2>2. target = request.id /\ target \in ItemIds /\ itemCache[target] = draft
          /\ Applied(items[target].content, request)
      BY <1>1, <1>3, <2>1, InProgress DEF ModifyingItem
    <2>3. items \in [ItemIds -> Messages \cup {Gone}] /\ draft \in Contents
      BY DEF MutInv, Members, FieldType
    <2> DEFINE flag == (request.read # Absent)
               m    == [items[target] EXCEPT !.read = flag]
    <2>a. request.read = TRUE => flag = TRUE
      BY MarksAssumption
    <2>4. m \in Messages /\ m.content = items[target].content /\ m.read = flag
      <3>1. items[target] \in Messages /\ flag \in BOOLEAN
        BY <1>3, <2>2, <2>3
      <3> HIDE DEF flag
      <3>2. QED
        BY <3>1 DEF Messages
    <2>5. items' = [items EXCEPT ![target] = m]
      BY <1>3
    <2> HIDE DEF m, flag
    <2>6. items' \in [ItemIds -> Messages \cup {Gone}] /\ items'[target] = m
          /\ \A j \in ItemIds \ {target} : items'[j] = items[j]
      BY <2>2, <2>3, <2>4, <2>5
    <2>7. Members'
      BY <1>1, <2>0, <2>6 DEF MutInv, Members
    <2>8. Unsaved'
      <3>1. \A j \in ItemIds : items'[j] # Gone => items[j] # Gone /\ items'[j].content = items[j].content
        BY <1>3, <2>4, <2>6
      <3>2. QED
        BY <1>1, <2>0, <3>1 DEF MutInv, Unsaved
    <2>9. ModifyingItem'
      BY <2>0, <2>2, <2>a, <2>4, <2>6, MarksAssumption DEF ModifyingItem
    <2>10. InMaking'
      BY <1>1, <2>0, <2>9 DEF InMaking
    <2>11. QED
      BY <1>1, <1>3, <2>0, <2>3, <2>7, <2>8, <2>10, GoesOn
  <1>4. QED
    BY <1>2, <1>3 DEF SetReadFlag

LEMMA WrapKeeps ==
  ASSUME MutInv, Wrap
  PROVE  MutInv'
  <1>1. /\ pc = "wrap" /\ UNCHANGED <<store, itemCache, folderCache, asked, resolved, crashed>>
        /\ (Throw /\ UNCHANGED unnamed) \/ (Answer("object") /\ CacheFolder)
    BY DEF Wrap, At
  <1>2. CASE Throw /\ UNCHANGED unnamed
    BY <1>1, <1>2, ThrowsInField DEF caches
  <1>3. CASE Answer("object") /\ CacheFolder
    <2>1. unnamed' \in FolderIds \cup {NotOpened}
      BY <1>1, <1>3 DEF CacheFolder, MutInv, Members, InMaking, MakingFolder
    <2>2. Members' /\ Unsaved'
      BY <1>1, <2>1, UnsavedStays DEF MutInv, Members, store
    <2>3. QED
      BY <1>3, <2>2, Ended DEF Answers
  <1>4. QED
    BY <1>1, <1>2, <1>3

(***************************************************************************)
(* Several messages at once.                                               *)
(***************************************************************************)

\* A step changes the content of no message.
ContentStays ==
  \A i \in ItemIds : (items[i] # Gone /\ items'[i] # Gone) => items'[i].content = items[i].content

\* ... and adds none that is in the cache.
NoneCached ==
  \A i \in ItemIds : (items[i] = Gone /\ itemCache[i] # NotOpened) => items'[i] = Gone

LEMMA FoldersInOrder ==
  ASSUME MutInv, NEW opened \in Seq(FolderNames), \A n \in DOMAIN opened : CanOpenFolder(opened[n]),
         CacheFolders({opened[n] : n \in DOMAIN opened})
  PROVE  folderCache' \in [FolderIds -> FolderIds \cup {NotOpened}] /\ UNCHANGED unnamed
  <1> DEFINE fs == {opened[n] : n \in DOMAIN opened}
  <1>1. \A n \in DOMAIN opened : opened[n] \in FolderNames
    OBVIOUS
  <1>2. \A f \in fs : f \in FolderNames /\ CanOpenFolder(f)
    BY <1>1
  <1>3. CacheFolders(fs)
    OBVIOUS
  <1> HIDE DEF fs
  <1>4. QED
    BY <1>2, <1>3, FoldersCached

LEMMA AllDone ==
  ASSUME MutInv, NEW opened \in Seq(FolderNames), \A n \in DOMAIN opened : CanOpenFolder(opened[n]),
         CacheFolders({opened[n] : n \in DOMAIN opened}), NEW a \in Answers, Answer(a),
         UNCHANGED <<deletedItems, itemCache, asked, resolved, crashed>>,
         folders' \in [FolderIds -> FolderObjects \cup {Gone}],
         items' \in [ItemIds -> Messages \cup {Gone}], ContentStays, NoneCached
  PROVE  MutInv'
  <1>1. folderCache' \in [FolderIds -> FolderIds \cup {NotOpened}] /\ UNCHANGED unnamed
    BY FoldersInOrder
  <1>2. Members'
    BY <1>1 DEF MutInv, Members
  <1>3. Unsaved'
    <2>1. ASSUME NEW i \in ItemIds, itemCache[i] # NotOpened, items'[i] # Gone
          PROVE  items[i] # Gone /\ items'[i].content = items[i].content
      BY <2>1 DEF ContentStays, NoneCached
    <2>2. QED
      BY <2>1 DEF MutInv, Unsaved
  <1>4. QED
    BY <1>2, <1>3, Ended

LEMMA NoneDone ==
  ASSUME MutInv, NEW opened \in Seq(FolderNames), NEW used, BulkThrows(opened, used),
         UNCHANGED <<asked, resolved, crashed>>
  PROVE  MutInv' /\ ContentStays /\ answer' = "error"
  <1>1. CASE OpenFails(opened)
    <2>1. UNCHANGED items /\ Throw
      BY <1>1 DEF OpenFails, store
    <2>2. QED
      BY <1>1, <2>1, NotOpenedFolders DEF ContentStays, Throw, Answer
  <1>2. CASE /\ \A n \in DOMAIN opened : CanOpenFolder(opened[n])
             /\ CacheFolders({opened[n] : n \in DOMAIN opened})
             /\ Throw
             /\ UNCHANGED <<store, itemCache>>
    <2>1. folderCache' \in [FolderIds -> FolderIds \cup {NotOpened}] /\ UNCHANGED unnamed
      BY <1>2, FoldersInOrder
    <2>2. QED
      BY <1>2, <2>1, Thrown DEF ContentStays, Throw, Answer, store
  <1>3. QED
    BY <1>1, <1>2 DEF BulkThrows

\* The messages a call did its work for are messages the field names.
LEMMA NamedMessages ==
  ASSUME MutInv, pc = "open", request.field \in Fields, NEW done \in SUBSET Named(request)
  PROVE  /\ done \subseteq ItemIds
         /\ \A i \in done : items[i] \in Messages /\ items[i] # Gone
         /\ request.items \subseteq ItemIds
  <1>1. request.items \subseteq ItemIds
    BY InProgress
  <1>2. done \subseteq ItemIds /\ \A i \in done : items[i] # Gone
    BY <1>1 DEF Named
  <1>3. QED
    BY <1>1, <1>2 DEF MutInv, Members

\* Whatever the call does to a message it did its work for, the others stay.
LEMMA BulkKeeps ==
  ASSUME MutInv, pc = "open", request.field \in Fields, NEW opened \in Seq(FolderNames), NEW used,
         NEW done \in SUBSET Named(request),
         Bulk(opened, used, done), UNCHANGED <<asked, resolved, crashed>>,
         items' \in [ItemIds -> Messages \cup {Gone}], ContentStays, NoneCached
  PROVE  MutInv' /\ answer' = (IF done = request.items THEN "true" ELSE "false")
  <1> DEFINE a == IF done = request.items THEN "true" ELSE "false"
  <1>1. /\ \A n \in DOMAIN opened : CanOpenFolder(opened[n])
        /\ CacheFolders({opened[n] : n \in DOMAIN opened})
        /\ UNCHANGED <<folders, deletedItems, itemCache>>
        /\ Answer(a)
    BY DEF Bulk, BulkAnswer
  <1>2. a \in Answers
    BY DEF Answers
  <1>3. folders' \in [FolderIds -> FolderObjects \cup {Gone}]
    BY <1>1 DEF MutInv, Members
  <1>4. answer' = a
    BY <1>1 DEF Answer
  <1> HIDE DEF a
  <1>5. MutInv'
    BY <1>1, <1>2, <1>3, AllDone
  <1>6. QED
    BY <1>4, <1>5 DEF a

LEMMA MovedMessages ==
  ASSUME MutInv, pc = "open", request.field \in Fields, NEW done \in SUBSET Named(request),
         NEW destination \in FolderIds, Moved(done, destination)
  PROVE  /\ items' \in [ItemIds -> Messages \cup {Gone}] /\ ContentStays /\ NoneCached
         /\ \A i \in done : items'[i] # Gone /\ items'[i].folder = destination
  <1>1. done \subseteq ItemIds /\ \A i \in done : items[i] \in Messages /\ items[i] # Gone
    BY NamedMessages
  <1>2. items \in [ItemIds -> Messages \cup {Gone}]
    BY DEF MutInv, Members
  <1>3. ASSUME NEW i \in done
        PROVE  /\ [items[i] EXCEPT !.folder = destination] \in Messages
               /\ [items[i] EXCEPT !.folder = destination].folder = destination
               /\ [items[i] EXCEPT !.folder = destination].content = items[i].content
    BY <1>1 DEF Messages
  <1>4. items' = [i \in ItemIds |-> IF i \in done THEN [items[i] EXCEPT !.folder = destination] ELSE items[i]]
    BY DEF Moved
  <1>5. items' \in [ItemIds -> Messages \cup {Gone}]
    BY <1>2, <1>3, <1>4
  <1>6. ContentStays /\ NoneCached
    BY <1>1, <1>3, <1>4 DEF ContentStays, NoneCached
  <1>7. \A i \in done : items'[i] # Gone /\ items'[i].folder = destination
    BY <1>1, <1>3, <1>4, MarksAssumption
  <1>8. QED
    BY <1>5, <1>6, <1>7

LEMMA CopiedMessages ==
  ASSUME MutInv, pc = "open", request.field \in Fields, NEW done \in SUBSET Named(request),
         NEW destination \in FolderIds, Copied(done, destination)
  PROVE  /\ items' \in [ItemIds -> Messages \cup {Gone}] /\ ContentStays /\ NoneCached
         /\ \A i \in done : \E j \in ItemIds :
              items'[j] # Gone /\ items'[j] = [items'[i] EXCEPT !.folder = destination]
  <1>1. done \subseteq ItemIds /\ \A i \in done : items[i] \in Messages /\ items[i] # Gone
    BY NamedMessages
  <1>2. items \in [ItemIds -> Messages \cup {Gone}]
    BY DEF MutInv, Members
  <1>3. PICK original \in UNION {[S -> done] : S \in SUBSET FreshItems} :
          /\ {original[i] : i \in DOMAIN original} = done
          /\ items' = [i \in ItemIds |-> IF i \in DOMAIN original
                                         THEN [items[original[i]] EXCEPT !.folder = destination]
                                         ELSE items[i]]
    BY DEF Copied
  <1>4. /\ DOMAIN original \subseteq ItemIds
        /\ \A j \in DOMAIN original : items[j] = Gone /\ itemCache[j] = NotOpened /\ original[j] \in done
    BY <1>3 DEF FreshItems
  <1>5. ASSUME NEW j \in DOMAIN original
        PROVE  [items[original[j]] EXCEPT !.folder = destination] \in Messages
    <2>1. items[original[j]] \in Messages
      BY <1>1, <1>4
    <2>2. QED
      BY <2>1 DEF Messages
  <1>6. items' \in [ItemIds -> Messages \cup {Gone}]
    BY <1>2, <1>3, <1>5
  <1>7. ContentStays /\ NoneCached
    BY <1>3, <1>4 DEF ContentStays, NoneCached
  <1>8. ASSUME NEW i \in done
        PROVE  \E j \in ItemIds : items'[j] # Gone /\ items'[j] = [items'[i] EXCEPT !.folder = destination]
    <2>1. PICK j \in DOMAIN original : original[j] = i
      BY <1>3
    <2>2. i \notin DOMAIN original /\ i \in ItemIds
      BY <1>1, <1>4
    <2>3. items'[i] = items[i]
      BY <1>3, <2>2
    <2>4. items'[j] = [items[i] EXCEPT !.folder = destination] /\ items'[j] \in Messages
      BY <1>3, <1>4, <1>5, <2>1
    <2>5. QED
      BY <1>4, <2>3, <2>4, MarksAssumption
  <1>9. QED
    BY <1>6, <1>7, <1>8

\* What the answer true of a call for several messages says of each of them.
MovedTo(i, destination)  == items'[i] # Gone /\ items'[i].folder = destination
CopiedTo(i, destination) ==
  \E j \in ItemIds : items'[j] # Gone /\ items'[j] = [items'[i] EXCEPT !.folder = destination]

LEMMA CopyItemsKeeps ==
  ASSUME MutInv, NEW fields \in SUBSET Fields, NEW first \in Seq(FolderNames), NEW destination \in FolderNames,
         NEW moveItems \in BOOLEAN, CopyItems(fields, first, destination, moveItems), request.field \in fields
  PROVE  /\ MutInv' /\ ContentStays /\ pc = "open"
         /\ answer' \in {"error", "true", "false"}
         /\ answer' = "true" =>
              /\ deletedItems' = deletedItems
              /\ \A i \in request.items : IF moveItems THEN MovedTo(i, Where(destination)) ELSE CopiedTo(i, Where(destination))
  <1> DEFINE opened == first \o <<request.folder, destination>>
             used   == {request.folder, destination}
  <1>1. pc = "open" /\ request.field \in Fields /\ UNCHANGED <<asked, resolved, crashed>>
    BY DEF CopyItems, At
  <1>2. request.folder \in FolderNames /\ Where(destination) \in FolderIds
    BY <1>1, InProgress, WhereIsFolder
  <1>3. <<request.folder, destination>> \in Seq(FolderNames)
    BY <1>2
  <1>4. opened \in Seq(FolderNames)
    BY <1>3
  <1>5. CASE BulkThrows(opened, used)
    <2> HIDE DEF opened, used
    <2>1. MutInv' /\ ContentStays /\ answer' = "error"
      BY <1>1, <1>4, <1>5, NoneDone
    <2>2. QED
      BY <1>1, <2>1
  <1>6. ASSUME NEW done \in SUBSET Named(request),
               Bulk(opened, used, done),
               IF moveItems THEN Moved(done, Where(destination)) ELSE Copied(done, Where(destination))
        PROVE  /\ MutInv' /\ ContentStays
               /\ answer' \in {"true", "false"}
               /\ answer' = "true" =>
                    /\ deletedItems' = deletedItems
                    /\ \A i \in request.items : IF moveItems THEN MovedTo(i, Where(destination)) ELSE CopiedTo(i, Where(destination))
    <2> HIDE DEF opened, used
    <2>1. CASE moveItems
      <3>1. /\ items' \in [ItemIds -> Messages \cup {Gone}] /\ ContentStays /\ NoneCached
            /\ \A i \in done : items'[i] # Gone /\ items'[i].folder = Where(destination)
        BY <1>1, <1>2, <1>6, <2>1, MovedMessages
      <3>2. MutInv' /\ answer' = (IF done = request.items THEN "true" ELSE "false")
        BY <1>1, <1>4, <1>6, <3>1, BulkKeeps
      <3>3. deletedItems' = deletedItems
        BY <1>6 DEF Bulk
      <3>4. QED
        BY <2>1, <3>1, <3>2, <3>3 DEF MovedTo
    <2>2. CASE ~moveItems
      <3>1. /\ items' \in [ItemIds -> Messages \cup {Gone}] /\ ContentStays /\ NoneCached
            /\ \A i \in done : \E j \in ItemIds :
                 items'[j] # Gone /\ items'[j] = [items'[i] EXCEPT !.folder = Where(destination)]
        BY <1>1, <1>2, <1>6, <2>2, CopiedMessages
      <3>2. MutInv' /\ answer' = (IF done = request.items THEN "true" ELSE "false")
        BY <1>1, <1>4, <1>6, <3>1, BulkKeeps
      <3>3. deletedItems' = deletedItems
        BY <1>6 DEF Bulk
      <3>4. QED
        BY <2>2, <3>1, <3>2, <3>3 DEF CopiedTo
    <2>3. QED
      BY <2>1, <2>2
  <1>7. QED
    BY <1>1, <1>5, <1>6 DEF CopyItems

\* What the field r was to bring about is there, if it ends with an answer that says so.
Truthful(r) == (pc' = "idle" /\ answer' \in {"object", "true"} /\ Means(r)) => Done(r)'

LEMMA NamesMean ==
  ASSUME NEW r, Means(r)
  PROVE  /\ Where(r.id) = Meant(r.id) /\ Where(r.folder) = Meant(r.folder)
         /\ Where(r.destination) = Meant(r.destination)
  BY DEF Means, Meant, Where

LEMMA CopyItemsDone ==
  ASSUME MutInv, NEW r, request = r, applyCopyItems
  PROVE  MutInv' /\ ContentStays /\ Truthful(r)
  <1>1. request.field = "copyItems" /\ pc = "open" /\ CopyItems({"copyItems"}, <<>>, request.destination, FALSE)
    BY DEF applyCopyItems, CopyItems, At
  <1>2. request.destination \in FolderNames
    BY <1>1, InProgress
  <1>3. {"copyItems"} \in SUBSET Fields /\ <<>> \in Seq(FolderNames) /\ FALSE \in BOOLEAN
    BY DEF Fields
  <1>4. /\ MutInv' /\ ContentStays /\ answer' \in {"error", "true", "false"}
        /\ answer' = "true" => \A i \in request.items : CopiedTo(i, Where(request.destination))
    BY <1>1, <1>2, <1>3, CopyItemsKeeps
  <1>5. QED
    BY <1>1, <1>4, NamesMean DEF Truthful, Done, CopiedTo

LEMMA MoveItemsDone ==
  ASSUME MutInv, NEW r, request = r, applyMoveItems
  PROVE  MutInv' /\ ContentStays /\ Truthful(r)
  <1>1. request.field = "moveItems" /\ pc = "open" /\ CopyItems({"moveItems"}, <<>>, request.destination, TRUE)
    BY DEF applyMoveItems, CopyItems, At
  <1>2. request.destination \in FolderNames
    BY <1>1, InProgress
  <1>3. {"moveItems"} \in SUBSET Fields /\ <<>> \in Seq(FolderNames) /\ TRUE \in BOOLEAN
    BY DEF Fields
  <1>4. /\ MutInv' /\ ContentStays /\ answer' \in {"error", "true", "false"}
        /\ answer' = "true" => \A i \in request.items : MovedTo(i, Where(request.destination))
    BY <1>1, <1>2, <1>3, CopyItemsKeeps
  <1>5. QED
    BY <1>1, <1>4, NamesMean DEF Truthful, Done, MovedTo

LEMMA MarkAsReadDone ==
  ASSUME MutInv, NEW r, request = r, applyMarkAsRead
  PROVE  MutInv' /\ ContentStays /\ Truthful(r)
  <1>1. request.field = "markAsRead" /\ pc = "open" /\ UNCHANGED <<asked, resolved, crashed>>
    BY DEF applyMarkAsRead, At
  <1>2. request.folder \in FolderNames /\ request.read \in BOOLEAN /\ request.field \in Fields
    BY <1>1, InProgress DEF Fields
  <1>3. <<request.folder>> \in Seq(FolderNames)
    BY <1>2
  <1>4. CASE BulkThrows(<<request.folder>>, {request.folder})
    <2>1. MutInv' /\ ContentStays /\ answer' = "error"
      BY <1>1, <1>3, <1>4, NoneDone
    <2>2. QED
      BY <2>1 DEF Truthful
  <1>5. ASSUME NEW done \in SUBSET Named(request),
               Bulk(<<request.folder>>, {request.folder}, done),
               items' = [i \in ItemIds |-> IF i \in done THEN [items[i] EXCEPT !.read = request.read] ELSE items[i]]
        PROVE  MutInv' /\ ContentStays /\ Truthful(r)
    <2>1. done \subseteq ItemIds /\ \A i \in done : items[i] \in Messages /\ items[i] # Gone
      BY <1>1, <1>2, NamedMessages
    <2>2. ASSUME NEW i \in done
          PROVE  /\ [items[i] EXCEPT !.read = request.read] \in Messages
                 /\ [items[i] EXCEPT !.read = request.read].read = request.read
                 /\ [items[i] EXCEPT !.read = request.read].content = items[i].content
      BY <1>2, <2>1 DEF Messages
    <2>3. items \in [ItemIds -> Messages \cup {Gone}]
      BY DEF MutInv, Members
    <2>4. items' \in [ItemIds -> Messages \cup {Gone}]
      BY <1>5, <2>2, <2>3
    <2>5. ContentStays /\ NoneCached
      BY <1>5, <2>1, <2>2 DEF ContentStays, NoneCached
    <2>6. MutInv' /\ answer' = (IF done = request.items THEN "true" ELSE "false")
      BY <1>1, <1>2, <1>3, <1>5, <2>4, <2>5, BulkKeeps
    <2>7. \A i \in done : items'[i] # Gone /\ items'[i].read = request.read
      BY <1>5, <2>1, <2>2, MarksAssumption
    <2>8. answer' = "true" => Done(r)'
      BY <1>1, <2>6, <2>7 DEF Done
    <2>9. QED
      BY <2>5, <2>6, <2>8 DEF Truthful
  <1>6. QED
    BY <1>4, <1>5 DEF applyMarkAsRead

LEMMA DeleteHardDone ==
  ASSUME MutInv, NEW r, request = r, pc = "open", request.field = "deleteItems", request.hard = TRUE,
         DeleteHard, UNCHANGED <<asked, resolved, crashed>>
  PROVE  MutInv' /\ ContentStays /\ Truthful(r)
  <1>1. request.folder \in FolderNames /\ request.field \in Fields
    BY InProgress DEF Fields
  <1>2. <<request.folder>> \in Seq(FolderNames)
    BY <1>1
  <1>3. CASE BulkThrows(<<request.folder>>, {request.folder})
    <2>1. MutInv' /\ ContentStays /\ answer' = "error"
      BY <1>2, <1>3, NoneDone
    <2>2. QED
      BY <2>1 DEF Truthful
  <1>4. ASSUME NEW done \in SUBSET Named(request),
               Bulk(<<request.folder>>, {request.folder}, done),
               items' = [i \in ItemIds |-> IF i \in done THEN Gone ELSE items[i]]
        PROVE  MutInv' /\ ContentStays /\ Truthful(r)
    <2>1. done \subseteq ItemIds
      BY <1>1, NamedMessages
    <2>2. items' \in [ItemIds -> Messages \cup {Gone}]
      BY <1>4 DEF MutInv, Members
    <2>3. ContentStays /\ NoneCached
      BY <1>4 DEF ContentStays, NoneCached
    <2>4. MutInv' /\ answer' = (IF done = request.items THEN "true" ELSE "false")
      BY <1>1, <1>2, <1>4, <2>2, <2>3, BulkKeeps
    <2>5. \A i \in done : items'[i] = Gone
      BY <1>4, <2>1
    <2>6. answer' = "true" => Done(r)'
      BY <2>4, <2>5 DEF Done
    <2>7. QED
      BY <2>3, <2>4, <2>6 DEF Truthful
  <1>5. QED
    BY <1>3, <1>4 DEF DeleteHard

LEMMA DeleteItemsDone ==
  ASSUME MutInv, NEW r, request = r, applyDeleteItems
  PROVE  MutInv' /\ ContentStays /\ Truthful(r)
  <1>1. request.field = "deleteItems" /\ pc = "open"
    BY DEF applyDeleteItems, At
  <1>2. request.hard \in BOOLEAN
    BY <1>1, InProgress
  <1>3. CASE request.hard /\ DeleteHard /\ UNCHANGED <<asked, resolved, crashed>>
    BY <1>1, <1>2, <1>3, DeleteHardDone
  <1>4. CASE Throw /\ UNCHANGED <<store, caches, asked, resolved, crashed>>
    <2>1. MutInv'
      BY <1>4, ThrowsInField
    <2>2. ContentStays /\ answer' = "error"
      BY <1>4 DEF ContentStays, store, Throw, Answer
    <2>3. QED
      BY <2>1, <2>2 DEF Truthful
  <1>5. CASE ~request.hard /\ deletedItems # NoFolder
             /\ CopyItems({"deleteItems"}, <<deletedItems>>, deletedItems, TRUE)
    <2>1. deletedItems \in FolderIds
      BY <1>5, SpecialAssumption DEF MutInv, Members
    <2>2. <<deletedItems>> \in Seq(FolderNames) /\ deletedItems \in FolderNames /\ Where(deletedItems) = deletedItems
      BY <2>1, RootAssumption DEF FolderNames, Where
    <2>3. /\ MutInv' /\ ContentStays /\ answer' \in {"error", "true", "false"}
          /\ answer' = "true" => /\ deletedItems' = deletedItems
                                /\ \A i \in request.items : MovedTo(i, deletedItems)
      BY <1>1, <1>5, <2>1, <2>2, CopyItemsKeeps DEF Fields
    <2>4. answer' = "true" => Done(r)'
      BY <1>1, <1>5, <2>3 DEF Done, MovedTo
    <2>5. QED
      BY <2>3, <2>4 DEF Truthful
  <1>6. QED
    BY <1>3, <1>4, <1>5 DEF applyDeleteItems

LEMMA RemoveFolderDone ==
  ASSUME MutInv, NEW r, request = r, applyRemoveFolder
  PROVE  MutInv' /\ ContentStays /\ Truthful(r)
  <1> DEFINE f      == request.id
             parent == IF CanOpenFolder(f) /\ ParentOf(f) # f THEN <<ParentOf(f)>> ELSE <<>>
             moves  == ~request.hard /\ deletedItems # NoFolder
             opened == <<f>> \o parent \o (IF parent # <<>> /\ moves THEN <<deletedItems>> ELSE <<>>)
             ready  == \A n \in DOMAIN opened : CanOpenFolder(opened[n])
             able   == parent # <<>> /\ Removable(f)
                         /\ (moves => folders[deletedItems] # Gone /\ deletedItems \notin Below(f))
  <1>1. request.field = "removeFolder" /\ pc = "open"
    BY DEF applyRemoveFolder, At
  <1>2. f \in FolderIds /\ request.hard \in BOOLEAN
    BY <1>1, InProgress
  <1>3. moves => deletedItems \in FolderIds
    BY SpecialAssumption DEF MutInv, Members
  <1>4. opened \in Seq(FolderNames)
    <2>1. parent \in Seq(FolderNames)
      <3>1. CanOpenFolder(f) => ParentOf(f) \in FolderIds
        BY <1>2, ParentIsFolder
      <3>2. QED
        BY <3>1 DEF FolderNames
    <2> HIDE DEF parent
    <2>2. <<f>> \in Seq(FolderNames)
      BY <1>2 DEF FolderNames
    <2>3. (IF parent # <<>> /\ moves THEN <<deletedItems>> ELSE <<>>) \in Seq(FolderNames)
      <3>1. moves => <<deletedItems>> \in Seq(FolderNames)
        BY <1>3 DEF FolderNames
      <3>2. QED
        BY <3>1
    <2>4. QED
      BY <2>1, <2>2, <2>3
  <1>5. able => folders[f] # Gone
    BY DEF Removable
  <1>6. /\ items \in [ItemIds -> Messages \cup {Gone}]
        /\ folders \in [FolderIds -> FolderObjects \cup {Gone}]
    BY DEF MutInv, Members
  <1> HIDE DEF f, parent, moves, opened, ready, able
  <1>7. CASE OpenFails(opened) /\ UNCHANGED <<asked, resolved, crashed>>
    <2>1. MutInv'
      BY <1>4, <1>7, NotOpenedFolders
    <2>2. UNCHANGED items /\ answer' = "error"
      BY <1>7 DEF OpenFails, store, Throw, Answer
    <2>3. QED
      BY <2>1, <2>2 DEF ContentStays, Truthful
  <1>8. CASE Crash
    <2>1. MutInv'
      BY <1>8, CrashKeeps
    <2>2. UNCHANGED items /\ pc' = "open"
      BY <1>1, <1>8 DEF Crash, store, field
    <2>3. QED
      BY <2>1, <2>2 DEF ContentStays, Truthful
  <1>9. CASE /\ ready
             /\ CacheFolders({opened[n] : n \in DOMAIN opened})
             /\ \/ ~able /\ Throw /\ UNCHANGED <<items, folders>>
                \/ able /\ request.hard /\ RemoveHard(f)
                \/ able /\ moves /\ RemoveSoft(f)
             /\ UNCHANGED <<deletedItems, itemCache, asked, resolved, crashed>>
    <2>1. /\ \A n \in DOMAIN opened : CanOpenFolder(opened[n])
          /\ CacheFolders({opened[n] : n \in DOMAIN opened})
          /\ UNCHANGED <<deletedItems, itemCache, asked, resolved, crashed>>
      BY <1>9 DEF ready
    <2>2. ASSUME NEW a \in Answers, Answer(a),
                 folders' \in [FolderIds -> FolderObjects \cup {Gone}],
                 items' \in [ItemIds -> Messages \cup {Gone}],
                 \A i \in ItemIds : items'[i] \in {items[i], Gone},
                 a = "true" => Done(r)', a # "object"
          PROVE  MutInv' /\ ContentStays /\ Truthful(r)
      <3>1. ContentStays /\ NoneCached
        BY <2>2 DEF ContentStays, NoneCached
      <3>2. MutInv'
        BY <1>4, <2>1, <2>2, <3>1, AllDone
      <3>3. answer' = a
        BY <2>2 DEF Answer
      <3>4. QED
        BY <2>2, <3>1, <3>2, <3>3 DEF Truthful
    <2>3. CASE Throw /\ UNCHANGED <<items, folders>>
      BY <1>6, <2>2, <2>3 DEF Throw, Answers
    <2>4. CASE able /\ request.hard /\ RemoveHard(f)
      <3>1. CASE /\ folders' = [g \in FolderIds |-> IF g \in Below(f) THEN Gone ELSE folders[g]]
                 /\ items' = [i \in ItemIds |->
                               IF items[i] # Gone /\ items[i].folder \in Below(f) THEN Gone ELSE items[i]]
                 /\ BulkAnswer(TRUE)
        <4>1. f \in Below(f)
          BY DEF Below
        <4>2. folders'[f] = Gone
          BY <1>2, <3>1, <4>1
        <4>3. Done(r)'
          BY <1>1, <2>4, <4>2 DEF Done, f
        <4>4. folders' \in [FolderIds -> FolderObjects \cup {Gone}] /\ items' \in [ItemIds -> Messages \cup {Gone}]
              /\ \A i \in ItemIds : items'[i] \in {items[i], Gone}
          BY <1>6, <3>1
        <4>5. QED
          BY <2>2, <3>1, <4>3, <4>4 DEF BulkAnswer, Answers
      <3>2. ASSUME NEW left,
                   items' = [i \in ItemIds |-> IF items[i] # Gone /\ items[i].folder = f /\ i \notin left
                                              THEN Gone ELSE items[i]],
                   BulkAnswer(FALSE), UNCHANGED folders
            PROVE  MutInv' /\ ContentStays /\ Truthful(r)
        <4>1. folders' \in [FolderIds -> FolderObjects \cup {Gone}] /\ items' \in [ItemIds -> Messages \cup {Gone}]
              /\ \A i \in ItemIds : items'[i] \in {items[i], Gone}
          BY <1>6, <3>2
        <4>2. QED
          BY <2>2, <3>2, <4>1 DEF BulkAnswer, Answers
      <3>3. QED
        BY <2>4, <3>1, <3>2 DEF RemoveHard
    <2>5. CASE able /\ moves /\ RemoveSoft(f)
      <3>1. UNCHANGED items
        BY <2>5 DEF RemoveSoft
      <3>2. CASE folders' = [folders EXCEPT ![f].parent = deletedItems] /\ BulkAnswer(TRUE)
        <4>1. folders[f] \in FolderObjects
          BY <1>2, <1>5, <1>6, <2>5
        <4>2. [folders[f] EXCEPT !.parent = deletedItems] \in FolderObjects
              /\ [folders[f] EXCEPT !.parent = deletedItems].parent = deletedItems
          BY <1>3, <2>5, <4>1 DEF FolderObjects
        <4>3. folders' \in [FolderIds -> FolderObjects \cup {Gone}]
              /\ folders'[f] = [folders[f] EXCEPT !.parent = deletedItems]
          BY <1>2, <1>6, <3>2, <4>2
        <4>4. Done(r)'
          BY <1>1, <2>1, <2>5, <4>2, <4>3, MarksAssumption DEF Done, f, moves
        <4>5. QED
          BY <1>6, <2>2, <3>1, <3>2, <4>3, <4>4 DEF BulkAnswer, Answers
      <3>3. CASE BulkAnswer(FALSE) /\ UNCHANGED folders
        BY <1>6, <2>2, <3>1, <3>3 DEF BulkAnswer, Answers
      <3>4. QED
        BY <2>5, <3>2, <3>3 DEF RemoveSoft
    <2>6. QED
      BY <1>9, <2>3, <2>4, <2>5
  <1>10. QED
    BY <1>7, <1>8, <1>9 DEF applyRemoveFolder, f, parent, moves, opened, ready, able

(***************************************************************************)
(* The calls for one message or folder.                                    *)
(***************************************************************************)

LEMMA MessagesStay ==
  ASSUME Create \/ OpenItem \/ OpenFolder \/ DeleteProps \/ Convert \/ SetProps \/ Wrap
  PROVE  UNCHANGED items
  <1>1. Create => UNCHANGED items
    BY DEF Create, OpenFails, CreateMessage, CreateFolder, store
  <1>2. (OpenItem \/ OpenFolder) => UNCHANGED items
    BY DEF OpenItem, OpenFolder, OpenFails, store
  <1>3. (DeleteProps \/ SetProps) => UNCHANGED items
    BY DEF DeleteProps, SetProps, Change, store
  <1>4. (Convert \/ Wrap) => UNCHANGED items
    BY DEF Convert, Crash, Wrap, store
  <1>5. QED
    BY <1>1, <1>2, <1>3, <1>4

\* The field goes on, or it ends with an error.
LEMMA NotTheEnd ==
  ASSUME NEW r,
         Create \/ OpenItem \/ OpenFolder \/ DeleteProps \/ Convert \/ SetProps \/ SaveChanges \/ SetReadFlag
  PROVE  Truthful(r)
  <1> SUFFICES pc' # "idle" \/ answer' = "error"
    BY DEF Truthful
  <1>1. CASE Create
    BY <1>1 DEF Create, OpenFails, Throw, Answer
  <1>2. CASE OpenItem \/ OpenFolder
    BY <1>2 DEF OpenItem, OpenFolder, OpenFails, Throw, Answer
  <1>3. CASE DeleteProps \/ SetProps
    BY <1>3 DEF DeleteProps, SetProps, Throw, Answer, Goto
  <1>4. CASE Convert
    BY <1>4 DEF Convert, At, Crash, field, Throw, Answer, Goto
  <1>5. CASE SaveChanges \/ SetReadFlag
    BY <1>5 DEF SaveChanges, SetReadFlag, Throw, Answer, Goto
  <1>6. QED
    BY <1>1, <1>2, <1>3, <1>4, <1>5

LEMMA WrapDone ==
  ASSUME MutInv, NEW r, request = r, Wrap
  PROVE  Truthful(r)
  <1>1. /\ pc = "wrap" /\ UNCHANGED <<items, folders>>
        /\ r.field \in {"createItem", "createSubFolder", "modifyItem", "modifyFolder"}
    BY DEF Wrap, At, store
  <1>2. /\ r \in RequestRecords /\ Where(r.folder) \in FolderIds /\ InMaking
        /\ r.field = "createItem" => r.read \in BOOLEAN
    BY <1>1, InProgress, WhereIsFolder DEF MutInv
  <1>3. WithSets(NewContent, r) \in Contents
    BY <1>2, NewIsContent, ModifiedBy
  <1>4. CASE r.field = "createItem"
    <2>1. /\ target \in ItemIds
          /\ items[target] = [folder |-> Where(r.folder), read |-> r.read, content |-> WithSets(NewContent, r)]
      BY <1>1, <1>2, <1>4 DEF InMaking, MakingItem
    <2>2. items[target] \in Messages
      BY <1>2, <1>3, <1>4, <2>1 DEF Messages
    <2>3. items'[target] # Gone /\ items'[target].folder = Where(r.folder)
          /\ items'[target].content = WithSets(NewContent, r)
      BY <1>1, <2>1, <2>2, MarksAssumption
    <2>4. WithSets(NewContent, r)' = WithSets(NewContent, r)
      BY DEF WithSets, WithProperties, SetProp, NewContent
    <2>5. QED
      BY <1>4, <2>1, <2>3, <2>4, NamesMean DEF Truthful, Done
  <1>5. CASE r.field = "createSubFolder"
    <2>1. /\ target \in FolderIds
          /\ folders[target] = [parent |-> Where(r.folder), content |-> WithSets(NewContent, r)]
      BY <1>1, <1>2, <1>5 DEF InMaking, MakingFolder
    <2>2. folders[target] \in FolderObjects
      BY <1>2, <1>3, <2>1 DEF FolderObjects
    <2>3. folders'[target] # Gone /\ folders'[target].parent = Where(r.folder)
          /\ folders'[target].content = WithSets(NewContent, r)
      BY <1>1, <2>1, <2>2, MarksAssumption
    <2>4. WithSets(NewContent, r)' = WithSets(NewContent, r)
      BY DEF WithSets, WithProperties, SetProp, NewContent
    <2>5. QED
      BY <1>5, <2>1, <2>3, <2>4, NamesMean DEF Truthful, Done
  <1>6. CASE r.field = "modifyItem"
    <2>1. /\ target = r.id /\ items[target] # Gone /\ Applied(items[target].content, r)
          /\ r.read = TRUE => items[target].read = TRUE
      BY <1>1, <1>2, <1>6 DEF InMaking, ModifyingItem
    <2>2. QED
      BY <1>1, <1>6, <2>1 DEF Truthful, Done, Applied
  <1>7. CASE r.field = "modifyFolder"
    <2>1. target = Where(r.id) /\ (Changes(r) => folders[target] # Gone /\ Applied(folders[target].content, r))
      BY <1>1, <1>2, <1>7 DEF InMaking, ModifyingFolder
    <2>2. QED
      BY <1>1, <1>7, <2>1, NamesMean DEF Truthful, Done, Applied
  <1>8. QED
    BY <1>1, <1>4, <1>5, <1>6, <1>7

(***************************************************************************)
(* What the steps of the whole program do.                                 *)
(***************************************************************************)
ChangesWereAsked ==
  \A i \in ItemIds : (items[i] # Gone /\ items'[i] # Gone) =>
    \A p \in Props : items'[i].content[p] # items[i].content[p] =>
      <<p, items'[i].content[p]>> \in asked[i]

ComesWhole ==
  \A i \in ItemIds :
    (items[i] = Gone /\ items'[i] # Gone /\ request.field = "createItem") =>
      /\ items'[i].content = WithSets(NewContent, request)
      /\ items'[i].read = request.read

LEMMA SavedAsAsked ==
  ASSUME MutInv, SaveChanges
  PROVE  ChangesWereAsked /\ ComesWhole
  <1>1. /\ pc = "save"
        /\ request.field \in {"createItem", "createSubFolder", "modifyItem", "modifyFolder"}
        /\ items' = items \/ (OfItem(request) /\ items' = [items EXCEPT ![target] = Saved])
    BY DEF SaveChanges, At, store
  <1>2. CASE items' = items
    BY <1>2 DEF ChangesWereAsked, ComesWhole
  <1>3. ASSUME OfItem(request), items' = [items EXCEPT ![target] = Saved], request.field = "createItem"
        PROVE  ChangesWereAsked /\ ComesWhole
    <2>1. target \in ItemIds /\ items[target] = Gone /\ draft = WithSets(NewContent, request)
      BY <1>1, <1>3 DEF MutInv, InMaking, MakingItem
    <2>2. Saved.content = draft /\ Saved.read = request.read
      BY <1>3 DEF Saved
    <2> HIDE DEF Saved
    <2>3. items'[target] = Saved /\ \A i \in ItemIds \ {target} : items'[i] = items[i]
      BY <1>3, <2>1 DEF MutInv, Members
    <2>4. QED
      BY <2>1, <2>2, <2>3 DEF ChangesWereAsked, ComesWhole
  <1>4. ASSUME OfItem(request), items' = [items EXCEPT ![target] = Saved], request.field = "modifyItem"
        PROVE  ChangesWereAsked /\ ComesWhole
    <2>1. target = request.id /\ itemCache[target] = draft
      BY <1>1, <1>4 DEF MutInv, InMaking, ModifyingItem
    <2>2. target \in ItemIds /\ draft \in Contents /\ draft # NotOpened
      BY <1>1, <1>4, <2>1, InProgress, MarksAssumption DEF MutInv, FieldType
    <2>3. items[target] # Gone => Saved.content = draft
      <3>1. items[target] # Gone => items[target] \in Messages
        BY <2>2 DEF MutInv, Members
      <3>2. QED
        BY <1>4, <3>1 DEF Saved, Messages
    <2> HIDE DEF Saved
    <2>4. items'[target] = Saved /\ \A i \in ItemIds \ {target} : items'[i] = items[i]
      BY <1>4, <2>2 DEF MutInv, Members
    <2>5. QED
      BY <1>4, <2>1, <2>2, <2>3, <2>4 DEF ChangesWereAsked, ComesWhole, MutInv, Unsaved
  <1>5. QED
    BY <1>1, <1>2, <1>3, <1>4 DEF OfItem

LEMMA FlagOnly ==
  ASSUME MutInv, SetReadFlag
  PROVE  ContentStays /\ ComesWhole
  <1>1. /\ request.field = "modifyItem" /\ pc = "read"
        /\ \/ items' = items
           \/ (items[target] # Gone /\ items' = [items EXCEPT ![target].read = (request.read # Absent)])
    BY DEF SetReadFlag, At, store
  <1>2. CASE items' = items
    BY <1>1, <1>2 DEF ContentStays, ComesWhole
  <1>3. CASE items[target] # Gone /\ items' = [items EXCEPT ![target].read = (request.read # Absent)]
    <2>1. target \in ItemIds
      BY <1>1, InProgress DEF MutInv, InMaking, ModifyingItem
    <2>2. items \in [ItemIds -> Messages \cup {Gone}] /\ items[target] \in Messages
      BY <1>3, <2>1 DEF MutInv, Members
    <2> DEFINE m == [items[target] EXCEPT !.read = (request.read # Absent)]
    <2>3. m.content = items[target].content
      BY <2>2 DEF Messages
    <2>4. items' = [items EXCEPT ![target] = m]
      BY <1>3
    <2> HIDE DEF m
    <2>5. items'[target] = m /\ \A i \in ItemIds \ {target} : items'[i] = items[i]
      BY <2>1, <2>2, <2>4
    <2>6. QED
      BY <1>1, <2>3, <2>5 DEF ContentStays, ComesWhole
  <1>4. QED
    BY <1>1, <1>2, <1>3

\* Every step of a field: the invariant stays, the answer is true, and what is written
\* was asked for.
Step(r) == MutInv' /\ Truthful(r) /\ ChangesWereAsked /\ ComesWhole

LEMMA OneObject ==
  ASSUME MutInv, NEW r, request = r, applyCreateItem \/ applyCreateSubFolder \/ applyModifyItem \/ applyModifyFolder
  PROVE  Step(r)
  <1>1. \/ Create \/ OpenItem \/ OpenFolder \/ DeleteProps \/ Convert \/ SetProps
        \/ SaveChanges \/ SetReadFlag \/ Wrap
    BY DEF applyCreateItem, applyCreateSubFolder, applyModifyItem, applyModifyFolder
  <1>2. MutInv'
    BY <1>1, CreateKeeps, OpenItemKeeps, OpenFolderKeeps, DeletePropsKeeps, ConvertKeeps, SetPropsKeeps,
       SaveChangesKeeps, SetReadFlagKeeps, WrapKeeps
  <1>3. Truthful(r)
    BY <1>1, NotTheEnd, WrapDone
  <1>4. CASE SaveChanges
    BY <1>2, <1>3, <1>4, SavedAsAsked DEF Step
  <1>5. CASE SetReadFlag
    BY <1>2, <1>3, <1>5, FlagOnly DEF Step, ContentStays, ChangesWereAsked
  <1>6. CASE Create \/ OpenItem \/ OpenFolder \/ DeleteProps \/ Convert \/ SetProps \/ Wrap
    <2>1. items' = items
      BY <1>6, MessagesStay
    <2>2. QED
      BY <1>2, <1>3, <2>1 DEF Step, ChangesWereAsked, ComesWhole
  <1>7. QED
    BY <1>1, <1>4, <1>5, <1>6

LEMMA SeveralMessages ==
  ASSUME MutInv, NEW r, request = r,
         applyRemoveFolder \/ applyMarkAsRead \/ applyCopyItems \/ applyMoveItems \/ applyDeleteItems
  PROVE  Step(r)
  <1>1. MutInv' /\ ContentStays /\ Truthful(r)
    BY RemoveFolderDone, MarkAsReadDone, CopyItemsDone, MoveItemsDone, DeleteItemsDone
  <1>2. request.field # "createItem"
    BY DEF applyRemoveFolder, applyMarkAsRead, applyCopyItems, applyMoveItems, applyDeleteItems, CopyItems, At
  <1>3. QED
    BY <1>1, <1>2 DEF Step, ContentStays, ChangesWereAsked, ComesWhole

LEMMA EndOfOperation ==
  ASSUME MutInv, endSelectionSet
  PROVE  MutInv'
  <1>1. /\ pc = "idle" /\ itemCache' = [i \in ItemIds |-> NotOpened]
        /\ folderCache' = [f \in FolderIds |-> NotOpened] /\ unnamed' = NotOpened /\ asked' = [i \in ItemIds |-> {}]
        /\ UNCHANGED <<items, folders, deletedItems, request, pc, target, draft, answer, resolved, crashed>>
    BY DEF endSelectionSet, store, field
  <1>2. Members' /\ Unsaved'
    BY <1>1 DEF MutInv, Members, Unsaved
  <1>3. FieldType' /\ InMaking' /\ AskedFirst'
    <2>1. NewContent' = NewContent
      BY DEF NewContent
    <2>2. QED
      BY <1>1, <2>1 DEF MutInv, FieldType, InMaking, AskedFirst
  <1>4. QED
    BY <1>2, <1>3 DEF MutInv

LEMMA EveryStep ==
  ASSUME MutInv, [Next]_vars, NEW r
  PROVE  /\ MutInv' /\ ChangesWereAsked /\ ComesWhole
         /\ (request = r /\ pc # "idle") => Truthful(r)
  <1>1. CASE UNCHANGED vars
    <2>1. UNCHANGED <<items, folders, deletedItems, itemCache, folderCache, unnamed, request, pc, target, draft, answer,
                      asked, resolved, crashed>>
      BY <1>1 DEF vars
    <2>2. Members' /\ Unsaved'
      BY <2>1, UnsavedStays DEF MutInv, Members
    <2>3. FieldType' /\ AskedFirst'
      BY <2>1 DEF MutInv, FieldType, AskedFirst, NewContent
    <2>4. InMaking'
      BY <2>1 DEF MutInv, InMaking, MakingItem, MakingFolder, ModifyingItem, ModifyingFolder, Where
    <2>5. ChangesWereAsked /\ ComesWhole /\ ((request = r /\ pc # "idle") => Truthful(r))
      BY <2>1 DEF ChangesWereAsked, ComesWhole, Truthful
    <2>6. QED
      BY <2>2, <2>3, <2>4, <2>5 DEF MutInv
  <1>2. CASE Resolve
    <2>1. items' = items /\ pc = "idle"
      BY <1>2 DEF Resolve, store
    <2>2. QED
      BY <1>2, <2>1, ResolveKeeps DEF ChangesWereAsked, ComesWhole
  <1>3. CASE applyCreateItem \/ applyCreateSubFolder \/ applyModifyItem \/ applyModifyFolder
    BY <1>3, OneObject DEF Step
  <1>4. CASE applyRemoveFolder \/ applyMarkAsRead \/ applyCopyItems \/ applyMoveItems \/ applyDeleteItems
    BY <1>4, SeveralMessages DEF Step
  <1>5. CASE endSelectionSet
    <2>1. items' = items /\ pc = "idle"
      BY <1>5 DEF endSelectionSet, store
    <2>2. QED
      BY <1>5, <2>1, EndOfOperation DEF ChangesWereAsked, ComesWhole
  <1>6. QED
    BY <1>1, <1>2, <1>3, <1>4, <1>5 DEF Next

-----------------------------------------------------------------------------
(* The theorems. *)

\* The fields of a mutation keep the objects they share as they should be: what a message
\* or a folder in the making has at each call, what a cached message has not saved.
THEOREM MutationCorrect == Spec => []MutInv
  <1>1. MutInv /\ [Next]_vars => MutInv'
    BY EveryStep
  <1>2. QED
    BY <1>1, InitMutation, PTL DEF Spec

\* Between fields nothing is left of the last one but the caches.
THEOREM TypesAreRight == Spec => []TypeOK
  BY MutationCorrect, MutInvTypes, PTL

\* A field that answers with an object or with true has done what Done says it was asked to,
\* whatever fields there were before it and whichever calls failed or did a part: all but
\* what modifyItem makes of an item it is not asked to mark read, and but for fields that
\* use the empty ID once a created folder is cached under it.
THEOREM AnswersAreTrue == Spec => AnsweredIsDone
  <1>1. MutInv /\ [Next]_vars =>
          [\A r \in {Arguments(q) : q \in Requests} :
             (request = r /\ pc # "idle" /\ pc' = "idle" /\ answer' \in {"object", "true"} /\ Means(r))
               => Done(r)']_vars
    BY EveryStep DEF Truthful
  <1>2. QED
    BY <1>1, MutationCorrect, PTL DEF Spec, AnsweredIsDone

\* SaveChanges commits nothing but what fields of this operation asked for.
THEOREM CommitsWereAsked == Spec => CommittedWasAsked
  <1>1. MutInv /\ [Next]_vars =>
          [\A i \in ItemIds : (items[i] # Gone /\ items'[i] # Gone) =>
             \A p \in Props : items'[i].content[p] # items[i].content[p] =>
               <<p, items'[i].content[p]>> \in asked[i]]_vars
    BY EveryStep DEF ChangesWereAsked
  <1>2. QED
    BY <1>1, MutationCorrect, PTL DEF Spec, CommittedWasAsked

\* No message comes into a folder without the properties it was to be created with.
THEOREM CreationIsWhole == Spec => CreatedWhole
  <1>1. MutInv /\ [Next]_vars =>
          [\A i \in ItemIds :
             (items[i] = Gone /\ items'[i] # Gone /\ request.field = "createItem") =>
               /\ items'[i].content = WithSets(NewContent, request)
               /\ items'[i].read = request.read]_vars
    BY EveryStep DEF ComesWhole
  <1>2. QED
    BY <1>1, MutationCorrect, PTL DEF Spec, CreatedWhole
=============================================================================
