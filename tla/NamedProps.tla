----------------------------- MODULE NamedProps -----------------------------
(***************************************************************************)
(* The names of properties (Store.cpp).  MAPI gives a named property an ID *)
(* of 0x8000 or more in each store.  Store keeps the IDs it has learned in *)
(* m_nameIdToPropIds, a map ordered by name, and uses it both ways: a      *)
(* request by name looks the name up, and the properties of an object are  *)
(* answered under the first name in the map that has their ID.             *)
(*                                                                         *)
(* A name is its place in the order of CompareMAPINAMEID.  The names that  *)
(* MAPI gives for IDs are copied with eight of the sixteen bytes of the    *)
(* GUID (Store.cpp:342); the rest is whatever the buffer held, so a name   *)
(* is read as any of those that `Misreads` allows.                         *)
(***************************************************************************)
EXTENDS Integers, SequencesExt

CONSTANTS
  Names,       \* names, in the order of the map
  BuiltIns,    \* IDs below 0x8000
  NamedIds,    \* IDs from 0x8000 on
  Misreads,    \* what the copy of each name may come out as
  Objects,     \* the properties an object may have: sequences of IDs
  Requests,    \* lists of inputs
  Faults,      \* which calls may fail
  NoName,      \* the property goes by its ID
  Throws,      \* the call has thrown
  MaxCalls     \* bound: how many requests there are

FirstNamedId == 32768
PrNull       == 0      \* PROP_ID(PR_NULL)

ASSUME NamesAssumption == Names \subseteq Nat /\ NoName \notin Names
ASSUME IdsAssumption ==
  /\ BuiltIns \subseteq 1..(FirstNamedId - 1)
  /\ NamedIds \subseteq {id \in Nat : id >= FirstNamedId}
ASSUME MisreadsAssumption == Misreads \in [Names -> SUBSET Names]
ASSUME ObjectsAssumption  ==   \* an object has a property once
  Objects \subseteq Seq(BuiltIns \cup NamedIds) /\ \A ids \in Objects : IsInjective(ids)
ASSUME FaultsAssumption   == Faults \subseteq {"mapi", "allocate", "unnamed"}
ASSUME CallsAssumption    == MaxCalls \in Nat
ASSUME ThrowsAssumption   ==
  Throws \notin Seq([id : Nat, name : Names \cup {NoName}]) \cup Seq([id : Nat, under : Nat])

\* An input gives an ID, a name, or neither or both of them.
Input  == [id : BuiltIns] \cup [name : Names] \cup {[bad |-> TRUE]}
ById(input)   == "id" \in DOMAIN input
ByName(input) == "name" \in DOMAIN input
Bad(input)    == "bad" \in DOMAIN input

ASSUME RequestsAssumption == Requests \subseteq (Seq(Input) \ {<<>>})

VARIABLES
  named,    \* MAPI's IDs of the names that are known to it (external)
  propIds,  \* m_nameIdToPropIds
  request,  \* what was asked for last
  answer,   \* the properties it was answered with
  misread,  \* names in the map that were copied wrongly (of no variable of the program)
  failed,   \* a call has failed in the last request (likewise)
  calls, crashed

vars == <<named, propIds, request, answer, misread, failed, calls, crashed>>

\* Entries put into a map: what is there stays.
Inserted(map, entries) ==
  [n \in DOMAIN map \cup DOMAIN entries |-> IF n \in DOMAIN map THEN map[n] ELSE entries[n]]

\* MAPI gives an ID to one name only.
Namings == UNION {{f \in [known -> NamedIds] : IsInjective(f)} : known \in SUBSET Names}

Init ==
  /\ named \in Namings
  /\ propIds = <<>>
  /\ request = <<>> /\ answer = <<>>
  /\ misread = {} /\ failed = FALSE
  /\ calls = 0 /\ crashed = FALSE

\* A result is an ID and the name that goes with it.
Pair(id, name) == [id |-> id, name |-> name]

\* How a lookup may come out: the map, the results, whether a call failed, and
\* the names that were copied wrongly.
Outcome(map, result, fails, wrong) ==
  [map |-> map, result |-> result, fails |-> fails, wrong |-> wrong]
-----------------------------------------------------------------------------
(***************************************************************************)
(* lookupPropIdInputs.  What is not in the map is asked of MAPI in one     *)
(* call.  Names unknown to MAPI come back as PR_NULL, and are not kept.    *)
(***************************************************************************)
Unresolved(inputs) ==
  {inputs[i].name : i \in {j \in DOMAIN inputs : ByName(inputs[j]) /\ inputs[j].name \notin DOMAIN propIds}}

\* mutant: a name unknown to MAPI is kept as well.
GetIDsFromNamesOrNull(names) ==
  [n \in names |-> IF n \in DOMAIN named THEN named[n] ELSE PrNull]
GetIDsFromNames(names) == [n \in names \cap DOMAIN named |-> named[n]]

Resolved(input, map) ==
  IF ById(input) THEN Pair(input.id, NoName)
  ELSE IF input.name \in DOMAIN map THEN Pair(map[input.name], input.name)
  ELSE Pair(PrNull, NoName)

\* mutant: the names that were resolved fill the results from the start.
ResultsFromStart(inputs, map) ==
  LET fresh == SelectSeq(inputs, LAMBDA input : ByName(input) /\ input.name \notin DOMAIN propIds)
  IN  [i \in DOMAIN inputs |-> Resolved(IF i \in DOMAIN fresh THEN fresh[i] ELSE inputs[i], map)]
Results(inputs, map) == [i \in DOMAIN inputs |-> Resolved(inputs[i], map)]

lookupPropIdInputs(inputs) ==
  IF \E i \in DOMAIN inputs : Bad(inputs[i])
  THEN {Outcome(propIds, Throws, FALSE, {})}
  ELSE LET map == Inserted(propIds, GetIDsFromNames(Unresolved(inputs)))
       IN  {Outcome(map, Results(inputs, map), FALSE, {})} \cup
           (IF Unresolved(inputs) # {} /\ "mapi" \in Faults
            THEN {Outcome(propIds, Throws, TRUE, {})} ELSE {})
-----------------------------------------------------------------------------
(***************************************************************************)
(* lookupPropIds.  IDs from 0x8000 on are looked for in the map, and those *)
(* that are not there are asked of MAPI in one call.  The names it gives   *)
(* are put into the map one by one, and a name that is there stays; an     *)
(* allocation may fail after some of them.                                 *)
(***************************************************************************)
IsNamed(id) == id >= FirstNamedId

NamesOf(id) == {n \in DOMAIN propIds : propIds[n] = id}
NameOf(id)  == CHOOSE n \in DOMAIN named : named[n] = id
ToResolve(ids) == {i \in DOMAIN ids : IsNamed(ids[i]) /\ NamesOf(ids[i]) = {}}
Before(ids, stop) == {i \in ToResolve(ids) : i < stop}

\* The map after the IDs in the places `done` were read as `names`.
Insert(ids, names, done) ==
  Inserted(propIds, [n \in {names[i] : i \in done} |-> ids[Min({i \in done : names[i] = n})]])

Readings(ids) ==
  {names \in [ToResolve(ids) -> Names] : \A i \in ToResolve(ids) : names[i] \in Misreads[NameOf(ids[i])]}
Wrong(ids, names, done) == {names[i] : i \in {j \in done : names[j] # NameOf(ids[j])}}

\* Each ID with the first name it is found under, or with the name it is read
\* as and the ID the map has for that.
Answered(ids, names, map) ==
  [i \in DOMAIN ids |->
     IF ~IsNamed(ids[i]) THEN Pair(ids[i], NoName)
     ELSE IF i \in ToResolve(ids) THEN Pair(map[names[i]], names[i])
     ELSE Pair(ids[i], Min(NamesOf(ids[i])))]

\* The outcome once those in the places `done` are in the map.
Learned(ids, names, done, result) ==
  Outcome(Insert(ids, names, done), result, result = Throws, Wrong(ids, names, done))

lookupPropIds(ids) ==
  LET all == ToResolve(ids)
  IN  {Learned(ids, names, all, Answered(ids, names, Insert(ids, names, all))) : names \in Readings(ids)} \cup
      (IF all # {} /\ "mapi" \in Faults THEN {Outcome(propIds, Throws, TRUE, {})} ELSE {}) \cup
      (IF "allocate" \in Faults
       THEN {Learned(ids, names, Before(ids, stop), Throws) : names \in Readings(ids), stop \in all} ELSE {})
-----------------------------------------------------------------------------
(***************************************************************************)
(* What the client gets.  idMap has one entry for each ID, and must have   *)
(* as many as there are values.                                            *)
(***************************************************************************)
IdsOf(result) == [i \in DOMAIN result |-> result[i].id]
IdMap(result) ==
  [id \in Range(IdsOf(result)) |-> result[Max({i \in DOMAIN result : result[i].id = id})].name]

\* mutant: names and values are matched by their places.
AnswerByPlace(ids, result) ==
  IF result = Throws THEN Throws
  ELSE LET names == SelectSeq(result, LAMBDA pair : pair.name # NoName)
       IN  [i \in DOMAIN ids |->
              [id |-> ids[i], under |-> IF i \in DOMAIN names THEN names[i].name ELSE ids[i]]]

\* An ID that is not in the map is answered as the built-in property 0.
Answer(ids, result) ==
  LET idMap == IdMap(result)
  IN  IF result = Throws \/ Cardinality(DOMAIN idMap) # Len(ids) THEN Throws
      ELSE [i \in DOMAIN ids |->
              [id |-> ids[i],
               under |-> IF ids[i] \notin DOMAIN idMap THEN PrNull
                         ELSE IF idMap[ids[i]] = NoName THEN ids[i] ELSE idMap[ids[i]]]]

Finish(outcome) ==
  /\ propIds' = outcome.map
  /\ failed' = outcome.fails
  /\ misread' = misread \cup outcome.wrong
  /\ UNCHANGED <<named, crashed>>

Begin(asked) == calls < MaxCalls /\ ~crashed /\ calls' = calls + 1 /\ request' = asked

\* GetProperties of properties that are asked for; of an absent one the value
\* is an error, with the ID.
GetProperties(inputs) ==
  /\ Begin(inputs)
  /\ \E outcome \in lookupPropIdInputs(inputs) :
       /\ Finish(outcome)
       /\ answer' = Answer(IF outcome.result = Throws THEN <<>> ELSE IdsOf(outcome.result), outcome.result)

Nameless(ids) == \E i \in DOMAIN ids : IsNamed(ids[i]) /\ NamesOf(ids[i]) = {} /\ ids[i] \notin Range(named)

\* GetProperties of whatever the object has, and GetColumns of whatever the
\* row has after its default columns.
GetAllProperties(ids) ==
  /\ Begin(<<>>) /\ ~Nameless(ids)
  /\ \E outcome \in lookupPropIds(ids) :
       Finish(outcome) /\ answer' = Answer(ids, outcome.result)

\* MAPI has no name for an ID: its entry is a null pointer, which is read.
GetNamelessProperties(ids) ==
  /\ Begin(<<>>) /\ Nameless(ids) /\ "unnamed" \in Faults
  /\ crashed' = TRUE /\ answer' = <<>>
  /\ UNCHANGED <<named, propIds, misread, failed>>

\* Another program makes a name known to MAPI.
NameProperty(n, id) ==
  /\ ~crashed /\ n \notin DOMAIN named /\ id \notin Range(named)
  /\ named' = Inserted(named, [known \in {n} |-> id])
  /\ answer' = <<>>
  /\ UNCHANGED <<propIds, request, misread, failed, calls, crashed>>

Next ==
  \/ \E inputs \in Requests : GetProperties(inputs)
  \/ \E ids \in Objects : GetAllProperties(ids) \/ GetNamelessProperties(ids)
  \/ \E n \in Names, id \in NamedIds : NameProperty(n, id)

Spec == Init /\ [][Next]_vars
-----------------------------------------------------------------------------
(* Properties. *)

TypeOK ==
  /\ named \in Namings
  /\ DOMAIN propIds \subseteq Names /\ Range(propIds) \subseteq NamedIds
  /\ misread \subseteq DOMAIN propIds
  /\ failed \in BOOLEAN /\ crashed \in BOOLEAN /\ calls \in 0..MaxCalls

\* The map has what MAPI says, but for names that were copied wrongly, and a
\* name that MAPI does not know is never kept.
MapIsMapis ==
  /\ TypeOK
  /\ \A n \in DOMAIN propIds \ misread : n \in DOMAIN named /\ propIds[n] = named[n]

\* A property asked for by name is the one that has the name now, in its place
\* in the list; one asked for by ID goes by its ID.  A name that MAPI did not
\* know when it was asked before is found as soon as MAPI knows it.  A property of
\* an object is answered under its own name, or one that was copied wrongly.
AnswersAreAsked ==
  /\ answer # Throws /\ answer # <<>> /\ request # <<>> =>
       \A i \in DOMAIN request :
         LET input == request[i]
         IN  /\ ById(input) => answer[i] = [id |-> input.id, under |-> input.id]
             /\ ByName(input) /\ input.name \in DOMAIN named \ misread =>
                  answer[i] = [id |-> named[input.name], under |-> input.name]
  /\ answer # Throws /\ request = <<>> /\ misread = {} =>
       \A i \in DOMAIN answer :
         answer[i].under =
           IF answer[i].id \in NamedIds THEN NameOf(answer[i].id) ELSE answer[i].id

\* A request fails only if a call did, or it asks for nothing sensible, for one
\* property twice or for two that do not exist, or names were copied wrongly.
Unknown(inputs) == {i \in DOMAIN inputs : ByName(inputs[i]) /\ inputs[i].name \notin DOMAIN named}
FailuresExplained ==
  answer = Throws =>
    \/ failed \/ misread # {}
    \/ \E i \in DOMAIN request : Bad(request[i])
    \/ ~IsInjective(request)
    \/ Cardinality(Unknown(request)) > 1
=============================================================================
