-------------------------- MODULE NamedPropsProofs --------------------------
(***************************************************************************)
(* Theorems about NamedProps, for every set of names and IDs, every way in *)
(* which names may be misread, every object and request, and all faults.   *)
(***************************************************************************)
EXTENDS NamedProps, FiniteSetTheorems, SequenceTheorems, WellFoundedInduction, TLAPS

(***************************************************************************)
(* Maps.                                                                   *)
(***************************************************************************)

\* A map that entries were put into.
LEMMA Extension ==
  ASSUME NEW f, NEW g
  PROVE  /\ DOMAIN Inserted(f, g) = DOMAIN f \cup DOMAIN g
         /\ \A n \in DOMAIN f : Inserted(f, g)[n] = f[n]
         /\ \A n \in DOMAIN g \ DOMAIN f : Inserted(f, g)[n] = g[n]
  BY DEF Inserted

\* A set of places that is not empty has a first one.
LEMMA FirstPlace ==
  ASSUME NEW T \in SUBSET Nat, T # {}
  PROVE  Min(T) \in T
  <1>1. PICK x \in T : \A y \in T : <<y, x>> \notin OpToRel(<, Nat)
    BY WFMin, NatLessThanWellFounded, Zenon
  <1>2. \A y \in T : ~(y < x)
    BY <1>1, Zenon DEF OpToRel
  <1>3. \A y \in T : x <= y
    BY <1>2
  <1>4. QED
    BY <1>3 DEF Min

\* The IDs of known names are MAPI's.
LEMMA NamingsAreMaps ==
  ASSUME NEW f \in Namings
  PROVE  DOMAIN f \subseteq Names /\ f \in [DOMAIN f -> NamedIds]
  BY DEF Namings

(***************************************************************************)
(* The initial states.                                                     *)
(***************************************************************************)
LEMMA InitMap == Init => MapIsMapis
  <1> SUFFICES ASSUME Init PROVE MapIsMapis
    OBVIOUS
  <1>1. DOMAIN propIds = {} /\ Range(propIds) = {}
    BY DEF Init, Range
  <1>2. calls \in 0..MaxCalls
    BY CallsAssumption DEF Init
  <1>3. QED
    BY <1>1, <1>2 DEF Init, MapIsMapis, TypeOK

(***************************************************************************)
(* The outcomes of the two lookups.  A map is right if it has the IDs of   *)
(* names, and MAPI's IDs of those that were not misread.                   *)
(***************************************************************************)
RightMap(map, wrong) ==
  /\ DOMAIN map \subseteq Names /\ Range(map) \subseteq NamedIds
  /\ wrong \subseteq DOMAIN map
  /\ \A n \in DOMAIN map \ wrong : n \in DOMAIN named /\ map[n] = named[n]

\* The map of a state of the invariant is right.
LEMMA RightNow == MapIsMapis => RightMap(propIds, misread)
  BY DEF MapIsMapis, TypeOK, RightMap

\* A lookup by name adds what MAPI says of names.
LEMMA NamesLookup ==
  ASSUME MapIsMapis, NEW inputs \in Requests, NEW outcome \in lookupPropIdInputs(inputs)
  PROVE  RightMap(outcome.map, misread \cup outcome.wrong) /\ outcome.fails \in BOOLEAN
  <1> DEFINE got == GetIDsFromNames(Unresolved(inputs))
  <1>1. outcome = Outcome(propIds, Throws, FALSE, {}) \/ outcome = Outcome(propIds, Throws, TRUE, {})
        \/ outcome = Outcome(Inserted(propIds, got), Results(inputs, Inserted(propIds, got)), FALSE, {})
    BY DEF lookupPropIdInputs
  <1>2. /\ outcome.fails \in BOOLEAN /\ outcome.wrong = {}
        /\ outcome.map = propIds \/ outcome.map = Inserted(propIds, got)
    <2>1. CASE outcome = Outcome(propIds, Throws, FALSE, {})
      BY <2>1 DEF Outcome
    <2>2. CASE outcome = Outcome(propIds, Throws, TRUE, {})
      BY <2>2 DEF Outcome
    <2>3. CASE outcome = Outcome(Inserted(propIds, got), Results(inputs, Inserted(propIds, got)), FALSE, {})
      BY <2>3 DEF Outcome
    <2>4. QED
      BY <1>1, <2>1, <2>2, <2>3
  <1>3. DOMAIN got \subseteq DOMAIN named /\ \A n \in DOMAIN got : got[n] = named[n]
    BY DEF GetIDsFromNames
  <1> HIDE DEF got
  <1>4. DOMAIN named \subseteq Names /\ \A n \in DOMAIN named : named[n] \in NamedIds
    BY NamingsAreMaps DEF MapIsMapis, TypeOK
  <1>5. RightMap(Inserted(propIds, got), misread)
    <2>1. DOMAIN Inserted(propIds, got) \subseteq Names /\ misread \subseteq DOMAIN Inserted(propIds, got)
      BY <1>3, <1>4, Extension DEF MapIsMapis, TypeOK
    <2>2. \A n \in DOMAIN Inserted(propIds, got) : Inserted(propIds, got)[n] \in NamedIds
      BY <1>3, <1>4 DEF Inserted, MapIsMapis, TypeOK, Range
    <2>3. \A n \in DOMAIN Inserted(propIds, got) \ misread :
            n \in DOMAIN named /\ Inserted(propIds, got)[n] = named[n]
      BY <1>3 DEF Inserted, MapIsMapis
    <2>4. QED
      BY <2>1, <2>2, <2>3 DEF RightMap, Range
  <1>6. QED
    BY <1>2, <1>5, RightNow

\* The name of a place to resolve, if MAPI has one.
LEMMA NameOfPlace ==
  ASSUME MapIsMapis, NEW ids \in Objects, ~Nameless(ids), NEW i \in ToResolve(ids)
  PROVE  /\ i \in Nat /\ ids[i] \in NamedIds
         /\ NameOf(ids[i]) \in DOMAIN named /\ named[NameOf(ids[i])] = ids[i]
  <1>1. i \in DOMAIN ids /\ IsNamed(ids[i]) /\ NamesOf(ids[i]) = {}
    BY DEF ToResolve
  <1>2. ids \in Seq(BuiltIns \cup NamedIds)
    BY ObjectsAssumption
  <1>3. i \in Nat /\ ids[i] \in BuiltIns \cup NamedIds
    BY <1>1, <1>2
  <1>4. ids[i] \in NamedIds
    <2>1. FirstNamedId \in Int /\ FirstNamedId - 1 < FirstNamedId
      BY DEF FirstNamedId
    <2>2. \A id \in BuiltIns : ~IsNamed(id)
      BY <2>1, IdsAssumption DEF IsNamed
    <2>3. QED
      BY <1>1, <1>3, <2>2
  <1>5. \E n \in DOMAIN named : named[n] = ids[i]
    BY <1>1 DEF Nameless, Range
  <1>6. QED
    BY <1>3, <1>4, <1>5 DEF NameOf

\* Names that are put into the map for some of the places keep it right: a new
\* entry has its own ID, or was misread.
LEMMA InsertKeepsRight ==
  ASSUME MapIsMapis, NEW ids \in Objects, ~Nameless(ids),
         NEW names \in Readings(ids), NEW done \in SUBSET ToResolve(ids)
  PROVE  RightMap(Insert(ids, names, done), misread \cup Wrong(ids, names, done))
  <1> DEFINE At(n) == {i \in done : names[i] = n}
             new   == [n \in {names[i] : i \in done} |-> ids[Min(At(n))]]
             map   == Inserted(propIds, new)
             wrong == Wrong(ids, names, done)
  <1>1. Insert(ids, names, done) = map
    BY DEF Insert
  <1>2. \A n \in DOMAIN new : Min(At(n)) \in At(n)
    <2> TAKE n \in DOMAIN new
    <2>1. At(n) # {}
      OBVIOUS
    <2>2. At(n) \in SUBSET Nat
      BY NameOfPlace
    <2>3. QED
      BY <2>1, <2>2, FirstPlace
  <1>3. \A n \in DOMAIN new : n \in Names /\ new[n] \in NamedIds
    <2> TAKE n \in DOMAIN new
    <2> DEFINE first == Min(At(n))
    <2>1. first \in ToResolve(ids) /\ names[first] = n /\ new[n] = ids[first]
      BY <1>2
    <2>2. names \in [ToResolve(ids) -> Names]
      BY DEF Readings
    <2>3. QED
      BY <2>1, <2>2, NameOfPlace
  <1>4. \A n \in DOMAIN new \ wrong : n \in DOMAIN named /\ new[n] = named[n]
    <2> TAKE n \in DOMAIN new \ wrong
    <2> DEFINE first == Min(At(n))
    <2>1. first \in done /\ names[first] = n /\ new[n] = ids[first]
      BY <1>2
    <2> HIDE DEF first
    <2>2. names[first] = NameOf(ids[first])
      BY <2>1 DEF Wrong
    <2>3. QED
      BY <2>1, <2>2, NameOfPlace
  <1>5. wrong \subseteq DOMAIN new
    BY DEF Wrong
  <1> HIDE DEF new, wrong
  <1>6. DOMAIN map \subseteq Names /\ misread \cup wrong \subseteq DOMAIN map
    BY <1>3, <1>5, Extension DEF MapIsMapis, TypeOK
  <1>7. \A n \in DOMAIN map : map[n] \in NamedIds
    BY <1>3 DEF Inserted, MapIsMapis, TypeOK, Range
  <1>8. \A n \in DOMAIN map \ (misread \cup wrong) : n \in DOMAIN named /\ map[n] = named[n]
    BY <1>4 DEF Inserted, MapIsMapis
  <1> HIDE DEF map
  <1>9. RightMap(map, misread \cup wrong)
    BY <1>6, <1>7, <1>8 DEF RightMap, Range
  <1>10. QED
    BY <1>1, <1>9 DEF wrong

\* How a lookup by ID comes out.
LEMMA LookupOutcomes ==
  ASSUME NEW ids \in Objects, NEW outcome \in lookupPropIds(ids)
  PROVE  LET all == ToResolve(ids)
         IN  \/ outcome = Outcome(propIds, Throws, TRUE, {})
             \/ \E names \in Readings(ids) :
                  outcome = Learned(ids, names, all, Answered(ids, names, Insert(ids, names, all)))
             \/ \E names \in Readings(ids), stop \in all :
                  outcome = Learned(ids, names, Before(ids, stop), Throws)
  <1> DEFINE all   == ToResolve(ids)
             whole == {Learned(ids, names, all, Answered(ids, names, Insert(ids, names, all))) :
                         names \in Readings(ids)}
             call  == IF all # {} /\ "mapi" \in Faults THEN {Outcome(propIds, Throws, TRUE, {})} ELSE {}
             parts == {Learned(ids, names, Before(ids, stop), Throws) :
                         names \in Readings(ids), stop \in all}
  <1>1. lookupPropIds(ids) = whole \cup call \cup (IF "allocate" \in Faults THEN parts ELSE {})
    BY DEF lookupPropIds
  <1>2. call \subseteq {Outcome(propIds, Throws, TRUE, {})}
    OBVIOUS
  <1> HIDE DEF whole, call, parts, all
  <1>3. outcome \in whole \/ outcome \in call \/ outcome \in parts
    BY <1>1
  <1>4. CASE outcome \in whole
    BY <1>4, Zenon DEF whole, all
  <1>5. CASE outcome \in call
    BY <1>2, <1>5
  <1>6. CASE outcome \in parts
    <2>1. \E names \in Readings(ids), stop \in all : outcome = Learned(ids, names, Before(ids, stop), Throws)
      BY <1>6 DEF parts
    <2>2. QED
      BY <2>1 DEF all
  <1>7. QED
    BY <1>3, <1>4, <1>5, <1>6

\* A lookup by ID adds what the names are read as.
LEMMA IdsLookup ==
  ASSUME MapIsMapis, NEW ids \in Objects, ~Nameless(ids), NEW outcome \in lookupPropIds(ids)
  PROVE  RightMap(outcome.map, misread \cup outcome.wrong) /\ outcome.fails \in BOOLEAN
  <1> DEFINE all == ToResolve(ids)
  <1>1. ASSUME outcome = Outcome(propIds, Throws, TRUE, {})
        PROVE  RightMap(outcome.map, misread \cup outcome.wrong) /\ outcome.fails \in BOOLEAN
    <2>1. outcome.map = propIds /\ outcome.wrong = {} /\ outcome.fails = TRUE
      BY <1>1 DEF Outcome
    <2>2. QED
      BY <2>1, RightNow
  <1>2. ASSUME NEW names \in Readings(ids), NEW done \in SUBSET all, NEW result,
               outcome = Learned(ids, names, done, result)
        PROVE  RightMap(outcome.map, misread \cup outcome.wrong) /\ outcome.fails \in BOOLEAN
    <2>1. /\ outcome.map = Insert(ids, names, done) /\ outcome.wrong = Wrong(ids, names, done)
          /\ outcome.fails = (result = Throws)
      BY <1>2 DEF Learned, Outcome
    <2>2. QED
      BY <2>1, InsertKeepsRight
  <1>3. \/ outcome = Outcome(propIds, Throws, TRUE, {})
        \/ \E names \in Readings(ids) :
             outcome = Learned(ids, names, all, Answered(ids, names, Insert(ids, names, all)))
        \/ \E names \in Readings(ids), stop \in all :
             outcome = Learned(ids, names, Before(ids, stop), Throws)
    BY LookupOutcomes
  <1> HIDE DEF all
  <1>4. \A stop \in all : Before(ids, stop) \in SUBSET all
    BY DEF Before, all
  <1>5. CASE \E names \in Readings(ids) :
               outcome = Learned(ids, names, all, Answered(ids, names, Insert(ids, names, all)))
    BY <1>2, <1>5, Zenon
  <1>6. CASE \E names \in Readings(ids), stop \in all :
               outcome = Learned(ids, names, Before(ids, stop), Throws)
    BY <1>2, <1>4, <1>6, Zenon
  <1>7. QED
    BY <1>1, <1>3, <1>5, <1>6, Zenon

(***************************************************************************)
(* The steps.                                                              *)
(***************************************************************************)

\* Another name of MAPI's keeps MAPI's IDs apart.
LEMMA NamingExtended ==
  ASSUME NEW f \in Namings, NEW n \in Names \ DOMAIN f, NEW id \in NamedIds \ Range(f)
  PROVE  Inserted(f, [known \in {n} |-> id]) \in Namings
  <1> DEFINE g == Inserted(f, [known \in {n} |-> id])
  <1>2. /\ DOMAIN g = DOMAIN f \cup {n} /\ g[n] = id
        /\ \A m \in DOMAIN f : g[m] = f[m]
    BY DEF Inserted
  <1>3. g = [m \in DOMAIN f \cup {n} |-> g[m]]
    BY DEF Inserted
  <1>4. g \in [DOMAIN f \cup {n} -> NamedIds] /\ DOMAIN f \cup {n} \in SUBSET Names
    BY <1>2, <1>3, NamingsAreMaps
  <1>5. IsInjective(g)
    <2>1. IsInjective(f)
      BY DEF Namings
    <2>2. QED
      BY <1>2, <2>1 DEF IsInjective, Range
  <1>6. QED
    BY <1>4, <1>5 DEF Namings

\* A request counts, and leaves the last answer behind.
LEMMA Counting ==
  ASSUME MapIsMapis, NEW asked, Begin(asked)
  PROVE  calls' \in 0..MaxCalls
  BY CallsAssumption DEF MapIsMapis, TypeOK, Begin

\* A lookup with a right map keeps the invariant.
LEMMA Finishing ==
  ASSUME MapIsMapis, calls' \in 0..MaxCalls, NEW outcome, Finish(outcome),
         RightMap(outcome.map, misread \cup outcome.wrong), outcome.fails \in BOOLEAN
  PROVE  MapIsMapis'
  <1>1. propIds' = outcome.map /\ misread' = misread \cup outcome.wrong /\ named' = named
    BY DEF Finish
  <1>2. TypeOK'
    BY <1>1 DEF MapIsMapis, TypeOK, RightMap, Finish
  <1>3. QED
    BY <1>1, <1>2 DEF MapIsMapis, RightMap

LEMMA NextMap == MapIsMapis /\ [Next]_vars => MapIsMapis'
  <1> SUFFICES ASSUME MapIsMapis, [Next]_vars PROVE MapIsMapis'
    OBVIOUS
  <1>1. ASSUME NEW inputs \in Requests, GetProperties(inputs) PROVE MapIsMapis'
    BY <1>1, Counting, NamesLookup, Finishing DEF GetProperties
  <1>2. ASSUME NEW ids \in Objects, GetAllProperties(ids) PROVE MapIsMapis'
    BY <1>2, Counting, IdsLookup, Finishing DEF GetAllProperties
  <1>3. ASSUME NEW ids \in Objects, GetNamelessProperties(ids) PROVE MapIsMapis'
    <2>1. calls' \in 0..MaxCalls
      BY <1>3, Counting DEF GetNamelessProperties
    <2>2. QED
      BY <1>3, <2>1 DEF GetNamelessProperties, MapIsMapis, TypeOK
  <1>4. ASSUME NEW n \in Names, NEW id \in NamedIds, NameProperty(n, id) PROVE MapIsMapis'
    <2>1. n \notin DOMAIN named /\ id \notin Range(named) /\ named' = Inserted(named, [known \in {n} |-> id])
      BY <1>4 DEF NameProperty
    <2>2. named' \in Namings
      BY <2>1, NamingExtended DEF MapIsMapis, TypeOK
    <2>3. \A m \in DOMAIN named : m \in DOMAIN named' /\ named'[m] = named[m]
      BY <2>1 DEF Inserted
    <2>4. TypeOK'
      BY <1>4, <2>2 DEF NameProperty, MapIsMapis, TypeOK
    <2>5. QED
      BY <1>4, <2>3, <2>4 DEF NameProperty, MapIsMapis
  <1>5. CASE UNCHANGED vars
    BY <1>5 DEF vars, MapIsMapis, TypeOK
  <1>6. QED
    BY <1>1, <1>2, <1>3, <1>4, <1>5 DEF Next

\* The map from names to IDs says what MAPI says, but for names whose GUID was
\* copied in part (lookupPropIds); whatever fails leaves it so.
THEOREM MapCorrect == Spec => []MapIsMapis
  <1>1. Init => MapIsMapis
    BY InitMap
  <1>2. MapIsMapis /\ [Next]_vars => MapIsMapis'
    BY NextMap
  <1>3. QED
    BY <1>1, <1>2, PTL DEF Spec

(***************************************************************************)
(* What the client gets.                                                   *)
(***************************************************************************)
Result == [id : Nat, name : Names \cup {NoName}]

\* As many different IDs as places: each ID has one place.
LEMMA OnePlaceEach ==
  ASSUME NEW S, NEW ids \in Seq(S)
  PROVE  /\ IsFiniteSet(Range(ids))
         /\ Cardinality(Range(ids)) = Len(ids) <=> IsInjective(ids)
  <1>1. Len(ids) \in Nat /\ DOMAIN ids = 1..Len(ids)
    OBVIOUS
  <1>2. ids \in [1..Len(ids) -> Range(ids)]
    BY <1>1 DEF Range
  <1>3. ids \in Surjection(1..Len(ids), Range(ids))
    BY <1>1, <1>2 DEF Surjection, Range
  <1>4. IsFiniteSet(1..Len(ids)) /\ Cardinality(1..Len(ids)) = Len(ids)
    BY <1>1, FS_Interval
  <1>5. /\ IsFiniteSet(Range(ids))
        /\ Cardinality(Range(ids)) = Cardinality(1..Len(ids)) <=> ids \in Injection(1..Len(ids), Range(ids))
    BY <1>3, <1>4, FS_Surjection
  <1>6. ids \in Injection(1..Len(ids), Range(ids)) <=> IsInjective(ids)
    BY <1>2 DEF Injection
  <1>7. QED
    BY <1>4, <1>5, <1>6

\* If no ID comes twice, a value goes with the name in its own place.
LEMMA OwnPlace ==
  ASSUME NEW result \in Seq(Result), IsInjective(IdsOf(result)), NEW i \in DOMAIN result
  PROVE  IdMap(result)[result[i].id] = result[i].name
  <1> DEFINE ids == IdsOf(result)
  <1>1. DOMAIN ids = DOMAIN result /\ \A j \in DOMAIN result : ids[j] = result[j].id
    BY DEF IdsOf
  <1>2. result[i].id \in Range(ids)
    BY <1>1 DEF Range
  <1>3. {j \in DOMAIN result : result[j].id = result[i].id} = {i}
    BY <1>1 DEF IsInjective
  <1>4. Max({i}) = i
    BY DEF Max
  <1> HIDE DEF ids
  <1>5. IdMap(result) = [id \in Range(ids) |-> result[Max({j \in DOMAIN result : result[j].id = id})].name]
    BY DEF IdMap, ids
  <1>6. QED
    BY <1>2, <1>3, <1>4, <1>5

Under(pair) == IF pair.name = NoName THEN pair.id ELSE pair.name

LEMMA IdsAreNumbers ==
  ASSUME NEW result \in Seq(Result)
  PROVE  /\ IdsOf(result) \in Seq(Nat) /\ Len(IdsOf(result)) = Len(result)
         /\ DOMAIN IdsOf(result) = DOMAIN result
         /\ \A i \in DOMAIN result : result[i] \in Result /\ IdsOf(result)[i] = result[i].id
  <1>1. \A i \in DOMAIN result : result[i] \in Result
    OBVIOUS
  <1>2. DOMAIN result = 1..Len(result) /\ Len(result) \in Nat
    OBVIOUS
  <1>3. IdsOf(result) \in [1..Len(result) -> Nat]
    BY <1>1, <1>2 DEF IdsOf, Result
  <1>4. QED
    BY <1>1, <1>2, <1>3, SeqDef DEF IdsOf

\* Values and names are paired by their IDs, and that is each with its own.
LEMMA Pairing ==
  ASSUME NEW result \in Seq(Result)
  PROVE  LET ids == IdsOf(result)
             a   == Answer(ids, result)
         IN  /\ IsInjective(ids) => a = [i \in DOMAIN ids |-> [id |-> ids[i], under |-> Under(result[i])]]
             /\ ~IsInjective(ids) <=> a = Throws
  <1> DEFINE ids == IdsOf(result)
             paired == [i \in DOMAIN ids |->
                          [id |-> ids[i],
                           under |-> IF ids[i] \notin DOMAIN IdMap(result) THEN PrNull
                                     ELSE IF IdMap(result)[ids[i]] = NoName THEN ids[i] ELSE IdMap(result)[ids[i]]]]
             own == [i \in DOMAIN ids |-> [id |-> ids[i], under |-> Under(result[i])]]
  <1>1. ids \in Seq(Nat) /\ Len(ids) = Len(result) /\ DOMAIN ids = DOMAIN result
        /\ \A i \in DOMAIN ids : result[i] \in Result /\ ids[i] = result[i].id
    BY IdsAreNumbers
  <1>2. DOMAIN IdMap(result) = Range(ids)
    BY DEF IdMap
  <1>3. result # Throws
    BY ThrowsAssumption DEF Result
  <1>4. Cardinality(DOMAIN IdMap(result)) = Len(ids) <=> IsInjective(ids)
    BY <1>1, <1>2, OnePlaceEach
  <1>5. Answer(ids, result) = IF ~IsInjective(ids) THEN Throws ELSE paired
    BY <1>3, <1>4 DEF Answer
  <1>6. ASSUME IsInjective(ids) PROVE paired = own
    <2>1. \A i \in DOMAIN ids : IdMap(result)[ids[i]] = result[i].name /\ ids[i] \in DOMAIN IdMap(result)
      BY <1>1, <1>2, <1>6, OwnPlace DEF Range
    <2> HIDE DEF ids
    <2>2. \A i \in DOMAIN ids : Under(result[i]) =
            IF ids[i] \notin DOMAIN IdMap(result) THEN PrNull
            ELSE IF IdMap(result)[ids[i]] = NoName THEN ids[i] ELSE IdMap(result)[ids[i]]
      BY <1>1, <2>1 DEF Under
    <2>3. QED
      BY <2>2, Zenon
  <1>7. own # Throws
    <2>1. \A i \in DOMAIN ids : ids[i] \in Nat /\ Under(result[i]) \in Nat
      BY <1>1, NamesAssumption DEF Result, Under
    <2>2. own \in [1..Len(ids) -> [id : Nat, under : Nat]] /\ Len(ids) \in Nat
      BY <1>1, <2>1
    <2>3. own \in Seq([id : Nat, under : Nat])
      BY <2>2, SeqDef
    <2>4. QED
      BY <2>3, ThrowsAssumption
  <1> HIDE DEF ids, paired, own
  <1>8. (IsInjective(ids) => Answer(ids, result) = own) /\ (~IsInjective(ids) <=> Answer(ids, result) = Throws)
    BY <1>5, <1>6, <1>7
  <1>9. QED
    BY <1>8 DEF ids, own

(***************************************************************************)
(* What the lookups answer.                                                *)
(***************************************************************************)

LEMMA IdsAreNat == BuiltIns \subseteq Nat \ {0} /\ NamedIds \subseteq Nat
                   /\ (\A id \in NamedIds : IsNamed(id)) /\ \A id \in BuiltIns : ~IsNamed(id)
  <1>1. FirstNamedId \in Nat /\ FirstNamedId - 1 < FirstNamedId
    BY DEF FirstNamedId
  <1>2. NamedIds \subseteq Nat /\ \A id \in NamedIds : IsNamed(id)
    BY IdsAssumption DEF IsNamed
  <1>3. \A id \in BuiltIns : id \in 1..(FirstNamedId - 1)
    BY IdsAssumption
  <1>4. \A id \in BuiltIns : id \in Nat /\ id # 0 /\ ~(id >= FirstNamedId)
    BY <1>1, <1>3
  <1>5. QED
    BY <1>2, <1>4 DEF IsNamed

\* A name that was not misread has its ID in the map if MAPI knows it and it was
\* looked for, and has none if MAPI does not know it.
LEMMA Looked ==
  ASSUME MapIsMapis, NEW inputs \in Requests, NEW i \in DOMAIN inputs, ByName(inputs[i]),
         NEW map, map = Inserted(propIds, GetIDsFromNames(Unresolved(inputs)))
  PROVE  LET n == inputs[i].name
         IN  n \notin misread =>
               /\ n \in DOMAIN map <=> n \in DOMAIN named
               /\ n \in DOMAIN map => map[n] = named[n]
  <1> DEFINE n   == inputs[i].name
             got == GetIDsFromNames(Unresolved(inputs))
  <1>1. DOMAIN got = Unresolved(inputs) \cap DOMAIN named /\ \A m \in DOMAIN got : got[m] = named[m]
    BY DEF GetIDsFromNames
  <1>2. n \notin DOMAIN propIds => n \in Unresolved(inputs)
    BY DEF Unresolved
  <1> HIDE DEF got
  <1>3. /\ DOMAIN map = DOMAIN propIds \cup DOMAIN got
        /\ \A m \in DOMAIN propIds : map[m] = propIds[m]
        /\ \A m \in DOMAIN got \ DOMAIN propIds : map[m] = got[m]
    <2>1. map = Inserted(propIds, got)
      BY DEF got
    <2>2. QED
      BY <2>1 DEF Inserted
  <1>4. \A m \in DOMAIN propIds \ misread : m \in DOMAIN named /\ propIds[m] = named[m]
    BY DEF MapIsMapis
  <1>5. QED
    BY <1>1, <1>2, <1>3, <1>4

\* An input is by ID, by name, or bad.
LEMMA InputKinds ==
  ASSUME NEW inputs \in Requests, NEW i \in DOMAIN inputs
  PROVE  \/ ById(inputs[i]) /\ ~ByName(inputs[i]) /\ inputs[i].id \in BuiltIns
            /\ inputs[i] = [id |-> inputs[i].id]
         \/ ByName(inputs[i]) /\ ~ById(inputs[i]) /\ inputs[i].name \in Names
            /\ inputs[i] = [name |-> inputs[i].name]
         \/ Bad(inputs[i])
  <1>1. inputs \in Seq(Input)
    BY RequestsAssumption
  <1>2. inputs[i] \in Input
    BY <1>1
  <1>3. CASE inputs[i] \in [id : BuiltIns]
    BY <1>3 DEF ById, ByName
  <1>4. CASE inputs[i] \in [name : Names]
    BY <1>4 DEF ById, ByName
  <1>5. CASE inputs[i] = [bad |-> TRUE]
    BY <1>5 DEF Bad
  <1>6. QED
    BY <1>2, <1>3, <1>4, <1>5 DEF Input

\* A lookup by name throws only if an input is bad or a call fails; and otherwise it
\* gives, in the place of each input, its ID, with its name.
LEMMA NamesResults ==
  ASSUME MapIsMapis, NEW inputs \in Requests, NEW outcome \in lookupPropIdInputs(inputs)
  PROVE  /\ outcome.wrong = {}
         /\ outcome.result = Throws => outcome.fails \/ \E i \in DOMAIN inputs : Bad(inputs[i])
         /\ outcome.result # Throws =>
              /\ outcome.result \in Seq(Result) /\ DOMAIN outcome.result = DOMAIN inputs
              /\ \A i \in DOMAIN inputs :
                   /\ ~Bad(inputs[i])
                   /\ ById(inputs[i]) => outcome.result[i] = Pair(inputs[i].id, NoName)
                   /\ ByName(inputs[i]) /\ inputs[i].name \notin misread =>
                        outcome.result[i] = IF inputs[i].name \in DOMAIN named
                                            THEN Pair(named[inputs[i].name], inputs[i].name)
                                            ELSE Pair(PrNull, NoName)
  <1> DEFINE map  == Inserted(propIds, GetIDsFromNames(Unresolved(inputs)))
             all  == Results(inputs, map)
             bad  == \E i \in DOMAIN inputs : Bad(inputs[i])
  <1>1. \/ bad /\ outcome = Outcome(propIds, Throws, FALSE, {})
        \/ ~bad /\ outcome = Outcome(map, all, FALSE, {})
        \/ ~bad /\ outcome = Outcome(propIds, Throws, TRUE, {})
    BY DEF lookupPropIdInputs
  <1>2. \/ bad /\ outcome.result = Throws /\ outcome.wrong = {}
        \/ ~bad /\ outcome.result = all /\ outcome.wrong = {}
        \/ ~bad /\ outcome.result = Throws /\ outcome.fails = TRUE /\ outcome.wrong = {}
    <2> HIDE DEF bad, map, all
    <2>1. CASE bad /\ outcome = Outcome(propIds, Throws, FALSE, {})
      BY <2>1 DEF Outcome
    <2>2. CASE ~bad /\ outcome = Outcome(map, all, FALSE, {})
      BY <2>2 DEF Outcome
    <2>3. CASE ~bad /\ outcome = Outcome(propIds, Throws, TRUE, {})
      BY <2>3 DEF Outcome
    <2>4. QED
      BY <1>1, <2>1, <2>2, <2>3
  <1>3. ASSUME ~bad
        PROVE  /\ all \in Seq(Result) /\ DOMAIN all = DOMAIN inputs
               /\ \A i \in DOMAIN inputs :
                    /\ ById(inputs[i]) => all[i] = Pair(inputs[i].id, NoName)
                    /\ ByName(inputs[i]) /\ inputs[i].name \notin misread =>
                         all[i] = IF inputs[i].name \in DOMAIN named
                                  THEN Pair(named[inputs[i].name], inputs[i].name)
                                  ELSE Pair(PrNull, NoName)
    <2>1. \A n \in DOMAIN map : map[n] \in Nat
      <3>1. \A n \in DOMAIN propIds : propIds[n] \in NamedIds
        BY DEF MapIsMapis, TypeOK, Range
      <3>2. \A n \in DOMAIN named : named[n] \in NamedIds
        BY NamingsAreMaps DEF MapIsMapis, TypeOK
      <3>3. \A n \in DOMAIN map : map[n] \in NamedIds
        BY <3>1, <3>2 DEF Inserted, GetIDsFromNames
      <3>4. QED
        BY <3>3, IdsAreNat
    <2> DEFINE n(i) == inputs[i].name
    <2> HIDE DEF map
    <2>2. DOMAIN all = DOMAIN inputs /\ \A i \in DOMAIN inputs : all[i] = Resolved(inputs[i], map)
      BY DEF Results
    <2>3. \A i \in DOMAIN inputs : all[i] \in Result
      <3> TAKE i \in DOMAIN inputs
      <3>1. CASE ById(inputs[i])
        <4>1. inputs[i].id \in Nat
          BY <1>3, <3>1, InputKinds, IdsAreNat
        <4>2. QED
          BY <2>2, <3>1, <4>1 DEF Resolved, Pair, Result
      <3>2. CASE ~ById(inputs[i])
        <4>1. inputs[i].name \in Names
          BY <1>3, <3>2, InputKinds
        <4>2. QED
          BY <2>1, <2>2, <3>2, <4>1 DEF Resolved, Pair, Result, PrNull
      <3>3. QED
        BY <3>1, <3>2
    <2>4. all \in Seq(Result)
      <3>1. inputs \in Seq(Input)
        BY RequestsAssumption
      <3>2. DOMAIN all = 1..Len(inputs) /\ Len(inputs) \in Nat
        BY <2>2, <3>1
      <3>3. all \in [1..Len(inputs) -> Result]
        BY <2>3, <3>2 DEF Results
      <3>4. QED
        BY <3>2, <3>3, SeqDef
    <2>5. \A i \in DOMAIN inputs : ById(inputs[i]) => all[i] = Pair(inputs[i].id, NoName)
      BY <2>2 DEF Resolved
    <2>6. ASSUME NEW i \in DOMAIN inputs, ByName(inputs[i]), inputs[i].name \notin misread
          PROVE  all[i] = IF inputs[i].name \in DOMAIN named
                          THEN Pair(named[inputs[i].name], inputs[i].name) ELSE Pair(PrNull, NoName)
      <3>1. ~ById(inputs[i])
        BY <1>3, <2>6, InputKinds
      <3>2. /\ n(i) \in DOMAIN map <=> n(i) \in DOMAIN named
            /\ n(i) \in DOMAIN map => map[n(i)] = named[n(i)]
        BY <2>6, Looked DEF map
      <3>3. QED
        BY <2>2, <3>1, <3>2 DEF Resolved
    <2>7. QED
      BY <2>2, <2>4, <2>5, <2>6
  <1> HIDE DEF all, bad
  <1>4. all \in Seq(Result) => all # Throws
    BY ThrowsAssumption DEF Result
  <1>5. QED
    BY <1>2, <1>3, <1>4 DEF bad

\* A known ID has one name.
LEMMA OneName ==
  ASSUME MapIsMapis, NEW n \in DOMAIN named
  PROVE  NameOf(named[n]) = n
  <1>1. IsInjective(named)
    BY DEF MapIsMapis, TypeOK, Namings
  <1>2. NameOf(named[n]) \in DOMAIN named /\ named[NameOf(named[n])] = named[n]
    BY DEF NameOf
  <1>3. QED
    BY <1>1, <1>2 DEF IsInjective

\* A lookup by ID throws only if a call fails; and as long as no name was misread it gives
\* each ID in its place, with its own name.
LEMMA IdsResults ==
  ASSUME MapIsMapis, NEW ids \in Objects, ~Nameless(ids), NEW outcome \in lookupPropIds(ids),
         misread \cup outcome.wrong = {}
  PROVE  /\ outcome.result = Throws => outcome.fails
         /\ outcome.result # Throws =>
              /\ outcome.result \in Seq(Result) /\ IdsOf(outcome.result) = ids
              /\ \A i \in DOMAIN ids :
                   outcome.result[i] = Pair(ids[i], IF IsNamed(ids[i]) THEN NameOf(ids[i]) ELSE NoName)
  <1> DEFINE all == ToResolve(ids)
             whole(names) == Answered(ids, names, Insert(ids, names, all))
  <1>1. \/ outcome = Outcome(propIds, Throws, TRUE, {})
        \/ \E names \in Readings(ids) : outcome = Learned(ids, names, all, whole(names))
        \/ \E names \in Readings(ids), stop \in all :
             outcome = Learned(ids, names, Before(ids, stop), Throws)
    BY LookupOutcomes
  <1>2. \A names, done, result :
          outcome = Learned(ids, names, done, result) =>
            /\ outcome.result = result /\ outcome.fails = (result = Throws)
            /\ outcome.wrong = Wrong(ids, names, done)
    BY DEF Learned, Outcome
  <1>3. outcome.result = Throws => outcome.fails
    <2>1. CASE outcome = Outcome(propIds, Throws, TRUE, {})
      BY <2>1 DEF Outcome
    <2>2. QED
      BY <1>1, <1>2, <2>1, Zenon
  <1>4. ASSUME NEW names \in Readings(ids), outcome = Learned(ids, names, all, whole(names))
        PROVE  /\ outcome.result \in Seq(Result) /\ IdsOf(outcome.result) = ids
               /\ \A i \in DOMAIN ids :
                   outcome.result[i] = Pair(ids[i], IF IsNamed(ids[i]) THEN NameOf(ids[i]) ELSE NoName)
    <2> DEFINE map == Insert(ids, names, all)
    <2>1. outcome.result = Answered(ids, names, map) /\ Wrong(ids, names, all) = {}
      BY <1>2, <1>4
    <2>2. \A i \in all : names[i] = NameOf(ids[i])
      BY <2>1 DEF Wrong
    <2>3. RightMap(map, {})
      <3>1. RightMap(map, misread \cup Wrong(ids, names, all))
        BY InsertKeepsRight
      <3>2. QED
        BY <2>1, <3>1
    <2>4. \A i \in all : names[i] \in DOMAIN map
      <3> DEFINE new == [n \in {names[i] : i \in all} |-> ids[Min({i \in all : names[i] = n})]]
      <3>1. map = Inserted(propIds, new) /\ \A i \in all : names[i] \in DOMAIN new
        BY DEF Insert
      <3> HIDE DEF new
      <3>2. QED
        BY <3>1 DEF Inserted
    <2> HIDE DEF map
    <2>5. \A i \in all : map[names[i]] = ids[i] /\ IsNamed(ids[i])
      <3> TAKE i \in all
      <3>1. names[i] \in DOMAIN named /\ named[names[i]] = ids[i]
        BY <2>2, NameOfPlace
      <3>2. map[names[i]] = named[names[i]]
        BY <2>3, <2>4 DEF RightMap
      <3>3. QED
        BY <3>1, <3>2 DEF ToResolve
    <2>6. \A i \in DOMAIN ids \ all : IsNamed(ids[i]) => Min(NamesOf(ids[i])) = NameOf(ids[i])
      <3> TAKE i \in DOMAIN ids \ all
      <3> HAVE IsNamed(ids[i])
      <3>1. NamesOf(ids[i]) # {} /\ NamesOf(ids[i]) \in SUBSET Nat
        BY NamesAssumption DEF ToResolve, NamesOf, MapIsMapis, TypeOK
      <3>2. PICK n : n = Min(NamesOf(ids[i]))
        OBVIOUS
      <3>3. n \in NamesOf(ids[i])
        BY <3>1, <3>2, FirstPlace
      <3>4. n \in DOMAIN named /\ named[n] = ids[i]
        BY <3>3 DEF NamesOf, MapIsMapis
      <3>5. QED
        BY <3>2, <3>4, OneName
    <2>7. \A i \in DOMAIN ids : Answered(ids, names, map)[i] =
             Pair(ids[i], IF IsNamed(ids[i]) THEN NameOf(ids[i]) ELSE NoName)
      BY <2>2, <2>5, <2>6 DEF Answered
    <2>8. ids \in Seq(BuiltIns \cup NamedIds)
      BY ObjectsAssumption
    <2>9. \A i \in DOMAIN ids : ids[i] \in Nat /\ (IsNamed(ids[i]) => NameOf(ids[i]) \in Names)
      <3> TAKE i \in DOMAIN ids
      <3>1. ids[i] \in Nat
        <4>1. ids[i] \in BuiltIns \cup NamedIds
          BY <2>8
        <4>2. QED
          BY <4>1, IdsAreNat
      <3>2. IsNamed(ids[i]) => NameOf(ids[i]) \in Names
        <4>1. ASSUME i \in all PROVE NameOf(ids[i]) \in Names
          BY <2>2, <2>4, <2>3, <4>1 DEF RightMap
        <4>2. ASSUME i \notin all, IsNamed(ids[i]) PROVE NameOf(ids[i]) \in Names
          <5>1. PICK n \in DOMAIN propIds : propIds[n] = ids[i]
            BY <4>2 DEF ToResolve, NamesOf
          <5>2. n \in DOMAIN named /\ named[n] = ids[i] /\ n \in Names
            BY <5>1 DEF MapIsMapis, TypeOK
          <5>3. QED
            BY <5>2, OneName
        <4>3. QED
          BY <4>1, <4>2
      <3>3. QED
        BY <3>1, <3>2
    <2> DEFINE r == Answered(ids, names, map)
    <2>10. DOMAIN r = DOMAIN ids /\ r = [i \in DOMAIN ids |-> r[i]]
      BY DEF Answered
    <2>11. \A i \in DOMAIN ids : r[i] \in Result /\ r[i].id = ids[i]
      <3> TAKE i \in DOMAIN ids
      <3>1. PICK name \in Names \cup {NoName} : r[i] = Pair(ids[i], name)
        BY <2>7, <2>9
      <3>2. QED
        BY <2>9, <3>1 DEF Pair, Result
    <2> HIDE DEF r
    <2>12. r \in Seq(Result)
      <3>1. DOMAIN r = 1..Len(ids) /\ Len(ids) \in Nat
        BY <2>8, <2>10
      <3>2. r \in [1..Len(ids) -> Result]
        BY <2>10, <2>11, <3>1
      <3>3. QED
        BY <3>1, <3>2, SeqDef
    <2>13. IdsOf(r) = ids
      <3>1. IdsOf(r) = [i \in DOMAIN ids |-> r[i].id]
        BY <2>10 DEF IdsOf
      <3>2. IdsOf(r) = [i \in DOMAIN ids |-> ids[i]]
        BY <2>11, <3>1
      <3>3. QED
        BY <2>8, <3>2
    <2>14. QED
      BY <2>1, <2>7, <2>12, <2>13 DEF r
  <1>5. outcome.result # Throws =>
          \E names \in Readings(ids) : outcome = Learned(ids, names, all, whole(names))
    <2>1. CASE outcome = Outcome(propIds, Throws, TRUE, {})
      BY <2>1 DEF Outcome
    <2>2. QED
      BY <1>1, <1>2, <2>1, Zenon
  <1>6. QED
    BY <1>3, <1>4, <1>5, Zenon

(***************************************************************************)
(* The answers.                                                            *)
(***************************************************************************)
AnswersInv == AnswersAreAsked /\ FailuresExplained

LEMMA NothingIsAnAnswer == <<>> # Throws
  <1>1. <<>> \in Seq([id : Nat, under : Nat])
    OBVIOUS
  <1>2. QED
    BY <1>1, ThrowsAssumption

\* Nothing is answered.
LEMMA NoAnswer ==
  ASSUME answer = <<>>
  PROVE  AnswersInv
  <1>1. answer # Throws
    BY NothingIsAnAnswer
  <1>2. DOMAIN answer = {}
    OBVIOUS
  <1>3. AnswersAreAsked
    BY <1>2 DEF AnswersAreAsked
  <1>4. QED
    BY <1>1, <1>3 DEF AnswersInv, FailuresExplained

\* What GetProperties answers.
LEMMA AskedProperties ==
  ASSUME MapIsMapis, NEW inputs \in Requests, GetProperties(inputs)
  PROVE  AnswersInv'
  <1>1. PICK outcome \in lookupPropIdInputs(inputs) :
          /\ Finish(outcome)
          /\ answer' = Answer(IF outcome.result = Throws THEN <<>> ELSE IdsOf(outcome.result), outcome.result)
    BY DEF GetProperties
  <1>2. request' = inputs /\ inputs # <<>>
    BY RequestsAssumption DEF GetProperties, Begin
  <1> DEFINE result == outcome.result
             ids    == IdsOf(result)
  <1>3. /\ misread' = misread /\ named' = named /\ failed' = outcome.fails
        /\ result = Throws => outcome.fails \/ \E i \in DOMAIN inputs : Bad(inputs[i])
        /\ result # Throws =>
              /\ result \in Seq(Result) /\ DOMAIN result = DOMAIN inputs
              /\ \A i \in DOMAIN inputs :
                   /\ ~Bad(inputs[i])
                   /\ ById(inputs[i]) => result[i] = Pair(inputs[i].id, NoName)
                   /\ ByName(inputs[i]) /\ inputs[i].name \notin misread =>
                        result[i] = IF inputs[i].name \in DOMAIN named
                                    THEN Pair(named[inputs[i].name], inputs[i].name)
                                    ELSE Pair(PrNull, NoName)
    BY <1>1, NamesResults DEF Finish
  <1>4. CASE result = Throws
    <2>1. answer' = Throws
      BY <1>1, <1>4 DEF Answer
    <2>2. failed' \/ \E i \in DOMAIN request' : Bad(request'[i])
      BY <1>2, <1>3, <1>4
    <2>3. QED
      BY <1>2, <2>1, <2>2 DEF AnswersInv, AnswersAreAsked, FailuresExplained
  <1>5. CASE result # Throws
    <2>1. result \in Seq(Result) /\ DOMAIN result = DOMAIN inputs
      BY <1>3, <1>5
    <2>2. answer' = Answer(ids, result)
      BY <1>1, <1>5
    <2>3. DOMAIN ids = DOMAIN inputs /\ \A i \in DOMAIN inputs : ids[i] = result[i].id
      BY <2>1, IdsAreNumbers
    <2>4. /\ IsInjective(ids) => answer' = [i \in DOMAIN ids |-> [id |-> ids[i], under |-> Under(result[i])]]
          /\ ~IsInjective(ids) <=> answer' = Throws
      BY <2>1, <2>2, Pairing
    <2> HIDE DEF ids, result
    <2>5. AnswersAreAsked'
      <3>1. ASSUME answer' # Throws, NEW i \in DOMAIN inputs
            PROVE  /\ ById(inputs[i]) => answer'[i] = [id |-> inputs[i].id, under |-> inputs[i].id]
                   /\ ByName(inputs[i]) /\ inputs[i].name \in DOMAIN named \ misread =>
                        answer'[i] = [id |-> named[inputs[i].name], under |-> inputs[i].name]
        <4>1. answer'[i] = [id |-> result[i].id, under |-> Under(result[i])]
          BY <2>3, <2>4, <3>1
        <4>2. ASSUME ById(inputs[i])
              PROVE  answer'[i] = [id |-> inputs[i].id, under |-> inputs[i].id]
          <5>1. result[i] = Pair(inputs[i].id, NoName)
            BY <1>3, <1>5, <4>2
          <5>2. QED
            BY <4>1, <5>1 DEF Pair, Under
        <4>3. ASSUME ByName(inputs[i]), inputs[i].name \in DOMAIN named \ misread
              PROVE  answer'[i] = [id |-> named[inputs[i].name], under |-> inputs[i].name]
          <5>1. result[i] = Pair(named[inputs[i].name], inputs[i].name)
            BY <1>3, <1>5, <4>3
          <5>2. inputs[i].name # NoName
            <6>1. DOMAIN named \subseteq Names
              BY NamingsAreMaps DEF MapIsMapis, TypeOK
            <6>2. QED
              BY <4>3, <6>1, NamesAssumption
          <5>3. QED
            BY <4>1, <5>1, <5>2 DEF Pair, Under
        <4>4. QED
          BY <4>2, <4>3
      <3>2. QED
        BY <1>2, <1>3, <3>1 DEF AnswersAreAsked
    <2>6. FailuresExplained'
      <3> SUFFICES ASSUME answer' = Throws, misread = {}, IsInjective(inputs)
                   PROVE  Cardinality(Unknown(request)') > 1
        BY <1>2, <1>3 DEF FailuresExplained
      <3> DEFINE U == {i \in DOMAIN inputs : ByName(inputs[i]) /\ inputs[i].name \notin DOMAIN named}
      <3>1. Unknown(request)' = U
        BY <1>2, <1>3 DEF Unknown
      <3>2. PICK i \in DOMAIN inputs, j \in DOMAIN inputs : i # j /\ ids[i] = ids[j]
        BY <2>3, <2>4 DEF IsInjective
      <3>3. \A k \in DOMAIN inputs :
              \/ ById(inputs[k]) /\ ids[k] = inputs[k].id /\ inputs[k] = [id |-> inputs[k].id]
                   /\ ids[k] \in BuiltIns
              \/ k \notin U /\ ids[k] \in NamedIds /\ inputs[k] = [name |-> inputs[k].name]
                   /\ inputs[k].name = NameOf(ids[k])
              \/ k \in U /\ ids[k] = 0
        <4> TAKE k \in DOMAIN inputs
        <4>1. ~Bad(inputs[k])
          BY <1>3, <1>5
        <4>2. CASE ById(inputs[k])
          <5>1. result[k] = Pair(inputs[k].id, NoName)
            BY <1>3, <1>5, <4>2
          <5>2. QED
            BY <2>3, <4>1, <4>2, <5>1, InputKinds DEF Pair
        <4>3. CASE ~ById(inputs[k]) /\ inputs[k].name \in DOMAIN named
          <5>1. result[k] = Pair(named[inputs[k].name], inputs[k].name) /\ ByName(inputs[k])
            BY <1>3, <1>5, <4>1, <4>3, InputKinds
          <5>2. named[inputs[k].name] \in NamedIds
            BY <4>3, NamingsAreMaps DEF MapIsMapis, TypeOK
          <5>3. ids[k] = named[inputs[k].name]
            BY <2>3, <5>1 DEF Pair
          <5>4. QED
            BY <4>1, <4>3, <5>2, <5>3, OneName, InputKinds
        <4>4. CASE ~ById(inputs[k]) /\ inputs[k].name \notin DOMAIN named
          <5>1. result[k] = Pair(PrNull, NoName) /\ ByName(inputs[k])
            BY <1>3, <1>5, <4>1, <4>4, InputKinds
          <5>2. QED
            BY <2>3, <4>4, <5>1 DEF Pair, PrNull
        <4>5. QED
          BY <4>2, <4>3, <4>4
      <3>4. i \in U /\ j \in U
        <4>1. BuiltIns \cap NamedIds = {} /\ 0 \notin BuiltIns
          BY IdsAreNat
        <4>2. 0 \notin NamedIds
          <5>1. \A id \in NamedIds : id >= FirstNamedId
            BY IdsAssumption
          <5>2. ~(0 >= FirstNamedId)
            BY DEF FirstNamedId
          <5>3. QED
            BY <5>1, <5>2
        <4>3. inputs[i] # inputs[j]
          BY <3>2 DEF IsInjective
        <4> HIDE DEF U
        <4>4. QED
          BY <3>2, <3>3, <4>1, <4>2, <4>3
      <3>5. IsFiniteSet(U)
        <4>1. inputs \in Seq(Input)
          BY RequestsAssumption
        <4>2. IsFiniteSet(1..Len(inputs)) /\ U \in SUBSET (1..Len(inputs))
          BY <4>1, FS_Interval
        <4>3. QED
          BY <4>2, FS_Subset
      <3> HIDE DEF U
      <3>6. Cardinality({i, j}) = 2
        <4>1. {i, j} = {i} \cup {j} /\ IsFiniteSet({i}) /\ Cardinality({i}) = 1
          BY FS_Singleton
        <4>2. Cardinality({i} \cup {j}) = 2
          BY <3>2, <4>1, FS_AddElement
        <4>3. QED
          BY <4>1, <4>2
      <3>7. Cardinality({i, j}) <= Cardinality(U)
        BY <3>4, <3>5, FS_Subset
      <3>8. QED
        BY <3>1, <3>5, <3>6, <3>7, FS_CardinalityType
    <2>7. QED
      BY <2>5, <2>6 DEF AnswersInv
  <1>6. QED
    BY <1>4, <1>5

\* What GetProperties answers when all properties are asked for, and GetColumns.
LEMMA AllProperties ==
  ASSUME MapIsMapis, NEW ids \in Objects, GetAllProperties(ids)
  PROVE  AnswersInv'
  <1>1. PICK outcome \in lookupPropIds(ids) : Finish(outcome) /\ answer' = Answer(ids, outcome.result)
    BY DEF GetAllProperties
  <1>2. request' = <<>> /\ ~Nameless(ids)
    BY DEF GetAllProperties, Begin
  <1>3. misread' = misread \cup outcome.wrong /\ named' = named /\ failed' = outcome.fails
    BY <1>1 DEF Finish
  <1>4. CASE misread' # {}
    BY <1>2, <1>4 DEF AnswersInv, AnswersAreAsked, FailuresExplained
  <1>5. CASE misread' = {} /\ outcome.result = Throws
    <2>1. answer' = Throws
      BY <1>1, <1>5 DEF Answer
    <2>2. failed'
      BY <1>2, <1>3, <1>5, IdsResults
    <2>3. QED
      BY <2>1, <2>2 DEF AnswersInv, AnswersAreAsked, FailuresExplained
  <1>6. CASE misread' = {} /\ outcome.result # Throws
    <2> DEFINE result == outcome.result
    <2>1. /\ result \in Seq(Result) /\ IdsOf(result) = ids
          /\ \A i \in DOMAIN ids :
               result[i] = Pair(ids[i], IF IsNamed(ids[i]) THEN NameOf(ids[i]) ELSE NoName)
      BY <1>2, <1>3, <1>6, IdsResults
    <2>2. IsInjective(ids) /\ ids \in Seq(BuiltIns \cup NamedIds)
      BY ObjectsAssumption
    <2> HIDE DEF result
    <2>3. /\ answer' = [i \in DOMAIN ids |-> [id |-> ids[i], under |-> Under(result[i])]]
          /\ answer' # Throws
      BY <1>1, <2>1, <2>2, Pairing DEF result
    <2>4. ASSUME NEW i \in DOMAIN ids
          PROVE  answer'[i].id = ids[i] /\
                 answer'[i].under = IF ids[i] \in NamedIds THEN NameOf(ids[i]) ELSE ids[i]
      <3>1. answer'[i].id = ids[i] /\ answer'[i].under = Under(result[i])
        BY <2>3
      <3>2. ids[i] \in BuiltIns \cup NamedIds
        BY <2>2
      <3>3. CASE ids[i] \in NamedIds
        <4>1. result[i] = Pair(ids[i], NameOf(ids[i]))
          BY <2>1, <3>3, IdsAreNat
        <4>2. NameOf(ids[i]) # NoName
          <5>1. result[i] \in Result /\ \E n \in DOMAIN named : named[n] = ids[i]
            <6>1. i \in ToResolve(ids) => \E n \in DOMAIN named : named[n] = ids[i]
              BY <1>2, NameOfPlace
            <6>2. i \notin ToResolve(ids) => \E n \in DOMAIN propIds : propIds[n] = ids[i]
              BY <3>3, IdsAreNat DEF ToResolve, NamesOf
            <6>3. misread = {}
              BY <1>3, <1>6
            <6>4. i \notin ToResolve(ids) => \E n \in DOMAIN named : named[n] = ids[i]
              BY <6>2, <6>3 DEF MapIsMapis
            <6>5. result[i] \in Result
              <7>1. i \in DOMAIN IdsOf(result)
                BY <2>1
              <7>2. QED
                BY <2>1, <7>1, IdsAreNumbers
            <6>6. QED
              BY <6>1, <6>4, <6>5
          <5>2. NameOf(ids[i]) \in DOMAIN named
            BY <5>1 DEF NameOf
          <5>3. DOMAIN named \subseteq Names
            BY NamingsAreMaps DEF MapIsMapis, TypeOK
          <5>4. QED
            BY <5>2, <5>3, NamesAssumption
        <4>3. QED
          BY <3>1, <3>3, <4>1, <4>2 DEF Pair, Under
      <3>4. CASE ids[i] \notin NamedIds
        <4>1. result[i] = Pair(ids[i], NoName)
          BY <2>1, <3>2, <3>4, IdsAreNat
        <4>2. QED
          BY <3>1, <3>4, <4>1 DEF Pair, Under
      <3>5. QED
        BY <3>3, <3>4
    <2>5. DOMAIN answer' = DOMAIN ids
      BY <2>3
    <2>6. \A i \in DOMAIN answer' :
            answer'[i].under = IF answer'[i].id \in NamedIds THEN NameOf(answer'[i].id) ELSE answer'[i].id
      BY <2>4, <2>5
    <2>7. \A id : NameOf(id)' = NameOf(id)
      BY <1>3 DEF NameOf
    <2>8. AnswersAreAsked'
      BY <1>2, <2>6, <2>7 DEF AnswersAreAsked
    <2>9. QED
      BY <2>3, <2>8 DEF AnswersInv, FailuresExplained
  <1>7. QED
    BY <1>4, <1>5, <1>6

LEMMA NextAnswers == AnswersInv /\ MapIsMapis /\ [Next]_vars => AnswersInv'
  <1> SUFFICES ASSUME AnswersInv, MapIsMapis, [Next]_vars PROVE AnswersInv'
    OBVIOUS
  <1>1. ASSUME answer' = <<>> PROVE AnswersInv'
    <2>1. answer' # Throws
      BY <1>1, NothingIsAnAnswer
    <2>2. DOMAIN answer' = {}
      BY <1>1
    <2>3. AnswersAreAsked'
      BY <1>1, <2>2 DEF AnswersAreAsked
    <2>4. QED
      BY <2>1, <2>3 DEF AnswersInv, FailuresExplained
  <1>2. ASSUME NEW inputs \in Requests, GetProperties(inputs) PROVE AnswersInv'
    BY <1>2, AskedProperties
  <1>3. ASSUME NEW ids \in Objects, GetAllProperties(ids) PROVE AnswersInv'
    BY <1>3, AllProperties
  <1>4. ASSUME NEW ids \in Objects, GetNamelessProperties(ids) PROVE AnswersInv'
    BY <1>1, <1>4 DEF GetNamelessProperties
  <1>5. ASSUME NEW n \in Names, NEW id \in NamedIds, NameProperty(n, id) PROVE AnswersInv'
    BY <1>1, <1>5 DEF NameProperty
  <1>6. CASE UNCHANGED vars
    BY <1>6 DEF vars, AnswersInv, AnswersAreAsked, FailuresExplained, Unknown, NameOf
  <1>7. QED
    BY <1>2, <1>3, <1>4, <1>5, <1>6 DEF Next

LEMMA AnswersHold == Spec => []AnswersInv
  <1>1. Init => AnswersInv
    BY NoAnswer DEF Init
  <1>2. QED
    BY <1>1, NextAnswers, MapCorrect, PTL DEF Spec

\* GetProperties and GetColumns answer each property in its place and under its own
\* name, unless a name was copied wrongly.
THEOREM AnswersAreOwn == Spec => []AnswersAreAsked
  BY AnswersHold, PTL DEF AnswersInv

\* GetProperties and GetColumns fail for the reasons listed, and for no other.
THEOREM FailuresHaveReasons == Spec => []FailuresExplained
  BY AnswersHold, PTL DEF AnswersInv
=============================================================================
