------------------------ MODULE LazyCollectionProofs ------------------------
(***************************************************************************)
(* Theorems about LazyCollection, for every table, every set of windows,   *)
(* callers and IDs asked for, and all faults, where the fields of the list *)
(* go through one wrapper and no lookup overlaps with a field: the mutex   *)
(* then lets one call at a time load the list, while callbacks may drop it *)
(* at any moment.                                                          *)
(***************************************************************************)
EXTENDS LazyCollection, SequenceTheorems, WellFoundedInduction, TLAPS

\* The assumption of the theorems.
OneMutex == ~Overlap /\ \A v, w \in Wrappers : v = w

(***************************************************************************)
(* The window of a table is a sequence of its rows.                        *)
(***************************************************************************)
WindowOf(rowsOf, d) ==
  TD!read(d, [o \in {"default"} |-> rowsOf], TRUE, {}, <<>>, "default").rows

\* What a caller may read with: the directives of a field, or none.
Directives == Windows \cup {TD!NoDirectives}

\* A set of numbers that is not empty has a least one.
LEMMA LeastNumber ==
  ASSUME NEW T \in SUBSET Nat, T # {}
  PROVE  Min(T) \in T
  <1>1. PICK x \in T : \A y \in T : <<y, x>> \notin OpToRel(<, Nat)
    BY WFMin, NatLessThanWellFounded, Zenon
  <1>2. \A y \in T : ~(y < x)
    BY <1>1, Zenon DEF OpToRel
  <1>3. \A y \in T : x <= y
    BY <1>2
  <1>4. QED
    BY <1>3 DEF Min

\* FindRow finds a row that is there.
LEMMA RowIsFound ==
  ASSUME NEW list \in Seq(Ids), NEW id \in ToSet(list)
  PROVE  TD!FindRow(id, list) \in 0..(Len(list) - 1)
  <1> DEFINE I == {i \in 1..Len(list) : list[i] = id}
  <1>1. I \in SUBSET Nat /\ I # {}
    BY DEF ToSet
  <1>2. Min(I) \in I
    BY <1>1, LeastNumber
  <1>3. TD!FindRow(id, list) = Min(I) - 1
    BY <1>1 DEF TD!FindRow, TD!SelectInSeq, TD!Min, Min
  <1>4. QED
    BY <1>2, <1>3

\* The index of an ID is that of a row with the ID.
LEMMA PlaceIsRight ==
  ASSUME NEW list \in Seq(Ids), NEW id \in ToSet(list)
  PROVE  PlaceOf(id, list) \in 1..Len(list) /\ list[PlaceOf(id, list)] = id
  <1> DEFINE I == {i \in 1..Len(list) : list[i] = id}
  <1>1. I \in SUBSET Nat /\ I # {}
    BY DEF ToSet
  <1>2. Min(I) \in I
    BY <1>1, LeastNumber
  <1>3. PlaceOf(id, list) = Min(I)
    BY <1>1 DEF PlaceOf, SelectInSeq
  <1>4. QED
    BY <1>2, <1>3

\* A cursor stays in the table.
LEMMA ClampBetween ==
  ASSUME NEW high \in Nat, NEW n \in Int
  PROVE  TD!Clamp(0, n, high) \in 0..high
  BY DEF TD!Clamp

\* QueryRows gives rows of the table.
LEMMA QueryRowsType ==
  ASSUME NEW list \in Seq(Ids), NEW cursor \in 0..Len(list), NEW count \in Int
  PROVE  TD!QueryRows(cursor, count, list) \in Seq(Ids)
  <1> DEFINE other == TD!Clamp(0, cursor + count, Len(list))
  <1>1. Len(list) \in Nat /\ \A i \in 1..Len(list) : list[i] \in Ids
    BY ElementOfSeq, LenProperties
  <1>2. other \in 0..Len(list)
    <2>1. cursor + count \in Int
      OBVIOUS
    <2>2. QED
      BY <1>1, <2>1, ClampBetween
  <1> HIDE DEF other
  <1>3. SubSeq(list, cursor + 1, other) \in Seq(Ids)
    <2>1. \A i \in (cursor + 1)..other : list[i] \in Ids
      BY <1>1, <1>2
    <2>2. QED
      BY <1>1, <1>2, <2>1, SubSeqProperties
  <1>4. SubSeq(list, other + 1, cursor) \in Seq(Ids)
    <2>1. \A i \in (other + 1)..cursor : list[i] \in Ids
      BY <1>1, <1>2
    <2>2. QED
      BY <1>1, <1>2, <2>1, SubSeqProperties
  <1>5. QED
    BY <1>3, <1>4 DEF TD!QueryRows, other

\* Where the rows of a window begin.
Sought(list, d) == IF TD!seeks(d) THEN TD!FindRow(d.seek, list) ELSE 0
Cursor(list, d) ==
  TD!SeekRow(TD!BookmarkAt(TD!seekBookmark(d), Sought(list, d), list), TD!offset(d), list)

\* A read throws, or gives what QueryRows gives from the row sought on.
LEMMA WindowIsRead ==
  ASSUME NEW list, NEW d \in Directives
  PROVE  \/ WindowOf(list, d) = <<>>
         \/ /\ TD!seeks(d) => d.seek \in TD!ToSet(list)
            /\ WindowOf(list, d) = TD!QueryRows(Cursor(list, d), TD!take(d), list)
  <1> DEFINE sorted == [o \in {"default"} |-> list]
             ordered   == sorted[TD!orderBy(d, "default")]
             found  == IF TD!seeks(d) THEN TD!FindRow(d.seek, ordered) ELSE 0
             start  == TD!BookmarkAt(TD!seekBookmark(d), found, ordered)
             cursor == TD!SeekRow(start, TD!offset(d), ordered)
             reads  == /\ TD!CanResolve(d.columns, TRUE, "columns" \notin {})
                       /\ TD!HasTypes(d.columns)
                       /\ TD!CanResolve(d.orderBy, TRUE, "orderBy" \notin {})
                       /\ TD!HasTypes(d.orderBy)
                       /\ TD!seeks(d) => d.seek \in TD!ToSet(ordered)
             result == [ok      |-> TRUE,
                        alive   |-> TRUE,
                        columns |-> TD!columns(d, <<>>),
                        rows    |-> TD!QueryRows(cursor, TD!take(d), ordered)]
  <1>1. TD!read(d, sorted, TRUE, {}, <<>>, "default") = IF reads THEN result ELSE TD!Failure
    BY Zenon DEF TD!read
  <1>2. ordered = list
    <2>1. TD!Requested(d.orderBy) = <<>>
      BY WindowsAssumption DEF Directives, TD!NoDirectives, TD!Requested
    <2>2. TD!orderBy(d, "default") = "default"
      BY <2>1 DEF TD!orderBy
    <2>3. QED
      BY <2>2
  <1>3. result.rows = TD!QueryRows(cursor, TD!take(d), ordered)
    OBVIOUS
  <1>4. TD!Failure.rows = <<>>
    BY DEF TD!Failure
  <1>5. reads => (TD!seeks(d) => d.seek \in TD!ToSet(ordered))
    OBVIOUS
  <1>6. WindowOf(list, d) = IF reads THEN result.rows ELSE <<>>
    <2> HIDE DEF reads, result
    <2>1. QED
      BY <1>1, <1>4 DEF WindowOf
  <1>7. cursor = Cursor(ordered, d)
    BY DEF Cursor, Sought
  <1> HIDE DEF reads, result, cursor
  <1>8. QED
    BY <1>2, <1>3, <1>5, <1>6, <1>7

\* The window of a table has the table's rows.
LEMMA WindowType ==
  ASSUME NEW list \in Seq(Ids), NEW d \in Directives
  PROVE  WindowOf(list, d) \in Seq(Ids)
  <1>1. TD!offset(d) \in Int /\ TD!take(d) \in Int
    <2>1. d.offset \in Int \cup {Absent} /\ d.take \in Int \cup {Absent}
      BY WindowsAssumption DEF Directives, TD!NoDirectives
    <2>2. PageSize \in Int
      BY BoundAssumption
    <2>3. QED
      BY <2>1, <2>2 DEF TD!offset, TD!take, TD!Clamp
  <1>2. CASE TD!seeks(d) => d.seek \in TD!ToSet(list)
    <2>1. Len(list) \in Nat
      BY LenProperties
    <2>2. Sought(list, d) \in Int
      <3>1. TD!seeks(d) => d.seek \in ToSet(list)
        BY <1>2 DEF TD!ToSet, ToSet
      <3>2. QED
        BY <3>1, RowIsFound DEF Sought
    <2>3. TD!BookmarkAt(TD!seekBookmark(d), Sought(list, d), list) \in Int
      <3>1. TD!seekBookmark(d) \in {"BEGINNING", "CURRENT", "END"}
        BY DEF TD!seekBookmark
      <3>2. QED
        BY <2>1, <2>2, <3>1 DEF TD!BookmarkAt
    <2>4. Cursor(list, d) \in 0..Len(list)
      <3> DEFINE from == TD!BookmarkAt(TD!seekBookmark(d), Sought(list, d), list)
      <3>1. Cursor(list, d) = TD!Clamp(0, from + TD!offset(d), Len(list))
        BY DEF Cursor, TD!SeekRow
      <3> HIDE DEF from
      <3>2. from + TD!offset(d) \in Int
        BY <1>1, <2>3 DEF from
      <3>3. QED
        BY <2>1, <3>1, <3>2, ClampBetween
    <2>5. TD!QueryRows(Cursor(list, d), TD!take(d), list) \in Seq(Ids)
      BY <1>1, <2>4, QueryRowsType
    <2>6. <<>> \in Seq(Ids)
      OBVIOUS
    <2>7. QED
      BY <2>5, <2>6, WindowIsRead, Zenon
  <1>3. CASE ~(TD!seeks(d) => d.seek \in TD!ToSet(list))
    <2>1. WindowOf(list, d) = <<>>
      BY <1>3, WindowIsRead
    <2>2. QED
      BY <2>1
  <1>4. QED
    BY <1>2, <1>3

(***************************************************************************)
(* The inductive invariant.  Only one call is under way.  While it reads   *)
(* and fills, the list is empty or has been dropped, and so is the index;  *)
(* it advises only if nothing is advised.  An object that is gone has no   *)
(* list and no caller.                                                     *)
(***************************************************************************)
Calling == [via : Wrappers \cup {"lookup"}, directives : Directives,
            wanted : Wanted \cup {All} \cup Seq(Ids)]

OneCall == \A t, u \in Callers : t # u => pc[t] = "idle" \/ pc[u] = "idle"

Shape ==
  /\ TypeOK
  /\ call \in [Callers -> Calling]
  /\ OneCall
  /\ pending <= changes
  /\ \A t \in Callers : answer[t] = Failed => pc[t] = "idle"
  /\ \A t \in Callers : pc[t] \in {"read", "fill"} => rows \in {NotLoaded, <<>>} /\ ids = <<>>
  /\ \A t \in Callers : pc[t] = "advise" => connections = 0
  /\ ~alive => rows = NotLoaded /\ \A t \in Callers : pc[t] = "idle"

\* The index is that of the list.
Agrees ==
  (rows # NotLoaded /\ ~Loading) =>
    /\ DOMAIN ids = ToSet(rows)
    /\ \A id \in DOMAIN ids : ids[id] \in DOMAIN rows /\ rows[ids[id]] = id

\* What was read, and what is kept, is the window of the table, unless a
\* callback that drops it is on its way or the table has changed untold.
Current ==
  /\ (rows # NotLoaded /\ ~Loading /\ connections > 0 /\ pending = 0) =>
       untold \/ rows \in {<<>>, WindowOf(table, directives)}
  /\ \A t \in Callers : pc[t] = "fill" =>
       \/ rows = NotLoaded \/ (connections > 0 /\ pending > 0)
       \/ untold \/ rowset[t] = WindowOf(table, directives)
  /\ \A t \in Callers : pc[t] = "advise" =>
       untold \/ rows \in {NotLoaded, WindowOf(table, directives)}

(***************************************************************************)
(* The actions, as far as the invariant needs them.                        *)
(***************************************************************************)

\* A call begins when no other is under way.
LEMMA CalledAlone ==
  ASSUME OneMutex, Shape, NEW w \in Wrappers \cup {"lookup"}, NEW request \in Calling,
         NEW isLookup \in BOOLEAN, request.via = w, (w = "lookup" /\ isLookup = TRUE) \/ (w # "lookup" /\ isLookup = FALSE),
         Called(request, isLookup)
  PROVE  \A u \in Callers : pc[u] = "idle"
  <1> SUFFICES ASSUME NEW u \in Callers, pc[u] # "idle" PROVE FALSE
    OBVIOUS
  <1>1. call[u].via \in Wrappers \cup {"lookup"}
    BY DEF Shape, Calling
  <1>2. call[u].via # w
    BY DEF Called, Unlocked
  <1>3. IsField(u) # isLookup
    BY DEF Called, OneMutex
  <1>4. IsField(u) <=> (w = "lookup")
    BY <1>1, <1>2, WrappersAssumption DEF OneMutex, IsField
  <1>5. CASE w = "lookup" /\ isLookup = TRUE
    <2>1. IsField(u) # TRUE
      BY <1>3, <1>5
    <2>2. QED
      BY <1>4, <1>5, <2>1 DEF IsField
  <1>6. CASE w # "lookup" /\ isLookup = FALSE
    <2>1. IsField(u) # FALSE
      BY <1>3, <1>6
    <2>2. QED
      BY <1>4, <1>6, <2>1 DEF IsField
  <1>7. QED
    BY <1>5, <1>6

\* An exception ends the call, or the process with the call where it is.
LEMMA Thrown ==
  ASSUME Shape, NEW t \in Callers, Throw(t), crashed = FALSE
  PROVE  /\ pc' = pc \/ pc' = [pc EXCEPT ![t] = "idle"]
         /\ answer' \in [Callers -> {Failed} \cup Seq(Ids \cup {NotFound})]
         /\ \A u \in Callers : answer'[u] = Failed => pc'[u] = "idle"
         /\ crashed' \in BOOLEAN
  <1>1. CASE inner[t] /\ IsField(t)
    BY <1>1 DEF Throw, Crash, Shape, TypeOK
  <1>2. CASE ~(inner[t] /\ IsField(t))
    <2>1. pc' = [pc EXCEPT ![t] = "idle"] /\ answer' = [answer EXCEPT ![t] = Failed] /\ crashed' = crashed
      BY <1>2 DEF Throw, Goto
    <2>2. QED
      BY <2>1 DEF Shape, TypeOK
  <1>3. QED
    BY <1>1, <1>2

\* The list and the index after they were filled.
LEMMA Filled ==
  ASSUME Shape, NEW t \in Callers, FillRows(t), rows # NotLoaded
  PROVE  /\ rows' = rowset[t] /\ rowset[t] \in Seq(Ids)
         /\ DOMAIN ids' = ToSet(rows')
         /\ \A id \in DOMAIN ids' : ids'[id] \in DOMAIN rows' /\ rows'[ids'[id]] = id
  <1>1. rows = <<>> /\ ids = <<>>
    BY DEF FillRows, Running, Shape
  <1>2. rowset[t] \in Seq(Ids)
    BY DEF Shape, TypeOK
  <1>3. rows' = rowset[t]
    <2>1. rows' = <<>> \o rowset[t]
      BY <1>1 DEF FillRows
    <2>2. QED
      BY <1>2, <2>1, ConcatEmptySeq
  <1>4. DOMAIN ids = {} /\ Len(rows) = 0
    BY <1>1
  <1>5. ids' = [id \in DOMAIN ids \cup ToSet(rowset[t]) |->
                  IF id \in DOMAIN ids THEN ids[id] ELSE Len(rows) + PlaceOf(id, rowset[t])]
    BY DEF FillRows
  <1>6. DOMAIN ids' = ToSet(rowset[t])
    BY <1>4, <1>5
  <1>7. \A id \in ToSet(rowset[t]) : ids'[id] = PlaceOf(id, rowset[t])
    <2> TAKE id \in ToSet(rowset[t])
    <2>1. PlaceOf(id, rowset[t]) \in Int
      BY <1>2, PlaceIsRight
    <2>2. QED
      BY <1>4, <1>5, <2>1
  <1>8. QED
    BY <1>2, <1>3, <1>6, <1>7, PlaceIsRight, LenProperties

(***************************************************************************)
(* The shape is kept.                                                      *)
(***************************************************************************)

\* A call begins.
LEMMA CalledShape ==
  ASSUME OneMutex, Shape, NEW request \in Calling, NEW isLookup \in BOOLEAN,
         (request.via = "lookup" /\ isLookup = TRUE) \/ (request.via # "lookup" /\ isLookup = FALSE),
         Called(request, isLookup)
  PROVE  Shape'
  <1>1. \A u \in Callers : pc[u] = "idle"
    BY CalledAlone DEF Calling
  <1>2. PICK t \in Callers :
          /\ pc' = [pc EXCEPT ![t] = "check"]
          /\ call' = [call EXCEPT ![t] = request]
          /\ inner' = [inner EXCEPT ![t] = isLookup]
          /\ answer' = [answer EXCEPT ![t] = <<>>]
    BY DEF Called, Goto
  <1>3. UNCHANGED <<collection, mapiVars, cacheVars, rowset, crashed, alive>> /\ alive
    BY DEF Called
  <1>4. inner' \in [Callers -> BOOLEAN]
    BY <1>2 DEF Shape, TypeOK
  <1>5. pc' \in [Callers -> {"idle", "check", "read", "fill", "advise", "use"}]
    BY <1>2 DEF Shape, TypeOK
  <1>6. answer' \in [Callers -> {Failed} \cup Seq(Ids \cup {NotFound})]
    <2>1. <<>> \in Seq(Ids \cup {NotFound})
      OBVIOUS
    <2>2. QED
      BY <1>2, <2>1 DEF Shape, TypeOK
  <1>7. TypeOK'
    BY <1>3, <1>4, <1>5, <1>6 DEF Shape, TypeOK, mapiVars, cacheVars
  <1>8. call' \in [Callers -> Calling]
    BY <1>2 DEF Shape
  <1>9. \A u \in Callers : pc'[u] # "idle" => u = t /\ pc'[u] = "check"
    BY <1>1, <1>2 DEF Shape, TypeOK
  <1>10. \A u \in Callers : answer'[u] = Failed => u # t
    <2>1. Failed # <<>>
      BY MarksAssumption, EmptySeq
    <2>2. answer'[t] = <<>>
      BY <1>2 DEF Shape, TypeOK
    <2>3. QED
      BY <2>1, <2>2
  <1>11. QED
    BY <1>3, <1>7, <1>8, <1>9, <1>10 DEF Shape, OneCall, mapiVars

\* A caller moves, and no other.
LEMMA Moved ==
  ASSUME Shape, NEW t \in Callers, NEW at, pc' = [pc EXCEPT ![t] = at]
  PROVE  pc'[t] = at /\ \A u \in Callers \ {t} : pc'[u] = pc[u]
  BY DEF Shape, TypeOK

\* A call goes on: whatever it does, the others stay idle.
LEMMA StepShape ==
  ASSUME Shape, NEW t \in Callers, pc[t] # "idle"
  PROVE  alive /\ \A u \in Callers \ {t} : pc[u] = "idle"
  BY DEF Shape, OneCall

LEMMA CheckShape ==
  ASSUME Shape, NEW t \in Callers, CheckLoaded(t)
  PROVE  Shape'
  <1>1. pc[t] = "check" /\ alive /\ \A u \in Callers \ {t} : pc[u] = "idle"
    BY StepShape DEF CheckLoaded, Running
  <1>2. UNCHANGED <<collection, mapiVars, call, inner, rowset, answer, crashed, alive>>
    BY DEF CheckLoaded
  <1>3. directives' \in Directives
    BY DEF CheckLoaded, LoadDirectives, Shape, Calling, Directives
  <1>4. \/ pc' = [pc EXCEPT ![t] = "use"] /\ rows' = rows /\ ids' = ids
        \/ pc' = [pc EXCEPT ![t] = "read"] /\ rows' = <<>> /\ ids' = <<>>
    BY DEF CheckLoaded, Goto
  <1>5. rows' = NotLoaded \/ rows' \in Seq(Ids)
    BY <1>4, EmptySeq DEF Shape, TypeOK
  <1>6. DOMAIN ids' \subseteq Ids /\ \A id \in DOMAIN ids' : ids'[id] \in Nat
    BY <1>4 DEF Shape, TypeOK
  <1>7. pc' \in [Callers -> {"idle", "check", "read", "fill", "advise", "use"}]
    BY <1>4 DEF Shape, TypeOK
  <1>8. TypeOK'
    BY <1>2, <1>3, <1>5, <1>6, <1>7 DEF Shape, TypeOK, mapiVars, Directives
  <1>9. \A u \in Callers : u # t => pc'[u] = "idle"
    BY <1>1, <1>4 DEF Shape, TypeOK
  <1>10. pc'[t] = "use" \/ (pc'[t] = "read" /\ rows' = <<>> /\ ids' = <<>>)
    <2>1. pc' = [pc EXCEPT ![t] = "use"] => pc'[t] = "use"
      BY Moved
    <2>2. pc' = [pc EXCEPT ![t] = "read"] => pc'[t] = "read"
      BY Moved
    <2>3. QED
      BY <1>4, <2>1, <2>2
  <1>11. \A u \in Callers : answer'[u] = Failed => pc'[u] = "idle"
    BY <1>1, <1>2, <1>9 DEF Shape
  <1>12. QED
    BY <1>1, <1>2, <1>8, <1>9, <1>10, <1>11 DEF Shape, OneCall, mapiVars

LEMMA ReadShape ==
  ASSUME Shape, NEW t \in Callers, ReadRows(t)
  PROVE  Shape'
  <1>1. pc[t] = "read" /\ crashed = FALSE /\ alive /\ \A u \in Callers \ {t} : pc[u] = "idle"
    BY StepShape DEF ReadRows, Running, Shape, TypeOK
  <1>2. /\ UNCHANGED <<collection, table, changes, pending, connections, cacheVars, call, inner,
                       alive>>
        /\ untold' \in BOOLEAN
    BY DEF ReadRows, Shape, TypeOK
  <1>3. rows \in {NotLoaded, <<>>} /\ ids = <<>>
    BY <1>1 DEF Shape
  <1>4. /\ rowset' \in [Callers -> Seq(Ids)]
        /\ answer' \in [Callers -> {Failed} \cup Seq(Ids \cup {NotFound})]
        /\ \A u \in Callers : answer'[u] = Failed => pc'[u] = "idle"
        /\ crashed' \in BOOLEAN
        /\ \A u \in Callers \ {t} : pc'[u] = "idle"
        /\ pc' \in [Callers -> {"idle", "read", "fill"}]
    <2>1. CASE /\ rowset' = [rowset EXCEPT ![t] = Window(directives)]
               /\ Goto(t, "fill") /\ UNCHANGED <<answer, crashed>>
      <3>1. Window(directives) = WindowOf(table, directives)
        BY DEF Window, ReadWith, WindowOf
      <3>2. Window(directives) \in Seq(Ids)
        BY <3>1, WindowType DEF Shape, TypeOK, Directives
      <3>3. pc' = [pc EXCEPT ![t] = "fill"] /\ answer' = answer /\ crashed' = crashed
        BY <2>1 DEF Goto
      <3>4. rowset' \in [Callers -> Seq(Ids)]
        BY <2>1, <3>2 DEF Shape, TypeOK
      <3>5. pc' \in [Callers -> {"idle", "read", "fill"}] /\ \A u \in Callers \ {t} : pc'[u] = "idle"
        BY <1>1, <3>3 DEF Shape, TypeOK
      <3>6. \A u \in Callers : answer'[u] = Failed => pc'[u] = "idle"
        BY <1>1, <3>3, <3>5 DEF Shape
      <3>7. QED
        BY <3>3, <3>4, <3>5, <3>6 DEF Shape, TypeOK
    <2>2. CASE Throw(t) /\ UNCHANGED rowset
      <3>1. \/ pc' = pc
            \/ pc' = [pc EXCEPT ![t] = "idle"]
        BY <1>1, <2>2, Thrown
      <3>2. pc' \in [Callers -> {"idle", "read", "fill"}] /\ \A u \in Callers \ {t} : pc'[u] = "idle"
        BY <1>1, <3>1 DEF Shape, TypeOK
      <3>3. /\ answer' \in [Callers -> {Failed} \cup Seq(Ids \cup {NotFound})]
            /\ \A u \in Callers : answer'[u] = Failed => pc'[u] = "idle"
            /\ crashed' \in BOOLEAN
        BY <1>1, <2>2, Thrown
      <3>4. QED
        BY <2>2, <3>2, <3>3 DEF Shape, TypeOK
    <2>3. QED
      BY <2>1, <2>2 DEF ReadRows
  <1>5. TypeOK'
    BY <1>2, <1>4 DEF Shape, TypeOK, cacheVars
  <1>6. QED
    BY <1>1, <1>2, <1>3, <1>4, <1>5 DEF Shape, OneCall, cacheVars

LEMMA FillShape ==
  ASSUME Shape, NEW t \in Callers, FillRows(t)
  PROVE  Shape'
  <1>1. pc[t] = "fill" /\ alive /\ \A u \in Callers \ {t} : pc[u] = "idle"
    BY StepShape DEF FillRows, Running
  <1>2. UNCHANGED <<collection, mapiVars, directives, call, inner, rowset, alive>>
    BY DEF FillRows
  <1>3. CASE rows = NotLoaded
    <2>1. UNCHANGED <<rows, ids, pc, answer>> /\ crashed' = TRUE
      BY <1>3 DEF FillRows, Crash
    <2>2. QED
      BY <1>2, <2>1 DEF Shape, TypeOK, OneCall, mapiVars
  <1>4. CASE rows # NotLoaded
    <2>1. /\ rows' = rowset[t] /\ rowset[t] \in Seq(Ids)
          /\ DOMAIN ids' = ToSet(rows')
          /\ \A id \in DOMAIN ids' : ids'[id] \in DOMAIN rows' /\ rows'[ids'[id]] = id
      BY <1>4, Filled
    <2>2. DOMAIN ids' \subseteq Ids /\ \A id \in DOMAIN ids' : ids'[id] \in Nat
      BY <2>1, ElementOfSeq, LenProperties DEF ToSet
    <2>3. /\ pc' = [pc EXCEPT ![t] = IF connections = 0 THEN "advise" ELSE "use"]
          /\ answer' = answer /\ crashed' = crashed
      BY <1>4 DEF FillRows, Goto
    <2>4. pc' \in [Callers -> {"idle", "advise", "use"}] /\ \A u \in Callers \ {t} : pc'[u] = "idle"
      BY <1>1, <2>3 DEF Shape, TypeOK
    <2>5. pc'[t] = "advise" => connections = 0
      BY <2>3 DEF Shape, TypeOK
    <2>6. \A u \in Callers : answer'[u] = Failed => pc'[u] = "idle"
      BY <1>1, <2>3, <2>4 DEF Shape
    <2>7. TypeOK'
      BY <1>2, <2>1, <2>2, <2>3, <2>4 DEF Shape, TypeOK, mapiVars
    <2>8. QED
      BY <1>1, <1>2, <2>4, <2>5, <2>6, <2>7 DEF Shape, OneCall, mapiVars
  <1>5. QED
    BY <1>3, <1>4

LEMMA AdviseShape ==
  ASSUME Shape, NEW t \in Callers, AdviseSink(t)
  PROVE  Shape'
  <1>1. pc[t] = "advise" /\ crashed = FALSE /\ alive /\ \A u \in Callers \ {t} : pc[u] = "idle"
    BY StepShape DEF AdviseSink, Running, Shape, TypeOK
  <1>2. UNCHANGED <<collection, table, changes, pending, untold, cacheVars, call, inner, rowset,
                   alive>>
    BY DEF AdviseSink
  <1>3. connections = 0
    BY <1>1 DEF Shape
  <1>4. CASE connections' = connections + 1 /\ Goto(t, "use") /\ UNCHANGED <<answer, crashed>>
    <2>1. pc' = [pc EXCEPT ![t] = "use"] /\ connections' = 1 /\ answer' = answer /\ crashed' = crashed
      BY <1>3, <1>4 DEF Goto
    <2>2. pc' \in [Callers -> {"idle", "use"}] /\ \A u \in Callers \ {t} : pc'[u] = "idle"
      BY <1>1, <2>1 DEF Shape, TypeOK
    <2>3. \A u \in Callers : answer'[u] = Failed => pc'[u] = "idle"
      BY <1>1, <2>1, <2>2 DEF Shape
    <2>4. TypeOK'
      BY <1>2, <2>1, <2>2 DEF Shape, TypeOK, cacheVars
    <2>5. QED
      BY <1>1, <1>2, <2>2, <2>3, <2>4 DEF Shape, OneCall, cacheVars
  <1>5. CASE Throw(t) /\ UNCHANGED connections
    <2>1. \/ pc' = pc
          \/ pc' = [pc EXCEPT ![t] = "idle"]
      BY <1>1, <1>5, Thrown
    <2>2. pc' \in [Callers -> {"idle", "advise"}] /\ \A u \in Callers \ {t} : pc'[u] = "idle"
      BY <1>1, <2>1 DEF Shape, TypeOK
    <2>3. /\ answer' \in [Callers -> {Failed} \cup Seq(Ids \cup {NotFound})]
          /\ \A u \in Callers : answer'[u] = Failed => pc'[u] = "idle"
          /\ crashed' \in BOOLEAN
      BY <1>1, <1>5, Thrown
    <2>4. TypeOK'
      BY <1>2, <1>5, <2>2, <2>3 DEF Shape, TypeOK, cacheVars
    <2>5. QED
      BY <1>1, <1>2, <1>3, <1>5, <2>2, <2>3, <2>4 DEF Shape, OneCall, cacheVars
  <1>6. QED
    BY <1>4, <1>5 DEF AdviseSink

\* A caller uses the list, which stays as it is.
LEMMA UseShape ==
  ASSUME Shape, NEW t \in Callers, pc[t] = "use",
         UNCHANGED <<collection, mapiVars, cacheVars, call, rowset, alive>>,
         NEW at \in {"idle", "check", "use"}, pc' = [pc EXCEPT ![t] = at],
         inner' \in [Callers -> BOOLEAN], crashed' \in BOOLEAN,
         answer' \in [Callers -> {Failed} \cup Seq(Ids \cup {NotFound})],
         answer'[t] = Failed => at = "idle"
  PROVE  Shape'
  <1>1. alive /\ \A u \in Callers \ {t} : pc[u] = "idle"
    BY StepShape
  <1>2. pc' \in [Callers -> {"idle", "check", "use"}]
    BY <1>1 DEF Shape, TypeOK
  <1>3. pc'[t] = at /\ \A u \in Callers \ {t} : pc'[u] = "idle"
    BY <1>1 DEF Shape, TypeOK
  <1>4. TypeOK'
    BY <1>2 DEF Shape, TypeOK, mapiVars, cacheVars
  <1>5. QED
    BY <1>1, <1>2, <1>3, <1>4 DEF Shape, OneCall, mapiVars, cacheVars

LEMMA CloneShape ==
  ASSUME Shape, NEW t \in Callers, CloneRows(t)
  PROVE  Shape'
  <1>1. pc[t] = "use" /\ UNCHANGED <<collection, mapiVars, cacheVars, call, inner, rowset, alive>>
    BY DEF CloneRows, Running
  <1>2. inner' \in [Callers -> BOOLEAN] /\ answer[t] # Failed
    BY <1>1 DEF Shape, TypeOK
  <1>3. CASE rows = NotLoaded
    <2>1. pc' = pc /\ answer' = answer /\ crashed' = TRUE
      BY <1>3 DEF CloneRows, Crash
    <2>2. pc' = [pc EXCEPT ![t] = "use"]
      BY <1>1, <2>1 DEF Shape, TypeOK
    <2>3. answer' \in [Callers -> {Failed} \cup Seq(Ids \cup {NotFound})]
      BY <2>1 DEF Shape, TypeOK
    <2>4. QED
      BY <1>1, <1>2, <2>1, <2>2, <2>3, UseShape
  <1>4. CASE rows # NotLoaded
    <2>1. /\ pc' = [pc EXCEPT ![t] = "idle"] /\ crashed' = crashed
          /\ answer' = [answer EXCEPT ![t] = rows]
      BY <1>4 DEF CloneRows, Goto
    <2>2. rows \in Seq(Ids \cup {NotFound})
      <3>1. rows \in Seq(Ids)
        BY <1>4 DEF Shape, TypeOK
      <3>2. QED
        BY <3>1
    <2>3. answer' \in [Callers -> {Failed} \cup Seq(Ids \cup {NotFound})] /\ crashed' \in BOOLEAN
      BY <2>1, <2>2 DEF Shape, TypeOK
    <2>4. QED
      BY <1>1, <1>2, <2>1, <2>3, UseShape
  <1>5. QED
    BY <1>3, <1>4

LEMMA BeginLookupsShape ==
  ASSUME Shape, NEW t \in Callers, BeginLookups(t)
  PROVE  Shape'
  <1>1. /\ pc[t] = "use" /\ pc' = [pc EXCEPT ![t] = "check"]
        /\ inner' = [inner EXCEPT ![t] = TRUE]
        /\ UNCHANGED <<collection, mapiVars, cacheVars, call, rowset, answer, crashed, alive>>
    BY DEF BeginLookups, Running, Goto
  <1>2. inner' \in [Callers -> BOOLEAN]
    BY <1>1 DEF Shape, TypeOK
  <1>3. /\ answer' \in [Callers -> {Failed} \cup Seq(Ids \cup {NotFound})]
        /\ crashed' \in BOOLEAN /\ answer'[t] # Failed
    BY <1>1 DEF Shape, TypeOK
  <1>4. QED
    BY <1>1, <1>2, <1>3, UseShape

LEMMA FindRowShape ==
  ASSUME Shape, NEW t \in Callers, FindRow(t)
  PROVE  Shape'
  <1> DEFINE id == NextId(t)
             Found(row) ==
               /\ answer' = [answer EXCEPT ![t] = Append(@, row)]
               /\ Goto(t, IF Len(answer[t]) + 1 = Len(call[t].wanted) THEN "idle" ELSE "check")
               /\ UNCHANGED crashed
  <1>1. /\ pc[t] = "use" /\ crashed = FALSE
        /\ UNCHANGED <<collection, mapiVars, cacheVars, call, inner, rowset, alive>>
    BY DEF FindRow, Running, Shape, TypeOK
  <1>2. inner' \in [Callers -> BOOLEAN]
    BY <1>1 DEF Shape, TypeOK
  <1>3. answer[t] \in Seq(Ids \cup {NotFound})
    BY <1>1 DEF Shape, TypeOK
  <1>4. ASSUME NEW row \in Ids \cup {NotFound}, Found(row)
        PROVE  Shape'
    <2>1. Append(answer[t], row) \in Seq(Ids \cup {NotFound})
      BY <1>3, AppendProperties
    <2>2. answer' = [answer EXCEPT ![t] = Append(answer[t], row)] /\ crashed' = crashed
      BY <1>4
    <2>3. /\ answer' \in [Callers -> {Failed} \cup Seq(Ids \cup {NotFound})]
          /\ answer'[t] \in Seq(Ids \cup {NotFound})
      BY <2>1, <2>2 DEF Shape, TypeOK
    <2>4. crashed' \in BOOLEAN
      BY <2>2 DEF Shape, TypeOK
    <2>5. \E at \in {"idle", "check"} : pc' = [pc EXCEPT ![t] = at]
      BY <1>4 DEF Goto
    <2>6. answer'[t] # Failed
      BY <2>3, MarksAssumption
    <2>7. QED
      BY <1>1, <1>2, <2>3, <2>4, <2>5, <2>6, UseShape
  <1>5. CASE Crash
    <2>1. pc' = pc /\ answer' = answer /\ crashed' = TRUE
      BY <1>5 DEF Crash
    <2>2. pc' = [pc EXCEPT ![t] = "use"]
      BY <1>1, <2>1 DEF Shape, TypeOK
    <2>3. answer' \in [Callers -> {Failed} \cup Seq(Ids \cup {NotFound})] /\ answer'[t] # Failed
      BY <1>1, <2>1 DEF Shape, TypeOK
    <2>4. QED
      BY <1>1, <1>2, <2>1, <2>2, <2>3, UseShape
  <1>6. CASE Throw(t)
    <2>1. /\ answer' \in [Callers -> {Failed} \cup Seq(Ids \cup {NotFound})]
          /\ \A u \in Callers : answer'[u] = Failed => pc'[u] = "idle"
          /\ crashed' \in BOOLEAN
      BY <1>1, <1>6, Thrown
    <2>2. \E at \in {"idle", "use"} : pc' = [pc EXCEPT ![t] = at]
      <3>1. \/ pc' = pc
            \/ pc' = [pc EXCEPT ![t] = "idle"]
        BY <1>1, <1>6, Thrown
      <3>2. pc = [pc EXCEPT ![t] = "use"]
        BY <1>1 DEF Shape, TypeOK
      <3>3. QED
        BY <3>1, <3>2
    <2>3. PICK at \in {"idle", "use"} : pc' = [pc EXCEPT ![t] = at]
      BY <2>2
    <2>4. answer'[t] = Failed => at = "idle"
      BY <2>1, <2>3, Moved
    <2>5. QED
      BY <1>1, <1>2, <2>1, <2>3, <2>4, UseShape
  <1>7. CASE rows = NotLoaded
    BY <1>4, <1>5, <1>7 DEF FindRow
  <1>8. CASE rows # NotLoaded
    <2>1. rows \in Seq(Ids)
      BY <1>8 DEF Shape, TypeOK
    <2>2. ids[id] \in DOMAIN rows => rows[ids[id]] \in Ids
      BY <2>1, ElementOfSeq, LenProperties
    <2>3. \/ Found(NotFound)
          \/ (ids[id] \in DOMAIN rows /\ Found(rows[ids[id]]))
          \/ Throw(t)
      BY <1>8, Zenon DEF FindRow
    <2> HIDE DEF Found
    <2>4. QED
      BY <1>4, <1>6, <2>2, <2>3
  <1>9. QED
    BY <1>7, <1>8

\* The table and the callback leave the calls alone.
LEMMA TableShape ==
  ASSUME Shape, TableChange
  PROVE  Shape'
  <1>1. UNCHANGED <<collection, connections, cacheVars, callVars, crashed, alive>>
    BY DEF TableChange
  <1>2. table' \in Seq(Ids)
    <2>1. table \in Seq(Ids)
      BY DEF Shape, TypeOK
    <2>2. Len(table) \in Nat /\ \A i \in 1..Len(table) : table[i] \in Ids
      BY <2>1, LenProperties, ElementOfSeq
    <2>3. \A i \in 1..(Len(table) + 1) : SubSeq(table, 1, i - 1) \in Seq(Ids) /\ SubSeq(table, i, Len(table)) \in Seq(Ids)
      <3> TAKE i \in 1..(Len(table) + 1)
      <3>1. i \in Int /\ i - 1 \in Int /\ \A j \in 1..(i - 1) : j \in 1..Len(table)
        BY <2>2
      <3>2. \A j \in i..Len(table) : j \in 1..Len(table)
        BY <2>2
      <3>3. \A j \in 1..(i - 1) : table[j] \in Ids
        BY <2>2, <3>1
      <3>4. \A j \in i..Len(table) : table[j] \in Ids
        BY <2>2, <3>2
      <3>5. SubSeq(table, 1, i - 1) \in Seq(Ids)
        BY <3>1, <3>3, SubSeqProperties
      <3>6. SubSeq(table, i, Len(table)) \in Seq(Ids)
        BY <2>2, <3>1, <3>4, SubSeqProperties
      <3>7. QED
        BY <3>5, <3>6
    <2>4. ASSUME NEW id \in Ids, NEW i \in 1..(Len(table) + 1), table' = InsertAt(table, i, id)
          PROVE  table' \in Seq(Ids)
      <3>1. <<id>> \in Seq(Ids)
        OBVIOUS
      <3>2. SubSeq(table, 1, i - 1) \o <<id>> \in Seq(Ids)
        BY <2>3, <3>1, ConcatProperties
      <3>3. QED
        BY <2>3, <2>4, <3>2, ConcatProperties DEF InsertAt
    <2>5. ASSUME NEW i \in DOMAIN table, table' = RemoveAt(table, i)
          PROVE  table' \in Seq(Ids)
      <3>1. i \in 1..(Len(table) + 1) /\ i + 1 \in 1..(Len(table) + 1)
        BY <2>1, <2>2, LenProperties
      <3>2. SubSeq(table, 1, i - 1) \in Seq(Ids)
        BY <2>3, <3>1
      <3>3. SubSeq(table, i + 1, Len(table)) \in Seq(Ids)
        BY <2>3, <3>1
      <3>4. QED
        BY <2>5, <3>2, <3>3, ConcatProperties DEF RemoveAt
    <2>6. QED
      BY <2>4, <2>5 DEF TableChange
  <1>3. changes' \in 0..MaxChanges /\ pending' \in 0..MaxChanges /\ pending' <= changes'
    <2>1. changes \in 0..MaxChanges /\ pending \in 0..MaxChanges /\ pending <= changes
      BY DEF Shape, TypeOK
    <2>2. changes < MaxChanges /\ changes' = changes + 1 /\ pending' \in {pending, pending + 1}
      BY DEF TableChange
    <2>3. QED
      BY <2>1, <2>2, BoundAssumption
  <1>4. untold' \in BOOLEAN
    <2>1. untold' = (untold \/ connections = 0)
      BY DEF TableChange
    <2>2. QED
      BY <2>1, Zenon
  <1>5. TypeOK'
    BY <1>1, <1>2, <1>3, <1>4 DEF Shape, TypeOK, cacheVars, callVars
  <1>6. QED
    BY <1>1, <1>3, <1>5 DEF Shape, OneCall, cacheVars, callVars

LEMMA NotifyShape ==
  ASSUME Shape, OnNotify
  PROVE  Shape'
  <1>1. /\ pending' = 0 /\ rows' \in {rows, NotLoaded}
        /\ UNCHANGED <<collection, table, changes, connections, untold, ids, directives, callVars, crashed, alive>>
    BY DEF OnNotify
  <1>2. pending' \in 0..MaxChanges /\ pending' <= changes'
    BY <1>1, BoundAssumption DEF Shape, TypeOK
  <1>3. TypeOK'
    BY <1>1, <1>2 DEF Shape, TypeOK, callVars
  <1>4. QED
    BY <1>1, <1>2, <1>3 DEF Shape, OneCall, callVars

LEMMA ReleaseShape ==
  ASSUME Shape, Release
  PROVE  Shape'
  <1>1. /\ alive' = FALSE /\ rows' = NotLoaded /\ connections' \in {connections, 0}
        /\ \A u \in Callers : pc[u] = "idle"
        /\ UNCHANGED <<collection, table, changes, pending, untold, ids, directives, callVars, crashed>>
    BY DEF Release
  <1>2. connections' \in 0..1 /\ alive' \in BOOLEAN
    <2>1. connections' \in 0..1
      BY <1>1 DEF Shape, TypeOK
    <2>2. alive' \in BOOLEAN
      BY <1>1, Zenon
    <2>3. QED
      BY <2>1, <2>2
  <1>3. TypeOK'
    BY <1>1, <1>2 DEF Shape, TypeOK, callVars
  <1>4. QED
    BY <1>1, <1>3 DEF Shape, OneCall, callVars

\* Every step keeps the shape.
LEMMA NextShape ==
  ASSUME OneMutex, Shape, [Next]_vars
  PROVE  Shape'
  <1>1. ASSUME NEW w \in Wrappers, GetField(w) PROVE Shape'
    <2>1. PICK d \in Windows, wanted \in Wanted \cup {All} : Called(FieldOf(w, d, wanted), FALSE)
      BY <1>1 DEF GetField
    <2>2. FieldOf(w, d, wanted) \in Calling /\ FieldOf(w, d, wanted).via # "lookup"
      BY WrappersAssumption DEF FieldOf, Calling, Directives
    <2>3. QED
      BY <2>1, <2>2, CalledShape
  <1>2. CASE lookup
    <2>1. PICK id \in Ids : Called(LookupOf(<<id>>), TRUE)
      BY <1>2 DEF lookup
    <2>2. <<id>> \in Seq(Ids)
      OBVIOUS
    <2>3. LookupOf(<<id>>) \in Calling /\ LookupOf(<<id>>).via = "lookup"
      BY <2>2 DEF LookupOf, Calling, Directives
    <2>4. QED
      BY <2>1, <2>3, CalledShape
  <1>3. ASSUME NEW t \in Callers, Load(t) PROVE Shape'
    BY <1>3, CheckShape, ReadShape, FillShape, AdviseShape DEF Load
  <1>4. ASSUME NEW t \in Callers, CloneRows(t) \/ BeginLookups(t) \/ FindRow(t) PROVE Shape'
    BY <1>4, CloneShape, BeginLookupsShape, FindRowShape
  <1>5. CASE TableChange \/ OnNotify \/ Release
    BY <1>5, TableShape, NotifyShape, ReleaseShape
  <1>6. CASE UNCHANGED vars
    BY <1>6 DEF vars, Shape, TypeOK, OneCall, mapiVars, cacheVars, callVars
  <1>7. QED
    BY <1>1, <1>2, <1>3, <1>4, <1>5, <1>6
    DEF Next, resolveStores, resolveRootFolders, resolveSubFolders, resolveItems,
        getStores, getRootFolders, getSubFolders, getItems,
        LoadStores, LoadRootFolders, LoadSubFolders, LoadItems

(***************************************************************************)
(* The index stays that of the list, and the list the window.              *)
(***************************************************************************)

\* A step that leaves list, index and loading alone.
LEMMA KeptAgrees ==
  ASSUME Shape, Agrees, UNCHANGED <<rows, ids>>,
         \A t \in Callers : pc[t] \in {"read", "fill"} => pc'[t] = pc[t]
  PROVE  Agrees'
  BY DEF Agrees, Loading

LEMMA NextAgrees ==
  ASSUME Shape, Agrees, Shape', [Next]_vars
  PROVE  Agrees'
  <1>1. ASSUME NEW request, NEW isLookup, Called(request, isLookup) PROVE Agrees'
    <2>1. PICK t \in Callers : pc[t] = "idle" /\ pc' = [pc EXCEPT ![t] = "check"]
      BY <1>1 DEF Called, Goto
    <2>2. UNCHANGED <<rows, ids>>
      BY <1>1 DEF Called, cacheVars
    <2>3. \A u \in Callers : pc[u] \in {"read", "fill"} => pc'[u] = pc[u]
      BY <2>1 DEF Shape, TypeOK
    <2>4. QED
      BY <2>2, <2>3, KeptAgrees
  <1>2. ASSUME NEW t \in Callers, CheckLoaded(t) PROVE Agrees'
    <2>1. CASE pc' = [pc EXCEPT ![t] = "use"] /\ UNCHANGED <<rows, ids>>
      <3>1. \A u \in Callers : pc[u] \in {"read", "fill"} => pc'[u] = pc[u]
        BY <1>2, <2>1 DEF CheckLoaded, Running, Shape, TypeOK
      <3>2. QED
        BY <2>1, <3>1, KeptAgrees
    <2>2. CASE pc' = [pc EXCEPT ![t] = "read"]
      <3>1. pc'[t] = "read"
        BY <2>2 DEF Shape, TypeOK
      <3>2. QED
        BY <3>1 DEF Agrees, Loading
    <2>3. QED
      BY <1>2, <2>1, <2>2 DEF CheckLoaded, Goto
  <1>3. ASSUME NEW t \in Callers, ReadRows(t) PROVE Agrees'
    <2>1. rows' \in {NotLoaded, <<>>} /\ ids' = <<>>
      BY <1>3 DEF ReadRows, Running, Shape, cacheVars
    <2>2. DOMAIN <<>> = {} /\ ToSet(<<>>) = {}
      BY DEF ToSet
    <2>3. QED
      BY <2>1, <2>2 DEF Agrees
  <1>4. ASSUME NEW t \in Callers, FillRows(t) PROVE Agrees'
    <2>1. CASE rows = NotLoaded
      BY <1>4, <2>1 DEF FillRows, Agrees
    <2>2. CASE rows # NotLoaded
      BY <1>4, <2>2, Filled DEF Agrees
    <2>3. QED
      BY <2>1, <2>2
  <1>5. ASSUME NEW t \in Callers, AdviseSink(t) \/ CloneRows(t) \/ BeginLookups(t) \/ FindRow(t)
        PROVE Agrees'
    <2>1. UNCHANGED <<rows, ids>>
      BY <1>5 DEF AdviseSink, CloneRows, BeginLookups, FindRow, cacheVars
    <2>2. \A u \in Callers : pc[u] \in {"read", "fill"} => u # t
      BY <1>5 DEF AdviseSink, CloneRows, BeginLookups, FindRow, Running
    <2>3. pc' = pc \/ \E at : pc' = [pc EXCEPT ![t] = at]
      BY <1>5 DEF AdviseSink, CloneRows, BeginLookups, FindRow, Throw, Crash, Goto
    <2>4. \A u \in Callers : u # t => pc'[u] = pc[u]
      BY <2>3 DEF Shape, TypeOK
    <2>5. QED
      BY <2>1, <2>2, <2>4, KeptAgrees
  <1>6. CASE TableChange
    BY <1>6, KeptAgrees DEF TableChange, cacheVars, callVars
  <1>7. CASE OnNotify
    <2>1. (rows' = NotLoaded \/ rows' = rows) /\ ids' = ids /\ pc' = pc
      BY <1>7 DEF OnNotify, callVars
    <2>2. QED
      BY <2>1 DEF Agrees, Loading
  <1>8. CASE Release
    BY <1>8 DEF Release, Agrees
  <1>9. CASE UNCHANGED vars
    BY <1>9, KeptAgrees DEF vars, cacheVars, callVars
  <1>10. QED
    BY <1>1, <1>2, <1>3, <1>4, <1>5, <1>6, <1>7, <1>8, <1>9
    DEF Next, resolveStores, resolveRootFolders, resolveSubFolders, resolveItems,
        getStores, getRootFolders, getSubFolders, getItems, GetField, lookup,
        LoadStores, LoadRootFolders, LoadSubFolders, LoadItems, Load

\* A step that leaves the table, the list and what was read alone.
LEMMA KeptCurrent ==
  ASSUME Shape, Current, UNCHANGED <<table, pending, connections, untold, rows, directives, rowset>>,
         \A t \in Callers : pc[t] \in {"read", "fill"} => pc'[t] = pc[t],
         \A t \in Callers : pc'[t] \in {"fill", "advise"} => pc[t] = pc'[t]
  PROVE  Current'
  BY DEF Current, Loading

LEMMA NextCurrent ==
  ASSUME Shape, Current, Shape', [Next]_vars
  PROVE  Current'
  <1>1. ASSUME NEW request, NEW isLookup, Called(request, isLookup) PROVE Current'
    <2>1. PICK t \in Callers : pc[t] = "idle" /\ pc' = [pc EXCEPT ![t] = "check"]
      BY <1>1 DEF Called, Goto
    <2>2. UNCHANGED <<table, pending, connections, untold, rows, directives, rowset>>
      BY <1>1 DEF Called, cacheVars, mapiVars
    <2>3. pc'[t] = "check" /\ \A u \in Callers \ {t} : pc'[u] = pc[u]
      BY <2>1, Moved
    <2>4. QED
      BY <2>1, <2>2, <2>3, KeptCurrent
  <1>2. ASSUME NEW t \in Callers, CheckLoaded(t) PROVE Current'
    <2>1. \A u \in Callers \ {t} : pc[u] = "idle"
      BY <1>2, StepShape DEF CheckLoaded, Running
    <2>2. UNCHANGED <<table, pending, connections, untold, rowset>>
      BY <1>2 DEF CheckLoaded, mapiVars
    <2>3. CASE rows # NotLoaded /\ directives = LoadDirectives(t)
      <3>1. pc' = [pc EXCEPT ![t] = "use"] /\ rows' = rows /\ directives' = directives
        BY <1>2, <2>3 DEF CheckLoaded, Goto
      <3>2. pc'[t] = "use" /\ \A u \in Callers \ {t} : pc'[u] = pc[u]
        BY <3>1, Moved
      <3>3. pc[t] = "check"
        BY <1>2 DEF CheckLoaded, Running
      <3>4. QED
        BY <2>2, <3>1, <3>2, <3>3, <2>1, KeptCurrent
    <2>4. CASE ~(rows # NotLoaded /\ directives = LoadDirectives(t))
      <3>1. pc' = [pc EXCEPT ![t] = "read"] /\ rows' = <<>>
        BY <1>2, <2>4 DEF CheckLoaded, Goto
      <3>2. pc'[t] = "read" /\ \A u \in Callers \ {t} : pc'[u] = "idle"
        BY <2>1, <3>1, Moved
      <3>3. QED
        BY <3>1, <3>2 DEF Current
    <2>5. QED
      BY <2>3, <2>4
  <1>3. ASSUME NEW t \in Callers, ReadRows(t) PROVE Current'
    <2>1. pc[t] = "read" /\ crashed = FALSE /\ \A u \in Callers \ {t} : pc[u] = "idle"
      BY <1>3, StepShape DEF ReadRows, Running, Shape, TypeOK
    <2>2. UNCHANGED <<table, pending, connections, rows, directives>> /\ rows \in {NotLoaded, <<>>}
      BY <1>3, <2>1 DEF ReadRows, cacheVars, Shape
    <2>3. CASE rowset' = [rowset EXCEPT ![t] = Window(directives)] /\ Goto(t, "fill")
      <3>1. Window(directives) = WindowOf(table, directives)
        BY DEF Window, ReadWith, WindowOf
      <3>2. rowset'[t] = WindowOf(table, directives)
        BY <2>3, <3>1 DEF Shape, TypeOK
      <3>3. pc'[t] = "fill" /\ \A u \in Callers \ {t} : pc'[u] = "idle"
        BY <2>1, <2>3, Moved DEF Goto
      <3>4. QED
        BY <2>2, <3>2, <3>3 DEF Current
    <2>4. CASE Throw(t)
      <3>1. \/ pc' = pc
            \/ pc' = [pc EXCEPT ![t] = "idle"]
        BY <2>1, <2>4, Thrown
      <3>2. \A u \in Callers : pc'[u] \in {"idle", "read"}
        BY <2>1, <3>1 DEF Shape, TypeOK
      <3>3. QED
        BY <2>2, <3>2 DEF Current
    <2>5. QED
      BY <1>3, <2>3, <2>4 DEF ReadRows
  <1>4. ASSUME NEW t \in Callers, FillRows(t) PROVE Current'
    <2>1. pc[t] = "fill" /\ \A u \in Callers \ {t} : pc[u] = "idle"
      BY <1>4, StepShape DEF FillRows, Running
    <2>2. UNCHANGED <<table, pending, connections, untold, directives, rowset>>
      BY <1>4 DEF FillRows, mapiVars
    <2>3. CASE rows = NotLoaded
      <3>1. pc' = pc /\ rows' = NotLoaded
        BY <1>4, <2>3 DEF FillRows, Crash
      <3>2. QED
        BY <2>1, <3>1 DEF Current
    <2>4. CASE rows # NotLoaded
      <3>1. rows' = rowset[t]
        BY <1>4, <2>4, Filled
      <3>2. (connections > 0 /\ pending > 0) \/ untold \/ rows' = WindowOf(table, directives)
        BY <2>1, <2>4, <3>1 DEF Current
      <3>3. CASE connections = 0
        <4>1. pc' = [pc EXCEPT ![t] = "advise"]
          BY <1>4, <2>4, <3>3 DEF FillRows, Goto
        <4>2. pc'[t] = "advise" /\ \A u \in Callers \ {t} : pc'[u] = "idle"
          BY <2>1, <4>1, Moved
        <4>3. untold \/ rows' = WindowOf(table, directives)
          BY <3>2, <3>3
        <4>4. QED
          BY <2>2, <4>2, <4>3 DEF Current
      <3>4. CASE connections # 0
        <4>1. pc' = [pc EXCEPT ![t] = "use"]
          BY <1>4, <2>4, <3>4 DEF FillRows, Goto
        <4>2. pc'[t] = "use" /\ \A u \in Callers \ {t} : pc'[u] = "idle"
          BY <2>1, <4>1, Moved
        <4>3. pending = 0 => untold \/ rows' = WindowOf(table, directives)
          BY <3>2
        <4>4. QED
          BY <2>2, <4>2, <4>3 DEF Current
      <3>5. QED
        BY <3>3, <3>4
    <2>5. QED
      BY <2>3, <2>4
  <1>5. ASSUME NEW t \in Callers, AdviseSink(t) PROVE Current'
    <2>1. pc[t] = "advise" /\ crashed = FALSE /\ \A u \in Callers \ {t} : pc[u] = "idle"
      BY <1>5, StepShape DEF AdviseSink, Running, Shape, TypeOK
    <2>2. UNCHANGED <<table, pending, untold, rows, directives, rowset>>
      BY <1>5 DEF AdviseSink, cacheVars
    <2>3. untold \/ rows \in {NotLoaded, WindowOf(table, directives)}
      BY <2>1 DEF Current
    <2>4. \/ pc' = pc
          \/ \E at \in {"idle", "use"} : pc' = [pc EXCEPT ![t] = at]
      BY <1>5, <2>1, Thrown DEF AdviseSink, Goto
    <2>5. \A u \in Callers : pc'[u] \in {"idle", "use", "advise"}
      BY <2>1, <2>4 DEF Shape, TypeOK
    <2>6. QED
      BY <2>2, <2>3, <2>5 DEF Current
  <1>6. ASSUME NEW t \in Callers, CloneRows(t) \/ BeginLookups(t) \/ FindRow(t) PROVE Current'
    <2>1. pc[t] = "use" /\ \A u \in Callers \ {t} : pc[u] = "idle"
      BY <1>6, StepShape DEF CloneRows, BeginLookups, FindRow, Running
    <2>2. UNCHANGED <<table, pending, connections, untold, rows, directives, rowset>>
      BY <1>6 DEF CloneRows, BeginLookups, FindRow, mapiVars, cacheVars
    <2>3. \/ pc' = pc
          \/ \E at \in {"idle", "check"} : pc' = [pc EXCEPT ![t] = at]
      BY <1>6 DEF CloneRows, BeginLookups, FindRow, Throw, Crash, Goto
    <2>4. \A u \in Callers : pc'[u] \in {"idle", "use", "check"}
      <3>1. CASE pc' = pc
        BY <2>1, <3>1
      <3>2. ASSUME NEW at \in {"idle", "check"}, pc' = [pc EXCEPT ![t] = at]
            PROVE  \A u \in Callers : pc'[u] \in {"idle", "use", "check"}
        BY <2>1, <3>2 DEF Shape, TypeOK
      <3>3. QED
        BY <2>3, <3>1, <3>2
    <2>5. \A u \in Callers : pc[u] \notin {"read", "fill"} /\ pc'[u] \notin {"fill", "advise"}
      BY <2>1, <2>4
    <2>6. QED
      BY <2>2, <2>5, KeptCurrent
  <1>7. CASE TableChange
    <2>1. UNCHANGED <<connections, rows, directives, rowset, pc>>
      BY <1>7 DEF TableChange, cacheVars, callVars
    <2>2. CASE connections > 0
      <3>1. pending' > 0
        BY <1>7, <2>2 DEF TableChange, Shape, TypeOK
      <3>2. \A t \in Callers : pc'[t] # "advise"
        BY <2>1, <2>2 DEF Shape
      <3>3. QED
        BY <2>1, <2>2, <3>1, <3>2 DEF Current
    <2>3. CASE ~(connections > 0)
      <3>1. untold'
        <4>1. connections = 0
          BY <2>3 DEF Shape, TypeOK
        <4>2. QED
          BY <1>7, <4>1, Zenon DEF TableChange
      <3>2. QED
        BY <2>1, <2>3, <3>1 DEF Current
    <2>4. QED
      BY <2>2, <2>3
  <1>8. CASE OnNotify
    <2>1. UNCHANGED <<table, connections, directives, rowset, pc>>
      BY <1>8 DEF OnNotify, callVars
    <2>2. rows' = NotLoaded
      BY <1>8 DEF OnNotify, Shape
    <2>3. QED
      BY <2>1, <2>2 DEF Current
  <1>9. CASE Release
    <2>1. rows' = NotLoaded
      BY <1>9 DEF Release
    <2>2. QED
      BY <2>1 DEF Current
  <1>10. CASE UNCHANGED vars
    BY <1>10, KeptCurrent DEF vars, cacheVars, callVars, mapiVars
  <1>11. QED
    BY <1>1, <1>2, <1>3, <1>4, <1>5, <1>6, <1>7, <1>8, <1>9, <1>10
    DEF Next, resolveStores, resolveRootFolders, resolveSubFolders, resolveItems,
        getStores, getRootFolders, getSubFolders, getItems, GetField, lookup,
        LoadStores, LoadRootFolders, LoadSubFolders, LoadItems, Load

(***************************************************************************)
(* A caller that is past its check has the list read with its directives.  *)
(***************************************************************************)
Directed ==
  \A t \in Callers : pc[t] \in {"read", "fill", "advise", "use"} => directives = LoadDirectives(t)

LEMMA NextDirected ==
  ASSUME OneMutex, Shape, Directed, Shape', [Next]_vars
  PROVE  Directed'
  <1>1. ASSUME NEW request, NEW isLookup, Called(request, isLookup),
               \A u \in Callers : pc[u] = "idle"
        PROVE  Directed'
    <2>1. PICK t \in Callers : pc' = [pc EXCEPT ![t] = "check"]
      BY <1>1 DEF Called, Goto
    <2>2. \A u \in Callers : pc'[u] \in {"idle", "check"}
      BY <1>1, <2>1 DEF Shape, TypeOK
    <2>3. QED
      BY <2>2 DEF Directed
  <1>2. ASSUME NEW w \in Wrappers, GetField(w) PROVE Directed'
    <2>1. PICK d \in Windows, wanted \in Wanted \cup {All} : Called(FieldOf(w, d, wanted), FALSE)
      BY <1>2 DEF GetField
    <2>2. FieldOf(w, d, wanted) \in Calling /\ FieldOf(w, d, wanted).via = w /\ w # "lookup"
      BY WrappersAssumption DEF FieldOf, Calling, Directives
    <2>3. \A u \in Callers : pc[u] = "idle"
      BY <2>1, <2>2, CalledAlone
    <2>4. QED
      BY <1>1, <2>1, <2>3
  <1>3. CASE lookup
    <2>1. PICK id \in Ids : Called(LookupOf(<<id>>), TRUE)
      BY <1>3 DEF lookup
    <2>2. <<id>> \in Seq(Ids)
      OBVIOUS
    <2>3. LookupOf(<<id>>) \in Calling /\ LookupOf(<<id>>).via = "lookup"
      BY <2>2 DEF LookupOf, Calling, Directives
    <2>4. \A u \in Callers : pc[u] = "idle"
      BY <2>1, <2>3, CalledAlone
    <2>5. QED
      BY <1>1, <2>1, <2>4
  <1>4. ASSUME NEW t \in Callers, CheckLoaded(t) PROVE Directed'
    <2>1. \A u \in Callers \ {t} : pc[u] = "idle"
      BY <1>4, StepShape DEF CheckLoaded, Running
    <2>2. directives' = LoadDirectives(t) /\ UNCHANGED <<call, inner>>
      BY <1>4 DEF CheckLoaded
    <2>3. pc' = [pc EXCEPT ![t] = "use"] \/ pc' = [pc EXCEPT ![t] = "read"]
      BY <1>4 DEF CheckLoaded, Goto
    <2>4. \A u \in Callers \ {t} : pc'[u] = "idle"
      BY <2>1, <2>3 DEF Shape, TypeOK
    <2>5. LoadDirectives(t)' = LoadDirectives(t)
      BY <2>2 DEF LoadDirectives
    <2>6. QED
      BY <2>2, <2>4, <2>5 DEF Directed
  <1>5. ASSUME NEW t \in Callers, ReadRows(t) \/ FillRows(t) \/ AdviseSink(t) \/ CloneRows(t) \/ FindRow(t)
        PROVE  Directed'
    <2>1. pc[t] \in {"read", "fill", "advise", "use"} /\ \A u \in Callers \ {t} : pc[u] = "idle"
      BY <1>5, StepShape DEF ReadRows, FillRows, AdviseSink, CloneRows, FindRow, Running
    <2>2. UNCHANGED <<directives, call, inner>>
      BY <1>5 DEF ReadRows, FillRows, AdviseSink, CloneRows, FindRow, cacheVars
    <2>3. \/ pc' = pc
          \/ \E at : pc' = [pc EXCEPT ![t] = at]
      BY <1>5 DEF ReadRows, FillRows, AdviseSink, CloneRows, FindRow, Throw, Crash, Goto
    <2>4. \A u \in Callers \ {t} : pc'[u] = "idle"
      BY <2>1, <2>3 DEF Shape, TypeOK
    <2>5. directives = LoadDirectives(t)
      BY <2>1 DEF Directed
    <2>6. directives' = LoadDirectives(t)'
      BY <2>2, <2>5 DEF LoadDirectives
    <2>7. QED
      BY <2>4, <2>6 DEF Directed
  <1>6. ASSUME NEW t \in Callers, BeginLookups(t) PROVE Directed'
    <2>1. \A u \in Callers \ {t} : pc[u] = "idle"
      BY <1>6, StepShape DEF BeginLookups, Running
    <2>2. pc' = [pc EXCEPT ![t] = "check"]
      BY <1>6 DEF BeginLookups, Goto
    <2>3. \A u \in Callers : pc'[u] \in {"idle", "check"}
      BY <2>1, <2>2 DEF Shape, TypeOK
    <2>4. QED
      BY <2>3 DEF Directed
  <1>7. CASE TableChange \/ OnNotify \/ Release \/ UNCHANGED vars
    <2>1. UNCHANGED <<directives, call, inner, pc>>
      BY <1>7 DEF TableChange, OnNotify, Release, vars, cacheVars, callVars
    <2>2. QED
      BY <2>1 DEF Directed, LoadDirectives
  <1>8. QED
    BY <1>2, <1>3, <1>4, <1>5, <1>6, <1>7
    DEF Next, resolveStores, resolveRootFolders, resolveSubFolders, resolveItems,
        getStores, getRootFolders, getSubFolders, getItems,
        LoadStores, LoadRootFolders, LoadSubFolders, LoadItems, Load

(***************************************************************************)
(* The theorems.                                                           *)
(***************************************************************************)
ListInv == Shape /\ Agrees /\ Current /\ Directed

LEMMA InitList == Init => ListInv
  <1> SUFFICES ASSUME Init PROVE ListInv
    OBVIOUS
  <1>1. rows = NotLoaded /\ ids = <<>> /\ \A t \in Callers : pc[t] = "idle"
    BY DEF Init
  <1>2. LookupOf(All) \in Calling
    BY DEF LookupOf, Calling, Directives
  <1>3. call \in [Callers -> Calling]
    BY <1>2 DEF Init
  <1>4. rowset \in [Callers -> Seq(Ids)]
    BY EmptySeq DEF Init
  <1>5. 0 \in 0..MaxChanges
    BY BoundAssumption
  <1>6. /\ inner \in [Callers -> BOOLEAN]
        /\ crashed \in BOOLEAN /\ alive \in BOOLEAN
        /\ untold \in BOOLEAN
    BY DEF Init
  <1>7. answer \in [Callers -> {Failed} \cup Seq(Ids \cup {NotFound})]
    BY DEF Init
  <1>8. DOMAIN ids = {}
    BY <1>1
  <1>9. TypeOK
    BY <1>1, <1>4, <1>5, <1>6, <1>7, <1>8, InitialTableAssumption DEF Init, TypeOK
  <1>10. Shape
    BY <1>1, <1>3, <1>9 DEF Init, Shape, OneCall
  <1>11. QED
    BY <1>1, <1>10 DEF ListInv, Agrees, Current, Directed

\* The invariant of a lazily loaded list is inductive.
LEMMA ListCorrect ==
  ASSUME OneMutex
  PROVE  Spec => []ListInv
  <1>1. ListInv /\ [Next]_vars => ListInv'
    BY NextShape, NextAgrees, NextCurrent, NextDirected DEF ListInv
  <1>2. QED
    BY InitList, <1>1, PTL DEF Spec

\* Wherever callbacks drop the list and calls throw, a list that is there to be
\* used has its own index (LoadStores, LoadRootFolders, LoadSubFolders, LoadItems).
THEOREM IndexIsRight ==
  ASSUME OneMutex
  PROVE  Spec => []IndexAgrees
  <1>1. ListInv => IndexAgrees
    BY DEF ListInv, Shape, Agrees, IndexAgrees
  <1>2. QED
    BY <1>1, ListCorrect, PTL

\* A list that is kept is the window of the table as it is, or a callback that drops
\* it is on its way.
THEOREM KeptListIsCurrent ==
  ASSUME OneMutex
  PROVE  Spec => []CacheIsCurrent
  <1>1. ListInv => CacheIsCurrent
    <2>1. Window(directives) = WindowOf(table, directives)
      BY DEF Window, ReadWith, WindowOf
    <2>2. QED
      BY <2>1 DEF ListInv, Current, CacheIsCurrent
  <1>2. QED
    BY <1>1, ListCorrect, PTL

\* What a field of the whole list is answered with.
LEMMA CloneIsCurrent ==
  ASSUME ListInv, NEW t \in Callers, CloneRows(t), pending = 0, connections > 0, ~untold,
         ~crashed'
  PROVE  answer'[t] \in {<<>>, Window(call[t].directives)}
  <1>1. pc[t] = "use" /\ ~inner[t] /\ \A u \in Callers \ {t} : pc[u] = "idle"
    BY StepShape DEF CloneRows, Running, ListInv
  <1>2. rows # NotLoaded
    BY DEF CloneRows, Crash
  <1>3. rows \in {<<>>, WindowOf(table, directives)}
    BY <1>1, <1>2 DEF ListInv, Current, Loading
  <1>4. directives = call[t].directives
    BY <1>1 DEF ListInv, Directed, LoadDirectives
  <1>5. answer'[t] = rows
    BY <1>2 DEF CloneRows, ListInv, Shape, TypeOK
  <1>6. Window(call[t].directives) = WindowOf(table, call[t].directives)
    BY DEF Window, ReadWith, WindowOf
  <1>7. QED
    BY <1>3, <1>4, <1>5, <1>6

\* What a lookup finds.
LEMMA FoundIsCurrent ==
  ASSUME ListInv, NEW t \in Callers, FindRow(t), pending = 0, connections > 0, ~untold,
         ~crashed',
         answer'[t] \notin {Failed, answer[t]}
  PROVE  \/ Last(answer'[t]) = IF NextId(t) \in ToSet(Window(TD!NoDirectives)) THEN NextId(t) ELSE NotFound
         \/ Last(answer'[t]) = NotFound /\ rows \in {<<>>, NotLoaded}
  <1> DEFINE id == NextId(t)
             window == Window(TD!NoDirectives)
             Found(row) ==
               /\ answer' = [answer EXCEPT ![t] = Append(@, row)]
               /\ Goto(t, IF Len(answer[t]) + 1 = Len(call[t].wanted) THEN "idle" ELSE "check")
               /\ UNCHANGED crashed
  <1>1. pc[t] = "use" /\ inner[t] /\ \A u \in Callers \ {t} : pc[u] = "idle"
    BY StepShape DEF FindRow, Running, ListInv
  <1>2. answer[t] \in Seq(Ids \cup {NotFound})
    BY <1>1 DEF ListInv, Shape, TypeOK
  <1>3. ASSUME NEW row \in Ids \cup {NotFound}, Found(row)
        PROVE  Last(answer'[t]) = row
    <2>1. answer'[t] = Append(answer[t], row)
      BY <1>3 DEF ListInv, Shape, TypeOK
    <2>2. Len(answer'[t]) = Len(answer[t]) + 1 /\ answer'[t][Len(answer[t]) + 1] = row
      BY <1>2, <2>1, AppendProperties
    <2>3. QED
      BY <2>2 DEF Last
  <1>4. directives = TD!NoDirectives
    BY <1>1 DEF ListInv, Directed, LoadDirectives
  <1>5. window = WindowOf(table, directives)
    BY <1>4 DEF Window, ReadWith, WindowOf
  <1>6. rows # NotLoaded =>
          /\ rows \in {<<>>, window}
          /\ DOMAIN ids = ToSet(rows)
          /\ \A i \in DOMAIN ids : ids[i] \in DOMAIN rows /\ rows[ids[i]] = i
    BY <1>1, <1>5 DEF ListInv, Current, Agrees, Loading
  <1>7. ~Crash
    BY DEF Crash
  <1>8. ~Throw(t)
    <2>1. SUFFICES ASSUME Throw(t) PROVE FALSE
      OBVIOUS
    <2>2. answer'[t] = Failed \/ answer'[t] = answer[t]
      BY <2>1 DEF Throw, Crash, Goto, ListInv, Shape, TypeOK
    <2>3. QED
      BY <2>2
  <1> HIDE DEF window
  <1>9. CASE id \notin DOMAIN ids
    <2>1. Found(NotFound)
      BY <1>9, Zenon DEF FindRow
    <2>2. Last(answer'[t]) = NotFound
      BY <1>3, <2>1
    <2>3. rows \in {<<>>, NotLoaded} \/ id \notin ToSet(window)
      BY <1>6, <1>9
    <2>4. QED
      BY <2>2, <2>3 DEF window
  <1>10. CASE id \in DOMAIN ids
    <2>1. rows # NotLoaded
      BY <1>7, <1>10 DEF FindRow
    <2>2. ids[id] \in DOMAIN rows /\ rows[ids[id]] = id
      BY <1>6, <1>10, <2>1
    <2>3. Found(rows[ids[id]])
      BY <1>8, <1>10, <2>1, Zenon DEF FindRow
    <2>4. id \in Ids
      BY <1>10 DEF ListInv, Shape, TypeOK
    <2>5. Last(answer'[t]) = id
      BY <1>3, <2>2, <2>3, <2>4
    <2>6. id \in ToSet(rows) /\ rows # <<>>
      BY <1>6, <1>10, <2>1, <2>2
    <2>7. id \in ToSet(window)
      BY <1>6, <2>1, <2>6
    <2>8. QED
      BY <2>5, <2>7 DEF window
  <1>11. QED
    BY <1>9, <1>10

\* Whatever was asked for before, with other directives or by ID, a field is answered
\* with its own window and a lookup with the row that has the ID.
THEOREM AnswersStayCurrent ==
  ASSUME OneMutex
  PROVE  Spec => AnswersAreCurrent
  <1>1. ASSUME ListInv
        PROVE  \A t \in Callers :
                 (pending = 0 /\ connections > 0 /\ ~untold /\ ~crashed') =>
                   /\ CloneRows(t) => answer'[t] \in {<<>>, Window(call[t].directives)}
                   /\ FindRow(t) /\ answer'[t] \notin {Failed, answer[t]} =>
                        LET found == NextId(t) \in ToSet(Window(TD!NoDirectives)) IN
                        \/ Last(answer'[t]) = IF found THEN NextId(t) ELSE NotFound
                        \/ Last(answer'[t]) = NotFound /\ rows \in {<<>>, NotLoaded}
    BY <1>1, CloneIsCurrent, FoundIsCurrent
  <1>2. QED
    BY <1>1, ListCorrect, PTL DEF AnswersAreCurrent
=============================================================================
