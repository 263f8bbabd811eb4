--------------------------- MODULE OperatorProofs ---------------------------
(***************************************************************************)
(* Theorems about Operators, for every set of tables, requests, keys,      *)
(* arguments, names and times that the assumptions allow.  A state says    *)
(* what was asked and holds the answer (OpInv); the rest are facts about   *)
(* the operators that answer.                                              *)
(***************************************************************************)
EXTENDS Operators, FiniteSetTheorems, SequenceTheorems, WellFoundedInduction, TLAPS

Asked == Requests \cup {NoDirectives}

Samples ==
  {Nothing} \cup [of : {"keys"}, a : Keys, b : Keys] \cup [of : {"value"}, argument : Arguments]
    \cup [of : {"time"}, time : Times]
    \cup (UNION {[of : {"name"}, name : {n}, kept : {n} \cup Copies(n, Leftovers)] : n \in Names})

OpInv ==
  /\ sorted \in Tables /\ hasStore \in BOOLEAN
  /\ directives \in Asked /\ failed \subseteq {"constructor", "columns", "orderBy"}
  /\ result = Ask(directives, failed)
  /\ sample \in Samples

\* Each step asks something else, or leaves question and answer alone.
THEOREM EachIsAnswered == OpSpec => []OpInv
  <1>1. OpInit => OpInv
    BY DEF OpInit, Init, OpInv, Asked, Samples
  <1>2. OpInv /\ [OpNext]_allVars => OpInv'
    <2> SUFFICES ASSUME OpInv, [OpNext]_allVars PROVE OpInv'
      OBVIOUS
    <2>1. CASE Fields
      <3>1. PICK d \in Requests : \E f \in SUBSET Lookups(d, hasStore) :
              directives' = d /\ failed' = f /\ result' = Ask(d, f)
        BY <2>1 DEF Fields, Read
      <3>2. sorted' = sorted /\ hasStore' = hasStore /\ sample' = sample
        BY <2>1 DEF Fields, Read
      <3>3. Ask(directives, failed)' = Ask(directives', failed')
        BY <3>2 DEF Ask
      <3>4. failed' \subseteq {"constructor", "columns", "orderBy"}
        BY <3>1 DEF Lookups
      <3>5. QED
        BY <3>1, <3>2, <3>3, <3>4 DEF OpInv, Asked
    <2>2. CASE UNCHANGED vars /\ sample' \in Samples
      <3>1. Ask(directives, failed)' = Ask(directives, failed)
        BY <2>2 DEF vars, Ask
      <3>2. QED
        BY <2>2, <3>1 DEF OpInv, vars
    <2>3. CASE Compare \/ Convert \/ Name \/ Clock
      <3>1. CASE Name
        <4>1. PICK n \in Names : \E kept \in {n} \cup Copies(n, Leftovers) :
                sample' = [of |-> "name", name |-> n, kept |-> kept]
          BY <3>1 DEF Name
        <4>2. sample' \in [of : {"name"}, name : {n}, kept : {n} \cup Copies(n, Leftovers)]
          BY <4>1
        <4>3. sample' \in Samples
          BY <4>2 DEF Samples
        <4>4. QED
          BY <2>2, <3>1, <4>3 DEF Name, Sampling, Apart
      <3>2. QED
        BY <2>2, <2>3, <3>1 DEF Compare, Convert, Clock, Sampling, Apart, Samples
    <2>4. CASE Walk
      BY <2>2, <2>4 DEF Walk, Apart, OpInv
    <2>5. CASE UNCHANGED allVars
      BY <2>2, <2>5 DEF allVars, OpInv
    <2>6. QED
      BY <2>1, <2>3, <2>4, <2>5 DEF OpNext
  <1>3. QED
    BY <1>1, <1>2, PTL DEF OpSpec

(***************************************************************************)
(* Windows.                                                                *)
(***************************************************************************)
Directives ==
  [seek : {Absent, Null} \cup Ids \cup IdTexts, offset : {Absent} \cup Int, take : {Absent} \cup Int,
   columns : {Absent} \cup Seq(Columns), orderBy : {Absent} \cup Seq(Columns)]

LEMMA AskedAreDirectives == Asked \subseteq Directives
  BY RequestsAssumption DEF Asked, NoDirectives, Directives

\* The place in the table nearest to the one wanted is where a cursor stops.
LEMMA ClampIsNearest ==
  ASSUME NEW n \in Nat, NEW wanted \in Int
  PROVE  (CHOOSE s \in 0..n : \A t \in 0..n : Distance(s, wanted) <= Distance(t, wanted))
           = Clamp(0, wanted, n)
  <1> DEFINE Nearest(s) == \A t \in 0..n : Distance(s, wanted) <= Distance(t, wanted)
             c == Clamp(0, wanted, n)
  <1>1. c \in 0..n /\ Nearest(c)
    BY DEF Clamp, Distance
  <1>2. \A s \in 0..n : Nearest(s) => s = c
    BY DEF Clamp, Distance
  <1> HIDE DEF Nearest, c
  <1>3. (CHOOSE s \in 0..n : Nearest(s)) = c
    BY <1>1, <1>2
  <1>4. QED
    BY <1>3 DEF Nearest, c

\* A row that is there once is found in its place, which is as many rows after the
\* first as there are rows before it.
LEMMA FoundInPlace ==
  ASSUME NEW rows \in Seq(Ids), IsInjective(rows), NEW id \in ToSet(rows)
  PROVE  /\ FindRow(id, rows) \in 0..(Len(rows) - 1)
         /\ FindRow(id, rows) =
              Cardinality({i \in DOMAIN rows : \E j \in DOMAIN rows : i < j /\ rows[j] = id})
  <1>1. Len(rows) \in Nat /\ DOMAIN rows = 1..Len(rows)
    BY LenProperties
  <1>2. PICK k \in 1..Len(rows) : rows[k] = id
    BY <1>1 DEF ToSet
  <1>3. \A j \in 1..Len(rows) : rows[j] = id <=> j = k
    BY <1>1, <1>2 DEF IsInjective
  <1>4. SelectInSeq(rows, LAMBDA row : row = id) = k
    <2> DEFINE places == {i \in 1..Len(rows) : rows[i] = id}
    <2>1. places = {k}
      BY <1>2, <1>3
    <2>2. Min({k}) = k
      BY DEF Min
    <2>3. QED
      BY <2>1, <2>2 DEF SelectInSeq
  <1>5. {i \in DOMAIN rows : \E j \in DOMAIN rows : i < j /\ rows[j] = id} = 1..(k - 1)
    BY <1>1, <1>2, <1>3
  <1>6. Cardinality(1..(k - 1)) = k - 1
    BY FS_Interval
  <1>7. FindRow(id, rows) = k - 1
    BY <1>4, Zenon DEF FindRow
  <1>8. k - 1 \in 0..(Len(rows) - 1)
    BY <1>1, <1>2
  <1>9. QED
    BY <1>5, <1>6, <1>7, <1>8, Zenon

\* What a read is, when it does not throw.
LEMMA ReadIsQuery ==
  ASSUME OpInv, result.ok
  PROVE  LET found  == IF seeks(directives) THEN FindRow(directives.seek, Rows) ELSE 0
             cursor == SeekRow(BookmarkAt(seekBookmark(directives), found, Rows), offset(directives), Rows)
         IN  /\ result.rows = QueryRows(cursor, take(directives), Rows)
             /\ result.columns = columns(directives, DefaultColumns)
             /\ seeks(directives) => directives.seek \in ToSet(Rows)
  <1> DEFINE found  == IF seeks(directives) THEN FindRow(directives.seek, Rows) ELSE 0
             cursor == SeekRow(BookmarkAt(seekBookmark(directives), found, Rows), offset(directives), Rows)
             reads  == /\ CanResolve(directives.columns, hasStore, "columns" \notin failed)
                       /\ HasTypes(directives.columns)
                       /\ CanResolve(directives.orderBy, hasStore, "orderBy" \notin failed)
                       /\ HasTypes(directives.orderBy)
                       /\ seeks(directives) => directives.seek \in ToSet(Rows)
             answer1 == [ok |-> TRUE, alive |-> TRUE, columns |-> columns(directives, DefaultColumns),
                         rows |-> QueryRows(cursor, take(directives), Rows)]
  <1>1. result = IF terminates(directives, hasStore, failed) THEN Terminated
                 ELSE IF reads THEN answer1 ELSE Failure
    BY Zenon DEF OpInv, Ask, read, Rows
  <1>2. ~Failure.ok /\ ~Terminated.ok
    BY DEF Failure, Terminated
  <1>3. answer1.rows = QueryRows(cursor, take(directives), Rows)
        /\ answer1.columns = columns(directives, DefaultColumns)
    OBVIOUS
  <1> HIDE DEF answer1
  <1>4. reads /\ result = answer1
    <2> HIDE DEF reads
    <2>1. QED
      BY <1>1, <1>2
  <1>5. QED
    BY <1>3, <1>4

LEMMA RowsOfTable == OpInv => Rows \in Seq(Ids) /\ IsInjective(Rows)
  BY TablesAssumption DEF OpInv, Asked, Rows

\* The cursor stands where the window starts, once IMAPITable has been called.
LEMMA CursorIsStart ==
  ASSUME OpInv, result.ok
  PROVE  LET found  == IF seeks(directives) THEN FindRow(directives.seek, Rows) ELSE 0
         IN  /\ SeekRow(BookmarkAt(seekBookmark(directives), found, Rows), offset(directives), Rows) = Start
             /\ Start \in 0..Len(Rows)
  <1> DEFINE found == IF seeks(directives) THEN FindRow(directives.seek, Rows) ELSE 0
             at1   == BookmarkAt(seekBookmark(directives), found, Rows)
             wanted == Anchor + (IF directives.offset = Absent THEN 0 ELSE directives.offset)
  <1>1. directives \in Directives
    BY AskedAreDirectives DEF OpInv
  <1>2. Rows \in Seq(Ids) /\ IsInjective(Rows)
    BY RowsOfTable
  <1>3. Len(Rows) \in Nat
    BY <1>2, LenProperties
  <1> HIDE DEF at1
  <1>4. at1 = Anchor /\ Anchor \in Nat
    <2>1. CASE directives.seek = Absent
      <3>1. Anchor = 0
        BY <2>1, AbsentAssumption DEF Anchor
      <3>2. seekBookmark(directives) = "BEGINNING"
        BY <2>1 DEF seekBookmark
      <3>3. at1 = 0
        BY <3>2 DEF at1, BookmarkAt
      <3>4. QED
        BY <3>1, <3>3
    <2>2. CASE directives.seek = Null
      <3>1. directives.seek # Absent
        BY <2>2, AbsentAssumption
      <3>2. Anchor = Len(Rows)
        BY <2>2, <3>1 DEF Anchor
      <3>3. at1 = Len(Rows)
        BY <2>2, <3>1 DEF at1, BookmarkAt, seekBookmark
      <3>4. QED
        BY <1>3, <3>2, <3>3
    <2>3. CASE seeks(directives)
      <3>1. directives.seek \in ToSet(Rows)
        BY <2>3, ReadIsQuery
      <3>2. FindRow(directives.seek, Rows) \in Nat /\ FindRow(directives.seek, Rows) = Anchor
        BY <1>2, <1>3, <2>3, <3>1, FoundInPlace DEF Anchor, seeks
      <3>3. at1 = found
        BY <2>3 DEF at1, BookmarkAt, seekBookmark, seeks
      <3>4. QED
        BY <2>3, <3>2, <3>3
    <2>4. directives.seek = Absent \/ directives.seek = Null \/ seeks(directives)
      BY DEF seeks
    <2>5. QED
      BY <2>1, <2>2, <2>3, <2>4
  <1>5. wanted \in Int /\ wanted = at1 + offset(directives)
    BY <1>1, <1>4 DEF offset, Directives
  <1> HIDE DEF wanted
  <1>6. Clamp(0, wanted, Len(Rows)) = Start
    BY <1>3, <1>5, ClampIsNearest DEF Start, wanted
  <1>7. Clamp(0, wanted, Len(Rows)) \in 0..Len(Rows)
    BY <1>3, <1>5 DEF Clamp
  <1>8. QED
    BY <1>5, <1>6, <1>7 DEF SeekRow, at1

\* Rows between two places of the table.
LEMMA RowsBetween ==
  ASSUME NEW rows \in Seq(Ids), NEW low \in 0..Len(rows), NEW high \in 0..Len(rows), low <= high
  PROVE  LET part == SubSeq(rows, low + 1, high) IN
         /\ Len(part) = high - low
         /\ DOMAIN part = 1..(high - low)
         /\ \A i \in 1..(high - low) : part[i] = rows[low + i]
  <1>1. Len(rows) \in Nat /\ \A k \in 1..Len(rows) : rows[k] \in Ids
    BY ElementOfSeq, LenProperties
  <1>2. \A k \in (low + 1)..high : rows[k] \in Ids
    BY <1>1
  <1>3. QED
    BY <1>1, <1>2, SubSeqProperties

\* What QueryRows reads, from where to where.
Low(cursor, count, n)  == IF count >= 0 THEN cursor ELSE Clamp(0, cursor + count, n)
High(cursor, count, n) == IF count >= 0 THEN Clamp(0, cursor + count, n) ELSE cursor

\* A page takes no more rows than asked for, on either side.
LEMMA SpanOfTake ==
  ASSUME NEW n \in Nat, NEW s \in 0..n, NEW t \in Int, t # 0, NEW p \in Nat \ {0}
  PROVE  LET count == Clamp(-p, t, p) IN
         High(s, count, n) - Low(s, count, n) <= (IF t < 0 THEN -t ELSE t)
  <1> DEFINE count == Clamp(-p, t, p)
  <1>1. count \in Int /\ (t < 0 => t <= count /\ count < 0) /\ (t > 0 => count <= t /\ count > 0)
    BY DEF Clamp
  <1> HIDE DEF count
  <1>2. CASE t > 0
    BY <1>1, <1>2 DEF High, Low, Clamp
  <1>3. CASE t < 0
    BY <1>1, <1>3 DEF High, Low, Clamp
  <1>4. QED
    BY <1>2, <1>3 DEF count

\* The positions of the window are those that QueryRows reads.
LEMMA PositionsAreRead ==
  ASSUME OpInv, result.ok
  PROVE  LET n == Len(Rows)  count == take(directives) IN
         /\ n \in Nat /\ count \in Int
         /\ Positions = (Low(Start, count, n) + 1)..High(Start, count, n)
         /\ Low(Start, count, n) \in 0..n /\ High(Start, count, n) \in 0..n
         /\ Low(Start, count, n) <= High(Start, count, n)
  <1> DEFINE n == Len(Rows)
             count == take(directives)
  <1>1. n \in Nat /\ DOMAIN Rows = 1..n
    BY RowsOfTable, LenProperties
  <1>2. directives.take \in {Absent} \cup Int /\ PageSize \in Nat \ {0} /\ Absent \notin Int
    BY AskedAreDirectives, PageSizeAssumption, AbsentAssumption DEF OpInv, Directives
  <1>3. Start \in 0..n
    BY CursorIsStart
  <1>4. PICK t : t = directives.take
    OBVIOUS
  <1>5. PICK s : s = Start
    OBVIOUS
  <1>6. Positions = {p \in 1..n :
                       IF t = Absent \/ t = 0
                       THEN s < p /\ p <= s + PageSize
                       ELSE \/ s < p /\ p <= s + t /\ p <= s + PageSize
                            \/ s >= p /\ p > s + t /\ p > s - PageSize}
    BY <1>1, <1>4, <1>5 DEF Positions
  <1>7. count = IF t = Absent \/ t = 0 THEN PageSize ELSE Clamp(-PageSize, t, PageSize)
    BY <1>4 DEF take
  <1>8. count \in Int /\ Low(s, count, n) \in 0..n /\ High(s, count, n) \in 0..n
        /\ Low(s, count, n) <= High(s, count, n)
    BY <1>1, <1>2, <1>3, <1>4, <1>5, <1>7 DEF Clamp, Low, High
  <1>9. Positions = (Low(s, count, n) + 1)..High(s, count, n)
    <2>1. CASE t = Absent \/ t = 0
      BY <1>1, <1>2, <1>3, <1>4, <1>5, <1>6, <1>7, <2>1 DEF Clamp, Low, High
    <2>2. CASE t \in Int /\ t > 0
      BY <1>1, <1>2, <1>3, <1>4, <1>5, <1>6, <1>7, <2>2, SMTT(20) DEF Clamp, Low, High
    <2>3. CASE t \in Int /\ t < 0
      BY <1>1, <1>2, <1>3, <1>4, <1>5, <1>6, <1>7, <2>3, SMTT(20) DEF Clamp, Low, High
    <2>4. QED
      BY <1>2, <1>4, <2>1, <2>2, <2>3
  <1>10. QED
    BY <1>1, <1>5, <1>8, <1>9

\* A read returns its window, for every table and all directives.
THEOREM ReadsAreWindows == OpSpec => []ReadIsWindow
  <1>1. OpInv => ReadIsWindow
    <2> SUFFICES ASSUME OpInv, result.ok
                 PROVE  /\ Len(result.rows) = Cardinality(Positions)
                        /\ ToSet(result.rows) = {Rows[p] : p \in Positions}
                        /\ \A i, j \in DOMAIN result.rows : i < j =>
                             \E p, q \in Positions :
                               p < q /\ Rows[p] = result.rows[i] /\ Rows[q] = result.rows[j]
                        /\ directives.take \notin {Absent, 0} =>
                             Len(result.rows) <= (IF directives.take < 0 THEN -directives.take
                                                  ELSE directives.take)
      BY DEF ReadIsWindow
    <2> DEFINE n == Len(Rows)
               count == take(directives)
               low  == Low(Start, count, n)
               high == High(Start, count, n)
    <2>1. result.rows = QueryRows(Start, count, Rows)
      BY ReadIsQuery, CursorIsStart
    <2>2. result.rows = SubSeq(Rows, low + 1, high)
      BY <2>1 DEF QueryRows, Low, High
    <2>3. /\ low \in 0..n /\ high \in 0..n /\ low <= high /\ n \in Nat
          /\ Positions = (low + 1)..high
      BY PositionsAreRead
    <2> HIDE DEF low, high
    <2>4. /\ Len(result.rows) = high - low
          /\ DOMAIN result.rows = 1..(high - low)
          /\ \A i \in 1..(high - low) : result.rows[i] = Rows[low + i]
      BY <2>2, <2>3, RowsOfTable, RowsBetween
    <2>5. Cardinality(Positions) = high - low
      <3>1. low + 1 \in Int /\ high \in Int
        BY <2>3
      <3>2. Cardinality((low + 1)..high) = IF low + 1 > high THEN 0 ELSE high - (low + 1) + 1
        BY <3>1, FS_Interval
      <3>3. QED
        BY <2>3, <3>2
    <2>6. \A i \in 1..(high - low) : low + i \in Positions
      BY <2>3
    <2>7. \A p \in Positions : p - low \in 1..(high - low) /\ low + (p - low) = p
      BY <2>3
    <2>8. ToSet(result.rows) = {Rows[p] : p \in Positions}
      BY <2>4, <2>6, <2>7 DEF ToSet
    <2>9. ASSUME NEW i \in DOMAIN result.rows, NEW j \in DOMAIN result.rows, i < j
          PROVE  \E p, q \in Positions :
                   p < q /\ Rows[p] = result.rows[i] /\ Rows[q] = result.rows[j]
      <3>1. low + i \in Positions /\ low + j \in Positions /\ low + i < low + j
        BY <2>3, <2>4, <2>6, <2>9
      <3>2. QED
        BY <2>4, <2>9, <3>1
    <2>10. ASSUME directives.take \notin {Absent, 0}
           PROVE  Len(result.rows) <= (IF directives.take < 0 THEN -directives.take
                                       ELSE directives.take)
      <3>1. PICK t : t = directives.take
        OBVIOUS
      <3>2. t \in Int /\ t # 0 /\ PageSize \in Nat \ {0}
        BY <2>10, <3>1, AskedAreDirectives, PageSizeAssumption DEF OpInv, Directives
      <3>3. count = Clamp(-PageSize, t, PageSize)
        BY <2>10, <3>1 DEF take
      <3>4. PICK s : s = Start
        OBVIOUS
      <3>5. low = Low(s, count, n) /\ high = High(s, count, n) /\ s \in 0..n
        BY <3>4, CursorIsStart DEF low, high
      <3>6. high - low <= (IF t < 0 THEN -t ELSE t)
        BY <2>3, <3>2, <3>3, <3>5, SpanOfTake
      <3>7. QED
        BY <2>4, <3>1, <3>6
    <2>11. QED
      BY <2>4, <2>5, <2>8, <2>9, <2>10
  <1>2. QED
    BY <1>1, EachIsAnswered, PTL

\* Whatever columns are asked for, the default ones keep their places.
THEOREM DefaultColumnsStay == OpSpec => []DefaultColumnsInPlace
  <1>1. OpInv => DefaultColumnsInPlace
    <2> SUFFICES ASSUME OpInv, result.ok, NEW i \in DOMAIN DefaultColumns
                 PROVE  i \in DOMAIN result.columns /\ result.columns[i] = DefaultColumns[i]
      BY DEF DefaultColumnsInPlace
    <2>1. Requested(directives.columns) \in Seq(Columns)
      BY AskedAreDirectives DEF OpInv, Directives, Requested
    <2>2. result.columns = DefaultColumns \o Requested(directives.columns)
      BY ReadIsQuery DEF columns
    <2>3. QED
      BY <2>1, <2>2, ColumnsAssumption, ConcatProperties, LenProperties
  <1>2. QED
    BY <1>1, EachIsAnswered, PTL

\* A list of columns or of orders, as the reads take it and as FailureIsExplained does.
LEMMA ListsResolve ==
  ASSUME NEW list \in {Absent} \cup Seq(Columns), NEW store \in BOOLEAN, NEW call
  PROVE  CanResolve(list, store, call \notin failed) <=>
           /\ ~InVain(list, call)
           /\ ~(list # Absent /\ \E i \in DOMAIN list : list[i].form # "id" /\ ~store)
  <1>1. CASE list = Absent
    BY <1>1 DEF CanResolve, Requested, InVain
  <1>2. CASE list # Absent
    <2>1. \A i \in DOMAIN list : list[i].form \in {"id", "named", "malformed"}
      BY <1>2, ColumnsAssumption, ElementOfSeq, LenProperties
    <2>2. Requested(list) = list
      BY <1>2 DEF Requested
    <2>3. ASSUME NEW i \in DOMAIN list
          PROVE  Resolvable(list[i], store, call \notin failed) <=>
                   /\ ~(list[i].form = "malformed" \/ (list[i].form = "named" /\ call \in failed))
                   /\ ~(list[i].form # "id" /\ ~store)
      BY <2>1 DEF Resolvable
    <2>4. QED
      BY <1>2, <2>2, <2>3 DEF CanResolve, InVain
  <1>3. QED
    BY <1>1, <1>2

LEMMA ListsHaveTypes ==
  ASSUME NEW list
  PROVE  HasTypes(list) <=> ~(list # Absent /\ \E i \in DOMAIN list : list[i].type = "STREAM")
  <1>1. Requested(list) = IF list = Absent THEN <<>> ELSE list
    BY DEF Requested
  <1>2. QED
    BY <1>1 DEF HasTypes

\* A read fails, and the process ends, for the reasons given and for no other.
THEOREM FailuresAreExplained == OpSpec => []FailureIsExplained
  <1>1. OpInv => FailureIsExplained
    <2> SUFFICES ASSUME OpInv PROVE FailureIsExplained
      OBVIOUS
    <2> DEFINE cols   == directives.columns
               orders == directives.orderBy
               Bare1(list)  == list # Absent /\ \E i \in DOMAIN list : list[i].form # "id" /\ ~hasStore
               Stream(list) == list # Absent /\ \E i \in DOMAIN list : list[i].type = "STREAM"
               Lost == directives.seek \in IdTexts \cup (Ids \ ToSet(Rows))
    <2>1. /\ directives \in Directives /\ hasStore \in BOOLEAN
          /\ cols \in {Absent} \cup Seq(Columns) /\ orders \in {Absent} \cup Seq(Columns)
      BY AskedAreDirectives DEF OpInv, Directives
    <2>2. \A call : CanResolve(cols, hasStore, call \notin failed) <=> ~InVain(cols, call) /\ ~Bare1(cols)
      BY <2>1, ListsResolve
    <2>3. \A call : CanResolve(orders, hasStore, call \notin failed) <=> ~InVain(orders, call) /\ ~Bare1(orders)
      BY <2>1, ListsResolve
    <2>4. HasTypes(cols) <=> ~Stream(cols)
      BY ListsHaveTypes
    <2>5. HasTypes(orders) <=> ~Stream(orders)
      BY ListsHaveTypes
    <2>6. (seeks(directives) => directives.seek \in ToSet(Rows)) <=> ~Lost
      <3>1. ToSet(Rows) \subseteq Ids
        BY RowsOfTable, ElementOfSeq, LenProperties DEF ToSet
      <3>2. seeks(directives) <=> directives.seek \in Ids \cup IdTexts
        BY <2>1, AbsentAssumption DEF seeks, Directives
      <3>3. QED
        BY <3>1, <3>2, AbsentAssumption
    <2>7. result.ok <=> /\ ~terminates(directives, hasStore, failed)
                        /\ CanResolve(cols, hasStore, "columns" \notin failed) /\ HasTypes(cols)
                        /\ CanResolve(orders, hasStore, "orderBy" \notin failed) /\ HasTypes(orders)
                        /\ seeks(directives) => directives.seek \in ToSet(Rows)
      BY DEF OpInv, Ask, read, Rows, Failure, Terminated
    <2>8. result.alive <=> ~terminates(directives, hasStore, failed)
      BY DEF OpInv, Ask, read, Failure, Terminated
    <2>9. ResolvesBoth(directives, hasStore) <=>
            hasStore /\ cols \notin {Absent, <<>>} /\ orders \notin {Absent, <<>>}
      BY DEF ResolvesBoth, Requested
    <2>10. hasStore => ~Bare1(cols) /\ ~Bare1(orders)
      OBVIOUS
    <2> HIDE DEF Bare1, Stream, Lost
    <2>11. terminates(directives, hasStore, failed) <=>
             /\ ResolvesBoth(directives, hasStore)
             /\ InVain(cols, "constructor") \/ InVain(orders, "constructor")
      <3>1. CASE hasStore
        <4>1. hasStore = TRUE
          BY <2>1, <3>1
        <4>2. QED
          BY <2>2, <2>3, <2>10, <4>1 DEF terminates
      <3>2. CASE ~hasStore
        BY <3>2 DEF terminates, ResolvesBoth
      <3>3. QED
        BY <3>1, <3>2
    <2>12. ~result.alive <=>
             /\ hasStore
             /\ cols \notin {Absent, <<>>} /\ orders \notin {Absent, <<>>}
             /\ InVain(cols, "constructor") \/ InVain(orders, "constructor")
      BY <2>8, <2>9, <2>11
    <2>13. ~result.ok <=> \/ ~result.alive
                          \/ Lost
                          \/ InVain(cols, "columns") \/ InVain(orders, "orderBy")
                          \/ \E list \in {cols, orders} : Stream(list) \/ Bare1(list)
      BY <2>2, <2>3, <2>4, <2>5, <2>6, <2>7, <2>8
    <2>14. \A list : (Stream(list) \/ Bare1(list)) <=>
             list # Absent /\ \E i \in DOMAIN list :
               list[i].type = "STREAM" \/ (list[i].form # "id" /\ ~hasStore)
      BY DEF Stream, Bare1
    <2>15. QED
      BY <2>12, <2>13, <2>14 DEF FailureIsExplained, Lost
  <1>2. QED
    BY <1>1, EachIsAnswered, PTL

\* The k-th page of a table in its default order.
Page(k, table, store) ==
  read([NoDirectives EXCEPT !.offset = k * PageSize], table, store, {}, DefaultColumns, DefaultOrder)

LEMMA RowsOfPage ==
  ASSUME NEW table \in Tables, NEW store \in BOOLEAN, NEW k \in Nat
  PROVE  LET rows == table[DefaultOrder]  page == Page(k, table, store) IN
         /\ rows \in Seq(Ids) /\ IsInjective(rows) /\ page.ok
         /\ DOMAIN page.rows = {j \in 1..PageSize : k * PageSize + j <= Len(rows)}
         /\ \A j \in DOMAIN page.rows : page.rows[j] = rows[k * PageSize + j]
  <1> DEFINE rows == table[DefaultOrder]
             from == k * PageSize
             d    == [NoDirectives EXCEPT !.offset = from]
             low  == Clamp(0, from, Len(rows))
             high == Clamp(0, low + PageSize, Len(rows))
  <1>1. from \in Nat /\ PageSize \in Nat \ {0}
    BY PageSizeAssumption
  <1>2. from # Absent
    BY <1>1, AbsentAssumption
  <1> HIDE DEF from
  <1>3. d.seek = Absent /\ d.offset = from /\ d.take = Absent /\ d.columns = Absent /\ d.orderBy = Absent
    BY DEF NoDirectives
  <1>4. orderBy(NoDirectives, DefaultOrder) = DefaultOrder /\ orderBy(d, DefaultOrder) = DefaultOrder
    BY <1>3 DEF orderBy, Requested, NoDirectives
  <1>5. rows \in Seq(Ids) /\ IsInjective(rows)
    BY <1>4, TablesAssumption
  <1> HIDE DEF d, rows
  <1>6. Len(rows) \in Nat
    BY <1>5, LenProperties
  <1>7. /\ CanResolve(d.columns, store, "columns" \notin {}) /\ HasTypes(d.columns)
        /\ CanResolve(d.orderBy, store, "orderBy" \notin {}) /\ HasTypes(d.orderBy)
        /\ ~seeks(d)
    BY <1>3 DEF CanResolve, HasTypes, Requested, seeks
  <1>8. seekBookmark(d) = "BEGINNING" /\ offset(d) = from /\ take(d) = PageSize
    BY <1>2, <1>3 DEF seekBookmark, offset, take
  <1>9. SeekRow(BookmarkAt(seekBookmark(d), 0, rows), offset(d), rows) = low
    BY <1>1, <1>8 DEF SeekRow, BookmarkAt
  <1>10. low \in 0..Len(rows) /\ high \in 0..Len(rows) /\ low <= high
    BY <1>1, <1>6 DEF Clamp
  <1>11. Page(k, table, store).ok /\ Page(k, table, store).rows = QueryRows(low, PageSize, rows)
    <2> DEFINE answer1 == [ok |-> TRUE, alive |-> TRUE, columns |-> columns(d, DefaultColumns),
                           rows |-> QueryRows(low, PageSize, rows)]
    <2>1. read(d, table, store, {}, DefaultColumns, DefaultOrder) = answer1
      BY <1>4, <1>7, <1>8, <1>9, Zenon DEF read, rows
    <2>2. Page(k, table, store) = answer1
      BY <2>1, Zenon DEF Page, d, from
    <2>3. QED
      BY <2>2
  <1>12. Page(k, table, store).rows = SubSeq(rows, low + 1, high)
    <2>1. PageSize >= 0
      BY <1>1
    <2> HIDE DEF low
    <2>2. QueryRows(low, PageSize, rows) = SubSeq(rows, low + 1, high)
      BY <2>1, Zenon DEF QueryRows, high
    <2>3. QED
      BY <1>11, <2>2
  <1>13. /\ DOMAIN Page(k, table, store).rows = 1..(high - low)
         /\ \A j \in 1..(high - low) : Page(k, table, store).rows[j] = rows[low + j]
    <2> HIDE DEF low, high
    <2>1. QED
      BY <1>5, <1>10, <1>12, RowsBetween
  <1>14. /\ 1..(high - low) = {j \in 1..PageSize : from + j <= Len(rows)}
         /\ \A j \in 1..(high - low) : low + j = from + j
    <2>1. PICK n : n = Len(rows)
      OBVIOUS
    <2>2. n \in Nat /\ low = Clamp(0, from, n) /\ high = Clamp(0, low + PageSize, n)
      BY <1>6, <2>1
    <2> HIDE DEF low, high
    <2>3. CASE from <= n
      <3>1. low = from /\ high = IF from + PageSize > n THEN n ELSE from + PageSize
        BY <1>1, <2>2, <2>3 DEF Clamp
      <3>2. QED
        BY <1>1, <2>1, <2>2, <2>3, <3>1
    <2>4. CASE from > n
      <3>1. low = n /\ high = n
        BY <1>1, <2>2, <2>4 DEF Clamp
      <3>2. QED
        BY <1>1, <2>1, <2>2, <2>4, <3>1
    <2>5. QED
      BY <1>1, <2>2, <2>3, <2>4
  <1> HIDE DEF low, high
  <1>15. QED
    BY <1>5, <1>11, <1>13, <1>14 DEF rows, from

LEMMA Division ==
  ASSUME NEW m \in Nat, NEW p \in Nat \ {0}
  PROVE  m \div p \in Nat /\ m % p \in 0..(p - 1) /\ p * (m \div p) + (m % p) = m
  <1>1. m \div p \in Int /\ m % p \in 0..(p - 1) /\ m = p * (m \div p) + (m % p)
    OBVIOUS
  <1> DEFINE q == m \div p
             r == m % p
  <1> HIDE DEF q, r
  <1>2. q \in Int /\ r \in 0..(p - 1) /\ m = p * q + r
    BY <1>1 DEF q, r
  <1>3. ASSUME q < 0 PROVE FALSE
    <2>1. -q - 1 \in Nat
      BY <1>2, <1>3
    <2>2. (-q - 1) * p \in Nat
      BY <2>1
    <2>3. (-q - 1) * p = -(p * q) - p
      BY <1>2
    <2>4. p * q \in Int
      BY <1>2
    <2>5. QED
      BY <1>2, <2>2, <2>3, <2>4
  <1>4. q \in Nat
    BY <1>2, <1>3
  <1>5. QED
    BY <1>1, <1>4 DEF q

LEMMA PagesApart ==
  ASSUME NEW p \in Nat \ {0}, NEW k \in Nat, NEW l \in Nat, NEW i \in 1..p, NEW j \in 1..p,
         k * p + i = l * p + j
  PROVE  k = l /\ i = j
  <1>1. ASSUME NEW a \in Nat, NEW b \in Nat, a < b PROVE a * p + p <= b * p
    <2>1. b - a - 1 \in Nat
      BY <1>1
    <2>2. (b - a - 1) * p \in Nat
      BY <2>1
    <2>3. (b - a - 1) * p = b * p - a * p - p
      BY <1>1
    <2>4. a * p \in Nat /\ b * p \in Nat
      OBVIOUS
    <2>5. QED
      BY <2>2, <2>3, <2>4
  <1>2. k * p \in Nat /\ l * p \in Nat
    OBVIOUS
  <1>3. CASE k < l
    BY <1>1, <1>2, <1>3
  <1>4. CASE l < k
    BY <1>1, <1>2, <1>4
  <1>5. CASE k = l
    BY <1>2, <1>5
  <1>6. QED
    BY <1>3, <1>4, <1>5

\* A client that asks for one page after another, each with the offset where the one
\* before it ends, reads each row of the table once (TableDirectives::read).
THEOREM PagesTileTheTable ==
  ASSUME NEW table \in Tables, NEW store \in BOOLEAN, NEW p \in DOMAIN table[DefaultOrder]
  PROVE  \E k \in Nat : \E j \in DOMAIN Page(k, table, store).rows :
           \A l \in Nat : \A i \in DOMAIN Page(l, table, store).rows :
             Page(l, table, store).rows[i] = table[DefaultOrder][p] <=> l = k /\ i = j
  <1> DEFINE rows == table[DefaultOrder]
             k == (p - 1) \div PageSize
             j == ((p - 1) % PageSize) + 1
  <1>1. rows \in Seq(Ids) /\ IsInjective(rows)
    BY RowsOfPage
  <1>2. p \in 1..Len(rows) /\ Len(rows) \in Nat /\ DOMAIN rows = 1..Len(rows)
    BY <1>1, LenProperties
  <1>3. PageSize \in Nat \ {0}
    BY PageSizeAssumption
  <1>4. k \in Nat /\ j \in 1..PageSize /\ k * PageSize + j = p
    <2>1. p - 1 \in Nat /\ PageSize \in Nat \ {0}
      BY <1>2, <1>3
    <2>2. (p - 1) \div PageSize \in Nat /\ (p - 1) % PageSize \in 0..(PageSize - 1)
          /\ PageSize * ((p - 1) \div PageSize) + ((p - 1) % PageSize) = p - 1
      BY <2>1, Division
    <2> DEFINE r == (p - 1) % PageSize
    <2>3. k \in Nat /\ r \in 0..(PageSize - 1) /\ PageSize * k + r = p - 1 /\ j = r + 1
      BY <2>2
    <2> HIDE DEF k, r, j
    <2>4. k * PageSize = PageSize * k /\ k * PageSize \in Nat
      BY <1>3, <2>3
    <2>5. QED
      BY <1>2, <1>3, <2>3, <2>4
  <1> HIDE DEF k, j
  <1>5. j \in DOMAIN Page(k, table, store).rows
    BY <1>2, <1>4, RowsOfPage
  <1>6. ASSUME NEW l \in Nat, NEW i \in DOMAIN Page(l, table, store).rows
        PROVE  Page(l, table, store).rows[i] = rows[p] <=> l = k /\ i = j
    <2>1. i \in 1..PageSize /\ l * PageSize + i <= Len(rows)
          /\ Page(l, table, store).rows[i] = rows[l * PageSize + i]
      BY <1>6, RowsOfPage
    <2>2. l * PageSize \in Nat
      BY <1>3
    <2>3. l * PageSize + i \in DOMAIN rows
      BY <1>2, <2>1, <2>2
    <2>4. rows[l * PageSize + i] = rows[p] <=> l * PageSize + i = p
      BY <1>1, <2>3 DEF IsInjective
    <2>5. l * PageSize + i = p <=> l = k /\ i = j
      BY <1>3, <1>4, <2>1, PagesApart
    <2>6. QED
      BY <2>1, <2>4, <2>5
  <1>7. QED
    BY <1>4, <1>5, <1>6

(***************************************************************************)
(* The order of the keys.  A strict total order is a relation; vectors of  *)
(* what is ordered are ordered, and so is what may also be left out.       *)
(***************************************************************************)
Ordered(R, S) ==
  /\ \A x \in S : <<x, x>> \notin R
  /\ \A x, y \in S : x = y \/ <<x, y>> \in R \/ <<y, x>> \in R
  /\ \A x, y, z \in S : <<x, y>> \in R /\ <<y, z>> \in R => <<x, z>> \in R

\* Of two one is less, or they are the same.
LEMMA OneOfThree ==
  ASSUME NEW R, NEW S, Ordered(R, S), NEW x \in S, NEW y \in S
  PROVE  /\ ~(<<x, y>> \in R /\ <<y, x>> \in R)
         /\ (<<x, y>> \notin R /\ <<y, x>> \notin R) <=> x = y
  BY DEF Ordered

LEMMA LeastNumber ==
  ASSUME NEW S, S \subseteq Nat, S # {}
  PROVE  \E n \in S : \A m \in S : n <= m
  <1>1. PICK n \in S : \A m \in S : <<m, n>> \notin OpToRel(<, Nat)
    BY NatLessThanWellFounded, WFMin
  <1>2. \A m \in S : ~(m < n)
    BY <1>1 DEF OpToRel
  <1>3. QED
    BY <1>2

(* Vectors. *)

Before(R, l, r) ==
  \E n \in 1..(Len(l) + 1) :
    /\ n <= Len(r)
    /\ \A m \in 1..(n - 1) : l[m] = r[m]
    /\ n <= Len(l) => <<l[n], r[n]>> \in R

Vectors(R, S) == {pair \in Seq(S) \X Seq(S) : Before(R, pair[1], pair[2])}

LEMMA VectorPair ==
  ASSUME NEW R, NEW S, NEW l \in Seq(S), NEW r \in Seq(S)
  PROVE  <<l, r>> \in Vectors(R, S) <=> Before(R, l, r)
  BY DEF Vectors

LEMMA VectorsDiffer ==
  ASSUME NEW R, NEW S, Ordered(R, S), NEW l \in Seq(S), NEW r \in Seq(S), l # r
  PROVE  Before(R, l, r) \/ Before(R, r, l)
  <1>1. Len(l) \in Nat /\ Len(r) \in Nat /\ (\A i \in 1..Len(l) : l[i] \in S) /\ (\A i \in 1..Len(r) : r[i] \in S)
    BY ElementOfSeq, LenProperties
  <1> DEFINE places == {i \in 1..Len(l) : i <= Len(r) /\ l[i] # r[i]}
  <1>2. CASE places = {}
    <2>1. Len(l) # Len(r)
      BY <1>1, <1>2, SeqEqual
    <2>2. CASE Len(l) < Len(r)
      <3>1. PICK n : n = Len(l) + 1
        OBVIOUS
      <3>2. n \in 1..(Len(l) + 1) /\ n <= Len(r) /\ ~(n <= Len(l))
        BY <1>1, <2>2, <3>1
      <3>3. \A m \in 1..(n - 1) : l[m] = r[m]
        BY <1>1, <1>2, <2>2, <3>1
      <3>4. QED
        BY <3>2, <3>3 DEF Before
    <2>3. CASE Len(r) < Len(l)
      <3>1. PICK n : n = Len(r) + 1
        OBVIOUS
      <3>2. n \in 1..(Len(r) + 1) /\ n <= Len(l) /\ ~(n <= Len(r))
        BY <1>1, <2>3, <3>1
      <3>3. \A m \in 1..(n - 1) : r[m] = l[m]
        BY <1>1, <1>2, <2>3, <3>1
      <3>4. QED
        BY <3>2, <3>3 DEF Before
    <2>4. QED
      BY <1>1, <2>1, <2>2, <2>3
  <1>3. CASE places # {}
    <2>1. PICK n \in places : \A m \in places : n <= m
      <3>1. places \subseteq Nat
        BY <1>1
      <3> HIDE DEF places
      <3>2. QED
        BY <1>3, <3>1, LeastNumber
    <2>2. n \in 1..Len(l) /\ n \in 1..Len(r) /\ l[n] # r[n] /\ \A m \in 1..(n - 1) : l[m] = r[m]
      BY <1>1, <2>1
    <2>3. <<l[n], r[n]>> \in R \/ <<r[n], l[n]>> \in R
      BY <1>1, <2>2 DEF Ordered
    <2>4. n \in 1..(Len(l) + 1) /\ n \in 1..(Len(r) + 1) /\ n <= Len(l) /\ n <= Len(r)
      BY <1>1, <2>2
    <2>5. QED
      BY <2>2, <2>3, <2>4 DEF Before
  <1>4. QED
    BY <1>2, <1>3

LEMMA VectorsFollow ==
  ASSUME NEW R, NEW S, Ordered(R, S), NEW a \in Seq(S), NEW b \in Seq(S), NEW c \in Seq(S),
         Before(R, a, b), Before(R, b, c)
  PROVE  Before(R, a, c)
  <1>1. /\ Len(a) \in Nat /\ Len(b) \in Nat /\ Len(c) \in Nat
        /\ \A i \in 1..Len(a) : a[i] \in S
        /\ \A i \in 1..Len(b) : b[i] \in S
        /\ \A i \in 1..Len(c) : c[i] \in S
    BY ElementOfSeq, LenProperties
  <1>2. PICK n \in 1..(Len(a) + 1) :
          /\ n <= Len(b) /\ (\A m \in 1..(n - 1) : a[m] = b[m])
          /\ n <= Len(a) => <<a[n], b[n]>> \in R
    BY DEF Before
  <1>3. PICK k \in 1..(Len(b) + 1) :
          /\ k <= Len(c) /\ (\A m \in 1..(k - 1) : b[m] = c[m])
          /\ k <= Len(b) => <<b[k], c[k]>> \in R
    BY DEF Before
  <1>4. CASE n < k
    <2>1. n <= Len(c) /\ b[n] = c[n] /\ \A m \in 1..(n - 1) : a[m] = c[m]
      BY <1>1, <1>2, <1>3, <1>4
    <2>2. QED
      BY <1>2, <2>1 DEF Before
  <1>5. CASE k < n
    <2>1. k \in 1..(Len(a) + 1) /\ k <= Len(c) /\ a[k] = b[k] /\ \A m \in 1..(k - 1) : a[m] = c[m]
      BY <1>1, <1>2, <1>3, <1>5
    <2>2. k <= Len(b)
      BY <1>1, <1>2, <1>3, <1>5
    <2>3. QED
      BY <1>3, <2>1, <2>2 DEF Before
  <1>6. CASE n = k
    <2>1. n <= Len(c) /\ \A m \in 1..(n - 1) : a[m] = c[m]
      BY <1>1, <1>2, <1>3, <1>6
    <2>2. ASSUME n <= Len(a) PROVE <<a[n], c[n]>> \in R
      <3>1. a[n] \in S /\ b[n] \in S /\ c[n] \in S /\ <<a[n], b[n]>> \in R /\ <<b[n], c[n]>> \in R
        BY <1>1, <1>2, <1>3, <1>6, <2>2
      <3>2. QED
        BY <3>1 DEF Ordered
    <2>3. QED
      BY <1>2, <2>1, <2>2 DEF Before
  <1>7. QED
    BY <1>1, <1>2, <1>3, <1>4, <1>5, <1>6

LEMMA VectorsOrdered ==
  ASSUME NEW R, NEW S, Ordered(R, S)
  PROVE  Ordered(Vectors(R, S), Seq(S))
  <1>1. ASSUME NEW l \in Seq(S) PROVE <<l, l>> \notin Vectors(R, S)
    <2>1. Len(l) \in Nat /\ \A i \in 1..Len(l) : l[i] \in S
      BY ElementOfSeq, LenProperties
    <2>2. ASSUME NEW n \in 1..(Len(l) + 1), n <= Len(l), <<l[n], l[n]>> \in R PROVE FALSE
      <3>1. l[n] \in S
        BY <2>1, <2>2
      <3>2. QED
        BY <2>2, <3>1 DEF Ordered
    <2>3. ~Before(R, l, l)
      BY <2>2 DEF Before
    <2>4. QED
      BY <2>3, VectorPair
  <1>2. ASSUME NEW l \in Seq(S), NEW r \in Seq(S), l # r
        PROVE  <<l, r>> \in Vectors(R, S) \/ <<r, l>> \in Vectors(R, S)
    BY <1>2, VectorPair, VectorsDiffer
  <1>3. ASSUME NEW a \in Seq(S), NEW b \in Seq(S), NEW c \in Seq(S),
               <<a, b>> \in Vectors(R, S), <<b, c>> \in Vectors(R, S)
        PROVE  <<a, c>> \in Vectors(R, S)
    <2>1. Before(R, a, b) /\ Before(R, b, c)
      BY <1>3, VectorPair
    <2>2. Before(R, a, c)
      BY <2>1, VectorsFollow
    <2>3. QED
      BY <2>2, VectorPair
  <1>4. QED
    BY <1>1, <1>2, <1>3 DEF Ordered

(* Arguments of a directive, which may be left out, or have no argument. *)

Compared(R, l, r) ==
  CompareDirectives(l, r, Both(l, r) /\ <<l, r>> \in R, Both(l, r) /\ <<r, l>> \in R)

Verdict(R, S, x, y) ==
  /\ Rank(x) < Rank(y) => Compared(R, x, y) = -1
  /\ Rank(x) > Rank(y) => Compared(R, x, y) = 1
  /\ Rank(x) = Rank(y) /\ x \notin S => Compared(R, x, y) = 0 /\ x = y
  /\ Rank(x) = Rank(y) /\ x \in S =>
       /\ y \in S
       /\ <<x, y>> \in R => Compared(R, x, y) = -1
       /\ <<y, x>> \in R => Compared(R, x, y) = 1
       /\ <<x, y>> \notin R /\ <<y, x>> \notin R => Compared(R, x, y) = 0

LEMMA ArgumentsOrdered ==
  ASSUME NEW R, NEW S, Ordered(R, S), Absent # Null, Absent \notin S, Null \notin S
  PROVE  LET T == {Absent, Null} \cup S IN
         /\ \A x, y \in T : Compared(R, x, y) \in {-1, 0, 1}
         /\ \A x, y \in T : Compared(R, x, y) = 0 <=> x = y
         /\ \A x, y \in T : Compared(R, x, y) = -1 <=> Compared(R, y, x) = 1
         /\ \A x, y, z \in T :
              Compared(R, x, y) = -1 /\ Compared(R, y, z) = -1 => Compared(R, x, z) = -1
  <1> DEFINE T == {Absent, Null} \cup S
  <1>1. \A x \in T : Rank(x) \in 0..2 /\ (Rank(x) = 0 <=> x = Absent) /\ (Rank(x) = 1 <=> x = Null)
                     /\ (Rank(x) = 2 <=> x \in S)
    BY DEF Rank
  <1>2. ASSUME NEW x \in T, NEW y \in T PROVE Verdict(R, S, x, y)
    <2>1. /\ Rank(x) \in Int /\ Rank(y) \in Int
          /\ Rank(x) = Rank(y) /\ x \notin S => Rank(x) # 2 /\ x = y
          /\ Rank(x) = Rank(y) /\ x \in S => Rank(x) = 2 /\ y \in S
      BY <1>1
    <2>2. y \in S /\ x \in S => ~(<<x, y>> \in R /\ <<y, x>> \in R)
      BY OneOfThree
    <2> HIDE DEF T
    <2>3. QED
      BY <2>1, <2>2 DEF Verdict, Compared, CompareDirectives, Both
  <1> HIDE DEF T
  <1>3. ASSUME NEW x \in T, NEW y \in T
        PROVE  /\ Compared(R, x, y) \in {-1, 0, 1}
               /\ Compared(R, x, y) = 0 <=> x = y
               /\ Compared(R, x, y) = -1 <=> Compared(R, y, x) = 1
    <2>1. Rank(x) \in Int /\ Rank(y) \in Int /\ (Rank(x) = Rank(y) => (x \in S <=> y \in S))
          /\ (x = y => Rank(x) = Rank(y))
      BY <1>1
    <2>0. Verdict(R, S, x, y) /\ Verdict(R, S, y, x)
      BY <1>2
    <2>2. CASE Rank(x) # Rank(y)
      BY <2>0, <2>1, <2>2 DEF Verdict
    <2>3. CASE Rank(x) = Rank(y) /\ x \notin S
      BY <2>0, <2>1, <2>3 DEF Verdict
    <2>4. CASE Rank(x) = Rank(y) /\ x \in S
      <3>1. y \in S
        BY <2>0, <2>4 DEF Verdict
      <3>2. /\ ~(<<x, y>> \in R /\ <<y, x>> \in R)
            /\ (<<x, y>> \notin R /\ <<y, x>> \notin R) <=> x = y
        BY <2>4, <3>1, OneOfThree
      <3>3. QED
        BY <2>0, <2>4, <3>1, <3>2 DEF Verdict
    <2>5. QED
      BY <2>2, <2>3, <2>4
  <1>4. ASSUME NEW x \in T, NEW y \in T, NEW z \in T, Compared(R, x, y) = -1, Compared(R, y, z) = -1
        PROVE  Compared(R, x, z) = -1
    <2>1. Rank(x) \in Int /\ Rank(y) \in Int /\ Rank(z) \in Int
      BY <1>1
    <2>0. Verdict(R, S, x, y) /\ Verdict(R, S, y, z) /\ Verdict(R, S, x, z)
      BY <1>2
    <2>2. Rank(x) <= Rank(y) /\ Rank(y) <= Rank(z)
      BY <2>0, <1>4, <2>1 DEF Verdict
    <2>3. CASE Rank(x) < Rank(z)
      BY <2>0, <2>3 DEF Verdict
    <2>4. CASE Rank(x) = Rank(z)
      <3>1. Rank(x) = Rank(y) /\ Rank(y) = Rank(z)
        BY <2>1, <2>2, <2>4
      <3>2. x \in S /\ y \in S /\ z \in S
        BY <2>0, <1>4, <3>1 DEF Verdict
      <3>3. <<x, y>> \in R /\ <<y, z>> \in R
        BY <2>0, <1>4, <3>1, <3>2 DEF Verdict
      <3>4. <<x, z>> \in R
        BY <3>2, <3>3 DEF Ordered
      <3>5. QED
        BY <2>0, <2>4, <3>2, <3>4 DEF Verdict
    <2>5. QED
      BY <2>1, <2>2, <2>3, <2>4
  <1>5. QED
    BY <1>3, <1>4 DEF T

(* Properties, columns and orders. *)

IsById(p) == p.id \in Int /\ p.named = Absent /\ p = [id |-> p.id, named |-> Absent]

IsByName(p) ==
  /\ p.id = Absent /\ p = [id |-> Absent, named |-> p.named]
  /\ p.named # Absent /\ p.named.propset \in Int
  /\ p.named = [propset |-> p.named.propset, id |-> p.named.id, name |-> p.named.name]
  /\ \/ p.named.id \in Int /\ p.named.name = Absent
     \/ p.named.id = Absent /\ p.named.name \in Int

LEMMA PropShape ==
  ASSUME NEW p \in PropIds
  PROVE  IsById(p) \/ IsByName(p)
  BY NoValueAssumption DEF PropIds, WellFormed, OneOf, Optionally, NamedIds, IsById, IsByName

\* No comparison of well-formed properties throws.
LEMMA NothingThrows ==
  ASSUME NEW p \in PropIds, NEW q \in PropIds
  PROVE  ~CompareThrows(p, q)
  <1>1. Absent \notin Int
    BY NoValueAssumption
  <1>2. (IsById(p) \/ IsByName(p)) /\ (IsById(q) \/ IsByName(q))
    BY PropShape
  <1>3. CASE IsById(p) /\ IsById(q)
    BY <1>1, <1>3 DEF CompareThrows, PairThrows, IsById
  <1>4. CASE IsById(p) /\ IsByName(q)
    BY <1>1, <1>4 DEF CompareThrows, PairThrows, IsById, IsByName
  <1>5. CASE IsByName(p) /\ IsById(q)
    BY <1>1, <1>5 DEF CompareThrows, PairThrows, IsById, IsByName
  <1>6. CASE IsByName(p) /\ IsByName(q)
    BY <1>1, <1>6 DEF CompareThrows, PairThrows, IsByName
  <1>7. QED
    BY <1>2, <1>3, <1>4, <1>5, <1>6

PropOrder   == {pair \in PropIds \X PropIds : PropLess(pair[1], pair[2])}
ColumnOrder == {pair \in KeyColumns \X KeyColumns : ColumnLess(pair[1], pair[2])}
OrderOrder  == {pair \in KeyOrders \X KeyOrders : OrderLess(pair[1], pair[2])}

LEMMA PropsOrdered == Ordered(PropOrder, PropIds)
  <1>1. \A p, q \in PropIds : <<p, q>> \in PropOrder <=> PropLess(p, q)
    BY DEF PropOrder
  <1>2. Absent \notin Int
    BY NoValueAssumption
  <1>3. ASSUME NEW p \in PropIds PROVE ~PropLess(p, p)
    <2>1. IsById(p) \/ IsByName(p)
      BY PropShape
    <2>2. QED
      BY <1>2, <2>1 DEF PropLess, NamedLess, IsById, IsByName
  <1>4. ASSUME NEW p \in PropIds, NEW q \in PropIds
        PROVE  p = q \/ PropLess(p, q) \/ PropLess(q, p)
    <2>1. (IsById(p) \/ IsByName(p)) /\ (IsById(q) \/ IsByName(q))
      BY PropShape
    <2>2. CASE IsByName(p) /\ IsByName(q)
      <3>1. p.named = q.named \/ NamedLess(p.named, q.named) \/ NamedLess(q.named, p.named)
        BY <1>2, <2>2 DEF NamedLess, IsByName
      <3>2. QED
        BY <2>2, <3>1 DEF PropLess, IsByName
    <2>3. CASE IsById(p) \/ IsById(q)
      BY <1>2, <2>1, <2>3 DEF PropLess, IsById, IsByName
    <2>4. QED
      BY <2>1, <2>2, <2>3
  <1>5. ASSUME NEW p \in PropIds, NEW q \in PropIds, NEW r \in PropIds, PropLess(p, q), PropLess(q, r)
        PROVE  PropLess(p, r)
    <2>1. /\ IsById(p) \/ IsByName(p)
          /\ IsById(q) \/ IsByName(q)
          /\ IsById(r) \/ IsByName(r)
      BY PropShape
    <2>2. CASE IsByName(p) /\ IsByName(q) /\ IsByName(r)
      <3>1. NamedLess(p.named, q.named) /\ NamedLess(q.named, r.named)
        BY <1>2, <1>5, <2>2 DEF PropLess, IsByName
      <3>2. NamedLess(p.named, r.named)
        BY <1>2, <2>2, <3>1 DEF NamedLess, IsByName
      <3>3. QED
        BY <2>2, <3>2 DEF PropLess, IsByName
    <2>3. CASE IsById(p) \/ IsById(q) \/ IsById(r)
      BY <1>2, <1>5, <2>1, <2>3 DEF PropLess, IsById, IsByName
    <2>4. QED
      BY <2>1, <2>2, <2>3
  <1>6. QED
    BY <1>1, <1>3, <1>4, <1>5 DEF Ordered

LEMMA ColumnsOrdered == Ordered(ColumnOrder, KeyColumns)
  <1>1. \A c, d \in KeyColumns : <<c, d>> \in ColumnOrder <=> ColumnLess(c, d)
    BY DEF ColumnOrder
  <1>2. \A c \in KeyColumns : /\ c.property \in PropIds /\ c.type \in DOMAIN TypeRank /\ TypeRank[c.type] \in Int
                              /\ c = [property |-> c.property, type |-> c.type]
    BY TypeRankAssumption DEF KeyColumns
  <1>3. \A p, q \in PropIds : <<p, q>> \in PropOrder <=> PropLess(p, q)
    BY DEF PropOrder
  <1>4. \A p, q \in PropIds : p = q \/ PropLess(p, q) \/ PropLess(q, p)
    BY <1>3, PropsOrdered DEF Ordered
  <1>5. \A p, q, r \in PropIds : PropLess(p, q) /\ PropLess(q, r) => PropLess(p, r)
    BY <1>3, PropsOrdered DEF Ordered
  <1>6. \A p \in PropIds : ~PropLess(p, p)
    BY <1>3, PropsOrdered DEF Ordered
  <1>7. ASSUME NEW c \in KeyColumns PROVE ~ColumnLess(c, c)
    BY <1>2, <1>6 DEF ColumnLess
  <1>8. ASSUME NEW c \in KeyColumns, NEW d \in KeyColumns
        PROVE  c = d \/ ColumnLess(c, d) \/ ColumnLess(d, c)
    BY <1>2, <1>4, TypeRankAssumption DEF ColumnLess
  <1>9. ASSUME NEW c \in KeyColumns, NEW d \in KeyColumns, NEW e \in KeyColumns,
               ColumnLess(c, d), ColumnLess(d, e)
        PROVE  ColumnLess(c, e)
    BY <1>2, <1>5, <1>9 DEF ColumnLess
  <1>10. QED
    BY <1>1, <1>7, <1>8, <1>9 DEF Ordered

LEMMA OrdersOrdered == Ordered(OrderOrder, KeyOrders)
  <1>1. \A c, d \in KeyOrders : <<c, d>> \in OrderOrder <=> OrderLess(c, d)
    BY DEF OrderOrder
  <1> DEFINE Column(o) == [property |-> o.property, type |-> o.type]
  <1>2. \A o \in KeyOrders : /\ Column(o) \in KeyColumns /\ o.descending \in BOOLEAN
                             /\ o = [property |-> o.property, type |-> o.type, descending |-> o.descending]
    BY DEF KeyOrders, KeyColumns
  <1>3. \A c, d \in KeyOrders : ColumnLess(c, d) <=> <<Column(c), Column(d)>> \in ColumnOrder
    BY <1>2 DEF ColumnOrder, ColumnLess
  <1>4. \A c, d \in KeyOrders : Column(c) = Column(d) /\ c.descending = d.descending => c = d
    BY <1>2
  <1> HIDE DEF Column
  <1>5. ASSUME NEW c \in KeyOrders PROVE ~OrderLess(c, c)
    BY <1>2, <1>3, ColumnsOrdered DEF OrderLess, Ordered
  <1>6. ASSUME NEW c \in KeyOrders, NEW d \in KeyOrders
        PROVE  c = d \/ OrderLess(c, d) \/ OrderLess(d, c)
    BY <1>2, <1>3, <1>4, ColumnsOrdered DEF OrderLess, Ordered
  <1>7. ASSUME NEW c \in KeyOrders, NEW d \in KeyOrders, NEW e \in KeyOrders,
               OrderLess(c, d), OrderLess(d, e)
        PROVE  OrderLess(c, e)
    <2>1. ColumnLess(c, d) /\ ColumnLess(d, e) => ColumnLess(c, e)
      BY <1>2, <1>3, ColumnsOrdered DEF Ordered
    <2>2. QED
      BY <1>2, <1>7, <2>1 DEF OrderLess
  <1>8. QED
    BY <1>1, <1>5, <1>6, <1>7 DEF Ordered

\* The comparisons of vectors compare element by element.
LEMMA ColumnsLessIsBefore ==
  ASSUME NEW l \in Seq(KeyColumns), NEW r \in Seq(KeyColumns)
  PROVE  ColumnsLess(l, r) <=> <<l, r>> \in Vectors(ColumnOrder, KeyColumns)
  <1>1. /\ Len(l) \in Nat /\ Len(r) \in Nat
        /\ \A i \in 1..Len(l) : l[i] \in KeyColumns
        /\ \A i \in 1..Len(r) : r[i] \in KeyColumns
    BY ElementOfSeq, LenProperties
  <1>2. \A c, d \in KeyColumns : ColumnLess(c, d) <=> <<c, d>> \in ColumnOrder
    BY DEF ColumnOrder
  <1>3. \A c, d \in KeyColumns : (~ColumnLess(c, d) /\ ~ColumnLess(d, c)) <=> c = d
    BY <1>2, ColumnsOrdered DEF Ordered
  <1>4. ASSUME NEW n \in 1..(Len(l) + 1), n <= Len(r)
        PROVE  /\ (\A m \in 1..(n - 1) : ~ColumnLess(l[m], r[m]) /\ ~ColumnLess(r[m], l[m]))
                    <=> (\A m \in 1..(n - 1) : l[m] = r[m])
               /\ (n <= Len(l) => ColumnLess(l[n], r[n])) <=> (n <= Len(l) => <<l[n], r[n]>> \in ColumnOrder)
    <2>1. \A m \in 1..(n - 1) : l[m] \in KeyColumns /\ r[m] \in KeyColumns
      BY <1>1, <1>4
    <2>2. n <= Len(l) => l[n] \in KeyColumns /\ r[n] \in KeyColumns
      BY <1>1, <1>4
    <2>3. QED
      BY <1>2, <1>3, <2>1, <2>2
  <1>5. ColumnsLess(l, r) <=> Before(ColumnOrder, l, r)
    BY <1>4 DEF ColumnsLess, Before
  <1>6. QED
    BY <1>5, VectorPair

LEMMA OrdersLessIsBefore ==
  ASSUME NEW l \in Seq(KeyOrders), NEW r \in Seq(KeyOrders)
  PROVE  OrdersLess(l, r) <=> <<l, r>> \in Vectors(OrderOrder, KeyOrders)
  <1>1. /\ Len(l) \in Nat /\ Len(r) \in Nat
        /\ \A i \in 1..Len(l) : l[i] \in KeyOrders
        /\ \A i \in 1..Len(r) : r[i] \in KeyOrders
    BY ElementOfSeq, LenProperties
  <1>2. \A c, d \in KeyOrders : OrderLess(c, d) <=> <<c, d>> \in OrderOrder
    BY DEF OrderOrder
  <1>3. \A c, d \in KeyOrders : (~OrderLess(c, d) /\ ~OrderLess(d, c)) <=> c = d
    BY <1>2, OrdersOrdered DEF Ordered
  <1>4. ASSUME NEW n \in 1..(Len(l) + 1), n <= Len(r)
        PROVE  /\ (\A m \in 1..(n - 1) : ~OrderLess(l[m], r[m]) /\ ~OrderLess(r[m], l[m]))
                    <=> (\A m \in 1..(n - 1) : l[m] = r[m])
               /\ (n <= Len(l) => OrderLess(l[n], r[n])) <=> (n <= Len(l) => <<l[n], r[n]>> \in OrderOrder)
    <2>1. \A m \in 1..(n - 1) : l[m] \in KeyOrders /\ r[m] \in KeyOrders
      BY <1>1, <1>4
    <2>2. n <= Len(l) => l[n] \in KeyOrders /\ r[n] \in KeyOrders
      BY <1>1, <1>4
    <2>3. QED
      BY <1>2, <1>3, <2>1, <2>2
  <1>5. OrdersLess(l, r) <=> Before(OrderOrder, l, r)
    BY <1>4 DEF OrdersLess, Before
  <1>6. QED
    BY <1>5, VectorPair

(* Keys. *)

KeyDirectives ==
  [seek : {Absent, Null} \cup Int, offset : Optionally(Int), take : Optionally(Int),
   columns : Optionally(Seq(KeyColumns)), orderBy : Optionally(Seq(KeyOrders))]

NumberOrder == {pair \in Int \X Int : pair[1] < pair[2]}

\* What is compared, in its order.
Argument(d, i) == <<d.offset, d.take, d.seek, d.columns, d.orderBy>>[i]

\* The comparisons say which of two arguments is less, and 0 of equal ones.
LEMMA ComparisonsOrdered ==
  ASSUME NEW i \in 1..5
  PROVE  /\ \A d, e \in KeyDirectives : Comparisons(d, e)[i] \in {-1, 0, 1}
         /\ \A d, e \in KeyDirectives : Comparisons(d, e)[i] = 0 <=> Argument(d, i) = Argument(e, i)
         /\ \A d, e \in KeyDirectives : Comparisons(d, e)[i] = -1 <=> Comparisons(e, d)[i] = 1
         /\ \A d, e, f \in KeyDirectives :
              Comparisons(d, e)[i] = -1 /\ Comparisons(e, f)[i] = -1 => Comparisons(d, f)[i] = -1
  <1> DEFINE S == IF i <= 3 THEN Int ELSE IF i = 4 THEN Seq(KeyColumns) ELSE Seq(KeyOrders)
             R == IF i <= 3 THEN NumberOrder
                  ELSE IF i = 4 THEN Vectors(ColumnOrder, KeyColumns) ELSE Vectors(OrderOrder, KeyOrders)
             T == {Absent, Null} \cup S
  <1>1. Ordered(R, S)
    <2>1. Ordered(NumberOrder, Int)
      BY DEF Ordered, NumberOrder
    <2>2. Ordered(Vectors(ColumnOrder, KeyColumns), Seq(KeyColumns))
      BY ColumnsOrdered, VectorsOrdered
    <2>3. Ordered(Vectors(OrderOrder, KeyOrders), Seq(KeyOrders))
      BY OrdersOrdered, VectorsOrdered
    <2>4. CASE i <= 3
      BY <2>1, <2>4
    <2>5. CASE i = 4
      BY <2>2, <2>5
    <2>6. CASE i = 5
      BY <2>3, <2>6
    <2>7. QED
      BY <2>4, <2>5, <2>6
  <1>2. Absent # Null /\ Absent \notin S /\ Null \notin S
    BY NoValueAssumption
  <1>3. ASSUME NEW d \in KeyDirectives PROVE Argument(d, i) \in T
    <2>1. i \in {1, 2, 3, 4, 5}
      OBVIOUS
    <2>2. QED
      BY <2>1 DEF KeyDirectives, Argument, Optionally
  <1>4. ASSUME NEW d \in KeyDirectives, NEW e \in KeyDirectives
        PROVE  Comparisons(d, e)[i] = Compared(R, Argument(d, i), Argument(e, i))
    <2>1. \A x, y \in {Absent, Null} \cup Int :
            Both(x, y) => x \in Int /\ y \in Int
      BY DEF Both, Rank
    <2>2. \A x, y \in {Absent, Null} \cup Int :
            /\ (Both(x, y) /\ <<x, y>> \in NumberOrder) <=> (Both(x, y) /\ x < y)
            /\ (Both(x, y) /\ <<y, x>> \in NumberOrder) <=> (Both(x, y) /\ y < x)
      BY <2>1 DEF NumberOrder
    <2>3. CASE i = 1
      BY <2>2, <2>3 DEF KeyDirectives, Optionally, Comparisons, Compared, Argument
    <2>4. CASE i = 2
      BY <2>2, <2>4 DEF KeyDirectives, Optionally, Comparisons, Compared, Argument
    <2>5. CASE i = 3
      BY <2>2, <2>5 DEF KeyDirectives, Optionally, Comparisons, Compared, Argument
    <2>6. CASE i = 4
      <3>1. d.columns \in Optionally(Seq(KeyColumns)) /\ e.columns \in Optionally(Seq(KeyColumns))
        BY DEF KeyDirectives
      <3>2. Both(d.columns, e.columns) => d.columns \in Seq(KeyColumns) /\ e.columns \in Seq(KeyColumns)
        BY <3>1 DEF Both, Rank, Optionally
      <3>3. Both(d.columns, e.columns) =>
              /\ ColumnsLess(d.columns, e.columns) <=> <<d.columns, e.columns>> \in Vectors(ColumnOrder, KeyColumns)
              /\ ColumnsLess(e.columns, d.columns) <=> <<e.columns, d.columns>> \in Vectors(ColumnOrder, KeyColumns)
        BY <3>2, ColumnsLessIsBefore
      <3>4. QED
        BY <2>6, <3>3 DEF Comparisons, Compared, Argument
    <2>7. CASE i = 5
      <3>1. d.orderBy \in Optionally(Seq(KeyOrders)) /\ e.orderBy \in Optionally(Seq(KeyOrders))
        BY DEF KeyDirectives
      <3>2. Both(d.orderBy, e.orderBy) => d.orderBy \in Seq(KeyOrders) /\ e.orderBy \in Seq(KeyOrders)
        BY <3>1 DEF Both, Rank, Optionally
      <3>3. Both(d.orderBy, e.orderBy) =>
              /\ OrdersLess(d.orderBy, e.orderBy) <=> <<d.orderBy, e.orderBy>> \in Vectors(OrderOrder, KeyOrders)
              /\ OrdersLess(e.orderBy, d.orderBy) <=> <<e.orderBy, d.orderBy>> \in Vectors(OrderOrder, KeyOrders)
        BY <3>2, OrdersLessIsBefore
      <3>4. QED
        BY <2>7, <3>3 DEF Comparisons, Compared, Argument
    <2>8. QED
      BY <2>3, <2>4, <2>5, <2>6, <2>7
  <1> HIDE DEF S, R
  <1>5. /\ \A x, y \in T : Compared(R, x, y) \in {-1, 0, 1}
        /\ \A x, y \in T : Compared(R, x, y) = 0 <=> x = y
        /\ \A x, y \in T : Compared(R, x, y) = -1 <=> Compared(R, y, x) = 1
        /\ \A x, y, z \in T : Compared(R, x, y) = -1 /\ Compared(R, y, z) = -1 => Compared(R, x, z) = -1
    BY <1>1, <1>2, ArgumentsOrdered
  <1> HIDE DEF T
  <1>6. QED
    BY <1>3, <1>4, <1>5

DirectivesLess(d, e) ==
  \E i \in 1..5 : Comparisons(d, e)[i] = -1 /\ \A j \in 1..(i - 1) : Comparisons(d, e)[j] = 0

\* Equal arguments compare alike.
LEMMA SameArgument ==
  ASSUME NEW i \in 1..5, NEW d, NEW e, NEW f
  PROVE  /\ Argument(d, i) = Argument(e, i) => Comparisons(d, f)[i] = Comparisons(e, f)[i]
         /\ Argument(e, i) = Argument(f, i) => Comparisons(d, e)[i] = Comparisons(d, f)[i]
  <1>1. i \in {1, 2, 3, 4, 5}
    OBVIOUS
  <1>2. QED
    BY <1>1 DEF Argument, Comparisons

\* The first argument that differs decides.
LEMMA DirectivesOrdered ==
  /\ \A d \in KeyDirectives : ~DirectivesLess(d, d)
  /\ \A d, e \in KeyDirectives : d = e \/ DirectivesLess(d, e) \/ DirectivesLess(e, d)
  /\ \A d, e, f \in KeyDirectives : DirectivesLess(d, e) /\ DirectivesLess(e, f) => DirectivesLess(d, f)
  <1>1. \A d, e \in KeyDirectives : (\A i \in 1..5 : Argument(d, i) = Argument(e, i)) => d = e
    <2> SUFFICES ASSUME NEW d \in KeyDirectives, NEW e \in KeyDirectives,
                        \A i \in 1..5 : Argument(d, i) = Argument(e, i)
                 PROVE  d = e
      OBVIOUS
    <2>1. Argument(d, 1) = Argument(e, 1) /\ Argument(d, 2) = Argument(e, 2) /\ Argument(d, 3) = Argument(e, 3)
          /\ Argument(d, 4) = Argument(e, 4) /\ Argument(d, 5) = Argument(e, 5)
      OBVIOUS
    <2>2. d.offset = e.offset /\ d.take = e.take /\ d.seek = e.seek /\ d.columns = e.columns /\ d.orderBy = e.orderBy
      BY <2>1 DEF Argument
    <2>3. QED
      BY <2>2 DEF KeyDirectives
  <1>2. ASSUME NEW d \in KeyDirectives PROVE ~DirectivesLess(d, d)
    <2>1. \A i \in 1..5 : Comparisons(d, d)[i] = 0
      BY ComparisonsOrdered
    <2>2. QED
      BY <2>1 DEF DirectivesLess
  <1>3. ASSUME NEW d \in KeyDirectives, NEW e \in KeyDirectives
        PROVE  d = e \/ DirectivesLess(d, e) \/ DirectivesLess(e, d)
    <2> DEFINE differing == {i \in 1..5 : Comparisons(d, e)[i] # 0}
    <2>1. CASE differing = {}
      <3>1. \A i \in 1..5 : Argument(d, i) = Argument(e, i)
        BY <2>1, ComparisonsOrdered
      <3>2. QED
        BY <1>1, <3>1
    <2>2. CASE differing # {}
      <3>1. differing \subseteq Nat
        OBVIOUS
      <3> HIDE DEF differing
      <3>2. PICK i \in differing : \A j \in differing : i <= j
        BY <2>2, <3>1, LeastNumber
      <3>3. i \in 1..5 /\ Comparisons(d, e)[i] # 0 /\ \A j \in 1..(i - 1) : Comparisons(d, e)[j] = 0
        BY <3>2 DEF differing
      <3>4. \A j \in 1..(i - 1) : Comparisons(e, d)[j] = 0
        <4>1. \A j \in 1..5 : Comparisons(d, e)[j] = 0 => Comparisons(e, d)[j] = 0
          BY ComparisonsOrdered
        <4>2. QED
          BY <3>3, <4>1
      <3>5. Comparisons(d, e)[i] = -1 \/ Comparisons(e, d)[i] = -1
        BY <3>3, ComparisonsOrdered
      <3>6. QED
        BY <3>3, <3>4, <3>5 DEF DirectivesLess
    <2>3. QED
      BY <2>1, <2>2
  <1>4. ASSUME NEW d \in KeyDirectives, NEW e \in KeyDirectives, NEW f \in KeyDirectives,
               DirectivesLess(d, e), DirectivesLess(e, f)
        PROVE  DirectivesLess(d, f)
    <2>1. PICK i \in 1..5 : Comparisons(d, e)[i] = -1 /\ \A j \in 1..(i - 1) : Comparisons(d, e)[j] = 0
      BY <1>4 DEF DirectivesLess
    <2>2. PICK k \in 1..5 : Comparisons(e, f)[k] = -1 /\ \A j \in 1..(k - 1) : Comparisons(e, f)[j] = 0
      BY <1>4 DEF DirectivesLess
    <2>3. ASSUME NEW j \in 1..5
          PROVE  /\ Comparisons(d, e)[j] = 0 => Comparisons(d, f)[j] = Comparisons(e, f)[j]
                 /\ Comparisons(e, f)[j] = 0 => Comparisons(d, f)[j] = Comparisons(d, e)[j]
                 /\ Comparisons(d, e)[j] = -1 /\ Comparisons(e, f)[j] = -1 => Comparisons(d, f)[j] = -1
      <3>1. Comparisons(d, e)[j] = 0 => Argument(d, j) = Argument(e, j)
        BY ComparisonsOrdered
      <3>2. Comparisons(e, f)[j] = 0 => Argument(e, j) = Argument(f, j)
        BY ComparisonsOrdered
      <3>3. QED
        BY <3>1, <3>2, ComparisonsOrdered, SameArgument
    <2>4. CASE i < k
      <3>1. Comparisons(d, f)[i] = -1 /\ \A j \in 1..(i - 1) : Comparisons(d, f)[j] = 0
        BY <2>1, <2>2, <2>3, <2>4
      <3>2. QED
        BY <3>1 DEF DirectivesLess
    <2>5. CASE k < i
      <3>1. Comparisons(d, f)[k] = -1 /\ \A j \in 1..(k - 1) : Comparisons(d, f)[j] = 0
        BY <2>1, <2>2, <2>3, <2>5
      <3>2. QED
        BY <3>1 DEF DirectivesLess
    <2>6. CASE i = k
      <3>1. Comparisons(d, f)[k] = -1 /\ \A j \in 1..(k - 1) : Comparisons(d, f)[j] = 0
        BY <2>1, <2>2, <2>3, <2>6
      <3>2. QED
        BY <3>1 DEF DirectivesLess
    <2>7. QED
      BY <2>4, <2>5, <2>6
  <1>5. QED
    BY <1>2, <1>3, <1>4

ObjectIds == [storeId : Int, objectId : Int]

LEMMA KeyParts ==
  ASSUME NEW a \in RequestKeys, NEW b \in RequestKeys
  PROVE  /\ a.objectId \in ObjectIds /\ a.directives \in KeyDirectives
         /\ a.objectId = b.objectId /\ a.directives = b.directives => a = b
         /\ KeyLess(a, b) <=> \/ ObjectIdLess(a.objectId, b.objectId)
                              \/ /\ ~ObjectIdLess(b.objectId, a.objectId)
                                 /\ DirectivesLess(a.directives, b.directives)
  BY DEF RequestKeys, ObjectIds, KeyDirectives, KeyLess, DirectivesLess

LEMMA ObjectIdsOrdered ==
  /\ \A l \in ObjectIds : ~ObjectIdLess(l, l)
  /\ \A l, r \in ObjectIds : l = r \/ ObjectIdLess(l, r) \/ ObjectIdLess(r, l)
  /\ \A l, r, s \in ObjectIds : ObjectIdLess(l, r) /\ ObjectIdLess(r, s) => ObjectIdLess(l, s)
  BY DEF ObjectIds, ObjectIdLess

KeyOrdering == {pair \in RequestKeys \X RequestKeys : KeyLess(pair[1], pair[2])}

\* The order of requests is a strict total order.
LEMMA KeysOrdered == Ordered(KeyOrdering, RequestKeys)
  <1>1. \A a, b \in RequestKeys : <<a, b>> \in KeyOrdering <=> KeyLess(a, b)
    BY DEF KeyOrdering
  <1>2. ASSUME NEW a \in RequestKeys PROVE ~KeyLess(a, a)
    BY KeyParts, ObjectIdsOrdered, DirectivesOrdered
  <1>3. ASSUME NEW a \in RequestKeys, NEW b \in RequestKeys
        PROVE  a = b \/ KeyLess(a, b) \/ KeyLess(b, a)
    <2>1. a.objectId \in ObjectIds /\ a.directives \in KeyDirectives
          /\ b.objectId \in ObjectIds /\ b.directives \in KeyDirectives
      BY KeyParts
    <2>2. a.objectId = b.objectId \/ ObjectIdLess(a.objectId, b.objectId) \/ ObjectIdLess(b.objectId, a.objectId)
      BY <2>1, ObjectIdsOrdered
    <2>3. \/ a.directives = b.directives
          \/ DirectivesLess(a.directives, b.directives) \/ DirectivesLess(b.directives, a.directives)
      BY <2>1, DirectivesOrdered
    <2>4. QED
      BY <2>2, <2>3, KeyParts
  <1>4. ASSUME NEW a \in RequestKeys, NEW b \in RequestKeys, NEW c \in RequestKeys, KeyLess(a, b), KeyLess(b, c)
        PROVE  KeyLess(a, c)
    <2>1. a.objectId \in ObjectIds /\ a.directives \in KeyDirectives
          /\ b.objectId \in ObjectIds /\ b.directives \in KeyDirectives
          /\ c.objectId \in ObjectIds /\ c.directives \in KeyDirectives
      BY KeyParts
    <2>2. \A l, r \in {a.objectId, b.objectId, c.objectId} :
            ~ObjectIdLess(l, l) /\ (l = r \/ ObjectIdLess(l, r) \/ ObjectIdLess(r, l))
      BY <2>1, ObjectIdsOrdered
    <2>3. \A l, r, s \in {a.objectId, b.objectId, c.objectId} :
            ObjectIdLess(l, r) /\ ObjectIdLess(r, s) => ObjectIdLess(l, s)
      BY <2>1, ObjectIdsOrdered
    <2>4. DirectivesLess(a.directives, b.directives) /\ DirectivesLess(b.directives, c.directives)
            => DirectivesLess(a.directives, c.directives)
      BY <2>1, DirectivesOrdered
    <2>5. QED
      BY <1>4, <2>2, <2>3, <2>4, KeyParts
  <1>5. QED
    BY <1>1, <1>2, <1>3, <1>4 DEF Ordered

LEMMA PropertiesWellFormed ==
  ASSUME NEW a \in RequestKeys
  PROVE  PropertiesOf(a) \subseteq PropIds
  <1>1. a.directives \in KeyDirectives
    BY KeyParts
  <1>2. Requested(a.directives.columns) \in Seq(KeyColumns) /\ Requested(a.directives.orderBy) \in Seq(KeyOrders)
    BY <1>1 DEF KeyDirectives, Optionally, Requested
  <1>3. \A list \in Seq(KeyColumns) : \A i \in DOMAIN list : list[i].property \in PropIds
    <2> SUFFICES ASSUME NEW list \in Seq(KeyColumns), NEW i \in DOMAIN list
                 PROVE  list[i].property \in PropIds
      OBVIOUS
    <2>1. list[i] \in KeyColumns
      BY ElementOfSeq, LenProperties
    <2>2. QED
      BY <2>1 DEF KeyColumns
  <1>4. \A list \in Seq(KeyOrders) : \A i \in DOMAIN list : list[i].property \in PropIds
    <2> SUFFICES ASSUME NEW list \in Seq(KeyOrders), NEW i \in DOMAIN list
                 PROVE  list[i].property \in PropIds
      OBVIOUS
    <2>1. list[i] \in KeyOrders
      BY ElementOfSeq, LenProperties
    <2>2. QED
      BY <2>1 DEF KeyOrders
  <1>5. QED
    BY <1>2, <1>3, <1>4 DEF PropertiesOf

\* The order of the registrations is total over the requests of any length, and
\* nothing in it throws.
THEOREM KeysAreTotallyOrdered == OpSpec => []KeysAreOrdered
  <1>1. OpInv => KeysAreOrdered
    <2> SUFFICES ASSUME OpInv, sample.of = "keys" PROVE KeysAreOrdered
      BY DEF KeysAreOrdered
    <2>1. sample.a \in Keys /\ sample.b \in Keys
      BY DEF OpInv, Samples, Nothing
    <2>2. Keys \subseteq RequestKeys
      BY KeysAssumption
    <2>3. \A a, b \in RequestKeys : <<a, b>> \in KeyOrdering <=> KeyLess(a, b)
      BY DEF KeyOrdering
    <2>4. \A a, b \in RequestKeys : ~(KeyLess(a, b) /\ KeyLess(b, a))
                                    /\ ((~KeyLess(a, b) /\ ~KeyLess(b, a)) <=> a = b)
      BY <2>3, KeysOrdered, OneOfThree
    <2>5. \A a, b, c \in RequestKeys : KeyLess(a, b) /\ KeyLess(b, c) => KeyLess(a, c)
      BY <2>3, KeysOrdered DEF Ordered
    <2>6. \A p \in PropertiesOf(sample.a), q \in PropertiesOf(sample.b) : ~CompareThrows(p, q)
      BY <2>1, <2>2, PropertiesWellFormed, NothingThrows
    <2>7. QED
      BY <2>1, <2>2, <2>4, <2>5, <2>6 DEF KeysAreOrdered
  <1>2. QED
    BY <1>1, EachIsAnswered, PTL

(***************************************************************************)
(* Times.                                                                  *)
(***************************************************************************)
LEMMA NumberOfNone == Number(<<>>) = 0
  <1>1. \E f : f = [n \in 0..0 |-> IF n = 0 THEN 0 ELSE 10 * f[n - 1] + (<<>>)[n]]
    <2> DEFINE g == [n \in 0..0 |-> 0]
    <2>1. g = [n \in 0..0 |-> IF n = 0 THEN 0 ELSE 10 * g[n - 1] + (<<>>)[n]]
      OBVIOUS
    <2>2. QED
      BY <2>1
  <1> DEFINE upTo == CHOOSE f : f = [n \in 0..0 |-> IF n = 0 THEN 0 ELSE 10 * f[n - 1] + (<<>>)[n]]
  <1>2. upTo = [n \in 0..0 |-> IF n = 0 THEN 0 ELSE 10 * upTo[n - 1] + (<<>>)[n]]
    BY <1>1
  <1>3. upTo[0] = 0
    BY <1>2
  <1>4. Len(<<>>) = 0
    OBVIOUS
  <1>5. QED
    BY <1>3, <1>4 DEF Number

LEMMA NumberOfThree ==
  ASSUME NEW a \in Nat, NEW b \in Nat, NEW c \in Nat
  PROVE  Number(<<a, b, c>>) = 100 * a + 10 * b + c
  <1> DEFINE three == <<a, b, c>>
             Step(f) == [n \in 0..3 |-> IF n = 0 THEN 0 ELSE 10 * f[n - 1] + three[n]]
             g == [n \in 0..3 |-> IF n = 0 THEN 0 ELSE IF n = 1 THEN a
                                  ELSE IF n = 2 THEN 10 * a + b ELSE 100 * a + 10 * b + c]
  <1>1. g = Step(g)
    <2>1. three[1] = a /\ three[2] = b /\ three[3] = c
      OBVIOUS
    <2>2. g[0] = 0 /\ g[1] = a /\ g[2] = 10 * a + b /\ g[3] = 100 * a + 10 * b + c
      OBVIOUS
    <2> HIDE DEF three
    <2>3. \A n \in 0..3 : g[n] = IF n = 0 THEN 0 ELSE 10 * g[n - 1] + three[n]
      <3> TAKE n \in 0..3
      <3>1. n = 0 \/ n = 1 \/ n = 2 \/ n = 3
        OBVIOUS
      <3> HIDE DEF g
      <3>2. QED
        BY <2>1, <2>2, <3>1
    <2>4. QED
      BY <2>3
  <1> DEFINE upTo == CHOOSE f : f = Step(f)
  <1>2. upTo = Step(upTo)
    BY <1>1
  <1>3. Number(three) = upTo[3]
    BY DEF Number
  <1>4. three[1] = a /\ three[2] = b /\ three[3] = c
    OBVIOUS
  <1> HIDE DEF upTo, three, g
  <1>5. upTo[0] = 0 /\ upTo[1] = 10 * upTo[0] + three[1] /\ upTo[2] = 10 * upTo[1] + three[2]
        /\ upTo[3] = 10 * upTo[2] + three[3]
    BY <1>2
  <1>6. QED
    BY <1>3, <1>4, <1>5 DEF three

\* Division rounds down to a multiple.
Thousand(k) == 0..(1000 * k - 1)

RoundsDown(n, k) == n \div k \in 0..999 /\ (n \div k) * k = n - (n % k)

LEMMA Quotient ==
  ASSUME NEW k \in Nat \ {0}, NEW n \in Thousand(k)
  PROVE  RoundsDown(n, k)
  <1> DEFINE q == n \div k
             r == n % k
  <1>1. q \in Int /\ r \in 0..(k - 1) /\ n = k * q + r
    BY DEF Thousand
  <1>2. n \in Int /\ 0 <= n /\ n < 1000 * k
    BY DEF Thousand
  <1> HIDE DEF q, r
  <1>3. q * k = n - r
    BY <1>1, <1>2
  <1>4. q <= 999
    <2>1. SUFFICES ASSUME q >= 1000 PROVE FALSE
      BY <1>1
    <2>2. k * q >= k * 1000
      BY <2>1, <1>1
    <2>3. QED
      BY <1>1, <1>2, <2>2
  <1>5. q >= 0
    <2>1. SUFFICES ASSUME q <= -1 PROVE FALSE
      BY <1>1
    <2>2. k * q <= k * (-1)
      BY <2>1, <1>1
    <2>3. QED
      BY <1>1, <1>2, <2>2
  <1>6. q \in 0..999
    BY <1>1, <1>4, <1>5
  <1>7. QED
    BY <1>3, <1>6, Zenon DEF q, r, RoundsDown

LEMMA TicksArePositive == TicksPerMillisecond \in Nat \ {0}
  BY DEF TicksPerMillisecond

LEMMA NumberOfDecimal ==
  ASSUME NEW n \in 0..999
  PROVE  Number(Decimal(n)) = n
  <1>1. n \div 100 \in Nat /\ (n \div 10) % 10 \in Nat /\ n % 10 \in Nat
    OBVIOUS
  <1>2. 100 * (n \div 100) + 10 * ((n \div 10) % 10) + (n % 10) = n
    OBVIOUS
  <1>3. QED
    BY <1>1, <1>2, NumberOfThree DEF Decimal

\* Every time comes back from its text, cut to the millisecond.
THEOREM TimesAreRead == OpSpec => []TimesComeBack
  <1>1. OpInv => TimesComeBack
    <2> SUFFICES ASSUME OpInv, sample.of = "time" PROVE TimesComeBack
      BY DEF TimesComeBack
    <2> DEFINE ft == sample.time
               ms == ft.tick \div TicksPerMillisecond
               text == time_to_string(ft)
    <2>1. ft \in [second : Int, tick : 0..(1000 * TicksPerMillisecond - 1)]
      BY TimesAssumption, SMTT(20) DEF OpInv, Samples, Nothing
    <2>2. ms \in 0..999 /\ ms * TicksPerMillisecond = ft.tick - (ft.tick % TicksPerMillisecond)
      <3>1. ft.tick \in Thousand(TicksPerMillisecond)
        BY <2>1 DEF Thousand
      <3>2. QED
        <4>1. RoundsDown(ft.tick, TicksPerMillisecond)
          BY <3>1, TicksArePositive, Quotient, Zenon
        <4>2. QED
          BY <4>1 DEF RoundsDown
    <2>3. text = [second |-> ft.second, fraction |-> IF ms = 0 THEN <<>> ELSE Decimal(ms)]
      BY DEF time_to_string
    <2> HIDE DEF ms, text
    <2>4. Number(text.fraction) = ms /\ Len(text.fraction) \in {0, 3}
      <3>1. CASE ms = 0
        BY <2>3, <3>1, NumberOfNone
      <3>2. CASE ms # 0
        <4>1. text.fraction = Decimal(ms)
          BY <2>3, <3>2
        <4>2. Number(Decimal(ms)) = ms
          BY <2>2, NumberOfDecimal
        <4>3. Len(Decimal(ms)) = 3
          BY DEF Decimal
        <4>4. QED
          BY <4>1, <4>2, <4>3
      <3>3. QED
        BY <3>1, <3>2
    <2>5. time_from_string(text) = [second |-> ft.second, tick |-> ms * TicksPerMillisecond]
      <3>1. ~(ms >= 1000)
        BY <2>2
      <3>2. QED
        BY <2>3, <2>4, <3>1 DEF time_from_string
    <2>6. [second |-> ft.second, tick |-> ms * TicksPerMillisecond]
            = [ft EXCEPT !.tick = @ - (@ % TicksPerMillisecond)]
      BY <2>1, <2>2
    <2>7. QED
      BY <2>4, <2>5, <2>6 DEF TimesComeBack, text
  <1>2. QED
    BY <1>1, EachIsAnswered, PTL

(***************************************************************************)
(* Digits.                                                                 *)
(***************************************************************************)
LEMMA Numerals ==
  ASSUME NEW S, NEW n \in Nat, NEW s \in [1..n -> S]
  PROVE  s \in Seq(S) /\ Len(s) = n
  BY SeqDef

\* A number of n digits in n digits is itself.
LEMMA Widths ==
  ASSUME NEW n \in Nat, NEW digits \in Seq(Digits)
  PROVE  /\ Width(n, digits) \in [1..n -> Digits]
         /\ Len(digits) = n => Width(n, digits) = digits
  <1>1. Len(digits) \in Nat /\ \A i \in 1..Len(digits) : digits[i] \in Digits
    BY LenProperties, ElementOfSeq
  <1>2. 0 \in Digits
    BY DEF Digits
  <1>3. ASSUME NEW i \in 1..n PROVE Width(n, digits)[i] \in Digits
    <2>1. i + Len(digits) > n => i + Len(digits) - n \in 1..Len(digits)
      BY <1>1
    <2>2. QED
      BY <1>1, <1>2, <2>1 DEF Width
  <1>4. Width(n, digits) \in [1..n -> Digits]
    BY <1>3 DEF Width
  <1>5. ASSUME Len(digits) = n PROVE Width(n, digits) = digits
    <2>1. digits \in [1..n -> Digits]
      BY <1>5, LenProperties
    <2>2. \A i \in 1..n : Width(n, digits)[i] = digits[i]
      <3> TAKE i \in 1..n
      <3>1. i + Len(digits) > n /\ i + Len(digits) - n = i
        BY <1>5
      <3>2. QED
        BY <3>1 DEF Width
    <2>3. QED
      BY <1>4, <2>1, <2>2
  <1>6. QED
    BY <1>4, <1>5

\* A part of a number is its digits there.
LEMMA Parts ==
  ASSUME NEW n \in Nat, NEW digits \in [1..n -> Digits], NEW i \in 1..n, NEW j \in i..n
  PROVE  /\ SubSeq(digits, i, j) \in [1..(j - i + 1) -> Digits]
         /\ SubSeq(digits, i, j) \in Seq(Digits) /\ Len(SubSeq(digits, i, j)) = j - i + 1
         /\ \A k \in 1..(j - i + 1) : SubSeq(digits, i, j)[k] = digits[i + k - 1]
  <1>1. i \in Int /\ j \in Int /\ i <= j /\ \A k \in i..j : digits[k] \in Digits
    OBVIOUS
  <1>2. SubSeq(digits, i, j) \in Seq(Digits) /\ Len(SubSeq(digits, i, j)) = j - i + 1
        /\ \A k \in 1..(j - i + 1) : SubSeq(digits, i, j)[k] = digits[i + k - 1]
    BY <1>1, SubSeqProperties
  <1>3. QED
    BY <1>2, LenProperties

\* Without a width a number has as many digits or fewer; no fewer if the first is none of 0.
LEMMA BareNumbers ==
  ASSUME NEW digits \in Seq(Digits), Len(digits) > 0
  PROVE  /\ Bare(digits) \in Seq(Digits)
         /\ Len(Bare(digits)) <= Len(digits)
         /\ digits[1] # 0 => Bare(digits) = digits
  <1> DEFINE nonzero == {i \in DOMAIN digits : digits[i] # 0}
             first == First(nonzero)
  <1>1. Len(digits) \in Nat \ {0} /\ DOMAIN digits = 1..Len(digits)
        /\ \A i \in 1..Len(digits) : digits[i] \in Digits
    BY LenProperties, ElementOfSeq
  <1>2. CASE nonzero = {}
    <2>1. Bare(digits) = <<0>> /\ digits[1] = 0
      BY <1>1, <1>2 DEF Bare
    <2>2. <<0>> \in Seq(Digits) /\ Len(<<0>>) = 1
      BY DEF Digits
    <2>3. QED
      BY <1>1, <2>1, <2>2
  <1>3. CASE nonzero # {}
    <2>1. first \in nonzero /\ \A j \in nonzero : first <= j
      <3>1. nonzero \in SUBSET Nat
        BY <1>1
      <3>2. \E i \in nonzero : \A j \in nonzero : i <= j
        <4> HIDE DEF nonzero
        <4>1. QED
          BY <1>3, <3>1, LeastNumber
      <3>3. QED
        BY <3>2 DEF First
    <2>2. first \in 1..Len(digits)
      BY <1>1, <2>1
    <2>3. Bare(digits) = SubSeq(digits, first, Len(digits))
      BY <1>3 DEF Bare
    <2>4. digits[1] # 0 => first = 1
      <3>1. digits[1] # 0 => 1 \in nonzero
        BY <1>1
      <3> HIDE DEF first, nonzero
      <3>2. QED
        BY <2>1, <2>2, <3>1
    <2> HIDE DEF first
    <2>5. /\ SubSeq(digits, first, Len(digits)) \in Seq(Digits)
          /\ Len(SubSeq(digits, first, Len(digits))) = Len(digits) - first + 1
      BY <1>1, <2>2, Parts, LenProperties
    <2>6. QED
      BY <1>1, <2>2, <2>3, <2>4, <2>5, SubSeqFull
  <1>4. QED
    BY <1>2, <1>3

\* Two numbers, one after the other.
LEMMA Joined ==
  ASSUME NEW s \in Seq(Digits), NEW t \in Seq(Digits)
  PROVE  /\ s \o t \in Seq(Digits) /\ Len(s \o t) = Len(s) + Len(t)
         /\ \A k \in 1..Len(s) : (s \o t)[k] = s[k]
         /\ \A k \in 1..Len(t) : (s \o t)[Len(s) + k] = t[k]
  <1> DEFINE m == Len(s)
             n == Len(t)
  <1>1. m \in Nat /\ n \in Nat
    BY LenProperties
  <1>2. s \o t \in Seq(Digits) /\ Len(s \o t) = m + n
        /\ \A k \in 1..(m + n) : (s \o t)[k] = IF k <= m THEN s[k] ELSE t[k - m]
    BY ConcatProperties
  <1> HIDE DEF m, n
  <1>3. ASSUME NEW k \in 1..m PROVE (s \o t)[k] = s[k]
    <2>1. k \in 1..(m + n) /\ k <= m
      BY <1>1
    <2>2. QED
      BY <1>2, <2>1
  <1>4. ASSUME NEW k \in 1..n PROVE (s \o t)[m + k] = t[k]
    <2>1. m + k \in 1..(m + n) /\ ~(m + k <= m) /\ (m + k) - m = k
      BY <1>1
    <2>2. QED
      BY <1>2, <2>1
  <1>5. QED
    BY <1>2, <1>3, <1>4 DEF m, n

\* The words of data4, one after the other.
LEMMA Words ==
  ASSUME NEW guid, guid.data4 \in [1..16 -> Digits]
  PROVE  /\ \A n \in 1..4 : /\ Word(guid, n) \in Seq(Digits) /\ Len(Word(guid, n)) = 4
                            /\ \A k \in 1..4 : Word(guid, n)[k] = guid.data4[4 * n - 4 + k]
         /\ Word(guid, 1) = SubSeq(guid.data4, 1, 4)
         /\ Word(guid, 2) \o Word(guid, 3) \o Word(guid, 4) = SubSeq(guid.data4, 5, 16)
         /\ SubSeq(guid.data4, 1, 4) \o SubSeq(guid.data4, 5, 16) = guid.data4
  <1> DEFINE d == guid.data4
             w2 == Word(guid, 2)
             w3 == Word(guid, 3)
             w4 == Word(guid, 4)
             low == SubSeq(d, 1, 4)
             high == SubSeq(d, 5, 16)
  <1>1. d \in [1..16 -> Digits] /\ 16 \in Nat
    OBVIOUS
  <1> HIDE DEF d
  <1>2. ASSUME NEW n \in 1..4
        PROVE  /\ SubSeq(d, 4 * n - 3, 4 * n) \in Seq(Digits)
               /\ Len(SubSeq(d, 4 * n - 3, 4 * n)) = 4
               /\ \A k \in 1..4 : SubSeq(d, 4 * n - 3, 4 * n)[k] = d[4 * n - 4 + k]
    <2> DEFINE i == 4 * n - 3
               j == 4 * n
    <2>1. i \in 1..16 /\ j \in i..16 /\ j - i + 1 = 4 /\ \A k \in 1..4 : i + k - 1 = 4 * n - 4 + k
      OBVIOUS
    <2> HIDE DEF i, j
    <2>2. SubSeq(d, i, j) \in Seq(Digits) /\ Len(SubSeq(d, i, j)) = 4
          /\ \A k \in 1..4 : SubSeq(d, i, j)[k] = d[i + k - 1]
      BY <1>1, <2>1, Parts
    <2>3. QED
      BY <2>1, <2>2 DEF i, j
  <1>3. \A n \in 1..4 : Word(guid, n) = SubSeq(d, 4 * n - 3, 4 * n)
    BY DEF Word, d
  <1>4. \A n \in 1..4 : Word(guid, n) \in Seq(Digits) /\ Len(Word(guid, n)) = 4
                        /\ \A k \in 1..4 : Word(guid, n)[k] = d[4 * n - 4 + k]
    BY <1>2, <1>3
  <1>5. Word(guid, 1) = low
    BY <1>3
  <1>6. w2 \in Seq(Digits) /\ w3 \in Seq(Digits) /\ w4 \in Seq(Digits)
        /\ Len(w2) = 4 /\ Len(w3) = 4 /\ Len(w4) = 4
        /\ \A k \in 1..4 : w2[k] = d[4 + k] /\ w3[k] = d[8 + k] /\ w4[k] = d[12 + k]
    BY <1>4
  <1>7. low \in Seq(Digits) /\ Len(low) = 4 /\ \A k \in 1..4 : low[k] = d[k]
    BY <1>1, Parts
  <1>8. high \in Seq(Digits) /\ Len(high) = 12 /\ \A k \in 1..12 : high[k] = d[4 + k]
    <2>1. 5 \in 1..16 /\ 16 \in 5..16 /\ 16 - 5 + 1 = 12 /\ \A k \in 1..12 : 5 + k - 1 = 4 + k
      OBVIOUS
    <2>2. QED
      BY <1>1, <2>1, Parts
  <1> HIDE DEF low, high, w2, w3, w4
  <1>9. w2 \o w3 \o w4 = high
    <2> DEFINE w23 == w2 \o w3
               w == w23 \o w4
    <2>1. w23 \in Seq(Digits) /\ Len(w23) = 8
          /\ \A k \in 1..4 : w23[k] = w2[k] /\ w23[4 + k] = w3[k]
      <3>1. w2 \o w3 \in Seq(Digits) /\ Len(w2 \o w3) = Len(w2) + Len(w3)
            /\ (\A k \in 1..Len(w2) : (w2 \o w3)[k] = w2[k])
            /\ \A k \in 1..Len(w3) : (w2 \o w3)[Len(w2) + k] = w3[k]
        BY <1>6, Joined
      <3>2. QED
        BY <1>6, <3>1
    <2> HIDE DEF w23
    <2>2. w \in Seq(Digits) /\ Len(w) = 12
          /\ (\A k \in 1..8 : w[k] = w23[k]) /\ \A k \in 1..4 : w[8 + k] = w4[k]
      <3>1. w23 \o w4 \in Seq(Digits) /\ Len(w23 \o w4) = Len(w23) + Len(w4)
            /\ (\A k \in 1..Len(w23) : (w23 \o w4)[k] = w23[k])
            /\ \A k \in 1..Len(w4) : (w23 \o w4)[Len(w23) + k] = w4[k]
        BY <1>6, <2>1, Joined
      <3> HIDE DEF w
      <3>2. w \in Seq(Digits) /\ Len(w) = 8 + 4
        BY <1>6, <2>1, <3>1 DEF w
      <3>3. \A k \in 1..8 : w[k] = w23[k]
        BY <2>1, <3>1 DEF w
      <3>4. \A k \in 1..4 : w[8 + k] = w4[k]
        BY <1>6, <2>1, <3>1 DEF w
      <3>5. QED
        BY <3>2, <3>3, <3>4
    <2> HIDE DEF w
    <2>3. \A k \in 1..4 : w[k] = high[k] /\ w[4 + k] = high[4 + k] /\ w[8 + k] = high[8 + k]
      <3> TAKE k \in 1..4
      <3>1. k \in 1..8 /\ 4 + k \in 1..8 /\ k \in 1..12 /\ 4 + k \in 1..12 /\ 8 + k \in 1..12
        OBVIOUS
      <3>2. high[k] = d[4 + k] /\ high[4 + k] = d[4 + (4 + k)] /\ high[8 + k] = d[4 + (8 + k)]
        BY <1>8, <3>1
      <3>3. w[k] = w2[k] /\ w[4 + k] = w3[k] /\ w[8 + k] = w4[k]
        BY <2>1, <2>2, <3>1
      <3>4. 4 + (4 + k) = 8 + k /\ 4 + (8 + k) = 12 + k
        OBVIOUS
      <3>5. QED
        BY <1>6, <3>2, <3>3, <3>4
    <2>4. \A k \in 1..12 : w[k] = high[k]
      <3> TAKE k \in 1..12
      <3>1. k \in 1..4 \/ (k - 4 \in 1..4 /\ 4 + (k - 4) = k) \/ (k - 8 \in 1..4 /\ 8 + (k - 8) = k)
        OBVIOUS
      <3>2. QED
        BY <2>3, <3>1
    <2>5. w = high
      BY <1>8, <2>2, <2>4, SeqEqual
    <2>6. QED
      BY <2>5 DEF w, w23
  <1>10. low \o high = d
    <2> DEFINE w == low \o high
    <2>1. w \in Seq(Digits) /\ Len(w) = 16
          /\ (\A k \in 1..4 : w[k] = low[k]) /\ \A k \in 1..12 : w[4 + k] = high[k]
      <3>1. low \o high \in Seq(Digits) /\ Len(low \o high) = Len(low) + Len(high)
            /\ (\A k \in 1..Len(low) : (low \o high)[k] = low[k])
            /\ \A k \in 1..Len(high) : (low \o high)[Len(low) + k] = high[k]
        BY <1>7, <1>8, Joined
      <3> HIDE DEF w
      <3>2. w \in Seq(Digits) /\ Len(w) = 4 + 12
        BY <1>7, <1>8, <3>1 DEF w
      <3>3. \A k \in 1..4 : w[k] = low[k]
        BY <1>7, <3>1 DEF w
      <3>4. \A k \in 1..12 : w[4 + k] = high[k]
        BY <1>7, <1>8, <3>1 DEF w
      <3>5. QED
        BY <3>2, <3>3, <3>4
    <2> HIDE DEF w
    <2>2. d \in Seq(Digits) /\ Len(d) = 16
      BY <1>1, Numerals
    <2>3. \A k \in 1..16 : w[k] = d[k]
      <3> TAKE k \in 1..16
      <3>1. k \in 1..4 \/ (k - 4 \in 1..12 /\ 4 + (k - 4) = k)
        OBVIOUS
      <3>2. QED
        BY <1>7, <1>8, <2>1, <3>1, SMTT(20)
    <2>4. w = d
      BY <2>1, <2>2, <2>3, SeqEqual
    <2>5. QED
      BY <2>4 DEF w
  <1>11. QED
    BY <1>4, <1>5, <1>9, <1>10 DEF low, high, w2, w3, w4, d

(***************************************************************************)
(* GUIDs.                                                                  *)
(***************************************************************************)
\* The text of a GUID that has all its digits is its numbers.
LEMMA TextOfWhole ==
  ASSUME NEW guid \in GUIDs, Whole(guid)
  PROVE  guid_to_string(guid)
           = <<guid.data1, guid.data2, guid.data3, SubSeq(guid.data4, 1, 4), SubSeq(guid.data4, 5, 16)>>
  <1>1. guid.data1 \in [1..8 -> Digits] /\ guid.data2 \in [1..4 -> Digits]
        /\ guid.data3 \in [1..4 -> Digits] /\ guid.data4 \in [1..16 -> Digits]
    BY DEF GUIDs
  <1>2. Width(8, guid.data1) = guid.data1 /\ Width(4, guid.data2) = guid.data2
        /\ Width(4, guid.data3) = guid.data3
    <2>1. guid.data1 \in Seq(Digits) /\ Len(guid.data1) = 8 /\ guid.data2 \in Seq(Digits)
          /\ Len(guid.data2) = 4 /\ guid.data3 \in Seq(Digits) /\ Len(guid.data3) = 4
      BY <1>1, Numerals
    <2>2. QED
      BY <2>1, Widths
  <1> DEFINE w1 == Word(guid, 1)
             w2 == Word(guid, 2)
             w3 == Word(guid, 3)
             w4 == Word(guid, 4)
  <1>3. /\ w1 \in Seq(Digits) /\ Len(w1) = 4 /\ w2 \in Seq(Digits) /\ Len(w2) = 4
        /\ w3 \in Seq(Digits) /\ Len(w3) = 4 /\ w4 \in Seq(Digits) /\ Len(w4) = 4
        /\ w3[1] = guid.data4[9] /\ w4[1] = guid.data4[13]
    <2>1. \A n \in 1..4 : /\ Word(guid, n) \in Seq(Digits) /\ Len(Word(guid, n)) = 4
                          /\ \A k \in 1..4 : Word(guid, n)[k] = guid.data4[4 * n - 4 + k]
      BY <1>1, Words
    <2>2. QED
      BY <2>1
  <1>4. w1 = SubSeq(guid.data4, 1, 4) /\ w2 \o w3 \o w4 = SubSeq(guid.data4, 5, 16)
    BY <1>1, Words
  <1>5. guid_to_string(guid)
          = <<Width(8, guid.data1), Width(4, guid.data2), Width(4, guid.data3), Width(4, w1),
              Width(4, w2) \o Bare(w3) \o Bare(w4)>>
    BY DEF guid_to_string
  <1> HIDE DEF w1, w2, w3, w4
  <1>6. Width(4, w1) = w1 /\ Width(4, w2) = w2
    BY <1>3, Widths
  <1>7. Bare(w3) = w3 /\ Bare(w4) = w4
    <2>1. w3[1] # 0 /\ w4[1] # 0 /\ Len(w3) > 0 /\ Len(w4) > 0
      BY <1>3 DEF Whole
    <2>2. QED
      BY <1>3, <2>1, BareNumbers
  <1>8. QED
    BY <1>2, <1>4, <1>5, <1>6, <1>7

\* What is read is a GUID, with the digits that it was given.
LEMMA ReadGuid ==
  ASSUME NEW text \in GuidTexts, guid_from_string(text) # Undefined
  PROVE  LET guid == guid_from_string(text) IN
         /\ guid \in GUIDs /\ Len(text) = 5
         /\ guid.data1 = Width(8, text[1]) /\ guid.data2 = Width(4, text[2])
         /\ guid.data3 = Width(4, text[3]) /\ SubSeq(guid.data4, 1, 4) = Width(4, text[4])
         /\ SubSeq(guid.data4, 5, 16) = Width(12, text[5])
  <1> DEFINE guid == guid_from_string(text)
             low == Width(4, text[4])
             high == Width(12, text[5])
             d == low \o high
  <1>1. Len(text) = 5
        /\ guid = [data1 |-> Width(8, text[1]), data2 |-> Width(4, text[2]),
                   data3 |-> Width(4, text[3]), data4 |-> d]
    BY DEF guid_from_string
  <1>2. \A i \in 1..5 : text[i] \in Seq(Digits)
    BY <1>1, ElementOfSeq DEF GuidTexts
  <1>3. Width(8, text[1]) \in [1..8 -> Digits] /\ Width(4, text[2]) \in [1..4 -> Digits]
        /\ Width(4, text[3]) \in [1..4 -> Digits]
        /\ low \in [1..4 -> Digits] /\ high \in [1..12 -> Digits]
    <2>1. text[1] \in Seq(Digits) /\ text[2] \in Seq(Digits) /\ text[3] \in Seq(Digits)
          /\ text[4] \in Seq(Digits) /\ text[5] \in Seq(Digits)
      BY <1>2
    <2>2. \A n \in Nat : \A digits \in Seq(Digits) : Width(n, digits) \in [1..n -> Digits]
      BY Widths
    <2>3. 4 \in Nat /\ 8 \in Nat /\ 12 \in Nat
      OBVIOUS
    <2>4. \A digits \in Seq(Digits) :
            /\ Width(4, digits) \in [1..4 -> Digits] /\ Width(8, digits) \in [1..8 -> Digits]
            /\ Width(12, digits) \in [1..12 -> Digits]
      BY <2>2, <2>3
    <2>5. QED
      BY <2>1, <2>4
  <1> HIDE DEF low, high
  <1>4. low \in Seq(Digits) /\ Len(low) = 4 /\ high \in Seq(Digits) /\ Len(high) = 12
    BY <1>3, Numerals
  <1>5. d \in Seq(Digits) /\ Len(d) = 16 /\ (\A k \in 1..4 : d[k] = low[k])
        /\ \A k \in 1..12 : d[4 + k] = high[k]
    <2>1. low \o high \in Seq(Digits) /\ Len(low \o high) = Len(low) + Len(high)
          /\ (\A k \in 1..Len(low) : (low \o high)[k] = low[k])
          /\ \A k \in 1..Len(high) : (low \o high)[Len(low) + k] = high[k]
      BY <1>4, Joined
    <2> HIDE DEF d
    <2>2. d \in Seq(Digits) /\ Len(d) = 4 + 12
      BY <1>4, <2>1 DEF d
    <2>3. \A k \in 1..4 : d[k] = low[k]
      BY <1>4, <2>1 DEF d
    <2>4. \A k \in 1..12 : d[4 + k] = high[k]
      BY <1>4, <2>1 DEF d
    <2>5. QED
      BY <2>2, <2>3, <2>4
  <1> HIDE DEF d
  <1>6. d \in [1..16 -> Digits]
    BY <1>5, LenProperties
  <1>7. SubSeq(d, 1, 4) = low
    <2>1. SubSeq(d, 1, 4) \in Seq(Digits) /\ Len(SubSeq(d, 1, 4)) = 4
          /\ \A k \in 1..4 : SubSeq(d, 1, 4)[k] = d[k]
      BY <1>6, Parts
    <2>2. QED
      BY <1>4, <1>5, <2>1, SeqEqual
  <1>8. SubSeq(d, 5, 16) = high
    <2>1. 5 \in 1..16 /\ 16 \in 5..16 /\ 16 - 5 + 1 = 12 /\ \A k \in 1..12 : 5 + k - 1 = 4 + k
      OBVIOUS
    <2>2. SubSeq(d, 5, 16) \in Seq(Digits) /\ Len(SubSeq(d, 5, 16)) = 12
          /\ \A k \in 1..12 : SubSeq(d, 5, 16)[k] = d[4 + k]
      BY <1>6, <2>1, Parts
    <2>3. QED
      BY <1>4, <1>5, <2>2, SeqEqual
  <1>9. guid \in GUIDs
    BY <1>1, <1>3, <1>6 DEF GUIDs
  <1> HIDE DEF guid
  <1>10. QED
    BY <1>1, <1>7, <1>8, <1>9 DEF guid, low, high

\* A GUID that is read and written has all digits of its text, if it writes all its digits.
LEMMA GuidIsWritten ==
  ASSUME NEW text \in GuidTexts, guid_from_string(text) # Undefined, Whole(guid_from_string(text))
  PROVE  guid_to_string(guid_from_string(text)) = AllDigits(text)
  <1> DEFINE guid == guid_from_string(text)
             all == AllDigits(text)
             five == <<guid.data1, guid.data2, guid.data3, SubSeq(guid.data4, 1, 4), SubSeq(guid.data4, 5, 16)>>
  <1>1. guid \in GUIDs
    BY ReadGuid
  <1>2. guid_to_string(guid) = five
    BY <1>1, TextOfWhole
  <1>3. five = <<Width(8, text[1]), Width(4, text[2]), Width(4, text[3]), Width(4, text[4]), Width(12, text[5])>>
    BY ReadGuid
  <1>4. all = <<Width(8, text[1]), Width(4, text[2]), Width(4, text[3]), Width(4, text[4]), Width(12, text[5])>>
    <2> DEFINE F(n, i) == Width(n, text[i])
    <2> HIDE DEF F
    <2>1. [i \in 1..5 |-> F(<<8, 4, 4, 4, 12>>[i], i)] = <<F(8, 1), F(4, 2), F(4, 3), F(4, 4), F(12, 5)>>
      OBVIOUS
    <2>2. QED
      BY <2>1 DEF F, AllDigits
  <1>5. QED
    BY <1>2, <1>3, <1>4

\* A GUID that writes all its digits is read as the same.
LEMMA WholeIsRead ==
  ASSUME NEW guid \in GUIDs, Whole(guid)
  PROVE  guid_to_string(guid) \in GuidTexts /\ guid_from_string(guid_to_string(guid)) = guid
  <1> DEFINE p1 == guid.data1
             p2 == guid.data2
             p3 == guid.data3
             p4 == SubSeq(guid.data4, 1, 4)
             p5 == SubSeq(guid.data4, 5, 16)
             text == <<p1, p2, p3, p4, p5>>
  <1>1. p1 \in [1..8 -> Digits] /\ p2 \in [1..4 -> Digits] /\ p3 \in [1..4 -> Digits]
        /\ guid.data4 \in [1..16 -> Digits]
        /\ guid = [data1 |-> p1, data2 |-> p2, data3 |-> p3, data4 |-> guid.data4]
    BY DEF GUIDs
  <1>2. p4 \in Seq(Digits) /\ Len(p4) = 4
    BY <1>1, Parts
  <1>3. p5 \in Seq(Digits) /\ Len(p5) = 12
    <2>1. 5 \in 1..16 /\ 16 \in 5..16 /\ 16 - 5 + 1 = 12
      OBVIOUS
    <2>2. QED
      BY <1>1, <2>1, Parts
  <1>4. p4 \o p5 = guid.data4
    BY <1>1, Words
  <1>5. guid_to_string(guid) = text
    BY TextOfWhole
  <1> HIDE DEF p1, p2, p3, p4, p5
  <1>6. p1 \in Seq(Digits) /\ Len(p1) = 8 /\ p2 \in Seq(Digits) /\ Len(p2) = 4
        /\ p3 \in Seq(Digits) /\ Len(p3) = 4
    BY <1>1, Numerals
  <1>7. Width(8, p1) = p1 /\ Width(4, p2) = p2 /\ Width(4, p3) = p3 /\ Width(4, p4) = p4
        /\ Width(12, p5) = p5
    BY <1>2, <1>3, <1>6, Widths
  <1>8. Len(Bare(p1)) <= 8 /\ Len(Bare(p2)) <= 4 /\ Len(Bare(p3)) <= 4 /\ Len(Bare(p4)) <= 4
        /\ Len(Bare(p5)) <= 12
    <2>1. Len(p1) > 0 /\ Len(p2) > 0 /\ Len(p3) > 0 /\ Len(p4) > 0 /\ Len(p5) > 0
      BY <1>2, <1>3, <1>6
    <2>2. Len(Bare(p1)) <= Len(p1) /\ Len(Bare(p2)) <= Len(p2) /\ Len(Bare(p3)) <= Len(p3)
          /\ Len(Bare(p4)) <= Len(p4) /\ Len(Bare(p5)) <= Len(p5)
      BY <1>2, <1>3, <1>6, <2>1, BareNumbers
    <2>3. QED
      BY <1>2, <1>3, <1>6, <2>2
  <1>9. Len(Bare(p5)) <= 16
    <2>1. Len(p5) > 0
      BY <1>3
    <2>2. Bare(p5) \in Seq(Digits)
      BY <1>3, <2>1, BareNumbers
    <2>3. QED
      BY <1>8, <2>2, LenProperties
  <1>10. text \in GuidTexts /\ Len(text) = 5
    BY <1>2, <1>3, <1>6 DEF GuidTexts
  <1>11. \A i \in 1..5 : Len(text[i]) > 0 /\ Len(Bare(text[i])) <= <<8, 4, 4, 4, 16>>[i]
    <2>1. text[1] = p1 /\ text[2] = p2 /\ text[3] = p3 /\ text[4] = p4 /\ text[5] = p5
      OBVIOUS
    <2>2. <<8, 4, 4, 4, 16>>[1] = 8 /\ <<8, 4, 4, 4, 16>>[2] = 4 /\ <<8, 4, 4, 4, 16>>[3] = 4
          /\ <<8, 4, 4, 4, 16>>[4] = 4 /\ <<8, 4, 4, 4, 16>>[5] = 16
      OBVIOUS
    <2> DEFINE bits == <<8, 4, 4, 4, 16>>
    <2> HIDE DEF text, bits
    <2>3. \A i \in 1..5 : Len(text[i]) > 0 /\ Len(Bare(text[i])) <= bits[i]
      <3> TAKE i \in 1..5
      <3>1. i = 1 \/ i = 2 \/ i = 3 \/ i = 4 \/ i = 5
        OBVIOUS
      <3>2. bits[1] = 8 /\ bits[2] = 4 /\ bits[3] = 4 /\ bits[4] = 4 /\ bits[5] = 16
        BY <2>2 DEF bits
      <3>3. Len(p1) > 0 /\ Len(p2) > 0 /\ Len(p3) > 0 /\ Len(p4) > 0 /\ Len(p5) > 0
        BY <1>2, <1>3, <1>6
      <3>4. /\ Len(Bare(p1)) <= bits[1] /\ Len(Bare(p2)) <= bits[2] /\ Len(Bare(p3)) <= bits[3]
            /\ Len(Bare(p4)) <= bits[4] /\ Len(Bare(p5)) <= bits[5]
        BY <1>8, <1>9, <3>2
      <3>5. CASE i = 1
        BY <2>1, <3>3, <3>4, <3>5, Zenon
      <3>6. CASE i = 2
        BY <2>1, <3>3, <3>4, <3>6, Zenon
      <3>7. CASE i = 3
        BY <2>1, <3>3, <3>4, <3>7, Zenon
      <3>8. CASE i = 4
        BY <2>1, <3>3, <3>4, <3>8, Zenon
      <3>9. CASE i = 5
        BY <2>1, <3>3, <3>4, <3>9, Zenon
      <3>10. QED
        BY <3>1, <3>5, <3>6, <3>7, <3>8, <3>9
    <2>4. QED
      BY <2>3 DEF bits
  <1>12. guid_from_string(text)
           = [data1 |-> Width(8, text[1]), data2 |-> Width(4, text[2]), data3 |-> Width(4, text[3]),
              data4 |-> Width(4, text[4]) \o Width(12, text[5])]
    <2> HIDE DEF text
    <2>1. QED
      BY <1>10, <1>11 DEF guid_from_string
  <1>13. guid_from_string(text) = guid
    BY <1>1, <1>4, <1>7, <1>12
  <1>14. QED
    BY <1>5, <1>10, <1>13

(***************************************************************************)
(* Numbers and texts.                                                      *)
(***************************************************************************)
\* What is less than a period either way.
LEMMA Modulus ==
  ASSUME NEW m \in Nat \ {0}, NEW n \in Int
  PROVE  /\ 0 <= n /\ n < m => n % m = n
         /\ -m <= n /\ n < 0 => n % m = n + m
  <1> DEFINE q == n \div m
             r == n % m
  <1>1. q \in Int /\ r \in 0..(m - 1) /\ n = m * q + r
    OBVIOUS
  <1> HIDE DEF q, r
  <1>2. q >= 1 => m * q >= m
    BY <1>1
  <1>3. q <= -1 => m * q <= -m
    BY <1>1
  <1>4. q <= -2 => m * q <= -(2 * m)
    BY <1>1
  <1>5. q = 0 => m * q = 0
    BY <1>1
  <1>6. q = -1 => m * q = -m
    BY <1>1
  <1>7. ASSUME 0 <= n, n < m PROVE r = n
    <2>1. q = 0
      BY <1>1, <1>2, <1>3, <1>7
    <2>2. QED
      BY <1>1, <1>5, <2>1
  <1>8. ASSUME -m <= n, n < 0 PROVE r = n + m
    <2>1. q = -1
      BY <1>1, <1>2, <1>4, <1>5, <1>8
    <2>2. QED
      BY <1>1, <1>6, <2>1
  <1>9. QED
    BY <1>7, <1>8 DEF r

\* An int stays what it is, as an ULONG and back too.
LEMMA IntsStay ==
  ASSUME NEW n \in Ints
  PROVE  ToInt(n) = n /\ ToInt(ToULong(n)) = n
  <1> DEFINE m == 2 * IntLimit
             low == n % m
  <1>1. m \in Nat \ {0} /\ IntLimit \in Nat \ {0} /\ n \in Int /\ -IntLimit <= n /\ n < IntLimit
    BY IntLimitAssumption DEF Ints
  <1>2. low = IF 0 <= n THEN n ELSE n + m
    <2>1. (0 <= n => n < m) /\ (~(0 <= n) => -m <= n /\ n < 0)
      BY <1>1
    <2> HIDE DEF m
    <2>2. QED
      BY <1>1, <2>1, Modulus
  <1>3. ToInt(n) = IF low < IntLimit THEN low ELSE low - m
    BY DEF ToInt
  <1>4. ToULong(n) = low /\ ToInt(low) = IF low % m < IntLimit THEN low % m ELSE (low % m) - m
    BY DEF ToInt, ToULong
  <1> HIDE DEF low
  <1>5. low \in Int /\ 0 <= low /\ low < m
    BY <1>1, <1>2
  <1>6. (IF low < IntLimit THEN low ELSE low - m) = n
    BY <1>1, <1>2
  <1>7. low % m = low
    <2> HIDE DEF m
    <2>1. QED
      BY <1>1, <1>5, Modulus
  <1>8. QED
    BY <1>3, <1>4, <1>6, <1>7

LEMMA TextElements ==
  ASSUME NEW text \in Texts
  PROVE  DOMAIN text = 1..Len(text) /\ Len(text) \in Nat /\ \A i \in 1..Len(text) : text[i] \in Characters
  BY LenProperties, ElementOfSeq DEF Texts

\* A text has its unpaired surrogates replaced once.
LEMMA Replacing ==
  ASSUME NEW text \in Texts
  PROVE  /\ Replaced(text) \in Texts
         /\ \A i \in DOMAIN Replaced(text) : Replaced(text)[i] # Lone
         /\ (\A i \in DOMAIN text : text[i] # Lone) => Replaced(text) = text
  <1>1. DOMAIN text = 1..Len(text) /\ Len(text) \in Nat /\ \A i \in 1..Len(text) : text[i] \in Characters
    BY TextElements
  <1>2. Replacement \in Characters /\ Replacement # Lone
    BY CharactersAssumption
  <1>3. Replaced(text) \in [1..Len(text) -> Characters]
    BY <1>1, <1>2 DEF Replaced
  <1>4. Replaced(text) \in Texts
    BY <1>1, <1>3, SeqDef DEF Texts
  <1>5. \A i \in DOMAIN Replaced(text) : Replaced(text)[i] # Lone
    BY <1>2 DEF Replaced
  <1>6. ASSUME \A i \in DOMAIN text : text[i] # Lone PROVE Replaced(text) = text
    <2>1. text \in [1..Len(text) -> Characters]
      BY LenProperties DEF Texts
    <2>2. \A i \in 1..Len(text) : Replaced(text)[i] = text[i]
      BY <1>1, <1>6 DEF Replaced
    <2>3. QED
      BY <1>3, <2>1, <2>2
  <1>7. QED
    BY <1>4, <1>5, <1>6

\* A text up to its first NUL is the start of the text.
LEMMA CStrings ==
  ASSUME NEW text \in Texts
  PROVE  /\ CString(text) \in Texts
         /\ \A i \in DOMAIN CString(text) : i \in DOMAIN text /\ CString(text)[i] = text[i]
  <1> DEFINE ends == {i \in DOMAIN text : text[i] = Nul}
             end == First(ends) - 1
  <1>1. DOMAIN text = 1..Len(text) /\ Len(text) \in Nat /\ \A i \in 1..Len(text) : text[i] \in Characters
    BY TextElements
  <1>2. CASE ends = {}
    BY <1>2 DEF CString
  <1>3. CASE ends # {}
    <2>1. CString(text) = SubSeq(text, 1, end)
      BY <1>3 DEF CString
    <2>2. end \in Nat /\ end <= Len(text)
      <3>1. \E i \in ends : \A j \in ends : i <= j
        <4>1. ends \subseteq Nat
          BY <1>1
        <4> HIDE DEF ends
        <4>2. QED
          BY <1>3, <4>1, LeastNumber
      <3>2. First(ends) \in ends
        BY <3>1 DEF First
      <3>3. First(ends) \in 1..Len(text)
        BY <1>1, <3>2
      <3>4. QED
        BY <1>1, <3>3
    <2> HIDE DEF end
    <2>3. \A i \in 1..end : text[i] \in Characters
      BY <1>1, <2>2
    <2>4. SubSeq(text, 1, end) \in Seq(Characters)
          /\ (\A i \in 1..(end - 1 + 1) : SubSeq(text, 1, end)[i] = text[1 + i - 1])
          /\ Len(SubSeq(text, 1, end)) = IF 1 <= end THEN end - 1 + 1 ELSE 0
      BY <2>2, <2>3, SubSeqProperties
    <2>5. DOMAIN SubSeq(text, 1, end) = 1..end
      BY <2>2, <2>4, LenProperties
    <2>6. \A i \in 1..end : i \in DOMAIN text /\ SubSeq(text, 1, end)[i] = text[i]
      <3> TAKE i \in 1..end
      <3>1. i \in 1..(end - 1 + 1) /\ 1 + i - 1 = i /\ i \in 1..Len(text)
        BY <1>1, <2>2
      <3>2. QED
        BY <1>1, <2>4, <3>1
    <2>7. QED
      BY <2>1, <2>4, <2>5, <2>6 DEF Texts
  <1>4. QED
    BY <1>2, <1>3

\* What has come to MAPI once comes through unchanged.
LEMMA TextsStay ==
  ASSUME NEW text \in Texts
  PROVE  /\ Replaced(Replaced(text)) = Replaced(text)
         /\ Replaced(CString(Replaced(text))) = CString(Replaced(text))
  <1>1. Replaced(text) \in Texts /\ \A i \in DOMAIN Replaced(text) : Replaced(text)[i] # Lone
    BY Replacing
  <1>2. Replaced(Replaced(text)) = Replaced(text)
    BY <1>1, Replacing
  <1>3. CString(Replaced(text)) \in Texts
        /\ \A i \in DOMAIN CString(Replaced(text)) : CString(Replaced(text))[i] # Lone
    BY <1>1, CStrings
  <1>4. QED
    BY <1>2, <1>3, Replacing

(***************************************************************************)
(* Values.                                                                 *)
(***************************************************************************)
\* A value has a property, which is neither of the other outcomes.
LEMMA ValuesHaveProperties ==
  ASSUME NEW type \in ValueTypes, NEW value \in Values
  PROVE  /\ SPropValue(type, value) = [type |-> type, value |-> value]
         /\ SPropValue(type, value) # Throws /\ SPropValue(type, value) # Undefined
  <1>1. value # Throws /\ value # Undefined
    BY OutcomesAssumption
  <1>2. [type |-> type, value |-> value] \in [type : ValueTypes, value : Values]
    OBVIOUS
  <1>3. QED
    BY <1>1, <1>2, OutcomesAssumption DEF SPropValue

\* What a client may give for each kind of value.
LEMMA GivenValues ==
  ASSUME NEW argument \in Arguments
  PROVE  LET input == PropValueInput(argument) IN
         /\ input["integer"] \in {Missing} \cup Ints
         /\ input["boolean"] \in {Missing} \cup BOOLEAN
         /\ input["string"] \in {Missing} \cup Texts
         /\ input["guid"] \in {Missing, NotText} \cup GuidTexts
         /\ input["bin"] \in {Missing} \cup EncodedIds
  BY ArgumentsAssumption

\* One kind of value: what becomes of it.
LEMMA OneKind ==
  ASSUME NEW input, NEW kind \in Kinds, Given(input) = {kind}
  PROVE  ConvertPropertyInput(input) = ConvertKind(kind, input[kind]) /\ input[kind] # Missing
  <1>1. Cardinality(Given(input)) = 1
    BY FS_Singleton
  <1>2. (CHOOSE k \in Given(input) : TRUE) = kind
    OBVIOUS
  <1>3. input[kind] # Missing
    BY DEF Given
  <1>4. QED
    BY <1>1, <1>2, <1>3 DEF ConvertPropertyInput

LEMMA IntegerComesBack ==
  ASSUME NEW n \in Ints
  PROVE  LET prop == ConvertKind("integer", n) IN
         prop # Throws /\ prop # Undefined /\ getValue(prop) = Expected("integer", n)
  <1> DEFINE prop == [type |-> "PT_LONG", value |-> n]
  <1>1. n \in Values
    BY DEF Values, Ints
  <1>2. ConvertKind("integer", n) = SPropValue("PT_LONG", n)
    BY IntsStay DEF ConvertKind
  <1>3. ConvertKind("integer", n) = prop /\ prop # Throws /\ prop # Undefined
    <2>1. prop.type \in ValueTypes
      BY DEF ValueTypes
    <2>2. QED
      BY <1>1, <1>2, <2>1, ValuesHaveProperties
  <1>4. getValue(prop) = Value("IntValue", n)
    BY DEF getValue
  <1>5. Expected("integer", n) = Value("IntValue", n)
    BY DEF Expected
  <1>6. QED
    BY <1>3, <1>4, <1>5

LEMMA BooleanComesBack ==
  ASSUME NEW b \in BOOLEAN
  PROVE  LET prop == ConvertKind("boolean", b) IN
         prop # Throws /\ prop # Undefined /\ getValue(prop) = Expected("boolean", b)
  <1> DEFINE n == IF b THEN 1 ELSE 0
             prop == [type |-> "PT_BOOLEAN", value |-> n]
  <1>1. n \in Values
    BY DEF Values
  <1>2. ConvertKind("boolean", b) = SPropValue("PT_BOOLEAN", n)
    BY DEF ConvertKind
  <1>3. ConvertKind("boolean", b) = prop /\ prop # Throws /\ prop # Undefined
    <2>1. prop.type \in ValueTypes
      BY DEF ValueTypes
    <2>2. QED
      BY <1>1, <1>2, <2>1, ValuesHaveProperties
  <1>4. getValue(prop) = Value("BoolValue", n # 0)
    <2> HIDE DEF n
    <2>1. QED
      BY DEF getValue
  <1>5. (n # 0) = b
    <2>1. n # 0 <=> b
      OBVIOUS
    <2>2. QED
      BY <2>1, Zenon
  <1>6. Expected("boolean", b) = Value("BoolValue", b)
    BY DEF Expected
  <1>7. QED
    BY <1>3, <1>4, <1>5, <1>6, Zenon

LEMMA StringComesBack ==
  ASSUME NEW text \in Texts
  PROVE  LET prop == ConvertKind("string", text) IN
         prop # Throws /\ prop # Undefined /\ getValue(prop) = Expected("string", text)
  <1> DEFINE sent == Replaced(text)
             prop == [type |-> "PT_UNICODE", value |-> sent]
  <1>1. sent \in Values
    BY Replacing DEF Values
  <1>2. ConvertKind("string", text) = SPropValue("PT_UNICODE", sent)
    BY DEF ConvertKind, to_utf16
  <1>3. ConvertKind("string", text) = prop /\ prop # Throws /\ prop # Undefined
    <2>1. prop.type \in ValueTypes
      BY DEF ValueTypes
    <2>2. QED
      BY <1>1, <1>2, <2>1, ValuesHaveProperties
  <1>4. Replaced(CString(sent)) = CString(sent)
    BY TextsStay
  <1> HIDE DEF sent
  <1>5. getValue(prop) = StringValue(sent)
    BY DEF getValue
  <1>6. StringValue(sent) = Value("StringValue", CString(sent))
    BY <1>4 DEF StringValue, to_utf8
  <1>7. Expected("string", text) = Value("StringValue", CString(sent))
    BY DEF Expected, sent
  <1>8. QED
    BY <1>3, <1>5, <1>6, <1>7

LEMMA GuidComesBack ==
  ASSUME NEW text \in GuidTexts
  PROVE  LET prop == ConvertKind("guid", text) IN
         /\ prop # Throws
         /\ prop = Undefined \/ getValue(prop) = Expected("guid", text) \/ ~Whole(prop.value)
  <1> DEFINE guid == guid_from_string(text)
             prop == [type |-> "PT_CLSID", value |-> guid]
  <1>1. ConvertKind("guid", text) = SPropValue("PT_CLSID", guid)
    BY OutcomesAssumption DEF ConvertKind
  <1>2. CASE guid = Undefined
    BY <1>1, <1>2, OutcomesAssumption DEF SPropValue
  <1>3. CASE guid # Undefined
    <2>1. guid \in Values
      BY <1>3, ReadGuid DEF Values
    <2>2. ConvertKind("guid", text) = prop /\ prop # Throws
      <3> HIDE DEF guid
      <3>1. "PT_CLSID" \in ValueTypes
        BY DEF ValueTypes
      <3>2. QED
        BY <1>1, <2>1, <3>1, ValuesHaveProperties
    <2>3. Whole(guid) => guid_to_string(guid) = AllDigits(text)
      BY <1>3, GuidIsWritten
    <2> HIDE DEF guid
    <2>4. getValue(prop) = Value("GuidValue", guid_to_string(guid))
      BY DEF getValue
    <2>5. Expected("guid", text) = Value("GuidValue", AllDigits(text))
      BY DEF Expected
    <2>6. QED
      BY <2>2, <2>3, <2>4, <2>5
  <1>4. QED
    BY <1>2, <1>3

LEMMA BinaryComesBack ==
  ASSUME NEW binary \in EncodedIds
  PROVE  LET prop == ConvertKind("bin", binary) IN
         prop # Throws /\ prop # Undefined /\ getValue(prop) = Expected("bin", binary)
  <1> DEFINE prop == [type |-> "PT_BINARY", value |-> binary]
  <1>1. binary \in Values
    BY DEF Values
  <1>2. ConvertKind("bin", binary) = SPropValue("PT_BINARY", binary)
    BY DEF ConvertKind
  <1>3. ConvertKind("bin", binary) = prop /\ prop # Throws /\ prop # Undefined
    <2>1. prop.type \in ValueTypes
      BY DEF ValueTypes
    <2>2. QED
      BY <1>1, <1>2, <2>1, ValuesHaveProperties
  <1>4. getValue(prop) = Value("BinaryValue", Encoded(binary))
    BY DEF getValue
  <1>5. Expected("bin", binary) = Value("BinaryValue", Encoded(binary))
    BY DEF Expected
  <1>6. QED
    BY <1>3, <1>4, <1>5

\* An integer, a boolean, a text, a binary or a GUID with all digits that is written is
\* read as ValuesComeBack says.
THEOREM ValuesAreKept == OpSpec => []ValuesComeBack
  <1>1. OpInv => ValuesComeBack
    <2> SUFFICES ASSUME OpInv, sample.of = "value" PROVE ValuesComeBack
      BY DEF ValuesComeBack
    <2> DEFINE input == PropValueInput(sample.argument)
               given == Given(input)
               prop == ConvertPropertyInput(input)
               Kept == IF prop = Throws
                       THEN Cardinality(given) # 1 \/ given = {"stream"} \/ input["guid"] = NotText
                       ELSE IF prop = Undefined THEN given = {"time"} \/ given = {"guid"}
                       ELSE \E kind \in given :
                              /\ given = {kind}
                              /\ \/ getValue(prop) = Expected(kind, input[kind])
                                 \/ kind = "guid" /\ ~Whole(prop.value)
    <2>1. sample.argument \in Arguments
      BY DEF OpInv, Samples, Nothing
    <2>2. /\ input["integer"] \in {Missing} \cup Ints
          /\ input["boolean"] \in {Missing} \cup BOOLEAN
          /\ input["string"] \in {Missing} \cup Texts
          /\ input["guid"] \in {Missing, NotText} \cup GuidTexts
          /\ input["bin"] \in {Missing} \cup EncodedIds
      BY <2>1, GivenValues
    <2>3. given \subseteq Kinds
      BY DEF Given
    <2> HIDE DEF input
    <2>4. CASE Cardinality(given) # 1
      <3>1. prop = Throws
        BY <2>4 DEF ConvertPropertyInput
      <3>2. Kept
        BY <2>4, <3>1
      <3>3. QED
        BY <3>2 DEF ValuesComeBack, input
    <2>5. CASE Cardinality(given) = 1
      <3>1. PICK kind : given = {kind}
        <4>1. IsFiniteSet(given)
          <5>1. IsFiniteSet(Kinds)
            <6>1. \A S, x : IsFiniteSet(S) => IsFiniteSet(S \cup {x})
              BY FS_AddElement
            <6>2. IsFiniteSet({"integer"} \cup {"boolean"} \cup {"string"} \cup {"guid"} \cup {"time"}
                                \cup {"bin"} \cup {"stream"})
              BY <6>1, FS_Singleton
            <6>3. Kinds = {"integer"} \cup {"boolean"} \cup {"string"} \cup {"guid"} \cup {"time"}
                            \cup {"bin"} \cup {"stream"}
              BY DEF Kinds
            <6>4. QED
              BY <6>2, <6>3, Zenon
          <5>2. QED
            BY <2>3, <5>1, FS_Subset
        <4>2. QED
          BY <2>5, <4>1, FS_Singleton
      <3>2. kind \in Kinds
        BY <2>3, <3>1
      <3>3. prop = ConvertKind(kind, input[kind]) /\ input[kind] # Missing
        BY <3>1, <3>2, OneKind
      <3> HIDE DEF given, prop
      <3>4. Kept
        <4>1. CASE kind = "integer"
          BY <2>2, <3>1, <3>3, <4>1, IntegerComesBack
        <4>2. CASE kind = "boolean"
          BY <2>2, <3>1, <3>3, <4>2, BooleanComesBack
        <4>3. CASE kind = "string"
          BY <2>2, <3>1, <3>3, <4>3, StringComesBack
        <4>4. CASE kind = "guid"
          <5>1. CASE input["guid"] = NotText
            <6>1. prop = Throws
              BY <3>3, <4>4, <5>1 DEF ConvertKind
            <6>2. QED
              BY <5>1, <6>1
          <5>2. CASE input["guid"] # NotText
            BY <2>2, <3>1, <3>3, <4>4, <5>2, GuidComesBack
          <5>3. QED
            BY <5>1, <5>2
        <4>5. CASE kind = "time"
          <5>1. prop = Undefined
            BY <3>3, <4>5 DEF ConvertKind
          <5>2. QED
            BY <3>1, <4>5, <5>1, OutcomesAssumption
        <4>6. CASE kind = "bin"
          BY <2>2, <3>1, <3>3, <4>6, BinaryComesBack
        <4>7. CASE kind = "stream"
          <5>1. prop = Throws
            BY <3>3, <4>7 DEF ConvertKind
          <5>2. QED
            BY <3>1, <4>7, <5>1
        <4>8. QED
          BY <3>2, <4>1, <4>2, <4>3, <4>4, <4>5, <4>6, <4>7 DEF Kinds
      <3>5. QED
        BY <3>4 DEF ValuesComeBack, input, given, prop
    <2>6. QED
      BY <2>4, <2>5
  <1>2. QED
    BY <1>1, EachIsAnswered, PTL

(***************************************************************************)
(* Names.                                                                  *)
(***************************************************************************)
\* An ID of a property in a set whose text has all digits is read and named again.
LEMMA NumbersAreNamed ==
  ASSUME NEW guid \in GUIDs, NEW n \in Ints, Whole(guid),
         NEW name, name = [guid |-> guid, kind |-> "MNID_ID", id |-> n]
  PROVE  ToNameId(AsRead(name)) = name
  <1> DEFINE set == guid_to_string(guid)
             argument == [propset |-> set, id |-> n]
             named == [propset |-> set, id |-> n, name |-> Missing]
  <1>1. set # Missing /\ n # Missing /\ guid # Undefined /\ set # NotText
    BY WholeIsRead, OutcomesAssumption DEF Values, Ints
  <1>2. guid_from_string(set) = guid
    BY WholeIsRead
  <1> HIDE DEF set
  <1>3. NamedId(name) = [propset |-> set, id |-> [class |-> "IntId", id |-> n]]
    BY IntsStay DEF NamedId, IntId, set
  <1>4. AsRead(name) = NamedPropInput(argument)
    BY <1>3 DEF AsRead
  <1>5. Optional(argument, "propset") = set /\ Optional(argument, "id") = n
        /\ Optional(argument, "name") = Missing
    BY DEF Optional
  <1>6. NamedPropInput(argument) = named
    BY <1>1, <1>5 DEF NamedPropInput
  <1>7. ToNameId(named) = [guid |-> guid, kind |-> "MNID_ID", id |-> n]
    BY <1>1, <1>2 DEF ToNameId
  <1>8. QED
    BY <1>4, <1>6, <1>7

\* So is a name, up to what a text in UTF-8 keeps of it.
LEMMA TextsAreNamed ==
  ASSUME NEW guid \in GUIDs, NEW text \in Texts, Whole(guid),
         NEW name, name = [guid |-> guid, kind |-> "MNID_STRING", id |-> text]
  PROVE  ToNameId(AsRead(name))
           = [guid |-> guid, kind |-> "MNID_STRING", id |-> Replaced(CString(text))]
  <1> DEFINE set == guid_to_string(guid)
             sent == Replaced(CString(text))
             argument == [propset |-> set, name |-> sent]
             named == [propset |-> set, id |-> Missing, name |-> sent]
  <1>1. CString(text) \in Texts /\ sent \in Texts /\ Replaced(sent) = sent
    BY CStrings, Replacing, TextsStay
  <1>2. set # Missing /\ sent # Missing /\ guid # Undefined /\ set # NotText
    BY <1>1, WholeIsRead, OutcomesAssumption DEF Values
  <1>3. guid_from_string(set) = guid
    BY WholeIsRead
  <1> HIDE DEF set, sent
  <1>4. NamedId(name) = [propset |-> set, id |-> [class |-> "StringId", name |-> sent]]
    BY DEF NamedId, StringId, to_utf8, set, sent
  <1>5. AsRead(name) = NamedPropInput(argument)
    BY <1>4 DEF AsRead
  <1>6. Optional(argument, "propset") = set /\ Optional(argument, "name") = sent
        /\ Optional(argument, "id") = Missing
    BY DEF Optional
  <1>7. NamedPropInput(argument) = named
    BY <1>2, <1>6 DEF NamedPropInput
  <1>8. ToNameId(named) = [guid |-> guid, kind |-> "MNID_STRING", id |-> sent]
    BY <1>1, <1>2, <1>3 DEF ToNameId, to_utf16
  <1>9. QED
    BY <1>5, <1>7, <1>8 DEF sent

\* A name whose set has all its digits in text is read and named again.
LEMMA NameIsNamed ==
  ASSUME NEW name, Whole(name.guid),
         \/ name \in [guid : GUIDs, kind : {"MNID_ID"}, id : Ints]
         \/ name \in [guid : GUIDs, kind : {"MNID_STRING"}, id : Texts]
  PROVE  ToNameId(AsRead(name)) = SameName(name)
  <1>1. CASE name \in [guid : GUIDs, kind : {"MNID_ID"}, id : Ints]
    <2>1. name.guid \in GUIDs /\ name.id \in Ints
          /\ name = [guid |-> name.guid, kind |-> "MNID_ID", id |-> name.id]
      BY <1>1
    <2>2. ToNameId(AsRead(name)) = name
      BY <2>1, NumbersAreNamed
    <2>3. SameName(name) = name
      BY <1>1 DEF SameName
    <2>4. QED
      BY <2>2, <2>3
  <1>2. CASE name \in [guid : GUIDs, kind : {"MNID_STRING"}, id : Texts]
    <2>1. name.guid \in GUIDs /\ name.id \in Texts
          /\ name = [guid |-> name.guid, kind |-> "MNID_STRING", id |-> name.id]
      BY <1>2
    <2>2. ToNameId(AsRead(name))
            = [guid |-> name.guid, kind |-> "MNID_STRING", id |-> Replaced(CString(name.id))]
      BY <2>1, TextsAreNamed
    <2>3. SameName(name)
            = [guid |-> name.guid, kind |-> "MNID_STRING", id |-> Replaced(CString(name.id))]
      BY <1>2 DEF SameName
    <2>4. QED
      BY <2>2, <2>3
  <1>3. QED
    BY <1>1, <1>2

\* What the store keeps of a name has the shape of a name, and is the name up to its set.
LEMMA CopiesAreNames ==
  ASSUME NEW name \in Names, NEW kept \in {name} \cup Copies(name, Leftovers)
  PROVE  /\ \/ kept \in [guid : GUIDs, kind : {"MNID_ID"}, id : Ints]
            \/ kept \in [guid : GUIDs, kind : {"MNID_STRING"}, id : Texts]
         /\ SameName(kept).kind = SameName(name).kind
         /\ SameName(kept).id = SameName(name).id
         /\ SameName(kept).guid.data1 = SameName(name).guid.data1
  <1> DEFINE A == [guid : GUIDs, kind : {"MNID_ID"}, id : Ints]
             B == [guid : GUIDs, kind : {"MNID_STRING"}, id : Texts]
  <1>1. name \in A \/ name \in B
    BY NamesAssumption
  <1>2. PICK guid : /\ guid \in GUIDs /\ guid.data1 = name.guid.data1
                    /\ kept = [name EXCEPT !.guid = guid]
    <2>1. CASE kept = name
      <3>1. name.guid \in GUIDs /\ name = [name EXCEPT !.guid = name.guid]
        BY <1>1
      <3>2. QED
        BY <2>1, <3>1
    <2>2. CASE kept \in Copies(name, Leftovers)
      <3>1. PICK rest \in Leftovers :
              kept = [name EXCEPT !.guid = [rest EXCEPT !.data1 = name.guid.data1]]
        BY <2>2 DEF Copies
      <3>2. rest \in GUIDs /\ name.guid \in GUIDs
        BY <1>1, LeftoversAssumption
      <3>3. /\ [rest EXCEPT !.data1 = name.guid.data1] \in GUIDs
            /\ [rest EXCEPT !.data1 = name.guid.data1].data1 = name.guid.data1
        BY <3>2 DEF GUIDs
      <3>4. QED
        BY <3>1, <3>3
    <2>3. QED
      BY <2>1, <2>2
  <1>3. kept \in A \/ kept \in B
    BY <1>1, <1>2
  <1>4. kept.kind = name.kind /\ kept.id = name.id /\ kept.guid = guid
    BY <1>1, <1>2
  <1>5. \A n : n \in A \/ n \in B =>
          /\ SameName(n).kind = n.kind /\ SameName(n).guid = n.guid
          /\ SameName(n).id = IF n.kind = "MNID_ID" THEN n.id ELSE Replaced(CString(n.id))
    BY DEF SameName
  <1> HIDE DEF A, B
  <1>6. QED
    BY <1>1, <1>2, <1>3, <1>4, <1>5 DEF A, B

\* A name that a client has read and gives back is the name the store was asked for, in each
\* set whose text has all its digits, or agrees with MAPI's in all but the end of its set.
THEOREM NamesAreKept == OpSpec => []WholeNamesComeBack
  <1>1. OpInv => WholeNamesComeBack
    <2> SUFFICES ASSUME OpInv, sample.of = "name", Whole(sample.kept.guid)
                 PROVE  WholeNamesComeBack
      BY DEF WholeNamesComeBack
    <2>1. PICK n \in Names :
            sample \in [of : {"name"}, name : {n}, kept : {n} \cup Copies(n, Leftovers)]
      BY DEF OpInv, Samples, Nothing
    <2>2. sample.name = n /\ sample.kept \in {n} \cup Copies(n, Leftovers)
      BY <2>1
    <2> DEFINE kept == sample.kept
    <2>3. ToNameId(AsRead(kept)) = SameName(kept)
      BY <2>2, CopiesAreNames, NameIsNamed
    <2>4. /\ SameName(kept).kind = SameName(n).kind
          /\ SameName(kept).id = SameName(n).id
          /\ SameName(kept).guid.data1 = SameName(n).guid.data1
      BY <2>2, CopiesAreNames
    <2>5. QED
      BY <2>2, <2>3, <2>4 DEF WholeNamesComeBack
  <1>2. QED
    BY <1>1, EachIsAnswered, PTL
-----------------------------------------------------------------------------
(***************************************************************************)
(* The walk.                                                               *)
(***************************************************************************)
\* What a getter answers is what the schema declares, is there unless it may dangle, and
\* needs the Store only in folders and items; the stores of a query are wrappers of Store.
EntryFits(declared, to, store, entry) ==
  IF entry = NullEntry THEN declared.null \/ to = <<"Property", "value">>
  ELSE /\ entry.type \in Members(declared.type) /\ Implemented(entry.type)
       /\ entry.there \/ to \in MayDangle \/ store = "gone"
       /\ to[1] = "Query" => entry \in {Wrapper("Store"), Dangling("Store")}

Fits(declared, to, getter) ==
  /\ getter.list = declared.list
  /\ \A entry \in getter.entries : EntryFits(declared, to, getter.store, entry)
  /\ getter.store # "unused" => to[1] \in {"Folder", "Item"}

Fit(declared, to, getters) == \A getter \in getters : Fits(declared, to, getter)

\* An answer of this type is no null, and its class has all the fields.
Good(type) == type # "null" /\ Implemented(type)

Plain(type) == Good(type) /\ type \in Members(type)

\* Fields of a query are answered with stores.
Apt(to, type) == to[1] = "Query" => type = "Store"

LEMMA EntriesFit ==
  ASSUME NEW declared, NEW to, NEW type \in Members(declared.type),
         Good(type), Apt(to, type), NEW store
  PROVE  /\ EntryFits(declared, to, store, Wrapper(type))
         /\ to \in MayDangle \/ store = "gone" => EntryFits(declared, to, store, Dangling(type))
  <1>1. Wrapper(type).type = type /\ Wrapper(type).there /\ ~NullEntry.there
    BY DEF Wrapper, NullEntry
  <1>2. Dangling(type).type = type /\ NullEntry.type = "null"
    BY DEF Dangling, NullEntry
  <1>3. Wrapper(type) # NullEntry
    BY <1>1
  <1>4. Dangling(type) # NullEntry
    BY <1>2, Zenon DEF Good
  <1>5. QED
    BY <1>1, <1>2, <1>3, <1>4 DEF EntryFits, Good, Apt

LEMMA NullFits ==
  ASSUME NEW declared, NEW to, NEW store, declared.null \/ to = <<"Property", "value">>
  PROVE  EntryFits(declared, to, store, NullEntry)
  BY DEF EntryFits

LEMMA GivenFits ==
  ASSUME NEW declared, NEW to, NEW entries, NEW list, list = declared.list,
         NEW store, \A entry \in entries : EntryFits(declared, to, store, entry),
         store # "unused" => to[1] \in {"Folder", "Item"}
  PROVE  Fit(declared, to, {Gives(entries, list, store)})
  BY DEF Fit, Fits, Gives

LEMMA Declarations ==
  ASSUME NEW type
  PROVE  /\ One(type).type = type /\ One(type).list = FALSE /\ One(type).null = FALSE
         /\ Maybe(type).type = type /\ Maybe(type).list = FALSE /\ Maybe(type).null = TRUE
         /\ List(type).type = type /\ List(type).list = TRUE /\ List(type).null = FALSE
         /\ Sparse(type).type = type /\ Sparse(type).list = TRUE /\ Sparse(type).null = TRUE
  BY DEF One, Maybe, List, Sparse, Declared

\* One entry, or what is not there.
LEMMA OneFits ==
  ASSUME NEW declared, declared.list = FALSE, NEW to,
         NEW type \in Members(declared.type), Good(type), Apt(to, type)
  PROVE  /\ Fit(declared, to, Always(type))
         /\ declared.null => Fit(declared, to, Sometimes(type))
         /\ (to[1] \in {"Folder", "Item"} /\ type = "Folder") => Fit(declared, to, ParentFolder)
  <1>1. EntryFits(declared, to, "unused", Wrapper(type)) /\ EntryFits(declared, to, "used", Wrapper(type))
    BY EntriesFit
  <1>2. Fit(declared, to, Always(type))
    BY <1>1, GivenFits DEF Always
  <1>3. ASSUME declared.null PROVE Fit(declared, to, Sometimes(type))
    BY <1>1, <1>3, NullFits, GivenFits DEF Sometimes
  <1>4. ASSUME to[1] \in {"Folder", "Item"}, type = "Folder" PROVE Fit(declared, to, ParentFolder)
    BY <1>1, <1>4, GivenFits DEF ParentFolder
  <1>5. QED
    BY <1>2, <1>3, <1>4

LEMMA NeverFits ==
  ASSUME NEW declared, declared.list = FALSE, NEW to, declared.null \/ to = <<"Property", "value">>
  PROVE  Fit(declared, to, Never)
  <1>1. EntryFits(declared, to, "unused", NullEntry)
    BY NullFits
  <1>2. QED
    BY <1>1, GivenFits DEF Never

\* A list of entries.
LEMMA ListFits ==
  ASSUME NEW declared, declared.list = TRUE, NEW to
  PROVE  /\ Fit(declared, to, Empty)
         /\ \A types \in SUBSET Members(declared.type) :
              (\A type \in types : Good(type) /\ Apt(to, type)) => Fit(declared, to, Every(types))
  <1>1. Fit(declared, to, Empty)
    BY GivenFits DEF Empty
  <1>2. ASSUME NEW types \in SUBSET Members(declared.type),
               \A type \in types : Good(type) /\ Apt(to, type)
        PROVE  Fit(declared, to, Every(types))
    <2> DEFINE entries == {Wrapper(type) : type \in types}
    <2>1. \A entry \in entries : EntryFits(declared, to, "unused", entry)
      BY <1>2, EntriesFit
    <2> HIDE DEF entries
    <2>2. Fit(declared, to, {Gives(entries, TRUE, "unused")})
      BY <2>1, GivenFits
    <2>3. QED
      BY <2>2 DEF Every, entries
  <1>3. QED
    BY <1>1, <1>2

LEMMA RowsFit ==
  ASSUME NEW declared, declared.list = TRUE, NEW to,
         NEW type \in Members(declared.type), Good(type), Apt(to, type)
  PROVE  /\ to \in MayDangle => Fit(declared, to, LookUps(type))
         /\ (to \in MayDangle /\ to[1] = "Folder") => Fit(declared, to, OwnLookUps(type))
         /\ (to[1] \in {"Folder", "Item"} /\ type = "Property") => Fit(declared, to, OwnColumns)
  <1>1. EntryFits(declared, to, "used", Wrapper(type))
    BY EntriesFit
  <1>2. (to[1] \in {"Folder", "Item"} /\ type = "Property") => Fit(declared, to, OwnColumns)
    BY <1>1, GivenFits DEF OwnColumns
  <1>3. ASSUME to \in MayDangle
        PROVE  /\ Fit(declared, to, LookUps(type))
               /\ to[1] = "Folder" => Fit(declared, to, OwnLookUps(type))
    <2> DEFINE entries == {Wrapper(type), Dangling(type)}
    <2>1. \A store : \A entry \in entries : EntryFits(declared, to, store, entry)
      BY <1>3, EntriesFit
    <2> HIDE DEF entries
    <2>2. Fit(declared, to, {Gives(entries, TRUE, "unused")})
      BY <2>1, GivenFits
    <2>3. to[1] = "Folder" => Fit(declared, to, {Gives(entries, TRUE, "used")})
      BY <2>1, GivenFits
    <2>4. to[1] = "Folder"
            => Fit(declared, to, {Gives(entries, TRUE, store) : store \in {"unused", "used"}})
      BY <2>2, <2>3 DEF Fit
    <2>5. QED
      BY <2>2, <2>4 DEF LookUps, OwnLookUps, entries
  <1>4. QED
    BY <1>2, <1>3

(* The classes, one by one. *)

Payloads == {"ItemsSubscription", "SubFoldersSubscription", "RootFoldersSubscription"}

LEMMA ClassesFound ==
  /\ Classes.Query = QueryGetters /\ ObjectTypes.Query = QueryFields
  /\ Classes.Mutation = MutationGetters /\ ObjectTypes.Mutation = MutationFields
  /\ Classes.Subscription = SubscriptionGetters /\ ObjectTypes.Subscription = SubscriptionFields
  /\ Classes.Store = StoreGetters /\ ObjectTypes.Store = StoreFields
  /\ Classes.Folder = FolderGetters /\ ObjectTypes.Folder = FolderFields
  /\ Classes.Item = ItemGetters /\ ObjectTypes.Item = ItemFields
  /\ Classes.Property = PropertyGetters /\ ObjectTypes.Property = PropertyFields
  /\ Classes.NamedId = NamedIdGetters /\ ObjectTypes.NamedId = NamedIdFields
  /\ Classes.IntId = IntIdGetters /\ ObjectTypes.IntId = IntIdFields
  /\ Classes.StringId = StringIdGetters /\ ObjectTypes.StringId = StringIdFields
  /\ Classes.IntValue = IntValueGetters /\ ObjectTypes.IntValue = IntValueFields
  /\ Classes.BoolValue = BoolValueGetters /\ ObjectTypes.BoolValue = BoolValueFields
  /\ Classes.StringValue = StringValueGetters /\ ObjectTypes.StringValue = StringValueFields
  /\ Classes.GuidValue = GuidValueGetters /\ ObjectTypes.GuidValue = GuidValueFields
  /\ Classes.DateTimeValue = DateTimeValueGetters /\ ObjectTypes.DateTimeValue = DateTimeValueFields
  /\ Classes.BinaryValue = BinaryValueGetters /\ ObjectTypes.BinaryValue = BinaryValueFields
  /\ Classes.ItemAdded = ItemAddedGetters /\ ObjectTypes.ItemAdded = ItemAddedFields
  /\ Classes.ItemUpdated = ItemUpdatedGetters /\ ObjectTypes.ItemUpdated = ItemUpdatedFields
  /\ Classes.ItemRemoved = ItemRemovedGetters /\ ObjectTypes.ItemRemoved = ItemRemovedFields
  /\ Classes.ItemsReloaded = ItemsReloadedGetters /\ ObjectTypes.ItemsReloaded = ItemsReloadedFields
  /\ Classes.FolderAdded = FolderAddedGetters /\ ObjectTypes.FolderAdded = FolderAddedFields
  /\ Classes.FolderUpdated = FolderUpdatedGetters /\ ObjectTypes.FolderUpdated = FolderUpdatedFields
  /\ Classes.FolderRemoved = FolderRemovedGetters /\ ObjectTypes.FolderRemoved = FolderRemovedFields
  /\ Classes.FoldersReloaded = FoldersReloadedGetters /\ ObjectTypes.FoldersReloaded = FoldersReloadedFields
  /\ Classes.ItemsSubscription = ItemsSubscriptionGetters
  /\ Classes.SubFoldersSubscription = SubFoldersSubscriptionGetters
  /\ Classes.RootFoldersSubscription = RootFoldersSubscriptionGetters
  BY DEF Classes, ObjectTypes

LEMMA TypesOfClasses ==
  /\ DOMAIN Classes \subseteq DOMAIN ObjectTypes \cup Payloads
  /\ Payloads \subseteq DOMAIN Classes
  /\ \A class \in DOMAIN Classes :
       TypeOf(class) = IF class \in Payloads THEN "Subscription" ELSE class
  BY DEF Classes, ObjectTypes, Payloads, TypeOf, RootsOf, RootClasses

LEMMA FieldsFound ==
  /\ DOMAIN QueryFields \subseteq DOMAIN QueryGetters
  /\ DOMAIN MutationFields \subseteq DOMAIN MutationGetters
  /\ DOMAIN SubscriptionFields \subseteq DOMAIN SubscriptionGetters
  /\ DOMAIN StoreFields \subseteq DOMAIN StoreGetters
  /\ DOMAIN FolderFields \subseteq DOMAIN FolderGetters
  /\ DOMAIN ItemFields \subseteq DOMAIN ItemGetters
  /\ DOMAIN PropertyFields \subseteq DOMAIN PropertyGetters
  /\ DOMAIN NamedIdFields \subseteq DOMAIN NamedIdGetters
  /\ DOMAIN IntIdFields \subseteq DOMAIN IntIdGetters
  /\ DOMAIN StringIdFields \subseteq DOMAIN StringIdGetters
  /\ DOMAIN IntValueFields \subseteq DOMAIN IntValueGetters
  /\ DOMAIN BoolValueFields \subseteq DOMAIN BoolValueGetters
  /\ DOMAIN StringValueFields \subseteq DOMAIN StringValueGetters
  /\ DOMAIN GuidValueFields \subseteq DOMAIN GuidValueGetters
  /\ DOMAIN DateTimeValueFields \subseteq DOMAIN DateTimeValueGetters
  /\ DOMAIN BinaryValueFields \subseteq DOMAIN BinaryValueGetters
  /\ DOMAIN ItemAddedFields \subseteq DOMAIN ItemAddedGetters
  /\ DOMAIN ItemUpdatedFields \subseteq DOMAIN ItemUpdatedGetters
  /\ DOMAIN ItemRemovedFields \subseteq DOMAIN ItemRemovedGetters
  /\ DOMAIN ItemsReloadedFields \subseteq DOMAIN ItemsReloadedGetters
  /\ DOMAIN FolderAddedFields \subseteq DOMAIN FolderAddedGetters
  /\ DOMAIN FolderUpdatedFields \subseteq DOMAIN FolderUpdatedGetters
  /\ DOMAIN FolderRemovedFields \subseteq DOMAIN FolderRemovedGetters
  /\ DOMAIN FoldersReloadedFields \subseteq DOMAIN FoldersReloadedGetters
  BY DEF QueryFields, QueryGetters, MutationFields, MutationGetters, SubscriptionFields,
         SubscriptionGetters, StoreFields, StoreGetters, FolderFields, FolderGetters, ItemFields,
         ItemGetters, PropertyFields, PropertyGetters, NamedIdFields, NamedIdGetters, IntIdFields,
         IntIdGetters, StringIdFields, StringIdGetters, IntValueFields, IntValueGetters,
         BoolValueFields, BoolValueGetters, StringValueFields, StringValueGetters, GuidValueFields,
         GuidValueGetters, DateTimeValueFields, DateTimeValueGetters, BinaryValueFields,
         BinaryValueGetters, ItemAddedFields, ItemAddedGetters, ItemUpdatedFields,
         ItemUpdatedGetters, ItemRemovedFields, ItemRemovedGetters, ItemsReloadedFields,
         ItemsReloadedGetters, FolderAddedFields, FolderAddedGetters, FolderUpdatedFields,
         FolderUpdatedGetters, FolderRemovedFields, FolderRemovedGetters, FoldersReloadedFields,
         FoldersReloadedGetters

Answerable ==
  {"Store", "Folder", "Item", "Property", "NamedId", "IntId", "StringId", "IntValue",
   "BoolValue", "StringValue", "GuidValue", "DateTimeValue", "BinaryValue", "ItemAdded",
   "ItemUpdated", "ItemRemoved", "ItemsReloaded", "FolderAdded", "FolderUpdated",
   "FolderRemoved", "FoldersReloaded"}

Scalars == {"ID", "String", "Int", "Boolean", "DateTime", "Guid", "SpecialFolder"}

LEMMA PlainTypes == \A type \in Answerable \cup Scalars : Plain(type)
  <1>1. ASSUME NEW type \in Answerable PROVE Implemented(type)
    <2>1. type \in DOMAIN Classes
      BY DEF Answerable, Classes
    <2>2. DOMAIN ObjectTypes[type] \subseteq DOMAIN Classes[type]
      BY ClassesFound, FieldsFound DEF Answerable
    <2>3. QED
      BY <2>1, <2>2 DEF Implemented
  <1>2. ASSUME NEW type \in Scalars PROVE Implemented(type)
    BY DEF Scalars, Implemented, ObjectTypes
  <1>3. ASSUME NEW type \in Answerable \cup Scalars PROVE type # "null" /\ type \in Members(type)
    BY DEF Answerable, Scalars, Members, Unions
  <1>4. QED
    BY <1>1, <1>2, <1>3 DEF Plain, Good
\* The ways in which fields are declared and answered.
Answered(type, to) ==
  /\ Fit(One(type), to, Always(type)) /\ Fit(Maybe(type), to, Always(type))
  /\ Fit(Maybe(type), to, Sometimes(type)) /\ Fit(Maybe(type), to, Never)
  /\ Fit(List(type), to, Every({type})) /\ Fit(Sparse(type), to, Every({type}))
  /\ Fit(List(type), to, Empty)

Looked(type, to) ==
  /\ Fit(List(type), to, LookUps(type)) /\ Fit(Sparse(type), to, LookUps(type))

LEMMA Shapes ==
  ASSUME NEW type, Plain(type), NEW to, Apt(to, type)
  PROVE  /\ Answered(type, to)
         /\ to \in MayDangle => Looked(type, to)
         /\ (to \in MayDangle /\ to[1] = "Folder") => Fit(List(type), to, OwnLookUps(type))
         /\ (to[1] \in {"Folder", "Item"} /\ type = "Property") => Fit(Sparse(type), to, OwnColumns)
         /\ (to[1] \in {"Folder", "Item"} /\ type = "Folder")
              => Fit(One(type), to, ParentFolder) /\ Fit(Maybe(type), to, ParentFolder)
  <1>1. One(type).list = FALSE /\ Maybe(type).list = FALSE /\ List(type).list = TRUE
        /\ Sparse(type).list = TRUE /\ Maybe(type).null
        /\ type \in Members(One(type).type) /\ type \in Members(Maybe(type).type)
        /\ type \in Members(List(type).type) /\ type \in Members(Sparse(type).type)
    BY Declarations DEF Plain
  <1>2. Good(type)
    BY DEF Plain
  <1>3. Answered(type, to)
    <2>1. Fit(List(type), to, Every({type})) /\ Fit(Sparse(type), to, Every({type}))
      <3>1. {type} \in SUBSET Members(List(type).type) /\ {type} \in SUBSET Members(Sparse(type).type)
            /\ \A t \in {type} : Good(t) /\ Apt(to, t)
        BY <1>1, <1>2
      <3>2. QED
        BY <1>1, <3>1, ListFits
    <2>2. QED
      BY <1>1, <1>2, <2>1, OneFits, NeverFits, ListFits DEF Answered
  <1>4. to \in MayDangle => Looked(type, to)
    BY <1>1, <1>2, RowsFit DEF Looked
  <1>5. QED
    BY <1>1, <1>2, <1>3, <1>4, OneFits, RowsFit

LEMMA FolderFits ==
  ASSUME NEW field \in DOMAIN FolderFields
  PROVE  Fit(FolderFields[field], <<"Folder", field>>, FolderGetters[field])
  <1> DEFINE to == <<"Folder", field>>
  <1>1. to[1] = "Folder" /\ \A type : Apt(to, type)
    BY DEF Apt
  <1>2. Plain("ID") /\ Plain("Folder") /\ Plain("Store") /\ Plain("String") /\ Plain("Int")
        /\ Plain("SpecialFolder") /\ Plain("Property") /\ Plain("Item")
    BY PlainTypes DEF Answerable, Scalars
  <1>3. field \in {"parentFolder", "subFolders", "items"} => to \in MayDangle
    BY DEF MayDangle
  <1> HIDE DEF to
  <1>4. CASE field \in {"id", "name", "count", "unread", "specialFolder"}
    <2>1. Answered("ID", to) /\ Answered("String", to) /\ Answered("Int", to) /\ Answered("SpecialFolder", to)
      BY <1>1, <1>2, Shapes
    <2>2. QED
      BY <1>4, <2>1 DEF to, Answered, FolderFields, FolderGetters
  <1>5. CASE field \in {"parentFolder", "subFolders", "items"}
    <2>1. Fit(Maybe("Folder"), to, ParentFolder)
          /\ Fit(List("Folder"), to, OwnLookUps("Folder")) /\ Fit(List("Item"), to, OwnLookUps("Item"))
      BY <1>1, <1>2, <1>3, <1>5, Shapes
    <2>2. EntryFits(Maybe("Folder"), to, "unused", Dangling("Folder"))
      <3>1. "Folder" \in Members(Maybe("Folder").type) /\ Good("Folder")
        BY <1>2, Declarations DEF Plain
      <3>2. QED
        BY <1>1, <1>3, <1>5, <3>1, EntriesFit
    <2> DEFINE itself == {Gives({Dangling("Folder")}, FALSE, "unused")}
    <2>3. Fit(Maybe("Folder"), to, itself)
      BY <2>2, Declarations, GivenFits
    <2>4. FolderGetters.parentFolder = ParentFolder \cup itself
          /\ FolderGetters.subFolders = OwnLookUps("Folder") /\ FolderGetters.items = OwnLookUps("Item")
      BY DEF FolderGetters
    <2>5. FolderFields.parentFolder = Maybe("Folder")
          /\ FolderFields.subFolders = List("Folder") /\ FolderFields.items = List("Item")
      BY DEF FolderFields
    <2> HIDE DEF itself
    <2>6. Fit(Maybe("Folder"), to, ParentFolder \cup itself)
      BY <2>1, <2>3 DEF Fit
    <2>7. QED
      BY <1>5, <2>1, <2>4, <2>5, <2>6 DEF to
  <1>6. CASE field = "store"
    <2>1. "Store" \in Members(One("Store").type) /\ Good("Store") /\ One("Store").list = FALSE
      BY <1>2, Declarations DEF Plain
    <2>2. Fit(One("Store"), to, {Gives({Wrapper("Store")}, FALSE, "alive")})
      <3>1. EntryFits(One("Store"), to, "alive", Wrapper("Store"))
        BY <1>1, <2>1, EntriesFit
      <3>2. QED
        BY <1>1, <2>1, <3>1, GivenFits
    <2>3. Fit(One("Store"), to, {Gives({Dangling("Store")}, FALSE, "gone")})
      <3>1. EntryFits(One("Store"), to, "gone", Dangling("Store"))
        BY <1>1, <2>1, EntriesFit
      <3>2. QED
        BY <1>1, <2>1, <3>1, GivenFits
    <2>4. Fit(One("Store"), to, {Gives({Wrapper("Store")}, FALSE, "alive"),
                                 Gives({Dangling("Store")}, FALSE, "gone")})
      BY <2>2, <2>3 DEF Fit
    <2>5. QED
      BY <1>6, <2>4 DEF to, FolderFields, FolderGetters
  <1>7. CASE field \in {"columns", "conversations"}
    <2>1. Fit(Sparse("Property"), to, OwnColumns)
      BY <1>1, <1>2, Shapes
    <2>2. Fit(List("Conversation"), to, Empty)
      BY Declarations, ListFits
    <2>3. QED
      BY <1>7, <2>1, <2>2 DEF to, FolderFields, FolderGetters
  <1>8. QED
    BY <1>4, <1>5, <1>6, <1>7 DEF FolderFields

LEMMA ItemFits ==
  ASSUME NEW field \in DOMAIN ItemFields
  PROVE  Fit(ItemFields[field], <<"Item", field>>, ItemGetters[field])
  <1> DEFINE to == <<"Item", field>>
  <1>1. to[1] = "Item" /\ \A type : Apt(to, type)
    BY DEF Apt
  <1>2. Plain("ID") /\ Plain("Folder") /\ Plain("String") /\ Plain("Boolean") /\ Plain("DateTime")
        /\ Plain("Property")
    BY PlainTypes DEF Answerable, Scalars
  <1> HIDE DEF to
  <1>3. Answered("ID", to) /\ Answered("String", to) /\ Answered("Boolean", to) /\ Answered("DateTime", to)
        /\ Fit(One("Folder"), to, ParentFolder) /\ Fit(Sparse("Property"), to, OwnColumns)
    BY <1>1, <1>2, Shapes
  <1>4. Fit(Maybe("Conversation"), to, Never) /\ Fit(Maybe("Stream"), to, Never)
        /\ Fit(List("Attachment"), to, Empty)
    BY Declarations, NeverFits, ListFits
  <1>5. CASE field \in {"id", "parentFolder", "columns", "conversation", "body", "attachments"}
    BY <1>3, <1>4, <1>5 DEF to, Answered, ItemFields, ItemGetters
  <1>6. CASE field \in {"subject", "sender", "to", "cc", "preview"}
    BY <1>3, <1>6 DEF to, Answered, ItemFields, ItemGetters
  <1>7. CASE field \in {"read", "received", "modified"}
    BY <1>3, <1>7 DEF to, Answered, ItemFields, ItemGetters
  <1>8. QED
    BY <1>5, <1>6, <1>7 DEF ItemFields

LEMMA StoreFits ==
  ASSUME NEW field \in DOMAIN StoreFields
  PROVE  Fit(StoreFields[field], <<"Store", field>>, StoreGetters[field])
  <1> DEFINE to == <<"Store", field>>
  <1>1. \A type : Apt(to, type)
    BY DEF Apt
  <1>2. Plain("ID") /\ Plain("Folder") /\ Plain("String") /\ Plain("Property")
    BY PlainTypes DEF Answerable, Scalars
  <1>3. field \in {"rootFolders", "specialFolders"} => to \in MayDangle
    BY DEF MayDangle
  <1> HIDE DEF to
  <1>4. CASE field \in {"rootFolders", "specialFolders"}
    <2>1. Looked("Folder", to)
      BY <1>1, <1>2, <1>3, <1>4, Shapes
    <2>2. QED
      BY <1>4, <2>1 DEF to, Looked, StoreFields, StoreGetters
  <1>5. CASE field \in {"id", "name", "columns", "folderProperties", "itemProperties"}
    <2>1. Answered("ID", to) /\ Answered("String", to) /\ Answered("Property", to)
      BY <1>1, <1>2, Shapes
    <2>2. QED
      BY <1>5, <2>1 DEF to, Answered, StoreFields, StoreGetters
  <1>6. QED
    BY <1>4, <1>5 DEF StoreFields

LEMMA RootsFit ==
  /\ \A field \in DOMAIN QueryFields :
       Fit(QueryFields[field], <<"Query", field>>, QueryGetters[field])
  /\ \A field \in DOMAIN MutationFields :
       Fit(MutationFields[field], <<"Mutation", field>>, MutationGetters[field])
  <1>1. ASSUME NEW field \in DOMAIN QueryFields
        PROVE  Fit(QueryFields[field], <<"Query", field>>, QueryGetters[field])
    <2> DEFINE to == <<"Query", field>>
    <2>1. Plain("Store") /\ Apt(to, "Store")
      BY PlainTypes DEF Answerable, Apt
    <2>2. field = "stores" /\ to \in MayDangle
      BY DEF QueryFields, MayDangle
    <2> HIDE DEF to
    <2>3. Looked("Store", to)
      BY <2>1, <2>2, Shapes
    <2>4. QED
      BY <2>2, <2>3 DEF to, Looked, QueryFields, QueryGetters
  <1>2. ASSUME NEW field \in DOMAIN MutationFields
        PROVE  Fit(MutationFields[field], <<"Mutation", field>>, MutationGetters[field])
    <2> DEFINE to == <<"Mutation", field>>
    <2>1. \A type : Apt(to, type)
      BY DEF Apt
    <2>2. Plain("Item") /\ Plain("Folder") /\ Plain("Boolean")
      BY PlainTypes DEF Answerable, Scalars
    <2> HIDE DEF to
    <2>3. Answered("Item", to) /\ Answered("Folder", to) /\ Answered("Boolean", to)
      BY <2>1, <2>2, Shapes
    <2>4. QED
      BY <2>3 DEF to, Answered, MutationFields, MutationGetters
  <1>3. QED
    BY <1>1, <1>2

\* A class answers what a type declares.
Answers(fields, type, getters) ==
  \A field \in DOMAIN fields : Fit(fields[field], <<type, field>>, getters[field])

LEMMA PayloadsFit ==
  /\ Answers(SubscriptionFields, "Subscription", SubscriptionGetters)
  /\ Answers(SubscriptionFields, "Subscription", ItemsSubscriptionGetters)
  /\ Answers(SubscriptionFields, "Subscription", SubFoldersSubscriptionGetters)
  /\ Answers(SubscriptionFields, "Subscription", RootFoldersSubscriptionGetters)
  <1> DEFINE toItems == <<"Subscription", "items">>
             toSubFolders == <<"Subscription", "subFolders">>
             toRootFolders == <<"Subscription", "rootFolders">>
  <1>1. \A type : Apt(toItems, type) /\ Apt(toSubFolders, type) /\ Apt(toRootFolders, type)
    BY DEF Apt
  <1>2. \A type \in ItemChangeTypes \cup FolderChangeTypes : Good(type)
    BY PlainTypes DEF Answerable, ItemChangeTypes, FolderChangeTypes, Plain
  <1>3. ItemChangeTypes \in SUBSET Members("ItemChange") /\ FolderChangeTypes \in SUBSET Members("FolderChange")
    BY DEF Members, Unions
  <1>4. SubscriptionFields.items = List("ItemChange") /\ SubscriptionFields.subFolders = List("FolderChange")
        /\ SubscriptionFields.rootFolders = List("FolderChange")
        /\ DOMAIN SubscriptionFields = {"items", "subFolders", "rootFolders"}
    BY DEF SubscriptionFields
  <1> HIDE DEF toItems, toSubFolders, toRootFolders
  <1>5. /\ Fit(List("ItemChange"), toItems, Empty)
        /\ Fit(List("FolderChange"), toSubFolders, Empty)
        /\ Fit(List("FolderChange"), toRootFolders, Empty)
    BY Declarations, ListFits
  <1>6. /\ Fit(List("ItemChange"), toItems, Every(ItemChangeTypes))
        /\ Fit(List("FolderChange"), toSubFolders, Every(FolderChangeTypes))
        /\ Fit(List("FolderChange"), toRootFolders, Every(FolderChangeTypes))
    <2>1. List("ItemChange").list = TRUE /\ List("ItemChange").type = "ItemChange"
          /\ List("FolderChange").list = TRUE /\ List("FolderChange").type = "FolderChange"
      BY Declarations
    <2>2. Fit(List("ItemChange"), toItems, Every(ItemChangeTypes))
      BY <1>1, <1>2, <1>3, <2>1, ListFits
    <2>3. Fit(List("FolderChange"), toSubFolders, Every(FolderChangeTypes))
      BY <1>1, <1>2, <1>3, <2>1, ListFits
    <2>4. Fit(List("FolderChange"), toRootFolders, Every(FolderChangeTypes))
      BY <1>1, <1>2, <1>3, <2>1, ListFits
    <2>5. QED
      BY <2>2, <2>3, <2>4
  <1>7. ASSUME NEW getters,
               getters.items \in {Empty, Every(ItemChangeTypes)},
               getters.subFolders \in {Empty, Every(FolderChangeTypes)},
               getters.rootFolders \in {Empty, Every(FolderChangeTypes)}
        PROVE  Answers(SubscriptionFields, "Subscription", getters)
    BY <1>4, <1>5, <1>6, <1>7 DEF Answers, toItems, toSubFolders, toRootFolders
  <1>8. /\ SubscriptionGetters.items = Empty /\ SubscriptionGetters.subFolders = Empty
        /\ SubscriptionGetters.rootFolders = Empty
        /\ ItemsSubscriptionGetters.items = Every(ItemChangeTypes)
        /\ ItemsSubscriptionGetters.subFolders = Empty
        /\ ItemsSubscriptionGetters.rootFolders = Empty
        /\ SubFoldersSubscriptionGetters.items = Empty
        /\ SubFoldersSubscriptionGetters.subFolders = Every(FolderChangeTypes)
        /\ SubFoldersSubscriptionGetters.rootFolders = Empty
        /\ RootFoldersSubscriptionGetters.items = Empty
        /\ RootFoldersSubscriptionGetters.subFolders = Empty
        /\ RootFoldersSubscriptionGetters.rootFolders = Every(FolderChangeTypes)
    BY DEF SubscriptionGetters, ItemsSubscriptionGetters, SubFoldersSubscriptionGetters,
           RootFoldersSubscriptionGetters
  <1>9. QED
    BY <1>7, <1>8

LEMMA PropertiesFit ==
  /\ Answers(PropertyFields, "Property", PropertyGetters)
  /\ Answers(NamedIdFields, "NamedId", NamedIdGetters)
  <1>1. ASSUME NEW type \in Answerable, NEW union, type \in Members(union),
               NEW to, \A t : Apt(to, t)
        PROVE  Fit(One(union), to, Always(type))
    <2>1. One(union).list = FALSE /\ One(union).type = union /\ Good(type)
      BY PlainTypes, Declarations DEF Plain
    <2>2. QED
      BY <1>1, <2>1, OneFits
  <1>2. \A field, t : Apt(<<"Property", field>>, t) /\ Apt(<<"NamedId", field>>, t)
    BY DEF Apt
  <1>3. \A declared, to, a, b : Fit(declared, to, a) /\ Fit(declared, to, b) => Fit(declared, to, a \cup b)
    BY DEF Fit
  <1>4. Fit(One("PropId"), <<"Property", "id">>, Always("IntId") \cup Always("NamedId"))
    <2>1. {"IntId", "NamedId"} \subseteq Answerable \cap Members("PropId")
      BY DEF Answerable, Members, Unions, PropIdTypes
    <2>2. QED
      BY <1>1, <1>2, <1>3, <2>1
  <1>5. Fit(One("NamedPropId"), <<"NamedId", "id">>, Always("IntId") \cup Always("StringId"))
    <2>1. {"IntId", "StringId"} \subseteq Answerable \cap Members("NamedPropId")
      BY DEF Answerable, Members, Unions, NamedPropIdTypes
    <2>2. QED
      BY <1>1, <1>2, <1>3, <2>1
  <1>6. Fit(One("PropValue"), <<"Property", "value">>,
            (UNION {Always(type) : type \in PropValueTypes \ {"StreamValue"}}) \cup Never)
    <2>1. PropValueTypes \ {"StreamValue"} \subseteq Answerable \cap Members("PropValue")
      BY DEF Answerable, Members, Unions, PropValueTypes
    <2>2. \A type \in PropValueTypes \ {"StreamValue"} :
            Fit(One("PropValue"), <<"Property", "value">>, Always(type))
      BY <1>1, <1>2, <2>1
    <2>3. Fit(One("PropValue"), <<"Property", "value">>,
              UNION {Always(type) : type \in PropValueTypes \ {"StreamValue"}})
      BY <2>2 DEF Fit
    <2>4. Fit(One("PropValue"), <<"Property", "value">>, Never)
      BY Declarations, NeverFits
    <2>5. QED
      BY <1>3, <2>3, <2>4
  <1>7. Fit(One("Guid"), <<"NamedId", "propset">>, Always("Guid"))
    <2>1. Plain("Guid")
      BY PlainTypes DEF Scalars
    <2>2. QED
      BY <1>2, <2>1, Shapes DEF Answered
  <1>8. PropertyFields.id = One("PropId") /\ PropertyFields.value = One("PropValue")
        /\ NamedIdFields.propset = One("Guid") /\ NamedIdFields.id = One("NamedPropId")
        /\ DOMAIN PropertyFields = {"id", "value"} /\ DOMAIN NamedIdFields = {"propset", "id"}
    BY DEF PropertyFields, NamedIdFields
  <1>9. PropertyGetters.id = Always("IntId") \cup Always("NamedId")
        /\ PropertyGetters.value
             = (UNION {Always(type) : type \in PropValueTypes \ {"StreamValue"}}) \cup Never
        /\ NamedIdGetters.propset = Always("Guid")
        /\ NamedIdGetters.id = Always("IntId") \cup Always("StringId")
    BY DEF PropertyGetters, NamedIdGetters
  <1>10. Answers(PropertyFields, "Property", PropertyGetters)
    BY <1>4, <1>6, <1>8, <1>9, Zenon DEF Answers
  <1>11. Answers(NamedIdFields, "NamedId", NamedIdGetters)
    BY <1>5, <1>7, <1>8, <1>9, Zenon DEF Answers
  <1>12. QED
    BY <1>10, <1>11

\* Each getter answers what its field declares, and nothing else.
Matches(fields, getters) ==
  \A field \in DOMAIN fields : \E type \in Answerable \cup Scalars :
    \/ fields[field] = One(type) /\ getters[field] = Always(type)
    \/ fields[field] = List(type) /\ getters[field] = Every({type})

LEMMA MatchesFit ==
  ASSUME NEW class \in Answerable, NEW fields, NEW getters, Matches(fields, getters)
  PROVE  Answers(fields, class, getters)
  <1> SUFFICES ASSUME NEW field \in DOMAIN fields
               PROVE  Fit(fields[field], <<class, field>>, getters[field])
    BY DEF Answers
  <1>1. \A type : Apt(<<class, field>>, type)
    BY DEF Apt, Answerable
  <1> DEFINE to == <<class, field>>
  <1>2. PICK type \in Answerable \cup Scalars :
               \/ fields[field] = One(type) /\ getters[field] = Always(type)
               \/ fields[field] = List(type) /\ getters[field] = Every({type})
    BY DEF Matches
  <1> HIDE DEF to
  <1>3. Answered(type, to)
    BY <1>1, PlainTypes, Shapes DEF to
  <1>4. QED
    BY <1>2, <1>3 DEF Answered, to

LEMMA LeavesFit ==
  /\ Answers(IntIdFields, "IntId", IntIdGetters)
  /\ Answers(StringIdFields, "StringId", StringIdGetters)
  /\ Answers(IntValueFields, "IntValue", IntValueGetters)
  /\ Answers(BoolValueFields, "BoolValue", BoolValueGetters)
  /\ Answers(StringValueFields, "StringValue", StringValueGetters)
  /\ Answers(GuidValueFields, "GuidValue", GuidValueGetters)
  /\ Answers(DateTimeValueFields, "DateTimeValue", DateTimeValueGetters)
  /\ Answers(BinaryValueFields, "BinaryValue", BinaryValueGetters)
  /\ Answers(ItemAddedFields, "ItemAdded", ItemAddedGetters)
  /\ Answers(ItemUpdatedFields, "ItemUpdated", ItemUpdatedGetters)
  /\ Answers(ItemRemovedFields, "ItemRemoved", ItemRemovedGetters)
  /\ Answers(ItemsReloadedFields, "ItemsReloaded", ItemsReloadedGetters)
  /\ Answers(FolderAddedFields, "FolderAdded", FolderAddedGetters)
  /\ Answers(FolderUpdatedFields, "FolderUpdated", FolderUpdatedGetters)
  /\ Answers(FolderRemovedFields, "FolderRemoved", FolderRemovedGetters)
  /\ Answers(FoldersReloadedFields, "FoldersReloaded", FoldersReloadedGetters)
  <1>1. {"Int", "String", "Boolean", "Guid", "DateTime", "ID", "Item", "Folder"}
          \subseteq Answerable \cup Scalars
    BY DEF Answerable, Scalars
  <1>2. Matches(IntIdFields, IntIdGetters)
    BY <1>1 DEF Matches, IntIdFields, IntIdGetters
  <1>3. Matches(StringIdFields, StringIdGetters)
    BY <1>1 DEF Matches, StringIdFields, StringIdGetters
  <1>4. Matches(IntValueFields, IntValueGetters)
    BY <1>1 DEF Matches, IntValueFields, IntValueGetters
  <1>5. Matches(BoolValueFields, BoolValueGetters)
    BY <1>1 DEF Matches, BoolValueFields, BoolValueGetters
  <1>6. Matches(StringValueFields, StringValueGetters)
    BY <1>1 DEF Matches, StringValueFields, StringValueGetters
  <1>7. Matches(GuidValueFields, GuidValueGetters)
    BY <1>1 DEF Matches, GuidValueFields, GuidValueGetters
  <1>8. Matches(DateTimeValueFields, DateTimeValueGetters)
    BY <1>1 DEF Matches, DateTimeValueFields, DateTimeValueGetters
  <1>9. Matches(BinaryValueFields, BinaryValueGetters)
    BY <1>1 DEF Matches, BinaryValueFields, BinaryValueGetters
  <1>10. Matches(ItemAddedFields, ItemAddedGetters)
    BY <1>1 DEF Matches, ItemAddedFields, ItemAddedGetters
  <1>11. Matches(ItemUpdatedFields, ItemUpdatedGetters)
    BY <1>1 DEF Matches, ItemUpdatedFields, ItemUpdatedGetters
  <1>12. Matches(ItemRemovedFields, ItemRemovedGetters)
    BY <1>1 DEF Matches, ItemRemovedFields, ItemRemovedGetters
  <1>13. Matches(ItemsReloadedFields, ItemsReloadedGetters)
    BY <1>1 DEF Matches, ItemsReloadedFields, ItemsReloadedGetters
  <1>14. Matches(FolderAddedFields, FolderAddedGetters)
    BY <1>1 DEF Matches, FolderAddedFields, FolderAddedGetters
  <1>15. Matches(FolderUpdatedFields, FolderUpdatedGetters)
    BY <1>1 DEF Matches, FolderUpdatedFields, FolderUpdatedGetters
  <1>16. Matches(FolderRemovedFields, FolderRemovedGetters)
    BY <1>1 DEF Matches, FolderRemovedFields, FolderRemovedGetters
  <1>17. Matches(FoldersReloadedFields, FoldersReloadedGetters)
    BY <1>1 DEF Matches, FoldersReloadedFields, FoldersReloadedGetters
  <1>18. {"IntId", "StringId", "IntValue", "BoolValue", "StringValue", "GuidValue",
          "DateTimeValue", "BinaryValue", "ItemAdded", "ItemUpdated", "ItemRemoved",
          "ItemsReloaded", "FolderAdded", "FolderUpdated", "FolderRemoved", "FoldersReloaded"}
           \subseteq Answerable
    BY DEF Answerable
  <1>19. QED
    BY MatchesFit, <1>2, <1>3, <1>4, <1>5, <1>6, <1>7, <1>8, <1>9, <1>10, <1>11, <1>12, <1>13,
       <1>14, <1>15, <1>16, <1>17, <1>18

LEMMA ClassesFit ==
  \A class \in DOMAIN Classes : Answers(ObjectTypes[TypeOf(class)], TypeOf(class), Classes[class])
  <1>1. Answers(FolderFields, "Folder", FolderGetters) /\ Answers(ItemFields, "Item", ItemGetters)
        /\ Answers(StoreFields, "Store", StoreGetters) /\ Answers(QueryFields, "Query", QueryGetters)
        /\ Answers(MutationFields, "Mutation", MutationGetters)
    BY FolderFits, ItemFits, StoreFits, RootsFit DEF Answers
  <1>2. DOMAIN Classes = Answerable \cup Payloads \cup {"Query", "Mutation", "Subscription"}
    BY DEF Classes, Answerable, Payloads
  <1>3. ASSUME NEW class \in Answerable \cup {"Query", "Mutation", "Subscription"}
        PROVE  Answers(ObjectTypes[class], class, Classes[class])
    BY <1>1, PayloadsFit, PropertiesFit, LeavesFit, ClassesFound DEF Answerable
  <1>4. ASSUME NEW class \in Payloads
        PROVE  Answers(ObjectTypes["Subscription"], "Subscription", Classes[class])
    BY PayloadsFit, ClassesFound DEF Payloads
  <1>5. ASSUME NEW class \in Answerable \cup {"Query", "Mutation", "Subscription"}
        PROVE  class \notin Payloads
    BY DEF Answerable, Payloads
  <1>6. QED
    BY <1>2, <1>3, <1>4, <1>5, TypesOfClasses

\* Wherever the walk is, it is at an object of a class, or at a wrapper of nothing that has
\* an explanation; in a query, a wrapper on the way has the Store as soon as one is passed.
WalkInv ==
  /\ AnswersConform
  /\ CrashIsExplained
  /\ root = "none" => ~dead
  /\ root # "none" =>
       /\ at.type \in DOMAIN Classes
       /\ ~at.there => at.by \in MayDangle \/ (root # "Query" /\ ~StoreAlive)
       /\ root = "Query" => at.type = "Query" \/ onPath \/ ~at.there

LEMMA InitWalks == ASSUME WalkInit PROVE WalkInv
  BY DEF WalkInit, WalkInv, AnswersConform, CrashIsExplained

LEMMA BeginWalks ==
  ASSUME WalkInv, NEW operation \in Operations, NEW class \in RootsOf(operation), Begin(class)
  PROVE  WalkInv'
  <1>1. class \in DOMAIN Classes
    BY DEF Operations, RootsOf, RootClasses, Classes
  <1>2. ~dead'
    BY SMTT(20) DEF WalkInv, Begin
  <1>3. AnswersConform'
    BY DEF WalkInv, Begin, AnswersConform
  <1>4. at'.type = class /\ at'.there /\ root' = class
    BY DEF Begin
  <1>5. QED
    BY <1>1, <1>2, <1>3, <1>4 DEF WalkInv, CrashIsExplained

\* What is answered fits its field.
LEMMA SelectionFits ==
  ASSUME WalkInv, NEW field, Selectable(field), NEW getter \in Classes[at.type][field]
  PROVE  Fits(ObjectTypes[TypeOf(at.type)][field], <<TypeOf(at.type), field>>, getter)
  <1>1. at.type \in DOMAIN Classes /\ field \in DOMAIN ObjectTypes[TypeOf(at.type)]
    BY DEF WalkInv, Selectable
  <1>2. QED
    BY <1>1, ClassesFit DEF Answers, Fit

\* Only a folder or an item needs the Store, and in a query it has one.
LEMMA StoreIsKept ==
  ASSUME WalkInv, NEW field, Selectable(field), at.there,
         NEW getter \in Classes[at.type][field], getter.store # "unused"
  PROVE  /\ at.type \in {"Folder", "Item"}
         /\ root = "Query" => StoreAlive
  <1>1. TypeOf(at.type) \in {"Folder", "Item"}
    <2> DEFINE to == <<TypeOf(at.type), field>>
    <2>1. to[1] = TypeOf(at.type)
      OBVIOUS
    <2> HIDE DEF to
    <2>2. Fits(ObjectTypes[TypeOf(at.type)][field], to, getter)
      BY SelectionFits DEF to
    <2>3. QED
      BY <2>1, <2>2 DEF Fits
  <1>2. at.type \in DOMAIN Classes /\ root # "none"
    BY DEF WalkInv, Selectable
  <1>3. at.type \in {"Folder", "Item"}
    BY <1>1, <1>2, TypesOfClasses
  <1>4. QED
    BY <1>2, <1>3 DEF WalkInv, StoreAlive

LEMMA SelectWalks ==
  ASSUME WalkInv, NEW field, Select(field)
  PROVE  WalkInv'
  <1> DEFINE to == <<TypeOf(at.type), field>>
             declared == ObjectTypes[TypeOf(at.type)][field]
  <1>1. PICK getter \in Classes[at.type][field] :
          /\ getter.store \in {"used", "alive"} => StoreAlive
          /\ getter.store = "gone" => ~StoreAlive
          /\ \E entries \in AnswersOf(getter) :
               /\ answer' = [to |-> to, entries |-> entries, list |-> getter.list]
               /\ Descend(entries, to)
    BY DEF Select
  <1>2. PICK entries \in AnswersOf(getter) :
          answer' = [to |-> to, entries |-> entries, list |-> getter.list] /\ Descend(entries, to)
    BY <1>1
  <1>3. entries \subseteq getter.entries
    BY DEF AnswersOf
  <1>4. Selectable(field) /\ at.there /\ ~dead /\ root # "none" /\ at.type \in DOMAIN Classes
        /\ root' = root /\ ~dead' /\ inSink' = inSink
        /\ inStores' = (inStores \/ at.type \in {"Query", "Mutation"})
    BY DEF Select, Selectable, WalkInv
  <1>5. Fits(declared, to, getter)
    BY <1>4, SelectionFits
  <1>6. to[1] = TypeOf(at.type) /\ to[2] = field
    OBVIOUS
  <1>7. declared = ObjectTypes[to[1]][to[2]]
    BY <1>6
  <1> HIDE DEF to, declared
  <1>8. AnswersConform'
    <2>1. answer'.to = to /\ answer'.entries = entries /\ answer'.list = getter.list
      BY <1>2
    <2>2. getter.list = declared.list
      BY <1>5 DEF Fits
    <2>3. ASSUME NEW entry \in entries
          PROVE  IF entry = NullEntry THEN declared.null \/ to = <<"Property", "value">>
                 ELSE entry.type \in Members(declared.type) /\ Implemented(entry.type)
      BY <1>3, <1>5 DEF Fits, EntryFits
    <2>4. QED
      BY <1>7, <2>1, <2>2, <2>3 DEF AnswersConform
  <1>9. CrashIsExplained' /\ (root = "none" => ~dead)'
    BY <1>4 DEF CrashIsExplained
  <1>10. CASE Objects(entries) = {}
    <2>1. at' = at /\ onPath' = onPath
      BY <1>2, <1>10 DEF Descend
    <2>2. at.there /\ (root = "Query" => at.type = "Query" \/ onPath)
      BY <1>4 DEF WalkInv
    <2>3. QED
      BY <1>4, <1>8, <1>9, <2>1, <2>2 DEF WalkInv
  <1>11. CASE Objects(entries) # {}
    <2>1. PICK entry \in Objects(entries) :
            /\ at' = [type |-> entry.type, there |-> entry.there, by |-> to]
            /\ onPath' = (onPath \/ HoldsStore(entry))
      BY <1>2, <1>11 DEF Descend
    <2>2. at'.type = entry.type /\ at'.there = entry.there /\ at'.by = to
      BY <2>1
    <2>3. entry \in getter.entries /\ entry.type \in DOMAIN ObjectTypes
      BY <1>3 DEF Objects
    <2>4. entry # NullEntry
      <3>1. "null" \notin DOMAIN ObjectTypes /\ NullEntry.type = "null"
        BY DEF ObjectTypes, NullEntry
      <3>2. QED
        BY <2>3, <3>1
    <2>5. /\ Implemented(entry.type)
          /\ entry.there \/ to \in MayDangle \/ getter.store = "gone"
          /\ to[1] = "Query" => entry \in {Wrapper("Store"), Dangling("Store")}
      BY <1>5, <2>3, <2>4 DEF Fits, EntryFits
    <2>6. at'.type \in DOMAIN Classes
      BY <2>2, <2>3, <2>5 DEF Implemented
    <2>7. ASSUME ~at'.there, at'.by \notin MayDangle
          PROVE  root' # "Query" /\ ~StoreAlive'
      <3>1. ~entry.there /\ getter.store = "gone"
        BY <2>2, <2>5, <2>7
      <3>2. ~StoreAlive /\ at.type \in {"Folder", "Item"} /\ (root = "Query" => StoreAlive)
        BY <1>1, <1>4, <3>1, StoreIsKept
      <3>3. ~HoldsStore(entry)
        BY <3>1 DEF HoldsStore, Wrapper
      <3>4. QED
        BY <1>4, <2>1, <3>2, <3>3 DEF StoreAlive
    <2>8. ASSUME root' = "Query" PROVE onPath' \/ ~at'.there
      <3>1. CASE at.type = "Query"
        <4>1. to[1] = "Query"
          BY <1>4, <1>6, <3>1, TypesOfClasses DEF Payloads
        <4>2. CASE entry = Wrapper("Store")
          BY <2>1, <4>2 DEF HoldsStore
        <4>3. CASE entry = Dangling("Store")
          BY <2>2, <4>3 DEF Dangling
        <4>4. QED
          BY <2>5, <4>1, <4>2, <4>3
      <3>2. CASE at.type # "Query"
        <4>1. onPath
          BY <1>4, <2>8, <3>2 DEF WalkInv
        <4>2. QED
          BY <2>1, <4>1
      <3>3. QED
        BY <3>1, <3>2
    <2>9. QED
      BY <1>8, <1>9, <2>6, <2>7, <2>8 DEF WalkInv
  <1>12. QED
    BY <1>10, <1>11

LEMMA ThrowWalks ==
  ASSUME WalkInv, NEW field, SelectThrows(field)
  PROVE  WalkInv'
  <1>1. AnswersConform'
    BY DEF SelectThrows, AnswersConform
  <1>2. UNCHANGED <<root, at, inStores, inSink, onPath, dead>>
    BY DEF SelectThrows
  <1>3. StoreAlive' = StoreAlive
    BY <1>2 DEF StoreAlive
  <1>4. QED
    BY <1>1, <1>2, <1>3 DEF WalkInv, CrashIsExplained

LEMMA CrashWalks ==
  ASSUME WalkInv, NEW field, SelectCrashes(field)
  PROVE  WalkInv'
  <1>1. UNCHANGED <<root, at, answer, inStores, inSink, onPath>>
        /\ root # "none" /\ Selectable(field)
    BY DEF SelectCrashes, Selectable
  <1>2. StoreAlive' = StoreAlive /\ AnswersConform'
    BY <1>1 DEF StoreAlive, AnswersConform, WalkInv
  <1>3. \/ ~at.there /\ at.by \in MayDangle
        \/ root # "Query" /\ ~StoreAlive
    <2>1. CASE ~at.there
      BY <1>1, <2>1 DEF WalkInv
    <2>2. CASE at.there
      <3>1. PICK getter \in Classes[at.type][field] : getter.store = "used" /\ ~StoreAlive
        BY <2>2 DEF SelectCrashes
      <3>2. QED
        BY <1>1, <2>2, <3>1, StoreIsKept
    <2>3. QED
      BY <2>1, <2>2
  <1>4. CrashIsExplained'
    BY <1>1, <1>2, <1>3 DEF CrashIsExplained
  <1>5. QED
    BY <1>1, <1>2, <1>4 DEF WalkInv

\* A Store that is dropped is gone only if nothing else has it.
LEMMA DropWalks ==
  ASSUME WalkInv, ResetStores \/ Unsubscribe
  PROVE  WalkInv'
  <1>1. UNCHANGED <<root, at, answer, onPath, dead>> /\ ~dead
    BY DEF ResetStores, Unsubscribe
  <1>2. ~StoreAlive => ~StoreAlive'
    BY DEF ResetStores, Unsubscribe, StoreAlive
  <1>3. AnswersConform'
    BY <1>1 DEF AnswersConform, WalkInv
  <1>4. QED
    BY <1>1, <1>2, <1>3 DEF WalkInv, CrashIsExplained

LEMMA WalkKept == ASSUME WalkInv, [OpNext]_allVars PROVE WalkInv'
  <1>1. CASE UNCHANGED walkVars
    <2>1. UNCHANGED <<root, at, answer, inStores, inSink, onPath, dead>>
      BY <1>1 DEF walkVars
    <2>2. QED
      BY <2>1 DEF WalkInv, AnswersConform, CrashIsExplained, StoreAlive
  <1>2. CASE WalkNext
    BY <1>2, BeginWalks, SelectWalks, ThrowWalks, CrashWalks, DropWalks DEF WalkNext
  <1>3. QED
    BY <1>1, <1>2 DEF OpNext, Fields, Compare, Convert, Name, Clock, Sampling, Walk, allVars,
       walkVars

\* Every class answers what the schema declares (schema/mapi.graphql, Types.h), on every
\* walk down a selection.
THEOREM AnswersFitTheSchema == OpSpec => []AnswersConform
  <1>1. OpInit => WalkInv
    BY InitWalks DEF OpInit
  <1>2. WalkInv /\ [OpNext]_allVars => WalkInv'
    BY WalkKept
  <1>3. WalkInv => AnswersConform
    BY DEF WalkInv
  <1>4. QED
    BY <1>1, <1>2, <1>3, PTL DEF OpSpec

\* Folders and items never outlive their Store in a query, whenever the callback of the
\* stores drops it; a walk ends the process only at a wrapper of nothing, or without a
\* Store in a mutation or a delivery (Folder.cpp, Item.cpp, Query.cpp).
THEOREM CrashesAreExplained == OpSpec => []CrashIsExplained
  <1>1. OpInit => WalkInv
    BY InitWalks DEF OpInit
  <1>2. WalkInv /\ [OpNext]_allVars => WalkInv'
    BY WalkKept
  <1>3. WalkInv => CrashIsExplained
    BY DEF WalkInv
  <1>4. QED
    BY <1>1, <1>2, <1>3, PTL DEF OpSpec
=============================================================================
