---------------------------- MODULE TableSinkProofs ----------------------------
(***************************************************************************)
(* Theorems about TableSink, for every table, every set of windows, any    *)
(* changes and any failures.                                               *)
(***************************************************************************)
EXTENDS TableSink, SequenceTheorems, WellFoundedInduction, TLAPS

(***************************************************************************)
(* Numbers and places in sequences.                                        *)
(***************************************************************************)

\* A set of numbers that is not empty has a least one.
LEMMA LeastNumber ==
  ASSUME NEW T \in SUBSET Nat, T # {}
  PROVE  \E x \in T : \A y \in T : x <= y
  <1>1. PICK x \in T : \A y \in T : <<y, x>> \notin OpToRel(<, Nat)
    BY WFMin, NatLessThanWellFounded, Zenon
  <1>2. \A y \in T : ~(y < x)
    BY <1>1, Zenon DEF OpToRel
  <1>3. QED
    BY <1>2

\* The cached row with a key is found if there is one.
LEMMA PositionFound ==
  ASSUME NEW r \in Seq(Rows), NEW key
  PROVE  /\ PositionOf(key, r) \in 0..Len(r)
         /\ PositionOf(key, r) = 0 => \A i \in 1..Len(r) : r[i].key # key
         /\ PositionOf(key, r) # 0 => r[PositionOf(key, r)].key = key
  <1> DEFINE I == {i \in 1..Len(r) : r[i].key = key}
  <1>1. PositionOf(key, r) = IF I # {} THEN Min(I) ELSE 0
    BY DEF PositionOf, SelectInSeq
  <1>2. CASE I = {}
    BY <1>1, <1>2
  <1>3. CASE I # {}
    <2>1. PICK x \in I : \A y \in I : x <= y
      <3>1. I \in SUBSET Nat
        OBVIOUS
      <3> HIDE DEF I
      <3>2. QED
        BY <1>3, <3>1, LeastNumber
    <2>2. Min(I) \in I
      BY <2>1 DEF Min
    <2>3. QED
      BY <1>1, <1>3, <2>2
  <1>4. QED
    BY <1>2, <1>3

\* a is b with a row put in at place i, without the one there, or with another for it.
WithRow(a, b, i, row) ==
  /\ a \in Seq(Rows) /\ Len(a) = Len(b) + 1
  /\ \A k \in 1..(Len(b) + 1) : a[k] = IF k < i THEN b[k] ELSE IF k = i THEN row ELSE b[k - 1]
WithoutRow(a, b, i) ==
  /\ a \in Seq(Rows) /\ Len(a) = Len(b) - 1
  /\ \A k \in 1..(Len(b) - 1) : a[k] = IF k < i THEN b[k] ELSE b[k + 1]
WithOther(a, b, i, row) ==
  /\ a \in Seq(Rows) /\ Len(a) = Len(b)
  /\ \A k \in 1..Len(b) : a[k] = IF k = i THEN row ELSE b[k]

\* A row put into a sequence moves on those from its place on.
LEMMA InsertPlaces ==
  ASSUME NEW r \in Seq(Rows), NEW i \in 1..(Len(r) + 1), NEW row \in Rows
  PROVE  WithRow(InsertAt(r, i, row), r, i, row)
  <1> DEFINE front == SubSeq(r, 1, i - 1)
             back  == SubSeq(r, i, Len(r))
  <1>1. Len(r) \in Nat /\ \A k \in 1..Len(r) : r[k] \in Rows
    BY ElementOfSeq, LenProperties
  <1>2. front \in Seq(Rows) /\ Len(front) = i - 1 /\ \A k \in 1..(i - 1) : front[k] = r[k]
    BY <1>1, SubSeqProperties
  <1>3. back \in Seq(Rows) /\ Len(back) = Len(r) - i + 1 /\ \A k \in 1..(Len(r) - i + 1) : back[k] = r[i + k - 1]
    BY <1>1, SubSeqProperties
  <1>4. InsertAt(r, i, row) = front \o <<row>> \o back
    BY DEF InsertAt
  <1> HIDE DEF front, back
  <1> DEFINE most == front \o <<row>>
  <1>5. <<row>> \in Seq(Rows) /\ Len(<<row>>) = 1 /\ <<row>>[1] = row
    OBVIOUS
  <1>6. /\ most \in Seq(Rows)
        /\ Len(most) = i
        /\ \A k \in 1..i : most[k] = IF k < i THEN front[k] ELSE row
    BY <1>2, <1>5, ConcatProperties
  <1> HIDE DEF most
  <1> DEFINE joined == most \o back
  <1>7. /\ joined \in Seq(Rows)
        /\ Len(joined) = Len(r) + 1
        /\ \A k \in 1..(Len(r) + 1) :
             joined[k] = IF k <= i THEN most[k] ELSE back[k - i]
    BY <1>1, <1>3, <1>6, ConcatProperties
  <1> HIDE DEF joined
  <1>8. ASSUME NEW k \in 1..(Len(r) + 1)
        PROVE  joined[k] = IF k < i THEN r[k] ELSE IF k = i THEN row ELSE r[k - 1]
    <2>1. CASE k <= i
      <3>1. k \in 1..i /\ (k < i => k \in 1..(i - 1))
        BY <1>1, <2>1
      <3>2. joined[k] = most[k]
        BY <1>7, <2>1
      <3>3. most[k] = IF k < i THEN front[k] ELSE row
        BY <1>6, <3>1
      <3>4. k < i => front[k] = r[k]
        BY <1>2, <3>1
      <3>5. QED
        BY <2>1, <3>2, <3>3, <3>4
    <2>2. CASE k > i
      <3>1. k - i \in 1..(Len(r) - i + 1) /\ i + (k - i) - 1 = k - 1
        BY <1>1, <2>2
      <3>2. back[k - i] = r[k - 1]
        BY <1>3, <3>1
      <3>3. QED
        BY <1>1, <1>7, <2>2, <3>2
    <2>3. QED
      BY <1>1, <2>1, <2>2
  <1>9. QED
    BY <1>4, <1>7, <1>8 DEF most, joined, WithRow

\* A row taken out of a sequence moves up those after it.
LEMMA RemovePlaces ==
  ASSUME NEW r \in Seq(Rows), NEW i \in 1..Len(r)
  PROVE  WithoutRow(RemoveAt(r, i), r, i)
  <1> DEFINE front == SubSeq(r, 1, i - 1)
             back  == SubSeq(r, i + 1, Len(r))
  <1>1. Len(r) \in Nat /\ \A k \in 1..Len(r) : r[k] \in Rows
    BY ElementOfSeq, LenProperties
  <1>2. front \in Seq(Rows) /\ Len(front) = i - 1 /\ \A k \in 1..(i - 1) : front[k] = r[k]
    BY <1>1, SubSeqProperties
  <1>3. back \in Seq(Rows) /\ Len(back) = Len(r) - i /\ \A k \in 1..(Len(r) - i) : back[k] = r[i + k]
    BY <1>1, SubSeqProperties
  <1>4. RemoveAt(r, i) = front \o back
    BY DEF RemoveAt
  <1> HIDE DEF front, back
  <1> DEFINE joined == front \o back
  <1>5. /\ joined \in Seq(Rows)
        /\ Len(joined) = Len(r) - 1
        /\ \A k \in 1..(Len(r) - 1) :
             joined[k] = IF k <= i - 1 THEN front[k] ELSE back[k - (i - 1)]
    <2>1. Len(front) + Len(back) = Len(r) - 1
      BY <1>1, <1>2, <1>3
    <2>2. /\ joined \in Seq(Rows)
          /\ Len(joined) = Len(front) + Len(back)
          /\ \A k \in 1..(Len(front) + Len(back)) :
               joined[k] = IF k <= Len(front) THEN front[k] ELSE back[k - Len(front)]
      BY <1>2, <1>3, ConcatProperties
    <2> HIDE DEF joined
    <2>3. QED
      BY <1>2, <2>1, <2>2
  <1> HIDE DEF joined
  <1>6. ASSUME NEW k \in 1..(Len(r) - 1)
        PROVE  joined[k] = IF k < i THEN r[k] ELSE r[k + 1]
    <2>1. CASE k < i
      <3>1. k \in 1..(i - 1) /\ k <= i - 1
        BY <1>1, <2>1
      <3>2. joined[k] = front[k]
        BY <1>5, <3>1
      <3>3. QED
        BY <1>2, <2>1, <3>1, <3>2
    <2>2. CASE k >= i
      <3>1. k - (i - 1) \in 1..(Len(r) - i) /\ i + (k - (i - 1)) = k + 1
        BY <1>1, <2>2
      <3>2. back[k - (i - 1)] = r[k + 1]
        BY <1>3, <3>1
      <3>3. QED
        BY <1>1, <1>5, <2>2, <3>2
    <2>3. QED
      BY <1>1, <2>1, <2>2
  <1>7. QED
    BY <1>4, <1>5, <1>6 DEF joined, WithoutRow

\* A row put in the place of another leaves the rest.
LEMMA ReplacePlaces ==
  ASSUME NEW r \in Seq(Rows), NEW i \in 1..Len(r), NEW row \in Rows
  PROVE  WithOther(ReplaceAt(r, i, row), r, i, row)
  BY DEF ReplaceAt, WithOther

(***************************************************************************)
(* What a list of deltas makes of a copy.  A replay goes through the list  *)
(* from the start, so that one more delta is one more step of it.  The     *)
(* library's induction cannot be used: it takes an operator.  A set of     *)
(* counterexamples with a least member does instead.                       *)
(***************************************************************************)

\* f[n] is the copy after n deltas, for n up to m.
Replays(f, r, deltas, m) ==
  f = [n \in 0..m |-> IF n = 0 THEN r ELSE Apply(f[n - 1], deltas[n])]

\* There is a replay of any length.
LEMMA ReplayExists ==
  ASSUME NEW r, NEW deltas, NEW m \in Nat
  PROVE  \E f : Replays(f, r, deltas, m)
  <1> DEFINE T == {n \in Nat : ~ \E f : Replays(f, r, deltas, n)}
  <1>1. SUFFICES ASSUME T # {} PROVE FALSE
    OBVIOUS
  <1>2. PICK n \in T : \A k \in T : n <= k
    <2>1. T \in SUBSET Nat
      OBVIOUS
    <2> HIDE DEF T
    <2>2. QED
      BY <1>1, <2>1, LeastNumber
  <1>3. CASE n = 0
    <2> DEFINE g == [k \in 0..0 |-> r]
    <2>1. Replays(g, r, deltas, 0)
      BY DEF Replays
    <2>2. QED
      BY <1>2, <1>3, <2>1
  <1>4. CASE n # 0
    <2>1. n - 1 \in Nat /\ ~(n <= n - 1)
      BY <1>2, <1>4
    <2>2. PICK f : Replays(f, r, deltas, n - 1)
      BY <1>2, <2>1
    <2> DEFINE last == Apply(f[n - 1], deltas[n])
               g == [k \in 0..n |-> IF k = n THEN last ELSE f[k]]
    <2>3. ASSUME NEW k \in 0..n
          PROVE  g[k] = IF k = 0 THEN r ELSE Apply(g[k - 1], deltas[k])
      <3>1. n \in Nat /\ n - 1 \in 0..(n - 1)
        BY <2>1
      <3>2. CASE k = n
        <4>1. g[n] = last /\ g[n - 1] = f[n - 1]
          <5> HIDE DEF last
          <5>1. QED
            BY <2>1, <3>1
        <4>2. QED
          BY <1>4, <3>2, <4>1
      <3>3. CASE k # n
        <4>1. k \in 0..(n - 1) /\ (k # 0 => k - 1 \in 0..(n - 1) /\ k - 1 # n)
          BY <3>1, <3>3
        <4>2. f[k] = IF k = 0 THEN r ELSE Apply(f[k - 1], deltas[k])
          BY <2>2, <4>1 DEF Replays
        <4>3. g[k] = f[k] /\ (k # 0 => g[k - 1] = f[k - 1])
          <5> HIDE DEF last
          <5>1. QED
            BY <3>1, <3>3, <4>1
        <4>4. QED
          BY <4>2, <4>3
      <3>4. QED
        BY <3>2, <3>3
    <2>4. g = [k \in 0..n |-> g[k]]
      OBVIOUS
    <2> HIDE DEF g
    <2>5. Replays(g, r, deltas, n)
      BY <2>3, <2>4 DEF Replays
    <2>6. QED
      BY <1>2, <2>5
  <1>5. QED
    BY <1>3, <1>4

\* The first m deltas are the same.
Alike(first, second, m) == \A n \in 1..m : first[n] = second[n]

\* Two lists that begin alike make the same of a copy so far.
LEMMA ReplaysAgree ==
  ASSUME NEW r, NEW f, NEW g, NEW first, NEW second, NEW m \in Nat, NEW l \in Nat, m <= l,
         Replays(f, r, first, m), Replays(g, r, second, l),
         Alike(first, second, m)
  PROVE  f[m] = g[m]
  <1> DEFINE T == {n \in 0..m : f[n] # g[n]}
  <1>1. SUFFICES ASSUME T # {} PROVE FALSE
    OBVIOUS
  <1>2. PICK n \in T : \A k \in T : n <= k
    <2>1. T \in SUBSET Nat
      OBVIOUS
    <2> HIDE DEF T
    <2>2. QED
      BY <1>1, <2>1, LeastNumber
  <1>3. f[n] = IF n = 0 THEN r ELSE Apply(f[n - 1], first[n])
    BY <1>2 DEF Replays
  <1>4. g[n] = IF n = 0 THEN r ELSE Apply(g[n - 1], second[n])
    <2>1. n \in 0..l
      BY <1>2
    <2>2. QED
      BY <2>1 DEF Replays
  <1>5. CASE n = 0
    BY <1>2, <1>3, <1>4, <1>5
  <1>6. CASE n # 0
    <2>1. n - 1 \in 0..m /\ n \in 1..m /\ ~(n <= n - 1)
      BY <1>2, <1>6
    <2>2. f[n - 1] = g[n - 1]
      BY <1>2, <2>1
    <2>3. QED
      BY <1>2, <1>3, <1>4, <1>6, <2>1, <2>2 DEF Alike
  <1>7. QED
    BY <1>5, <1>6

\* Replay is the end of a replay.
LEMMA ReplayIsEnd ==
  ASSUME NEW r, NEW deltas, Len(deltas) \in Nat
  PROVE  \E f : Replays(f, r, deltas, Len(deltas)) /\ Replay(r, deltas) = f[Len(deltas)]
  <1> DEFINE f == CHOOSE f : Replays(f, r, deltas, Len(deltas))
  <1>1. Replays(f, r, deltas, Len(deltas))
    BY ReplayExists
  <1>2. Replay(r, deltas) = f[Len(deltas)]
    BY DEF Replay, Replays
  <1>3. QED
    BY <1>1, <1>2

\* No delta leaves the copy as it is.
LEMMA ReplayNone == ASSUME NEW r PROVE Replay(r, <<>>) = r
  <1>1. Len(<<>>) = 0
    OBVIOUS
  <1>2. PICK f : Replays(f, r, <<>>, 0) /\ Replay(r, <<>>) = f[0]
    BY <1>1, ReplayIsEnd
  <1>3. QED
    BY <1>2 DEF Replays

\* One more delta is applied to what those before it have made.
LEMMA ReplayOneMore ==
  ASSUME NEW D, NEW r, NEW deltas \in Seq(D), NEW delta \in D
  PROVE  Replay(r, Append(deltas, delta)) = Apply(Replay(r, deltas), delta)
  <1> DEFINE m == Len(deltas)
             more == Append(deltas, delta)
  <1>1. m \in Nat /\ Len(more) = m + 1 /\ more[m + 1] = delta /\ \A n \in 1..m : more[n] = deltas[n]
    BY AppendProperties, LenProperties
  <1>2. PICK f : Replays(f, r, deltas, m) /\ Replay(r, deltas) = f[m]
    BY <1>1, ReplayIsEnd
  <1>3. PICK g : Replays(g, r, more, m + 1) /\ Replay(r, more) = g[m + 1]
    <2>1. Len(more) \in Nat
      BY <1>1
    <2> HIDE DEF more
    <2>2. PICK g : Replays(g, r, more, Len(more)) /\ Replay(r, more) = g[Len(more)]
      BY <2>1, ReplayIsEnd
    <2>3. QED
      BY <1>1, <2>2
  <1> HIDE DEF m, more
  <1>4. f[m] = g[m]
    <2> DEFINE l == m + 1
    <2>1. m \in Nat /\ l \in Nat /\ m <= l
      BY <1>1
    <2>2. Alike(deltas, more, m)
      BY <1>1 DEF Alike
    <2>3. Replays(f, r, deltas, m) /\ Replays(g, r, more, l)
      BY <1>2, <1>3
    <2> HIDE DEF l
    <2>4. QED
      BY <2>1, <2>2, <2>3, ReplaysAgree, SMTT(30)
  <1>5. g[m + 1] = Apply(g[m], delta)
    <2>1. m + 1 \in 0..(m + 1) /\ m + 1 # 0 /\ (m + 1) - 1 = m
      BY <1>1
    <2>2. g[m + 1] = Apply(g[(m + 1) - 1], more[m + 1])
      BY <1>3, <2>1 DEF Replays
    <2>3. QED
      BY <1>1, <2>1, <2>2
  <1>6. QED
    BY <1>2, <1>3, <1>4, <1>5 DEF more

(***************************************************************************)
(* The window of a table is a stretch of it.                               *)
(***************************************************************************)
WindowOf(t, d) == TD!read(d, [o \in {"default"} |-> t], TRUE, {}, <<>>, "default").rows

Cursor(t, d) == TD!SeekRow(TD!BookmarkAt(TD!seekBookmark(d), 0, t), TD!offset(d), t)

\* A read throws, or gives what QueryRows gives from the cursor on.
LEMMA WindowIsRead ==
  ASSUME NEW t, NEW d \in Windows
  PROVE  WindowOf(t, d) \in {<<>>, TD!QueryRows(Cursor(t, d), TD!take(d), t)}
  <1> DEFINE sorted  == [o \in {"default"} |-> t]
             ordered == sorted[TD!orderBy(d, "default")]
             found   == IF TD!seeks(d) THEN TD!FindRow(d.seek, ordered) ELSE 0
             start   == TD!BookmarkAt(TD!seekBookmark(d), found, ordered)
             cursor  == TD!SeekRow(start, TD!offset(d), ordered)
             reads   == /\ TD!CanResolve(d.columns, TRUE, "columns" \notin {})
                        /\ TD!HasTypes(d.columns)
                        /\ TD!CanResolve(d.orderBy, TRUE, "orderBy" \notin {})
                        /\ TD!HasTypes(d.orderBy)
                        /\ TD!seeks(d) => d.seek \in TD!ToSet(ordered)
             result  == [ok      |-> TRUE,
                         alive   |-> TRUE,
                         columns |-> TD!columns(d, <<>>),
                         rows    |-> TD!QueryRows(cursor, TD!take(d), ordered)]
  <1>1. TD!read(d, sorted, TRUE, {}, <<>>, "default") = IF reads THEN result ELSE TD!Failure
    BY Zenon DEF TD!read
  <1>2. ordered = t
    <2>1. TD!Requested(d.orderBy) = <<>>
      BY WindowsAssumption DEF TD!Requested
    <2>2. TD!orderBy(d, "default") = "default"
      BY <2>1 DEF TD!orderBy
    <2>3. QED
      BY <2>2
  <1>3. found = 0
    BY WindowsAssumption DEF TD!seeks
  <1>4. result.rows = TD!QueryRows(cursor, TD!take(d), ordered)
    OBVIOUS
  <1>5. TD!Failure.rows = <<>>
    BY DEF TD!Failure
  <1>6. WindowOf(t, d) = IF reads THEN result.rows ELSE <<>>
    <2> HIDE DEF reads, result
    <2>1. QED
      BY <1>1, <1>5 DEF WindowOf
  <1>7. cursor = Cursor(ordered, d)
    <2> HIDE DEF found
    <2>1. QED
      BY <1>3 DEF Cursor
  <1> HIDE DEF reads, result, cursor, ordered
  <1>8. QED
    BY <1>2, <1>4, <1>6, <1>7

\* A cursor stays in the table.
LEMMA ClampBetween ==
  ASSUME NEW high \in Nat, NEW n \in Int
  PROVE  TD!Clamp(0, n, high) \in 0..high
  BY DEF TD!Clamp

\* Rows from one place to another are a stretch.
LEMMA PartIsStretch ==
  ASSUME NEW t \in Seq(Rows), NEW from \in 0..Len(t), NEW to \in 0..Len(t), from <= to
  PROVE  SubSeq(t, from + 1, to) \in Seq(Rows) /\ Stretch(SubSeq(t, from + 1, to), t)
  <1> DEFINE r == SubSeq(t, from + 1, to)
  <1>1. Len(t) \in Nat /\ \A k \in 1..Len(t) : t[k] \in Rows
    BY ElementOfSeq, LenProperties
  <1>2. \A k \in (from + 1)..to : t[k] \in Rows
    BY <1>1
  <1>3. r \in Seq(Rows) /\ Len(r) = to - from
    BY <1>1, <1>2, SubSeqProperties
  <1>4. from \in 0..(Len(t) - Len(r)) /\ from + Len(r) = to
    BY <1>1, <1>3
  <1> HIDE DEF r
  <1>5. r = SubSeq(t, from + 1, from + Len(r))
    BY <1>4 DEF r
  <1>6. QED
    BY <1>3, <1>4, <1>5 DEF Stretch, r

LEMMA EmptyIsStretch ==
  ASSUME NEW t \in Seq(Rows)
  PROVE  <<>> \in Seq(Rows) /\ Stretch(<<>>, t)
  <1>1. Len(t) \in Nat
    BY LenProperties
  <1>2. SubSeq(t, 1, 0) = <<>>
    BY SubSeqEmpty
  <1>3. QED
    BY <1>1, <1>2 DEF Stretch

LEMMA WindowIsStretch ==
  ASSUME NEW t \in Seq(Rows), NEW d \in Windows
  PROVE  WindowOf(t, d) \in Seq(Rows) /\ Stretch(WindowOf(t, d), t)
  <1>1. Len(t) \in Nat
    BY LenProperties
  <1>2. TD!offset(d) \in Int /\ TD!take(d) \in Int
    BY WindowsAssumption, BoundAssumption DEF TD!offset, TD!take, TD!Clamp
  <1>3. Cursor(t, d) \in 0..Len(t)
    <2> DEFINE from == TD!BookmarkAt(TD!seekBookmark(d), 0, t)
    <2>1. from \in Int
      <3>1. TD!seekBookmark(d) \in {"BEGINNING", "CURRENT", "END"}
        BY DEF TD!seekBookmark
      <3>2. QED
        BY <1>1, <3>1 DEF TD!BookmarkAt
    <2>2. Cursor(t, d) = TD!Clamp(0, from + TD!offset(d), Len(t))
      BY DEF Cursor, TD!SeekRow
    <2> HIDE DEF from
    <2>3. from + TD!offset(d) \in Int
      BY <1>2, <2>1
    <2>4. QED
      BY <1>1, <2>2, <2>3, ClampBetween
  <1> DEFINE cursor == Cursor(t, d)
             count  == TD!take(d)
             other  == TD!Clamp(0, cursor + count, Len(t))
  <1>4. other \in 0..Len(t)
    <2>1. cursor + count \in Int
      BY <1>2, <1>3
    <2>2. QED
      BY <1>1, <2>1, ClampBetween
  <1>5. IF count >= 0 THEN cursor <= other ELSE other <= cursor
    <2> HIDE DEF cursor, count
    <2>1. cursor \in 0..Len(t) /\ count \in Int
      BY <1>2, <1>3 DEF cursor, count
    <2>2. QED
      BY <1>1, <2>1 DEF TD!Clamp
  <1>6. TD!QueryRows(cursor, count, t) =
          IF count >= 0 THEN SubSeq(t, cursor + 1, other) ELSE SubSeq(t, other + 1, cursor)
    BY DEF TD!QueryRows
  <1> HIDE DEF cursor, count, other
  <1>7. cursor \in 0..Len(t)
    BY <1>3 DEF cursor
  <1>8. TD!QueryRows(cursor, count, t) \in Seq(Rows) /\ Stretch(TD!QueryRows(cursor, count, t), t)
    <2>1. CASE count >= 0
      BY <1>4, <1>5, <1>6, <1>7, <2>1, PartIsStretch
    <2>2. CASE ~(count >= 0)
      BY <1>4, <1>5, <1>6, <1>7, <2>2, PartIsStretch
    <2>3. QED
      BY <2>1, <2>2
  <1>9. QED
    BY <1>8, WindowIsRead, EmptyIsStretch DEF cursor, count

(***************************************************************************)
(* The listener's copy.  A notification of a row has the row, and a delta  *)
(* has its own, so that rows stay rows; nothing is queued, and no callback *)
(* runs, before Advise.                                                    *)
(***************************************************************************)
Notices == [event : {"ROW_ADDED", "ROW_MODIFIED", "ROW_DELETED", "RELOAD"},
            key : Keys \cup {NoKey}, prior : Keys \cup {NoKey},
            row : [key : Keys \cup {NoKey}, version : Nat], before : Seq(Rows)]

Deltas == [change : {"Added", "Updated", "Removed", "Reloaded"}, index : Nat,
           rows : Seq(Rows), removed : Keys \cup {NoKey}]

NoticesFit ==
  \A i \in 1..Len(queue) : queue[i].event \in {"ROW_ADDED", "ROW_MODIFIED"} => queue[i].row \in Rows

Quiet == advised # "yes" => queue = <<>> /\ ~inCallback

CopyInv ==
  /\ TypeOK /\ Quiet /\ NoticesFit
  /\ Replay(replica, items) \in Seq(Rows)
  /\ ReplicaFollowsRows

LEMMA InitCopy == Init => CopyInv
  <1> SUFFICES ASSUME Init PROVE CopyInv
    OBVIOUS
  <1>1. table \in Seq(Rows)
    <2> DEFINE n == Len(InitialTable)
    <2>1. n \in Nat /\ DOMAIN InitialTable = 1..n /\ \A i \in 1..n : InitialTable[i] \in Keys
      BY InitialTableAssumption, ElementOfSeq, LenProperties
    <2>2. table = [i \in 1..n |-> Row(InitialTable[i], 0)]
      BY <2>1 DEF Init
    <2> HIDE DEF n
    <2>3. table \in [1..n -> Rows]
      BY <2>1, <2>2 DEF Row, Rows
    <2>4. QED
      BY <2>1, <2>3, SeqDef
  <1>2. <<>> \in Seq(Notices) /\ <<>> \in Seq(Deltas) /\ <<>> \in Seq(Rows) /\ Len(<<>>) = 0
    OBVIOUS
  <1>3. TypeOK
    <2>1. queue \in Seq(Notices) /\ items \in Seq(Deltas) /\ rows \in Seq(Rows) /\ replica \in Seq(Rows)
      BY <1>2 DEF Init
    <2>2. todo \in 0..Len(queue) /\ changes \in 0..MaxChanges
      BY <1>2, BoundAssumption DEF Init
    <2>3. QED
      BY <1>1, <2>1, <2>2 DEF Init, TypeOK, Notices, Deltas
  <1>4. Replay(replica, items) = <<>>
    BY ReplayNone DEF Init
  <1>5. queue = <<>> /\ rows = <<>> /\ ~inCallback
    BY DEF Init
  <1>6. NoticesFit /\ Quiet
    BY <1>2, <1>5 DEF Quiet, NoticesFit
  <1>7. QED
    BY <1>2, <1>3, <1>4, <1>5, <1>6 DEF CopyInv, ReplicaFollowsRows

\* A callback looks at the first of the queue.
LEMMA FirstNotice ==
  ASSUME TypeOK, NoticesFit, todo > 0
  PROVE  /\ queue # <<>> /\ Head(queue) = queue[1] /\ queue[1] \in Notices /\ inCallback
         /\ Tail(queue) \in Seq(Notices) /\ Len(Tail(queue)) = Len(queue) - 1
         /\ \A i \in 1..Len(Tail(queue)) : Tail(queue)[i] = queue[i + 1]
         /\ queue[1].event \in {"ROW_ADDED", "ROW_MODIFIED"} => queue[1].row \in Rows
  <1>1. queue \in Seq(Notices) /\ todo \in 0..Len(queue) /\ inCallback
    BY DEF TypeOK, Notices
  <1>2. Len(queue) \in Nat /\ queue # <<>>
    BY <1>1, LenProperties
  <1>3. /\ Head(queue) = queue[1] /\ queue[1] \in Notices
        /\ Tail(queue) \in Seq(Notices) /\ Len(Tail(queue)) = Len(queue) - 1
        /\ \A i \in 1..Len(Tail(queue)) : Tail(queue)[i] = queue[i + 1]
    BY <1>1, <1>2, HeadTailProperties, ElementOfSeq
  <1>4. QED
    BY <1>1, <1>2, <1>3 DEF NoticesFit

\* A change puts a notification at the end of the queue, or none is due.
LEMMA ChangedKeeps ==
  ASSUME CopyInv, NEW newTable \in Seq(Rows), NEW notice \in Notices, NEW moved \in BOOLEAN,
         notice.event \in {"ROW_ADDED", "ROW_MODIFIED"} => notice.row \in Rows,
         Changed(newTable, notice, moved)
  PROVE  CopyInv'
  <1>1. Reload \in Notices /\ Reload.event = "RELOAD"
    BY DEF CopyInv, TypeOK, Reload, Notification, Row, Notices
  <1>2. queue \in Seq(Notices) /\ Len(queue) \in Nat
    BY LenProperties DEF CopyInv, TypeOK, Notices
  <1>3. PICK n \in Notices :
          /\ n.event \in {"ROW_ADDED", "ROW_MODIFIED"} => n.row \in Rows
          /\ queue' = queue \/ (advised = "yes" /\ queue' = Append(queue, n))
    BY <1>1 DEF Changed
  <1>4. queue' \in Seq(Notices) /\ Len(queue') >= Len(queue) /\ Len(queue') \in Nat
    BY <1>2, <1>3, AppendProperties
  <1>5. NoticesFit'
    <2>1. CASE queue' = queue
      BY <2>1 DEF CopyInv, NoticesFit
    <2>2. CASE queue' = Append(queue, n)
      BY <1>2, <1>3, <2>2, AppendProperties DEF CopyInv, NoticesFit
    <2>3. QED
      BY <1>3, <2>1, <2>2
  <1>6. TypeOK'
    <2>1. todo' \in 0..Len(queue')
      BY <1>2, <1>4 DEF Changed, CopyInv, TypeOK
    <2>2. changes' \in 0..MaxChanges
      BY BoundAssumption DEF Changed, CopyInv, TypeOK
    <2>3. displaced' \in BOOLEAN /\ (lost' => displaced')
      BY DEF Changed, CopyInv, TypeOK
    <2>4. QED
      BY <1>4, <2>1, <2>2, <2>3 DEF Changed, CopyInv, TypeOK, Notices
  <1>7. Quiet'
    BY <1>3 DEF Changed, CopyInv, Quiet
  <1>8. (Replay(replica, items) \in Seq(Rows) /\ ReplicaFollowsRows)'
    BY DEF Changed, CopyInv, ReplicaFollowsRows
  <1>9. QED
    BY <1>5, <1>6, <1>7, <1>8 DEF CopyInv

(***************************************************************************)
(* What a notification says of the table: the one it is a change of, and   *)
(* the next.  No two rows have one key.                                    *)
(***************************************************************************)
Distinct(t) == \A i, j \in 1..Len(t) : t[i].key = t[j].key => i = j

Link(n, next) ==
  LET t == n.before
  IN  /\ t \in Seq(Rows) /\ Distinct(t)
      /\ \/ /\ n.event = "ROW_ADDED"
            /\ \E i \in 1..(Len(t) + 1) : WithRow(next, t, i, n.row) /\ n.prior = PriorIn(t, i)
         \/ /\ n.event = "ROW_MODIFIED"
            /\ \E i \in 1..Len(t) : WithOther(next, t, i, n.row) /\ n.key = t[i].key
         \/ /\ n.event = "ROW_DELETED"
            /\ \E i \in 1..Len(t) : WithoutRow(next, t, i) /\ n.key = t[i].key

LEMMA DistinctWith ==
  ASSUME NEW t \in Seq(Rows), NEW next, NEW i \in 1..(Len(t) + 1), NEW row,
         Distinct(t), WithRow(next, t, i, row), \A k \in 1..Len(t) : t[k].key # row.key
  PROVE  Distinct(next)
  <1>1. Len(t) \in Nat
    BY LenProperties
  <1>2. SUFFICES ASSUME NEW j \in 1..Len(next), NEW k \in 1..Len(next), next[j].key = next[k].key
                 PROVE  j = k
    BY DEF Distinct
  <1>3. Len(next) = Len(t) + 1 /\ j \in 1..(Len(t) + 1) /\ k \in 1..(Len(t) + 1)
    BY DEF WithRow
  <1> DEFINE Old(m) == IF m < i THEN m ELSE m - 1
  <1>4. ASSUME NEW m \in 1..(Len(t) + 1), m # i
        PROVE  Old(m) \in 1..Len(t) /\ next[m] = t[Old(m)]
    BY <1>1, <1>4 DEF WithRow
  <1>5. next[i] = row
    BY DEF WithRow
  <1>6. CASE j = i \/ k = i
    BY <1>2, <1>3, <1>4, <1>5, <1>6
  <1>7. CASE j # i /\ k # i
    <2>1. Old(j) = Old(k)
      <3>1. next[j] = t[Old(j)] /\ next[k] = t[Old(k)] /\ Old(j) \in 1..Len(t) /\ Old(k) \in 1..Len(t)
        BY <1>3, <1>4, <1>7
      <3> HIDE DEF Old
      <3>2. QED
        BY <1>2, <3>1 DEF Distinct
    <2>2. QED
      BY <1>1, <1>3, <1>7, <2>1
  <1>8. QED
    BY <1>6, <1>7

LEMMA DistinctWithout ==
  ASSUME NEW t \in Seq(Rows), NEW next, NEW i \in 1..Len(t), Distinct(t), WithoutRow(next, t, i)
  PROVE  Distinct(next) /\ \A k \in 1..Len(next) : next[k].key # t[i].key
  <1>1. Len(t) \in Nat /\ Len(next) = Len(t) - 1
    BY LenProperties DEF WithoutRow
  <1> DEFINE Old(m) == IF m < i THEN m ELSE m + 1
  <1>2. ASSUME NEW m \in 1..Len(next)
        PROVE  Old(m) \in 1..Len(t) /\ Old(m) # i /\ next[m] = t[Old(m)]
    BY <1>1 DEF WithoutRow
  <1>3. ASSUME NEW j \in 1..Len(next), NEW k \in 1..Len(next), next[j].key = next[k].key
        PROVE  j = k
    <2>1. Old(j) = Old(k)
      <3>1. next[j] = t[Old(j)] /\ next[k] = t[Old(k)] /\ Old(j) \in 1..Len(t) /\ Old(k) \in 1..Len(t)
        BY <1>2
      <3> HIDE DEF Old
      <3>2. QED
        BY <1>3, <3>1 DEF Distinct
    <2>2. QED
      BY <1>1, <2>1
  <1>4. ASSUME NEW k \in 1..Len(next)
        PROVE  next[k].key # t[i].key
    <2>1. Old(k) \in 1..Len(t) /\ Old(k) # i /\ next[k] = t[Old(k)]
      BY <1>2
    <2> HIDE DEF Old
    <2>2. QED
      BY <2>1 DEF Distinct
  <1>5. QED
    BY <1>3, <1>4 DEF Distinct

\* What the table may become, and what is said of it.
Reported(newTable, notice, moved) ==
  /\ newTable \in Seq(Rows) /\ notice \in Notices /\ notice.before = table /\ moved \in BOOLEAN
  /\ notice.event \in {"ROW_ADDED", "ROW_MODIFIED"} => notice.row \in Rows
  /\ Distinct(table) => Distinct(newTable) /\ (moved \/ Link(notice, newTable))
  /\ Changed(newTable, notice, moved)

LEMMA PriorIsKey ==
  ASSUME NEW t \in Seq(Rows), NEW i \in 1..(Len(t) + 1)
  PROVE  PriorIn(t, i) \in Keys \cup {NoKey}
  <1>1. Len(t) \in Nat /\ \A k \in 1..Len(t) : t[k] \in Rows
    BY ElementOfSeq, LenProperties
  <1>2. i # 1 => i - 1 \in 1..Len(t)
    BY <1>1
  <1>3. QED
    BY <1>1, <1>2 DEF PriorIn, Rows

LEMMA TableReported ==
  ASSUME TypeOK, TableChanges
  PROVE  \E newTable, notice, moved : Reported(newTable, notice, moved)
  <1>1. table \in Seq(Rows) /\ Len(table) \in Nat /\ \A k \in 1..Len(table) : table[k] \in Rows
    BY ElementOfSeq, LenProperties DEF TypeOK
  <1>2. changes \in Nat /\ 0 \in Nat
    BY BoundAssumption DEF TypeOK
  <1>3. CASE AddRow
    <2>1. PICK key \in Keys \ KeysOf(table), i \in 1..(Len(table) + 1) :
            Changed(InsertAt(table, i, Row(key, 0)),
                    Notification("ROW_ADDED", key, PriorIn(table, i), Row(key, 0)), FALSE)
      BY <1>3, Zenon DEF AddRow
    <2> DEFINE row    == Row(key, 0)
               next   == InsertAt(table, i, row)
               notice == Notification("ROW_ADDED", key, PriorIn(table, i), row)
    <2>2. row \in Rows /\ row.key = key
      BY <1>2 DEF Row, Rows
    <2>3. \A k \in 1..Len(table) : table[k].key # key
      BY <1>1 DEF KeysOf
    <2>4. WithRow(next, table, i, row)
      <3> HIDE DEF row
      <3>1. QED
        BY <1>1, <2>2, InsertPlaces
    <2>5. /\ notice \in Notices /\ notice.before = table
          /\ notice.event = "ROW_ADDED" /\ notice.row = row /\ notice.prior = PriorIn(table, i)
      <3>1. row \in [key : Keys \cup {NoKey}, version : Nat]
        BY <2>2 DEF Rows
      <3>2. PriorIn(table, i) \in Keys \cup {NoKey}
        BY <1>1, PriorIsKey
      <3> HIDE DEF row
      <3>3. QED
        BY <1>1, <3>1, <3>2 DEF Notification, Notices
    <2> HIDE DEF row, notice, next
    <2>6. Distinct(table) => Distinct(next) /\ Link(notice, next)
      <3>1. Distinct(table) => Distinct(next)
        BY <1>1, <2>2, <2>3, <2>4, DistinctWith
      <3>2. QED
        BY <1>1, <2>4, <2>5, <3>1 DEF Link
    <2>7. next \in Seq(Rows) /\ FALSE \in BOOLEAN
      BY <2>4 DEF WithRow
    <2>8. Reported(next, notice, FALSE)
      BY <2>1, <2>2, <2>5, <2>6, <2>7 DEF Reported, row, next, notice
    <2>9. QED
      BY <2>8
  <1>4. CASE ModifyRow
    <2> DEFINE Modified(i, j) ==
                 LET row  == Row(table[i].key, changes + 1)
                     next == InsertAt(RemoveAt(table, i), j, row)
                 IN  Changed(next, Notification("ROW_MODIFIED", row.key, PriorIn(next, j), row), i # j)
    <2>0. \E i \in DOMAIN table, j \in DOMAIN table : Modified(i, j)
      BY <1>4 DEF ModifyRow
    <2>1. PICK i \in 1..Len(table), j \in 1..Len(table) : Modified(i, j)
      <3>1. DOMAIN table = 1..Len(table)
        BY <1>1
      <3> HIDE DEF Modified
      <3>2. QED
        BY <2>0, <3>1
    <2> DEFINE key    == table[i].key
               row    == Row(key, changes + 1)
               rest   == RemoveAt(table, i)
               next   == InsertAt(rest, j, row)
               notice == Notification("ROW_MODIFIED", row.key, PriorIn(next, j), row)
    <2>2. key \in Keys /\ row \in Rows /\ row.key = key
      BY <1>1, <1>2 DEF Row, Rows
    <2>3. WithoutRow(rest, table, i)
      BY <1>1, RemovePlaces
    <2>4. rest \in Seq(Rows) /\ Len(rest) = Len(table) - 1 /\ j \in 1..(Len(rest) + 1)
      BY <1>1, <2>3 DEF WithoutRow
    <2> HIDE DEF rest, row
    <2>5. WithRow(next, rest, j, row)
      BY <2>2, <2>4, InsertPlaces
    <2>6. next \in Seq(Rows) /\ Len(next) = Len(table)
      BY <1>1, <2>4, <2>5 DEF WithRow
    <2> HIDE DEF next, key
    <2>7. /\ notice \in Notices /\ notice.before = table
          /\ notice.event = "ROW_MODIFIED" /\ notice.row = row /\ notice.key = key
      <3>1. row \in [key : Keys \cup {NoKey}, version : Nat]
        BY <2>2 DEF Rows
      <3>2. PriorIn(next, j) \in Keys \cup {NoKey}
        <4>1. j \in 1..(Len(next) + 1)
          BY <1>1, <2>6
        <4>2. QED
          BY <2>6, <4>1, PriorIsKey
      <3>3. QED
        BY <1>1, <2>2, <3>1, <3>2 DEF Notification, Notices
    <2> HIDE DEF notice
    <2>8. ASSUME Distinct(table) PROVE Distinct(next)
      <3>1. Distinct(rest) /\ \A k \in 1..Len(rest) : rest[k].key # row.key
        BY <1>1, <2>2, <2>3, <2>8, DistinctWithout DEF key
      <3>2. QED
        BY <2>4, <2>5, <3>1, DistinctWith
    <2>9. ASSUME Distinct(table), i = j PROVE Link(notice, next)
      <3>1. ASSUME NEW k \in 1..Len(table)
            PROVE  next[k] = IF k = i THEN row ELSE table[k]
        <4>1. next[k] = IF k < i THEN rest[k] ELSE IF k = i THEN row ELSE rest[k - 1]
          BY <1>1, <2>4, <2>5, <2>9 DEF WithRow
        <4>2. k < i => rest[k] = table[k]
          BY <1>1, <2>3 DEF WithoutRow
        <4>3. k > i => rest[k - 1] = table[k]
          <5>1. k > i => k - 1 \in 1..(Len(table) - 1) /\ ~(k - 1 < i) /\ (k - 1) + 1 = k
            BY <1>1
          <5>2. k > i => rest[k - 1] = table[(k - 1) + 1]
            BY <2>3, <5>1 DEF WithoutRow
          <5>3. QED
            BY <5>1, <5>2
        <4>4. QED
          BY <1>1, <4>1, <4>2, <4>3
      <3>2. WithOther(next, table, i, row)
        BY <2>6, <3>1 DEF WithOther
      <3>3. QED
        BY <1>1, <2>7, <2>9, <3>2 DEF Link, key
    <2>10. Changed(next, notice, i # j)
      BY <2>1 DEF next, notice, rest, row, key
    <2>11. Reported(next, notice, i # j)
      BY <2>2, <2>6, <2>7, <2>8, <2>9, <2>10 DEF Reported
    <2>12. QED
      BY <2>11
  <1>5. CASE DeleteRow
    <2>1. PICK i \in 1..Len(table) :
            Changed(RemoveAt(table, i),
                    Notification("ROW_DELETED", table[i].key, NoKey, Row(NoKey, 0)), FALSE)
      <3>1. DOMAIN table = 1..Len(table)
        BY <1>1
      <3>2. QED
        BY <1>5, <3>1, Zenon DEF DeleteRow
    <2> DEFINE next   == RemoveAt(table, i)
               notice == Notification("ROW_DELETED", table[i].key, NoKey, Row(NoKey, 0))
    <2>2. WithoutRow(next, table, i)
      BY <1>1, RemovePlaces
    <2>3. /\ notice \in Notices /\ notice.before = table
          /\ notice.event = "ROW_DELETED" /\ notice.key = table[i].key
      BY <1>1 DEF Notification, Notices, Row, Rows
    <2> HIDE DEF notice, next
    <2>4. Distinct(table) => Distinct(next) /\ Link(notice, next)
      <3>1. Distinct(table) => Distinct(next)
        BY <1>1, <2>2, DistinctWithout
      <3>2. QED
        BY <1>1, <2>2, <2>3, <3>1 DEF Link
    <2>5. next \in Seq(Rows)
      BY <2>2 DEF WithoutRow
    <2>6. Reported(next, notice, FALSE)
      BY <2>1, <2>3, <2>4, <2>5 DEF Reported, next, notice
    <2>7. QED
      BY <2>6
  <1>6. QED
    BY <1>3, <1>4, <1>5 DEF TableChanges

(***************************************************************************)
(* Each step keeps the copy.                                               *)
(***************************************************************************)

\* A delta makes rows of rows.
LEMMA ApplyType ==
  ASSUME NEW r \in Seq(Rows), NEW d \in Deltas,
         d.change \in {"Added", "Updated"} => d.rows[1] \in Rows
  PROVE  Apply(r, d) \in Seq(Rows)
  <1>1. Len(r) \in Nat /\ d.index \in Nat
    BY LenProperties DEF Deltas
  <1>2. DOMAIN r = 1..Len(r)
    OBVIOUS
  <1>3. CASE d.change = "Added" /\ d.index \in 0..Len(r)
    <2>1. d.index + 1 \in 1..(Len(r) + 1)
      BY <1>1, <1>3
    <2>2. InsertAt(r, d.index + 1, d.rows[1]) \in Seq(Rows)
      BY <1>3, <2>1, InsertPlaces DEF WithRow
    <2>3. QED
      BY <1>3, <2>2 DEF Apply
  <1>4. CASE d.change = "Updated" /\ d.index + 1 \in DOMAIN r
    <2>1. ReplaceAt(r, d.index + 1, d.rows[1]) \in Seq(Rows)
      BY <1>2, <1>4, ReplacePlaces DEF WithOther
    <2>2. QED
      BY <1>4, <2>1 DEF Apply
  <1>5. CASE d.change = "Removed" /\ d.index + 1 \in DOMAIN r
    <2>1. RemoveAt(r, d.index + 1) \in Seq(Rows)
      BY <1>2, <1>5, RemovePlaces DEF WithoutRow
    <2>2. QED
      BY <1>5, <2>1 DEF Apply
  <1>6. CASE d.change = "Reloaded"
    BY <1>6 DEF Apply, Deltas
  <1>7. CASE ~ \/ d.change = "Added" /\ d.index \in 0..Len(r)
               \/ d.change = "Updated" /\ d.index + 1 \in DOMAIN r
               \/ d.change = "Removed" /\ d.index + 1 \in DOMAIN r
               \/ d.change = "Reloaded"
    <2>1. Apply(r, d) = r
      BY <1>7 DEF Apply
    <2>2. QED
      BY <2>1
  <1>8. QED
    BY <1>3, <1>4, <1>5, <1>6, <1>7

\* A notification that was looked at leaves the queue.
LEMMA StepTypes ==
  ASSUME CopyInv, todo > 0, Step, rows' \in Seq(Rows), items' \in Seq(Deltas)
  PROVE  TypeOK' /\ Quiet' /\ NoticesFit'
  <1>1. /\ inCallback /\ queue # <<>> /\ queue' \in Seq(Notices) /\ Len(queue') = Len(queue) - 1
        /\ \A i \in 1..Len(queue') : queue'[i] = queue[i + 1]
    BY FirstNotice DEF CopyInv, Step
  <1>2. Len(queue) \in Nat /\ todo \in 0..Len(queue)
    BY LenProperties DEF CopyInv, TypeOK
  <1>3. todo' \in 0..Len(queue')
    BY <1>1, <1>2 DEF Step
  <1>4. TypeOK'
    BY <1>1, <1>3 DEF CopyInv, TypeOK, Step, Notices, Deltas
  <1>5. NoticesFit'
    <2>1. SUFFICES ASSUME NEW i \in 1..Len(queue') PROVE queue'[i] = queue[i + 1] /\ i + 1 \in 1..Len(queue)
      BY DEF CopyInv, NoticesFit
    <2>2. QED
      BY <1>1, <1>2
  <1>6. QED
    BY <1>1, <1>4, <1>5 DEF CopyInv, Quiet, Step

LEMMA IgnoreKeeps ==
  ASSUME CopyInv, todo > 0, Ignore
  PROVE  CopyInv'
  <1>1. Step /\ rows' = rows /\ items' = items
    BY DEF Ignore
  <1>2. rows' \in Seq(Rows) /\ items' \in Seq(Deltas)
    BY <1>1 DEF CopyInv, TypeOK, Deltas
  <1>3. TypeOK' /\ Quiet' /\ NoticesFit'
    BY <1>1, <1>2, StepTypes
  <1>4. QED
    BY <1>1, <1>3 DEF CopyInv, ReplicaFollowsRows, Step

\* A delta that edits the copy as the cache is edited.
LEMMA EditKeeps ==
  ASSUME CopyInv, todo > 0, Step, NEW d \in Deltas,
         d.change \in {"Added", "Updated"} => d.rows[1] \in Rows,
         items' = Append(items, d), rows' \in Seq(Rows), Apply(rows, d) = rows'
  PROVE  CopyInv'
  <1>1. items \in Seq(Deltas) /\ replica' = replica /\ lost' = lost
    BY DEF CopyInv, TypeOK, Deltas, Step
  <1>2. items' \in Seq(Deltas)
    BY <1>1, AppendProperties
  <1>3. TypeOK' /\ Quiet' /\ NoticesFit'
    BY <1>2, StepTypes
  <1>4. Replay(replica', items') = Apply(Replay(replica, items), d)
    BY <1>1, ReplayOneMore
  <1>5. Apply(Replay(replica, items), d) \in Seq(Rows)
    BY ApplyType DEF CopyInv
  <1>6. QED
    BY <1>1, <1>3, <1>4, <1>5 DEF CopyInv, ReplicaFollowsRows

\* What the callback makes of a notification of a row, if the row it goes by is cached.
RowAddedAt(n, p) ==
  Step /\ rows' = InsertAt(rows, p + 1, n.row) /\ items' = Append(items, Added(p, n.row))
RowModifiedAt(n, p) ==
  Step /\ rows' = ReplaceAt(rows, p, n.row) /\ items' = Append(items, Updated(p - 1, n.row))
RowDeletedAt(n, p) ==
  Step /\ rows' = RemoveAt(rows, p) /\ items' = Append(items, Removed(p - 1, n.key))

LEMMA CallbackSteps ==
  ASSUME CopyInv, RowAdded \/ RowModified \/ RowDeleted
  PROVE  LET n == queue[1] IN
         /\ todo > 0 /\ queue # <<>> /\ n \in Notices
         /\ n.event \in {"ROW_ADDED", "ROW_MODIFIED"} => n.row \in Rows
         /\ \/ /\ n.event = "ROW_ADDED"
               /\ \/ Ignore /\ \A k \in 1..Len(rows) : rows[k].key # n.prior
                  \/ \E p \in 1..Len(rows) : rows[p].key = n.prior /\ RowAddedAt(n, p)
            \/ /\ n.event = "ROW_MODIFIED"
               /\ \/ Ignore /\ \A k \in 1..Len(rows) : rows[k].key # n.key
                  \/ \E p \in 1..Len(rows) : rows[p].key = n.key /\ RowModifiedAt(n, p)
            \/ /\ n.event = "ROW_DELETED"
               /\ \/ Ignore /\ \A k \in 1..Len(rows) : rows[k].key # n.key
                  \/ \E p \in 1..Len(rows) : rows[p].key = n.key /\ RowDeletedAt(n, p)
  <1> DEFINE n == queue[1]
  <1>1. todo > 0
    BY DEF RowAdded, RowModified, RowDeleted, Handles
  <1>2. /\ queue # <<>> /\ Head(queue) = n /\ n \in Notices
        /\ n.event \in {"ROW_ADDED", "ROW_MODIFIED"} => n.row \in Rows
    BY <1>1, FirstNotice DEF CopyInv
  <1>3. rows \in Seq(Rows) /\ Len(rows) \in Nat
    BY LenProperties DEF CopyInv, TypeOK
  <1> HIDE DEF n
  <1>4. CASE RowAdded
    <2> DEFINE p == PositionOf(n.prior, rows)
    <2>1. n.event = "ROW_ADDED" /\ IF p = 0 THEN Ignore ELSE RowAddedAt(n, p)
      BY <1>2, <1>4 DEF RowAdded, Handles, RowAddedAt
    <2>2. p \in 0..Len(rows) /\ (p = 0 => \A k \in 1..Len(rows) : rows[k].key # n.prior)
          /\ (p # 0 => rows[p].key = n.prior)
      BY <1>3, PositionFound
    <2> HIDE DEF p
    <2>3. p # 0 => p \in 1..Len(rows)
      BY <1>3, <2>2
    <2>4. QED
      BY <1>1, <1>2, <2>1, <2>2, <2>3 DEF n
  <1>5. CASE RowModified
    <2> DEFINE p == PositionOf(n.key, rows)
    <2>1. n.event = "ROW_MODIFIED" /\ IF p = 0 THEN Ignore ELSE RowModifiedAt(n, p)
      BY <1>2, <1>5 DEF RowModified, Handles, RowModifiedAt
    <2>2. p \in 0..Len(rows) /\ (p = 0 => \A k \in 1..Len(rows) : rows[k].key # n.key)
          /\ (p # 0 => rows[p].key = n.key)
      BY <1>3, PositionFound
    <2> HIDE DEF p
    <2>3. p # 0 => p \in 1..Len(rows)
      BY <1>3, <2>2
    <2>4. QED
      BY <1>1, <1>2, <2>1, <2>2, <2>3 DEF n
  <1>6. CASE RowDeleted
    <2> DEFINE p == PositionOf(n.key, rows)
    <2>1. n.event = "ROW_DELETED" /\ IF p = 0 THEN Ignore ELSE RowDeletedAt(n, p)
      BY <1>2, <1>6 DEF RowDeleted, Handles, RowDeletedAt
    <2>2. p \in 0..Len(rows) /\ (p = 0 => \A k \in 1..Len(rows) : rows[k].key # n.key)
          /\ (p # 0 => rows[p].key = n.key)
      BY <1>3, PositionFound
    <2> HIDE DEF p
    <2>3. p # 0 => p \in 1..Len(rows)
      BY <1>3, <2>2
    <2>4. QED
      BY <1>1, <1>2, <2>1, <2>2, <2>3 DEF n
  <1>7. QED
    BY <1>4, <1>5, <1>6

\* A batch is dropped as a whole.
LEMMA DropKeeps ==
  ASSUME TypeOK, NoticesFit, DropBatch
  PROVE  queue' \in Seq(Notices) /\ todo' \in 0..Len(queue') /\ NoticesFit'
  <1>1. queue \in Seq(Notices) /\ todo \in 0..Len(queue)
    BY DEF TypeOK, Notices
  <1>2. Len(queue) \in Nat /\ \A i \in 1..Len(queue) : queue[i] \in Notices
    BY <1>1, ElementOfSeq, LenProperties
  <1>3. \A i \in (todo + 1)..Len(queue) : queue[i] \in Notices
    BY <1>1, <1>2
  <1>4. /\ queue' \in Seq(Notices) /\ Len(queue') = IF todo + 1 <= Len(queue) THEN Len(queue) - todo ELSE 0
        /\ \A i \in 1..(Len(queue) - todo) : queue'[i] = queue[todo + i]
    <2>1. /\ queue' \in Seq(Notices)
          /\ Len(queue') = IF todo + 1 <= Len(queue) THEN Len(queue) - (todo + 1) + 1 ELSE 0
          /\ \A i \in 1..(Len(queue) - (todo + 1) + 1) : queue'[i] = queue[(todo + 1) + i - 1]
      BY <1>1, <1>2, <1>3, SubSeqProperties DEF DropBatch
    <2>2. Len(queue) - (todo + 1) + 1 = Len(queue) - todo
      BY <1>1, <1>2
    <2>3. \A i \in 1..(Len(queue) - todo) : (todo + 1) + i - 1 = todo + i
      BY <1>1, <1>2
    <2>4. QED
      BY <2>1, <2>2, <2>3
  <1>5. Len(queue') \in Nat /\ todo' = 0
    BY <1>1, <1>2, <1>4 DEF DropBatch
  <1>6. ASSUME NEW i \in 1..Len(queue')
        PROVE  i \in 1..(Len(queue) - todo) /\ todo + i \in 1..Len(queue)
    BY <1>1, <1>2, <1>4
  <1>7. NoticesFit'
    BY <1>4, <1>6 DEF NoticesFit
  <1>8. QED
    BY <1>4, <1>5, <1>7

LEMMA CopyStep == CopyInv /\ [Next]_vars => CopyInv'
  <1> SUFFICES ASSUME CopyInv, [Next]_vars PROVE CopyInv'
    OBVIOUS
  <1>0. /\ TypeOK /\ window \in Windows /\ table \in Seq(Rows) /\ rows \in Seq(Rows) /\ Len(rows) \in Nat
        /\ Window(table) = WindowOf(table, window) /\ Window(table) \in Seq(Rows)
    BY LenProperties, WindowIsStretch DEF CopyInv, TypeOK, Window, WindowOf
  <1>1. CASE Load
    <2>1. items = <<>> /\ items' = <<>>
      BY <1>1 DEF Load, CopyInv, Quiet, TypeOK
    <2>2. rows' = Window(table) /\ replica' = Window(table) /\ Replay(replica', items') = replica'
      BY <1>1, <2>1, ReplayNone DEF Load
    <2>3. TypeOK'
      BY <1>0, <1>1, <2>2 DEF Load, TypeOK
    <2>4. QED
      BY <1>0, <1>1, <2>2, <2>3 DEF Load, CopyInv, Quiet, NoticesFit, ReplicaFollowsRows
  <1>2. CASE Advise
    BY <1>2 DEF Advise, CopyInv, TypeOK, Quiet, NoticesFit, ReplicaFollowsRows
  <1>3. CASE TableChanges
    <2>1. PICK newTable, notice, moved : Reported(newTable, notice, moved)
      BY <1>0, <1>3, TableReported
    <2>2. QED
      BY <2>1, ChangedKeeps DEF Reported
  <1>4. CASE BeginNotify
    <2>1. items = <<>> /\ items' = <<>> /\ todo' \in 0..Len(queue')
      <3>1. queue \in Seq(Notices)
        BY DEF CopyInv, TypeOK, Notices
      <3>2. Len(queue) \in Nat
        BY <3>1, LenProperties
      <3>3. QED
        BY <1>4, <3>2 DEF BeginNotify, CopyInv, TypeOK
    <2>2. TypeOK'
      BY <1>4, <2>1 DEF BeginNotify, CopyInv, TypeOK
    <2>3. QED
      BY <1>4, <2>1, <2>2 DEF BeginNotify, CopyInv, Quiet, NoticesFit, ReplicaFollowsRows
  <1>5. CASE RowAdded \/ RowModified \/ RowDeleted
    <2> DEFINE n == queue[1]
    <2>1. /\ todo > 0 /\ n \in Notices
          /\ n.event \in {"ROW_ADDED", "ROW_MODIFIED"} => n.row \in Rows
      BY <1>5, CallbackSteps
    <2> HIDE DEF n
    <2>2. CASE Ignore
      BY <2>1, <2>2, IgnoreKeeps
    <2>3. ASSUME NEW p \in 1..Len(rows), n.event = "ROW_ADDED", RowAddedAt(n, p)
          PROVE  CopyInv'
      <3> DEFINE d == Added(p, n.row)
      <3>1. d \in Deltas /\ d.change = "Added" /\ d.index = p /\ d.rows = <<n.row>> /\ d.rows[1] = n.row /\ n.row \in Rows
        BY <2>1, <2>3 DEF Added, Delta, Deltas
      <3> HIDE DEF d
      <3>2. p \in 0..Len(rows) /\ p + 1 \in 1..(Len(rows) + 1)
        BY <1>0
      <3>3. Apply(rows, d) = InsertAt(rows, p + 1, n.row)
        BY <3>1, <3>2 DEF Apply
      <3>4. InsertAt(rows, p + 1, n.row) \in Seq(Rows)
        BY <1>0, <3>1, <3>2, InsertPlaces DEF WithRow
      <3>5. Step /\ rows' = InsertAt(rows, p + 1, n.row) /\ items' = Append(items, d)
        BY <2>3 DEF RowAddedAt, d
      <3>6. QED
        BY <2>1, <3>1, <3>3, <3>4, <3>5, EditKeeps
    <2>4. ASSUME NEW p \in 1..Len(rows), n.event = "ROW_MODIFIED", RowModifiedAt(n, p)
          PROVE  CopyInv'
      <3> DEFINE d == Updated(p - 1, n.row)
      <3>1. d \in Deltas /\ d.change = "Updated" /\ d.index = p - 1 /\ d.rows = <<n.row>> /\ d.rows[1] = n.row /\ n.row \in Rows
        BY <1>0, <2>1, <2>4 DEF Updated, Delta, Deltas
      <3> HIDE DEF d
      <3>2. (p - 1) + 1 = p /\ p \in DOMAIN rows
        BY <1>0
      <3>3. Apply(rows, d) = ReplaceAt(rows, p, n.row)
        BY <3>1, <3>2 DEF Apply
      <3>4. ReplaceAt(rows, p, n.row) \in Seq(Rows)
        BY <1>0, <3>1, ReplacePlaces DEF WithOther
      <3>5. Step /\ rows' = ReplaceAt(rows, p, n.row) /\ items' = Append(items, d)
        BY <2>4 DEF RowModifiedAt, d
      <3>6. QED
        BY <2>1, <3>1, <3>3, <3>4, <3>5, EditKeeps
    <2>5. ASSUME NEW p \in 1..Len(rows), RowDeletedAt(n, p)
          PROVE  CopyInv'
      <3> DEFINE d == Removed(p - 1, n.key)
      <3>1. d \in Deltas /\ d.change = "Removed" /\ d.index = p - 1
        BY <1>0, <2>1 DEF Removed, Delta, Deltas, Notices
      <3> HIDE DEF d
      <3>2. (p - 1) + 1 = p /\ p \in DOMAIN rows
        BY <1>0
      <3>3. Apply(rows, d) = RemoveAt(rows, p)
        BY <3>1, <3>2 DEF Apply
      <3>4. RemoveAt(rows, p) \in Seq(Rows)
        BY <1>0, RemovePlaces DEF WithoutRow
      <3>5. Step /\ rows' = RemoveAt(rows, p) /\ items' = Append(items, d)
        BY <2>5 DEF RowDeletedAt, d
      <3>6. QED
        BY <2>1, <3>1, <3>3, <3>4, <3>5, EditKeeps
    <2>6. QED
      BY <1>5, <2>2, <2>3, <2>4, <2>5, CallbackSteps DEF n
  <1>6. CASE ReloadRows
    <2> DEFINE d == Reloaded(Window(table))
    <2>1. d \in Deltas /\ d.change = "Reloaded" /\ d.rows = Window(table)
      BY <1>0 DEF Reloaded, Delta, Deltas
    <2> HIDE DEF d
    <2>2. todo > 0 /\ inCallback /\ advised = "yes"
      <3>1. todo > 0
        BY <1>6 DEF ReloadRows, Handles
      <3>2. QED
        BY <3>1, FirstNotice DEF CopyInv, Quiet
    <2>3. queue' \in Seq(Notices) /\ todo' \in 0..Len(queue') /\ NoticesFit'
      BY <1>6, DropKeeps DEF ReloadRows, CopyInv
    <2>4. items' = Append(<<>>, d) /\ items' \in Seq(Deltas)
      BY <1>6, <2>1 DEF ReloadRows, d
    <2>5. Replay(replica', items') = Window(table)
      <3>1. Replay(replica, Append(<<>>, d)) = Apply(Replay(replica, <<>>), d)
        <4> DEFINE none == <<>>
        <4>1. none \in Seq(Deltas)
          OBVIOUS
        <4> HIDE DEF none
        <4>2. Replay(replica, Append(none, d)) = Apply(Replay(replica, none), d)
          BY <2>1, <4>1, ReplayOneMore
        <4>3. QED
          BY <4>2, Zenon DEF none
      <3>2. Apply(Replay(replica, <<>>), d) = Window(table)
        BY <2>1 DEF Apply
      <3>3. QED
        BY <1>6, <2>4, <3>1, <3>2 DEF ReloadRows
    <2>6. TypeOK'
      BY <1>0, <1>6, <2>2, <2>3, <2>4 DEF ReloadRows, CopyInv, TypeOK, Notices, Deltas
    <2>7. QED
      BY <1>0, <1>6, <2>2, <2>3, <2>5, <2>6 DEF ReloadRows, CopyInv, Quiet, ReplicaFollowsRows
  <1>7. CASE EndNotify
    <2>1. replica' = Replay(replica, items) /\ items' = <<>> /\ Replay(replica', items') = replica'
      BY <1>7, ReplayNone DEF EndNotify
    <2>2. replica' \in Seq(Rows) /\ items' \in Seq(Deltas)
      BY <2>1 DEF CopyInv
    <2>3. TypeOK'
      BY <1>7, <2>1, <2>2 DEF EndNotify, CopyInv, TypeOK, Deltas
    <2>4. QED
      BY <1>7, <2>1, <2>2, <2>3 DEF EndNotify, CopyInv, Quiet, NoticesFit, ReplicaFollowsRows
  <1>8. CASE CallbackThrows
    <2>1. todo > 0
      BY <1>8 DEF CallbackThrows, Handles
    <2>2. advised = "yes"
      BY <2>1, FirstNotice DEF CopyInv, Quiet
    <2>3. queue' \in Seq(Notices) /\ todo' \in 0..Len(queue') /\ todo' = 0 /\ NoticesFit'
      BY <1>8, DropKeeps DEF CallbackThrows, DropBatch, CopyInv
    <2>4. TypeOK'
      <3>1. items' \in Seq(Deltas) /\ items' = <<>>
        BY <1>8 DEF CallbackThrows
      <3>2. QED
        BY <1>8, <2>3, <3>1 DEF CallbackThrows, CopyInv, TypeOK, Notices, Deltas
    <2>5. Replay(replica', items') \in Seq(Rows)
      BY <1>8, ReplayNone DEF CallbackThrows, CopyInv, TypeOK
    <2>6. QED
      BY <1>8, <2>2, <2>3, <2>4, <2>5 DEF CallbackThrows, CopyInv, Quiet, ReplicaFollowsRows
  <1>9. CASE UNCHANGED vars
    BY <1>9 DEF vars, CopyInv, TypeOK, Quiet, NoticesFit, ReplicaFollowsRows
  <1>10. QED
    BY <1>1, <1>2, <1>3, <1>4, <1>5, <1>6, <1>7, <1>8, <1>9 DEF Next, OnNotify

LEMMA CopyCorrect == Spec => []CopyInv
  <1>1. QED
    BY InitCopy, CopyStep, PTL DEF Spec

\* The deltas a listener gets, each applied at its index, keep its copy of the window
\* equal to the rows of the sink, for any batches, unless a callback threw since the
\* last reload.
THEOREM CopyFollows == Spec => []ReplicaFollowsRows
  <1>1. CopyInv => ReplicaFollowsRows
    BY DEF CopyInv
  <1>2. QED
    BY CopyCorrect, <1>1, PTL

(***************************************************************************)
(* The cache.  While nothing was displaced, each notification leads from   *)
(* the table it is a change of to that of the next, or to the table as it  *)
(* is; and the rows are a stretch of the first.                            *)
(***************************************************************************)
StretchAt(r, t, first) ==
  first \in 0..(Len(t) - Len(r)) /\ \A k \in 1..Len(r) : r[k] = t[first + k]

LEMMA StretchPlaces ==
  ASSUME NEW r \in Seq(Rows), NEW t \in Seq(Rows)
  PROVE  Stretch(r, t) <=> \E first : StretchAt(r, t, first)
  <1>1. Len(r) \in Nat /\ Len(t) \in Nat /\ \A k \in 1..Len(t) : t[k] \in Rows
    BY ElementOfSeq, LenProperties
  <1>2. ASSUME NEW first \in 0..(Len(t) - Len(r))
        PROVE  r = SubSeq(t, first + 1, first + Len(r)) <=> StretchAt(r, t, first)
    <2> DEFINE part == SubSeq(t, first + 1, first + Len(r))
    <2>1. \A k \in (first + 1)..(first + Len(r)) : t[k] \in Rows
      BY <1>1
    <2>2. part \in Seq(Rows) /\ Len(part) = Len(r) /\ \A k \in 1..Len(r) : part[k] = t[first + k]
      <3>1. /\ part \in Seq(Rows)
            /\ Len(part) = IF first + 1 <= first + Len(r) THEN first + Len(r) - (first + 1) + 1 ELSE 0
            /\ \A k \in 1..(first + Len(r) - (first + 1) + 1) : part[k] = t[(first + 1) + k - 1]
        BY <1>1, <2>1, SubSeqProperties
      <3> HIDE DEF part
      <3>2. first + Len(r) - (first + 1) + 1 = Len(r)
        BY <1>1
      <3>3. \A k \in 1..Len(r) : (first + 1) + k - 1 = first + k
        BY <1>1
      <3>4. QED
        BY <1>1, <3>1, <3>2, <3>3
    <2> HIDE DEF part
    <2>3. r = part <=> \A k \in 1..Len(r) : r[k] = part[k]
      BY <2>2, SeqEqual
    <2>4. QED
      BY <2>2, <2>3 DEF StretchAt, part
  <1>3. QED
    BY <1>2 DEF Stretch, StretchAt

\* A row added after a cached one is put after it in the cache.
LEMMA AddedInside ==
  ASSUME NEW r \in Seq(Rows), NEW t \in Seq(Rows), Distinct(t), NEW first, StretchAt(r, t, first),
         NEW i \in 1..(Len(t) + 1), NEW p \in 1..Len(r), r[p].key = PriorIn(t, i),
         NEW row, NEW next, WithRow(next, t, i, row), NEW new, WithRow(new, r, p + 1, row)
  PROVE  StretchAt(new, next, first)
  <1>1. Len(r) \in Nat /\ Len(t) \in Nat /\ \A k \in 1..Len(r) : r[k] \in Rows
    BY ElementOfSeq, LenProperties
  <1>2. first \in Nat /\ first + p \in 1..Len(t) /\ r[p] = t[first + p]
    BY <1>1 DEF StretchAt
  <1>3. i # 1 /\ t[i - 1].key = t[first + p].key
    BY <1>1, <1>2, NoKeyAssumption DEF PriorIn, Rows
  <1>4. i = first + p + 1
    <2>1. i - 1 \in 1..Len(t)
      BY <1>1, <1>3
    <2>2. i - 1 = first + p
      BY <1>2, <1>3, <2>1 DEF Distinct
    <2>3. QED
      BY <1>2, <2>2
  <1>5. Len(new) = Len(r) + 1 /\ Len(next) = Len(t) + 1
    BY DEF WithRow
  <1>6. first \in 0..(Len(next) - Len(new))
    BY <1>1, <1>5 DEF StretchAt
  <1>7. ASSUME NEW k \in 1..(Len(r) + 1)
        PROVE  new[k] = next[first + k]
    <2>1. new[k] = IF k < p + 1 THEN r[k] ELSE IF k = p + 1 THEN row ELSE r[k - 1]
      BY DEF WithRow
    <2>2. first + k \in 1..(Len(t) + 1)
      BY <1>1, <1>2, <1>5, <1>6
    <2>3. next[first + k] = IF first + k < i THEN t[first + k] ELSE IF first + k = i THEN row ELSE t[(first + k) - 1]
      <3> DEFINE m == first + k
      <3>1. m \in 1..(Len(t) + 1)
        BY <2>2
      <3> HIDE DEF m
      <3>2. next[m] = IF m < i THEN t[m] ELSE IF m = i THEN row ELSE t[m - 1]
        BY <3>1 DEF WithRow
      <3>3. QED
        BY <3>2, Zenon DEF m
    <2>4. CASE k < p + 1
      <3>1. first + k < i /\ k \in 1..Len(r)
        BY <1>1, <1>2, <1>4, <2>4
      <3>2. QED
        BY <2>1, <2>3, <2>4, <3>1 DEF StretchAt
    <2>5. CASE k = p + 1
      <3>1. first + k = i
        BY <1>2, <1>4, <2>5
      <3>2. QED
        BY <2>1, <2>3, <2>5, <3>1
    <2>6. CASE k > p + 1
      <3>1. ~(first + k < i) /\ first + k # i /\ k - 1 \in 1..Len(r) /\ first + (k - 1) = (first + k) - 1
        BY <1>1, <1>2, <1>4, <2>6
      <3>2. r[k - 1] = t[(first + k) - 1]
        BY <3>1 DEF StretchAt
      <3>3. QED
        BY <2>1, <2>3, <2>6, <3>1, <3>2
    <2>7. QED
      BY <2>4, <2>5, <2>6
  <1>8. QED
    BY <1>5, <1>6, <1>7 DEF StretchAt

\* A row added after a row that is not cached is added before the stretch or after it.
LEMMA AddedOutside ==
  ASSUME NEW r \in Seq(Rows), NEW t \in Seq(Rows), NEW first, StretchAt(r, t, first),
         NEW i \in 1..(Len(t) + 1), \A k \in 1..Len(r) : r[k].key # PriorIn(t, i),
         NEW row, NEW next, WithRow(next, t, i, row)
  PROVE  \E other : StretchAt(r, next, other)
  <1>1. Len(r) \in Nat /\ Len(t) \in Nat /\ Len(next) = Len(t) + 1 /\ first \in 0..(Len(t) - Len(r))
    BY LenProperties DEF WithRow, StretchAt
  <1>2. i <= first + 1 \/ i > first + Len(r) + 1
    <2>1. SUFFICES ASSUME first + 1 < i, i <= first + Len(r) + 1 PROVE FALSE
      BY <1>1
    <2>2. i - 1 - first \in 1..Len(r) /\ first + (i - 1 - first) = i - 1 /\ i # 1
      BY <1>1, <2>1
    <2>3. r[i - 1 - first] = t[i - 1]
      BY <2>2 DEF StretchAt
    <2>4. QED
      BY <2>2, <2>3 DEF PriorIn
  <1>3. CASE i <= first + 1
    <2>1. ASSUME NEW k \in 1..Len(r)
          PROVE  r[k] = next[first + 1 + k]
      <3>1. first + 1 + k \in 1..(Len(t) + 1) /\ ~(first + 1 + k < i) /\ first + 1 + k # i /\ first + 1 + k - 1 = first + k
        BY <1>1, <1>3
      <3> DEFINE m == first + 1 + k
      <3>2. next[m] = t[m - 1]
        <4>1. m \in 1..(Len(t) + 1) /\ ~(m < i) /\ m # i
          BY <3>1
        <4> HIDE DEF m
        <4>2. QED
          BY <4>1 DEF WithRow
      <3>3. QED
        BY <3>1, <3>2 DEF StretchAt
    <2>2. first + 1 \in 0..(Len(next) - Len(r))
      BY <1>1
    <2>3. StretchAt(r, next, first + 1)
      BY <2>1, <2>2 DEF StretchAt
    <2>4. QED
      BY <2>3
  <1>4. CASE i > first + Len(r) + 1
    <2>1. ASSUME NEW k \in 1..Len(r)
          PROVE  r[k] = next[first + k]
      <3>1. first + k \in 1..(Len(t) + 1) /\ first + k < i
        BY <1>1, <1>4
      <3>2. next[first + k] = t[first + k]
        BY <3>1 DEF WithRow
      <3>3. QED
        BY <3>2 DEF StretchAt
    <2>2. first \in 0..(Len(next) - Len(r))
      BY <1>1
    <2>3. StretchAt(r, next, first)
      BY <2>1, <2>2 DEF StretchAt
    <2>4. QED
      BY <2>3
  <1>5. QED
    BY <1>2, <1>3, <1>4

LEMMA ModifiedInside ==
  ASSUME NEW r \in Seq(Rows), NEW t \in Seq(Rows), Distinct(t), NEW first, StretchAt(r, t, first),
         NEW i \in 1..Len(t), NEW p \in 1..Len(r), r[p].key = t[i].key,
         NEW row, NEW next, WithOther(next, t, i, row), NEW new, WithOther(new, r, p, row)
  PROVE  StretchAt(new, next, first)
  <1>1. Len(r) \in Nat /\ Len(t) \in Nat /\ Len(new) = Len(r) /\ Len(next) = Len(t) /\ first \in 0..(Len(t) - Len(r))
    BY LenProperties DEF WithOther, StretchAt
  <1>2. i = first + p
    <2>1. first + p \in 1..Len(t) /\ r[p] = t[first + p]
      BY <1>1 DEF StretchAt
    <2>2. QED
      BY <2>1 DEF Distinct
  <1>3. ASSUME NEW k \in 1..Len(r)
        PROVE  new[k] = next[first + k]
    <2>1. first + k \in 1..Len(t) /\ (first + k = i <=> k = p)
      BY <1>1, <1>2
    <2>2. QED
      BY <2>1 DEF WithOther, StretchAt
  <1>4. QED
    BY <1>1, <1>3 DEF StretchAt

LEMMA ModifiedOutside ==
  ASSUME NEW r \in Seq(Rows), NEW t \in Seq(Rows), NEW first, StretchAt(r, t, first),
         NEW i \in 1..Len(t), \A k \in 1..Len(r) : r[k].key # t[i].key,
         NEW row, NEW next, WithOther(next, t, i, row)
  PROVE  StretchAt(r, next, first)
  <1>1. Len(r) \in Nat /\ Len(t) \in Nat /\ Len(next) = Len(t) /\ first \in 0..(Len(t) - Len(r))
    BY LenProperties DEF WithOther, StretchAt
  <1>2. ASSUME NEW k \in 1..Len(r)
        PROVE  r[k] = next[first + k]
    <2>1. first + k \in 1..Len(t) /\ r[k] = t[first + k]
      BY <1>1 DEF StretchAt
    <2>2. first + k # i
      BY <2>1
    <2>3. QED
      BY <2>1, <2>2 DEF WithOther
  <1>3. QED
    BY <1>1, <1>2 DEF StretchAt

LEMMA DeletedInside ==
  ASSUME NEW r \in Seq(Rows), NEW t \in Seq(Rows), Distinct(t), NEW first, StretchAt(r, t, first),
         NEW i \in 1..Len(t), NEW p \in 1..Len(r), r[p].key = t[i].key,
         NEW next, WithoutRow(next, t, i), NEW new, WithoutRow(new, r, p)
  PROVE  StretchAt(new, next, first)
  <1>1. /\ Len(r) \in Nat /\ Len(t) \in Nat /\ first \in 0..(Len(t) - Len(r))
        /\ Len(new) = Len(r) - 1 /\ Len(next) = Len(t) - 1
    BY LenProperties DEF WithoutRow, StretchAt
  <1>2. i = first + p
    <2>1. first + p \in 1..Len(t) /\ r[p] = t[first + p]
      BY <1>1 DEF StretchAt
    <2>2. QED
      BY <2>1 DEF Distinct
  <1>3. ASSUME NEW k \in 1..(Len(r) - 1)
        PROVE  new[k] = next[first + k]
    <2>1. first + k \in 1..(Len(t) - 1) /\ (first + k < i <=> k < p)
      BY <1>1, <1>2
    <2>2. k \in 1..Len(r) /\ k + 1 \in 1..Len(r) /\ first + (k + 1) = first + k + 1
      BY <1>1
    <2>3. r[k] = t[first + k] /\ r[k + 1] = t[first + k + 1]
      BY <2>2 DEF StretchAt
    <2>4. QED
      BY <2>1, <2>3 DEF WithoutRow
  <1>4. QED
    BY <1>1, <1>3 DEF StretchAt

LEMMA DeletedOutside ==
  ASSUME NEW r \in Seq(Rows), NEW t \in Seq(Rows), NEW first, StretchAt(r, t, first),
         NEW i \in 1..Len(t), \A k \in 1..Len(r) : r[k].key # t[i].key,
         NEW next, WithoutRow(next, t, i)
  PROVE  \E other : StretchAt(r, next, other)
  <1>1. Len(r) \in Nat /\ Len(t) \in Nat /\ Len(next) = Len(t) - 1 /\ first \in 0..(Len(t) - Len(r))
    BY LenProperties DEF WithoutRow, StretchAt
  <1>2. i <= first \/ i > first + Len(r)
    <2>1. SUFFICES ASSUME first < i, i <= first + Len(r) PROVE FALSE
      BY <1>1
    <2>2. i - first \in 1..Len(r) /\ first + (i - first) = i
      BY <1>1, <2>1
    <2>3. QED
      BY <2>2 DEF StretchAt
  <1>3. CASE i <= first
    <2>1. ASSUME NEW k \in 1..Len(r)
          PROVE  r[k] = next[first - 1 + k]
      <3>1. first - 1 + k \in 1..(Len(t) - 1) /\ ~(first - 1 + k < i) /\ first - 1 + k + 1 = first + k
        BY <1>1, <1>3
      <3>2. next[first - 1 + k] = t[first - 1 + k + 1]
        BY <3>1 DEF WithoutRow
      <3>3. QED
        BY <3>1, <3>2 DEF StretchAt
    <2>2. first - 1 \in 0..(Len(next) - Len(r))
      BY <1>1, <1>3
    <2>3. StretchAt(r, next, first - 1)
      BY <2>1, <2>2 DEF StretchAt
    <2>4. QED
      BY <2>3
  <1>4. CASE i > first + Len(r)
    <2>1. ASSUME NEW k \in 1..Len(r)
          PROVE  r[k] = next[first + k]
      <3>1. first + k \in 1..(Len(t) - 1) /\ first + k < i
        BY <1>1, <1>4
      <3>2. next[first + k] = t[first + k]
        BY <3>1 DEF WithoutRow
      <3>3. QED
        BY <3>2 DEF StretchAt
    <2>2. first \in 0..(Len(next) - Len(r))
      BY <1>1, <1>4
    <2>3. StretchAt(r, next, first)
      BY <2>1, <2>2 DEF StretchAt
    <2>4. QED
      BY <2>3
  <1>5. QED
    BY <1>2, <1>3, <1>4

\* The table after the notification at place i.
After(i) == IF i = Len(queue) THEN table ELSE queue[i + 1].before

Linked == \A i \in 1..Len(queue) : Link(queue[i], After(i))

StretchInv ==
  /\ Distinct(table)
  /\ displaced \/ (Linked /\ Stretch(rows, Acked))

LEMMA InitStretch == Init => StretchInv
  <1> SUFFICES ASSUME Init PROVE StretchInv
    OBVIOUS
  <1>1. InitialTable \in Seq(Keys) /\ DOMAIN InitialTable = 1..Len(InitialTable) /\ Len(InitialTable) \in Nat
    BY InitialTableAssumption, LenProperties
  <1>2. DOMAIN table = 1..Len(InitialTable) /\ \A i \in 1..Len(InitialTable) : table[i].key = InitialTable[i]
    BY <1>1 DEF Init, Row
  <1>3. Len(table) = Len(InitialTable) /\ table \in Seq(Rows)
    <2>1. table \in Seq(Rows)
      BY InitCopy DEF CopyInv, TypeOK
    <2>2. QED
      BY <1>1, <1>2, <2>1, LenProperties
  <1>4. Distinct(table)
    BY <1>1, <1>2, <1>3, InitialTableAssumption DEF Distinct, IsInjective
  <1>5. rows = <<>> /\ queue = <<>> /\ Acked = table
    BY DEF Init, Acked
  <1>6. QED
    BY <1>3, <1>4, <1>5, EmptyIsStretch DEF StretchInv, Linked

\* The notification that was handled made of the rows before it a stretch of the table after it.
LEMMA CachedStretch ==
  ASSUME CopyInv, Linked, Stretch(rows, Acked), RowAdded \/ RowModified \/ RowDeleted,
         rows' \in Seq(Rows), NEW next \in Seq(Rows), Link(queue[1], next)
  PROVE  Stretch(rows', next)
  <1> DEFINE n == queue[1]
             t == n.before
  <1>1. rows \in Seq(Rows) /\ rows' \in Seq(Rows) /\ t \in Seq(Rows) /\ Distinct(t)
    BY DEF CopyInv, TypeOK, Link
  <1>2. Len(rows) \in Nat
    BY <1>1, LenProperties
  <1>3. Acked = t
    <2>1. queue # <<>> /\ todo > 0
      BY CallbackSteps
    <2>2. Head(queue) = n
      BY <2>1, FirstNotice DEF CopyInv
    <2>3. QED
      BY <2>1, <2>2 DEF Acked
  <1>4. PICK first : StretchAt(rows, t, first)
    <2> HIDE DEF t
    <2>1. QED
      BY <1>1, <1>3, StretchPlaces
  <1>5. SUFFICES \E other : StretchAt(rows', next, other)
    BY <1>1, StretchPlaces
  <1>6. n.event \in {"ROW_ADDED", "ROW_MODIFIED"} => n.row \in Rows
    BY CallbackSteps
  <1> HIDE DEF t
  <1>7. CASE n.event = "ROW_ADDED"
    <2>1. PICK i \in 1..(Len(t) + 1) : WithRow(next, t, i, n.row) /\ n.prior = PriorIn(t, i)
      BY <1>7 DEF Link, t
    <2>2. CASE Ignore /\ \A k \in 1..Len(rows) : rows[k].key # n.prior
      <3>1. rows' = rows
        BY <2>2 DEF Ignore
      <3>2. \A k \in 1..Len(rows) : rows[k].key # PriorIn(t, i)
        BY <2>1, <2>2
      <3> HIDE DEF n
      <3>3. QED
        BY <1>1, <1>4, <2>1, <3>1, <3>2, AddedOutside
    <2>3. ASSUME NEW p \in 1..Len(rows), rows[p].key = n.prior, RowAddedAt(n, p)
          PROVE  \E other : StretchAt(rows', next, other)
      <3>1. p + 1 \in 1..(Len(rows) + 1) /\ n.row \in Rows
        BY <1>2, <1>6, <1>7
      <3>2. WithRow(rows', rows, p + 1, n.row)
        BY <1>1, <2>3, <3>1, InsertPlaces DEF RowAddedAt
      <3>3. rows[p].key = PriorIn(t, i)
        BY <2>1, <2>3
      <3> HIDE DEF n
      <3>4. StretchAt(rows', next, first)
        BY <1>1, <1>4, <2>1, <3>2, <3>3, AddedInside
      <3>5. QED
        BY <3>4
    <2>4. QED
      BY <1>7, <2>2, <2>3, CallbackSteps
  <1>8. CASE n.event = "ROW_MODIFIED"
    <2>1. PICK i \in 1..Len(t) : WithOther(next, t, i, n.row) /\ n.key = t[i].key
      BY <1>8 DEF Link, t
    <2>2. CASE Ignore /\ \A k \in 1..Len(rows) : rows[k].key # n.key
      <3>1. rows' = rows
        BY <2>2 DEF Ignore
      <3>2. \A k \in 1..Len(rows) : rows[k].key # t[i].key
        BY <2>1, <2>2
      <3> HIDE DEF n
      <3>3. StretchAt(rows, next, first)
        BY <1>1, <1>4, <2>1, <3>2, ModifiedOutside
      <3>4. QED
        BY <3>1, <3>3
    <2>3. ASSUME NEW p \in 1..Len(rows), rows[p].key = n.key, RowModifiedAt(n, p)
          PROVE  \E other : StretchAt(rows', next, other)
      <3>1. WithOther(rows', rows, p, n.row)
        BY <1>1, <1>6, <1>8, <2>3, ReplacePlaces DEF RowModifiedAt
      <3>2. rows[p].key = t[i].key
        BY <2>1, <2>3
      <3> HIDE DEF n
      <3>3. StretchAt(rows', next, first)
        BY <1>1, <1>4, <2>1, <3>1, <3>2, ModifiedInside
      <3>4. QED
        BY <3>3
    <2>4. QED
      BY <1>8, <2>2, <2>3, CallbackSteps
  <1>9. CASE n.event = "ROW_DELETED"
    <2>1. PICK i \in 1..Len(t) : WithoutRow(next, t, i) /\ n.key = t[i].key
      BY <1>9 DEF Link, t
    <2>2. CASE Ignore /\ \A k \in 1..Len(rows) : rows[k].key # n.key
      <3>1. rows' = rows
        BY <2>2 DEF Ignore
      <3>2. \A k \in 1..Len(rows) : rows[k].key # t[i].key
        BY <2>1, <2>2
      <3> HIDE DEF n
      <3>3. QED
        BY <1>1, <1>4, <2>1, <3>1, <3>2, DeletedOutside
    <2>3. ASSUME NEW p \in 1..Len(rows), rows[p].key = n.key, RowDeletedAt(n, p)
          PROVE  \E other : StretchAt(rows', next, other)
      <3>1. WithoutRow(rows', rows, p)
        BY <1>1, <2>3, RemovePlaces DEF RowDeletedAt
      <3>2. rows[p].key = t[i].key
        BY <2>1, <2>3
      <3> HIDE DEF n
      <3>3. StretchAt(rows', next, first)
        BY <1>1, <1>4, <2>1, <3>1, <3>2, DeletedInside
      <3>4. QED
        BY <3>3
    <2>4. QED
      BY <1>9, <2>2, <2>3, CallbackSteps
  <1>10. QED
    BY <1>7, <1>8, <1>9, CallbackSteps

\* A change links the table to the next, at the end of the queue.
LEMMA ChangedStretch ==
  ASSUME CopyInv, StretchInv, NEW newTable, NEW notice, NEW moved, Reported(newTable, notice, moved)
  PROVE  StretchInv'
  <1>1. table' = newTable /\ rows' = rows /\ Changed(newTable, notice, moved)
    BY DEF Reported, Changed
  <1>2. Distinct(table')
    BY <1>1 DEF StretchInv, Reported
  <1>3. SUFFICES ASSUME ~displaced' PROVE (Linked /\ Stretch(rows, Acked))'
    BY <1>2 DEF StretchInv
  <1>4. ~displaced /\ ~moved /\ queue' = Append(queue, notice)
    BY <1>1, <1>3 DEF Changed
  <1>5. Linked /\ Stretch(rows, Acked) /\ Link(notice, newTable) /\ notice.before = table
    BY <1>4 DEF StretchInv, Reported
  <1>6. queue \in Seq(Notices) /\ notice \in Notices /\ Len(queue) \in Nat
    BY LenProperties DEF CopyInv, TypeOK, Notices, Reported
  <1>7. /\ Len(queue') = Len(queue) + 1 /\ queue' \in Seq(Notices) /\ queue'[Len(queue) + 1] = notice
        /\ \A i \in 1..Len(queue) : queue'[i] = queue[i]
    BY <1>4, <1>6, AppendProperties
  <1>8. ASSUME NEW i \in 1..Len(queue')
        PROVE  Link(queue'[i], After(i)')
    <2>1. CASE i = Len(queue')
      <3>1. queue'[i] = notice /\ After(i)' = newTable
        BY <1>1, <1>7, <2>1 DEF After
      <3>2. QED
        BY <1>5, <3>1
    <2>2. CASE i # Len(queue')
      <3>1. i \in 1..Len(queue) /\ queue'[i] = queue[i]
        BY <1>6, <1>7, <2>2
      <3>2. After(i)' = After(i)
        <4>1. CASE i = Len(queue)
          BY <1>5, <1>6, <1>7, <2>2, <4>1 DEF After
        <4>2. CASE i # Len(queue)
          <5>1. i + 1 \in 1..Len(queue)
            BY <1>6, <3>1, <4>2
          <5>2. queue'[i + 1] = queue[i + 1]
            BY <1>7, <5>1
          <5>3. QED
            BY <2>2, <4>2, <5>2 DEF After
        <4>3. QED
          BY <4>1, <4>2
      <3>3. QED
        BY <1>5, <3>1, <3>2 DEF Linked
    <2>3. QED
      BY <2>1, <2>2
  <1>9. Acked' = Acked
    <2>1. queue' # <<>>
      BY <1>6, <1>7
    <2>2. Head(queue') = queue'[1]
      BY <1>7, <2>1, HeadTailProperties
    <2>3. CASE queue = <<>>
      <3>1. Len(queue) = 0
        BY <2>3
      <3>2. queue'[1] = notice
        BY <1>7, <3>1
      <3>3. QED
        BY <1>5, <2>1, <2>2, <2>3, <3>2 DEF Acked
    <2>4. CASE queue # <<>>
      <3>1. 1 \in 1..Len(queue) /\ Head(queue) = queue[1]
        BY <1>6, <2>4, HeadTailProperties
      <3>2. QED
        BY <1>7, <2>1, <2>2, <2>4, <3>1 DEF Acked
    <2>5. QED
      BY <2>3, <2>4
  <1>10. QED
    BY <1>1, <1>5, <1>8, <1>9 DEF Linked

LEMMA StretchStep == CopyInv /\ CopyInv' /\ StretchInv /\ [Next]_vars => StretchInv'
  <1> SUFFICES ASSUME CopyInv, CopyInv', StretchInv, [Next]_vars PROVE StretchInv'
    OBVIOUS
  <1>1. CASE Load
    <2>1. queue' = <<>> /\ table' = table /\ rows' = Window(table) /\ Acked' = table
      BY <1>1 DEF Load, CopyInv, Quiet, Acked
    <2>2. Stretch(rows', table)
      BY <2>1, WindowIsStretch DEF CopyInv, TypeOK, Window, WindowOf
    <2>3. QED
      BY <2>1, <2>2 DEF StretchInv, Linked
  <1>2. CASE TableChanges
    <2>1. PICK newTable, notice, moved : Reported(newTable, notice, moved)
      BY <1>2, TableReported DEF CopyInv
    <2>2. QED
      BY <2>1, ChangedStretch
  <1>3. CASE RowAdded \/ RowModified \/ RowDeleted
    <2>1. SUFFICES ASSUME ~displaced PROVE (Linked /\ Stretch(rows, Acked))'
      BY <1>3 DEF RowAdded, RowModified, RowDeleted, Ignore, Step, StretchInv
    <2>2. Linked /\ Stretch(rows, Acked)
      BY <2>1 DEF StretchInv
    <2>3. todo > 0 /\ queue # <<>> /\ queue' = Tail(queue) /\ table' = table
      BY <1>3, CallbackSteps DEF RowAdded, RowModified, RowDeleted, Ignore, Step
    <2>4. /\ Len(queue') = Len(queue) - 1 /\ queue' \in Seq(Notices)
          /\ \A i \in 1..Len(queue') : queue'[i] = queue[i + 1]
      BY <2>3, FirstNotice DEF CopyInv
    <2>5. Len(queue) \in Nat /\ Len(queue) > 0
      <3>1. queue \in Seq(Notices)
        BY DEF CopyInv, TypeOK, Notices
      <3>2. QED
        BY <2>3, <3>1, LenProperties
    <2>6. Linked'
      <3>1. ASSUME NEW i \in 1..Len(queue')
            PROVE  Link(queue'[i], After(i)')
        <4>1. i + 1 \in 1..Len(queue) /\ queue'[i] = queue[i + 1]
          BY <2>4, <2>5
        <4>2. After(i)' = After(i + 1)
          <5>1. CASE i = Len(queue')
            BY <2>3, <2>4, <2>5, <5>1 DEF After
          <5>2. CASE i # Len(queue')
            <6>1. i + 1 \in 1..Len(queue') /\ i + 1 # Len(queue)
              BY <2>4, <2>5, <5>2
            <6>2. queue'[i + 1] = queue[(i + 1) + 1]
              BY <2>4, <6>1
            <6>3. QED
              BY <5>2, <6>1, <6>2 DEF After
          <5>3. QED
            BY <5>1, <5>2
        <4>3. QED
          BY <2>2, <4>1, <4>2 DEF Linked
      <3>2. QED
        BY <3>1 DEF Linked
    <2>7. Link(queue[1], After(1))
      BY <2>2, <2>5 DEF Linked
    <2>8. Acked' = After(1)
      <3>1. CASE Len(queue) = 1
        <4>1. queue' = <<>>
          BY <2>4, <3>1
        <4>2. QED
          BY <2>3, <3>1, <4>1 DEF Acked, After
      <3>2. CASE Len(queue) # 1
        <4>1. queue' # <<>> /\ 1 \in 1..Len(queue')
          BY <2>4, <2>5, <3>2
        <4>2. Head(queue') = queue'[1] /\ queue'[1] = queue[1 + 1]
          BY <2>4, <4>1, HeadTailProperties
        <4>3. QED
          BY <3>2, <4>1, <4>2 DEF Acked, After
      <3>3. QED
        BY <3>1, <3>2
    <2>9. After(1) \in Seq(Rows) /\ rows' \in Seq(Rows)
      <3>1. table \in Seq(Rows) /\ queue \in Seq(Notices) /\ rows' \in Seq(Rows)
        BY DEF CopyInv, TypeOK, Notices
      <3>2. Len(queue) # 1 => 1 + 1 \in 1..Len(queue)
        <4> DEFINE n == Len(queue)
        <4>1. n \in Nat /\ n > 0
          BY <2>5
        <4> HIDE DEF n
        <4>2. n # 1 => n >= 2
          BY <4>1
        <4>3. n # 1 => 1 + 1 \in 1..n
          BY <4>1, <4>2
        <4>4. QED
          BY <4>3 DEF n
      <3>3. \A i \in 1..Len(queue) : queue[i].before \in Seq(Rows)
        <4>1. \A i \in 1..Len(queue) : queue[i] \in Notices
          BY <3>1, ElementOfSeq
        <4>2. QED
          BY <4>1 DEF Notices
      <3>4. QED
        BY <3>1, <3>2, <3>3 DEF After
    <2>10. Stretch(rows', After(1))
      BY <1>3, <2>2, <2>7, <2>9, CachedStretch
    <2>11. QED
      BY <2>6, <2>8, <2>10
  <1>4. CASE ReloadRows
    <2>1. todo > 0 /\ Head(queue).event = "RELOAD"
      BY <1>4 DEF ReloadRows, Handles
    <2>2. queue # <<>> /\ Head(queue) = queue[1]
      BY <2>1, FirstNotice DEF CopyInv
    <2>3. 1 \in 1..Len(queue)
      <3>1. queue \in Seq(Notices)
        BY DEF CopyInv, TypeOK, Notices
      <3>2. QED
        BY <2>2, <3>1, LenProperties
    <2>4. displaced
      BY <2>1, <2>2, <2>3 DEF StretchInv, Linked, Link
    <2>5. QED
      BY <1>4, <2>4 DEF ReloadRows, StretchInv
  <1>5. CASE CallbackThrows
    BY <1>5 DEF CallbackThrows, StretchInv
  <1>6. CASE Advise \/ BeginNotify \/ EndNotify \/ UNCHANGED vars
    <2>1. UNCHANGED <<table, queue, rows, displaced>>
      BY <1>6 DEF Advise, BeginNotify, EndNotify, vars
    <2>2. QED
      BY <2>1 DEF StretchInv, Linked, After, Acked
  <1>7. QED
    BY <1>1, <1>2, <1>3, <1>4, <1>5, <1>6 DEF Next, OnNotify

\* While rows keep their order, the cache is a gapless stretch of the table after the
\* notifications that were handled: of any table, for any window and any changes.
THEOREM CacheIsAStretch == Spec => []RowsAreAStretch
  <1>1. CopyInv /\ StretchInv => RowsAreAStretch
    BY DEF CopyInv, StretchInv, RowsAreAStretch
  <1>2. Spec => []StretchInv
    BY InitStretch, StretchStep, CopyCorrect, PTL DEF Spec
  <1>3. QED
    BY CopyCorrect, <1>1, <1>2, PTL
================================================================================
