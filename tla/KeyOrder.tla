------------------------------ MODULE KeyOrder ------------------------------
(***************************************************************************)
(* The order of the registrations of a subscription                        *)
(* (Subscription.cpp, RegistrationKey::operator< and what it calls): what  *)
(* the multisets, and so the sharing of sinks, rest on.                    *)
(*                                                                         *)
(* IDs, names and property sets are numbers, in the order of their bytes.  *)
(* An exception ends the process, as the comparison is noexcept.           *)
(***************************************************************************)
EXTENDS TableDirectives

CONSTANT TypeRank   \* enum PropType: the place of each type

\* A property ID is [id, named], and a named one [propset, id, name]; what the client
\* left out is Absent.  Well formed, it has one of each two.
OneOf(a, b) == (a = Absent) # (b = Absent)

WellFormed(p) ==
  /\ OneOf(p.id, p.named)
  /\ p.named # Absent => p.named.propset # Absent /\ OneOf(p.named.id, p.named.name)

Optionally(S) == {Absent} \cup S

NamedIds == [propset : Int, id : Optionally(Int), name : Optionally(Int)]
PropIds  == {p \in [id : Optionally(Int), named : Optionally(NamedIds)] : WellFormed(p)}

KeyColumns == [property : PropIds, type : DOMAIN TypeRank]
KeyOrders  == [property : PropIds, type : DOMAIN TypeRank, descending : BOOLEAN]

\* What requests parse to.
RequestKeys ==
  [objectId   : [storeId : Int, objectId : Int],
   directives : [seek : {Absent, Null} \cup Int, offset : Optionally(Int), take : Optionally(Int),
                 columns : Optionally(Seq(KeyColumns)), orderBy : Optionally(Seq(KeyOrders))]]

ASSUME TypeRankAssumption ==
  \A s, t \in DOMAIN TypeRank : TypeRank[s] \in Int /\ (TypeRank[s] = TypeRank[t] => s = t)

ASSUME NoValueAssumption ==
  /\ Absent # Null
  /\ Absent \notin Int /\ Null \notin Int /\ Absent \notin NamedIds
  /\ \A list \in {Absent, Null} : list \notin Seq(KeyColumns) /\ list \notin Seq(KeyOrders)
-----------------------------------------------------------------------------
\* The CFRts for one pair of alternatives, first or second, of l and of r.
PairThrows(l1, l2, r1, r2) ==
  \/ l1 # Absent /\ r1 = Absent /\ (l2 # Absent \/ r2 = Absent)
  \/ l1 = Absent /\ r1 # Absent /\ (l2 = Absent \/ r2 # Absent)
  \/ l1 = Absent /\ r1 = Absent /\ Absent \in {l2, r2}

\* The CFRts of operator<(PropIdInput): a propset that is no text is Absent here.
CompareThrows(l, r) ==
  \/ PairThrows(l.id, l.named, r.id, r.named)
  \/ /\ l.id = Absent /\ r.id = Absent
     /\ \/ Absent \in {l.named.propset, r.named.propset}
        \/ /\ l.named.propset = r.named.propset
           /\ PairThrows(l.named.id, l.named.name, r.named.id, r.named.name)

\* Names come before IDs, in either pair.
NamedLess(l, r) ==
  \/ l.propset < r.propset
  \/ /\ l.propset = r.propset
     /\ \/ l.id = Absent /\ r.id # Absent
        \/ l.id # Absent /\ r.id # Absent /\ l.id < r.id
        \/ l.id = Absent /\ r.id = Absent /\ l.name < r.name

\* Mutant of PropLess: IDs come before names, but not after IDs.
PropLessIdsFirst(l, r) ==
  \/ l.id # Absent
  \/ l.id = Absent /\ r.id = Absent /\ NamedLess(l.named, r.named)

PropLess(l, r) ==
  \/ l.id = Absent /\ r.id # Absent
  \/ l.id # Absent /\ r.id # Absent /\ l.id < r.id
  \/ l.id = Absent /\ r.id = Absent /\ NamedLess(l.named, r.named)

ColumnLess(l, r) ==
  \/ TypeRank[l.type] < TypeRank[r.type]
  \/ l.type = r.type /\ PropLess(l.property, r.property)

\* Descending orders come first.
OrderLess(l, r) ==
  \/ l.descending /\ ~r.descending
  \/ l.descending = r.descending /\ ColumnLess(l, r)

\* operator< of two vectors.
ColumnsLess(l, r) ==
  \E n \in 1..(Len(l) + 1) :
    /\ n <= Len(r)
    /\ \A m \in 1..(n - 1) : ~ColumnLess(l[m], r[m]) /\ ~ColumnLess(r[m], l[m])
    /\ n <= Len(l) => ColumnLess(l[n], r[n])

OrdersLess(l, r) ==
  \E n \in 1..(Len(l) + 1) :
    /\ n <= Len(r)
    /\ \A m \in 1..(n - 1) : ~OrderLess(l[m], r[m]) /\ ~OrderLess(r[m], l[m])
    /\ n <= Len(l) => OrderLess(l[n], r[n])
-----------------------------------------------------------------------------
\* CompareDirectives: no directive, then no argument, then by value.  less and greater
\* compare the values, when both are there.
Rank(argument) == IF argument = Absent THEN 0 ELSE IF argument = Null THEN 1 ELSE 2

CompareDirectives(l, r, less, greater) ==
  IF Rank(l) # Rank(r) THEN (IF Rank(l) < Rank(r) THEN -1 ELSE 1)
  ELSE IF Rank(l) # 2 THEN 0
  ELSE IF less THEN -1 ELSE IF greater THEN 1 ELSE 0

\* operator<(ObjectId)
ObjectIdLess(l, r) ==
  \/ l.storeId < r.storeId
  \/ l.storeId = r.storeId /\ l.objectId < r.objectId

Both(l, r) == Rank(l) = 2 /\ Rank(r) = 2

\* How the directives of two keys compare, in the order they are looked at.
Comparisons(l, r) ==
  << CompareDirectives(l.offset, r.offset, Both(l.offset, r.offset) /\ l.offset < r.offset,
                       Both(l.offset, r.offset) /\ r.offset < l.offset),
     CompareDirectives(l.take, r.take, Both(l.take, r.take) /\ l.take < r.take,
                       Both(l.take, r.take) /\ r.take < l.take),
     CompareDirectives(l.seek, r.seek, Both(l.seek, r.seek) /\ l.seek < r.seek,
                       Both(l.seek, r.seek) /\ r.seek < l.seek),
     CompareDirectives(l.columns, r.columns,
                       Both(l.columns, r.columns) /\ ColumnsLess(l.columns, r.columns),
                       Both(l.columns, r.columns) /\ ColumnsLess(r.columns, l.columns)),
     CompareDirectives(l.orderBy, r.orderBy,
                       Both(l.orderBy, r.orderBy) /\ OrdersLess(l.orderBy, r.orderBy),
                       Both(l.orderBy, r.orderBy) /\ OrdersLess(r.orderBy, l.orderBy)) >>

\* RegistrationKey::operator<
KeyLess(l, r) ==
  \/ ObjectIdLess(l.objectId, r.objectId)
  \/ /\ ~ObjectIdLess(r.objectId, l.objectId)
     /\ LET c == Comparisons(l.directives, r.directives) IN
        \E i \in 1..5 : c[i] = -1 /\ \A j \in 1..(i - 1) : c[j] = 0
=============================================================================
