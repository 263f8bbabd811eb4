--------------------------- MODULE TableDirectives ---------------------------
(***************************************************************************)
(* The window of a MAPI table that a field's directives select: class      *)
(* TableDirectives (TableDirectives.cpp), and the calls of IMAPITable it   *)
(* makes (external).  Every list the service returns, and the rows every   *)
(* subscription starts from, are read here.                                *)
(*                                                                         *)
(* A table is given as what SortTable can make of it: sorted[o] is its     *)
(* rows, a sequence of IDs, under the sort order o.                        *)
(***************************************************************************)
EXTENDS Integers, SequencesExt

CONSTANTS
  Absent,    \* a directive the field does not have
  Null,      \* @seek(id: null)
  PageSize   \* 50

ASSUME PageSizeAssumption == PageSize \in Nat \ {0}

\* What read() may be asked: the directives of a field.
NoDirectives == [seek |-> Absent, offset |-> Absent, take |-> Absent,
                 columns |-> Absent, orderBy |-> Absent]

Clamp(low, n, high) == IF n < low THEN low ELSE IF n > high THEN high ELSE n
-----------------------------------------------------------------------------
(* IMAPITable (external).  A cursor is the number of rows before it. *)

BookmarkAt(bookmark, current, rows) ==
  CASE bookmark = "BEGINNING" -> 0
    [] bookmark = "CURRENT"   -> current
    [] bookmark = "END"       -> Len(rows)

\* FindRow from the beginning, for a row that is there.
FindRow(id, rows) == SelectInSeq(rows, LAMBDA row : row = id) - 1

\* SeekRow stops at either end of the table.
SeekRow(cursor, count, rows) == Clamp(0, cursor + count, Len(rows))

\* QueryRows takes rows after the cursor, or before it when count is negative.
QueryRows(cursor, count, rows) ==
  IF count >= 0
  THEN SubSeq(rows, cursor + 1, Clamp(0, cursor + count, Len(rows)))
  ELSE SubSeq(rows, Clamp(0, cursor + count, Len(rows)) + 1, cursor)
-----------------------------------------------------------------------------
(* TableDirectives *)

seekBookmark(d) ==
  IF d.seek = Absent THEN "BEGINNING" ELSE IF d.seek = Null THEN "END" ELSE "CURRENT"

offset(d) == IF d.offset = Absent THEN 0 ELSE d.offset

\* Mutant of take: capped above, not below.
takeCapped(d) ==
  IF d.take = Absent \/ d.take = 0 THEN PageSize
  ELSE IF d.take > PageSize THEN PageSize ELSE d.take

take(d) ==
  IF d.take = Absent \/ d.take = 0 THEN PageSize ELSE Clamp(-PageSize, d.take, PageSize)

\* A column or a sort order is a record [property, type, form]: its property is given by
\* "id" or is "named", or it is "malformed", with both or neither of the two, or of the ID
\* and the name of a named one, or with a property set that is no text.

\* Mutant of Resolvable: no named property at all.
ResolvableUnnamed(property, hasStore, found) == property.form = "id"

\* lookupPropIdInputs, or what is done without a store: a named property needs a store, and
\* GetIDsFromNames not to fail.  (A name unknown to MAPI resolves: its column is PR_NULL.)
Resolvable(property, hasStore, found) ==
  \/ property.form = "id"
  \/ property.form = "named" /\ hasStore /\ found

Requested(list) == IF list = Absent THEN <<>> ELSE list

CanResolve(list, hasStore, found) ==
  \A i \in DOMAIN Requested(list) : Resolvable(Requested(list)[i], hasStore, found)

\* STREAM is no type of a column.
HasTypes(list) == \A i \in DOMAIN Requested(list) : Requested(list)[i].type # "STREAM"

\* The lookups of named properties that a field makes, each with one GetIDsFromNames: the
\* constructor's for both lists, if both are there, and one for each list as it is used.
IsNamed(list) == \E i \in DOMAIN Requested(list) : Requested(list)[i].form = "named"

ResolvesBoth(d, hasStore) ==
  hasStore /\ Requested(d.columns) # <<>> /\ Requested(d.orderBy) # <<>>

Lookups(d, hasStore) ==
  {call \in {"constructor", "columns", "orderBy"} :
     /\ hasStore
     /\ CASE call = "constructor" -> /\ ResolvesBoth(d, hasStore)
                                     /\ IsNamed(d.columns) \/ IsNamed(d.orderBy)
          [] call = "columns" -> IsNamed(d.columns)
          [] call = "orderBy" -> IsNamed(d.orderBy)}

\* The constructor is noexcept: if its lookup throws, the process ends.
terminates(d, hasStore, failed) ==
  /\ ResolvesBoth(d, hasStore)
  /\ ~(/\ CanResolve(d.columns, TRUE, "constructor" \notin failed)
       /\ CanResolve(d.orderBy, TRUE, "constructor" \notin failed))

\* Mutant of columns: the requested columns come first.
columnsRequestedFirst(d, defaultColumns) == Requested(d.columns) \o defaultColumns

\* The default columns keep their places, the requested ones follow.
columns(d, defaultColumns) == defaultColumns \o Requested(d.columns)

\* A requested order replaces the default one; an empty one does not.
orderBy(d, defaultOrder) ==
  IF Requested(d.orderBy) = <<>> THEN defaultOrder ELSE d.orderBy

\* seek(): a restriction to search for, only with an ID.
seeks(d) == d.seek \notin {Absent, Null}

Failure    == [ok |-> FALSE, alive |-> TRUE, columns |-> <<>>, rows |-> <<>>]
Terminated == [Failure EXCEPT !.alive = FALSE]

\* read(): columns and order must resolve and the row sought must be there, or it throws;
\* then SetColumns, SortTable, FindRow, SeekRow, QueryRows.  An ID that is given as text is
\* sought as that text, and no row has it.
read(d, sorted, hasStore, failed, defaultColumns, defaultOrder) ==
  LET rows   == sorted[orderBy(d, defaultOrder)]
      found  == IF seeks(d) THEN FindRow(d.seek, rows) ELSE 0
      cursor == SeekRow(BookmarkAt(seekBookmark(d), found, rows), offset(d), rows)
  IN  IF /\ CanResolve(d.columns, hasStore, "columns" \notin failed) /\ HasTypes(d.columns)
         /\ CanResolve(d.orderBy, hasStore, "orderBy" \notin failed) /\ HasTypes(d.orderBy)
         /\ seeks(d) => d.seek \in ToSet(rows)
      THEN [ok      |-> TRUE,
            alive   |-> TRUE,
            columns |-> columns(d, defaultColumns),
            rows    |-> QueryRows(cursor, take(d), rows)]
      ELSE Failure
=============================================================================
