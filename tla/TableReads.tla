----------------------------- MODULE TableReads -----------------------------
(***************************************************************************)
(* Fields of a table read one after another, what the windows they get     *)
(* must be (schema/mapi.graphql, the directives), and when they fail.      *)
(***************************************************************************)
EXTENDS TableDirectives, FiniteSets

CONSTANTS
  Ids,             \* of rows
  IdTexts,         \* IDs as a client writes them, as text
  Columns,         \* what may be asked for as a column or an order
  DefaultColumns,  \* of the class that reads
  DefaultOrder,
  Requests,        \* the directives that fields may have
  Tables           \* the tables they may meet

ASSUME AbsentAssumption ==
  /\ Absent # Null
  /\ \A none \in {Absent, Null} : none \notin Int /\ none \notin Ids \cup IdTexts
  /\ IdTexts \cap Ids = {}
  /\ Absent \notin Seq(Columns)

ASSUME ColumnsAssumption ==
  /\ \A column \in Columns : column.form \in {"id", "named", "malformed"}
  /\ DefaultColumns \in Seq(Columns)

ASSUME RequestsAssumption ==
  Requests \subseteq [seek : {Absent, Null} \cup Ids \cup IdTexts,
                      offset : {Absent} \cup Int, take : {Absent} \cup Int,
                      columns : {Absent} \cup Seq(Columns), orderBy : {Absent} \cup Seq(Columns)]

\* A table has no row twice, in whatever order it may be asked for.
ASSUME TablesAssumption ==
  \A table \in Tables, d \in Requests \cup {NoDirectives} :
    LET rows == table[orderBy(d, DefaultOrder)] IN rows \in Seq(Ids) /\ IsInjective(rows)

VARIABLES
  sorted, hasStore,
  directives,  \* of the last field
  failed,      \* its lookups of names that MAPI failed
  result

vars == <<sorted, hasStore, directives, failed, result>>

Ask(d, f) ==
  IF terminates(d, hasStore, f) THEN Terminated
  ELSE read(d, sorted, hasStore, f, DefaultColumns, DefaultOrder)

Init ==
  /\ sorted \in Tables
  /\ hasStore \in BOOLEAN
  /\ directives = NoDirectives
  /\ failed = {}
  /\ result = Ask(NoDirectives, {})

Read ==
  /\ result.alive
  /\ \E d \in Requests : \E f \in SUBSET Lookups(d, hasStore) :
       directives' = d /\ failed' = f /\ result' = Ask(d, f)
  /\ UNCHANGED <<sorted, hasStore>>

Rows == sorted[orderBy(directives, DefaultOrder)]
-----------------------------------------------------------------------------
\* Positions of the window.  Where it begins and to which side it goes are the words of the
\* schema (530-537): at the row sought, or after the last row, or before the first; `offset`
\* rows on, within the table; then rows that follow, or that precede if `take` is negative.
\* How many is the program's rule: at most |take| rows and at most a page, and a page if
\* `take` is absent or 0.  (The schema's "maximum of `count` elements" would be none for 0.)
Anchor ==
  CASE directives.seek = Absent -> 0
    [] directives.seek = Null   -> Len(Rows)
    [] OTHER -> Cardinality({i \in DOMAIN Rows :
                               \E j \in DOMAIN Rows : i < j /\ Rows[j] = directives.seek})

Distance(m, n) == IF m < n THEN n - m ELSE m - n

Start ==
  LET wanted == Anchor + (IF directives.offset = Absent THEN 0 ELSE directives.offset)
  IN  CHOOSE s \in 0..Len(Rows) : \A t \in 0..Len(Rows) : Distance(s, wanted) <= Distance(t, wanted)

Positions ==
  {p \in DOMAIN Rows :
     IF directives.take = Absent \/ directives.take = 0
     THEN Start < p /\ p <= Start + PageSize
     ELSE \/ Start < p /\ p <= Start + directives.take /\ p <= Start + PageSize
          \/ Start >= p /\ p > Start + directives.take /\ p > Start - PageSize}

\* A read returns the rows of its window, each once and in the order asked for, whatever
\* mix of seek, offset and take selects it; and never more than a take other than 0 asks for.
ReadIsWindow ==
  result.ok =>
    /\ Len(result.rows) = Cardinality(Positions)
    /\ ToSet(result.rows) = {Rows[p] : p \in Positions}
    /\ \A i, j \in DOMAIN result.rows : i < j =>
         \E p, q \in Positions : p < q /\ Rows[p] = result.rows[i] /\ Rows[q] = result.rows[j]
    /\ directives.take \notin {Absent, 0} =>
         Len(result.rows) <= (IF directives.take < 0 THEN -directives.take ELSE directives.take)

\* The columns a constructor finds by DefaultColumn index are where it looks for
\* them, whatever columns the client adds.
DefaultColumnsInPlace ==
  result.ok =>
    \A i \in DOMAIN DefaultColumns :
      i \in DOMAIN result.columns /\ result.columns[i] = DefaultColumns[i]

\* Properties a client may ask for in vain: malformed ones, and named ones if the lookup
\* fails.
InVain(list, call) ==
  list # Absent /\ \E i \in DOMAIN list :
    list[i].form = "malformed" \/ (list[i].form = "named" /\ call \in failed)

\* The process ends only if a request with both lists has a property asked for in vain, and
\* only with a store; a read fails for such a property in either list, for a property that
\* is no built-in one where there is no store, for a stream as a column, and for a row that
\* is not there, and for nothing else as long as the calls of the table succeed.
FailureIsExplained ==
  /\ ~result.alive <=>
       /\ hasStore
       /\ directives.columns \notin {Absent, <<>>} /\ directives.orderBy \notin {Absent, <<>>}
       /\ InVain(directives.columns, "constructor") \/ InVain(directives.orderBy, "constructor")
  /\ ~result.ok <=>
       \/ ~result.alive
       \/ directives.seek \in IdTexts \cup (Ids \ ToSet(Rows))
       \/ InVain(directives.columns, "columns") \/ InVain(directives.orderBy, "orderBy")
       \/ \E list \in {directives.columns, directives.orderBy} :
            list # Absent /\ \E i \in DOMAIN list :
              list[i].type = "STREAM" \/ (list[i].form # "id" /\ ~hasStore)
=============================================================================
