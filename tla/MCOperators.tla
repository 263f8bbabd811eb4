---------------------------- MODULE MCOperators ----------------------------
(***************************************************************************)
(* Operators on small inputs: tables, directives, keys, values, names and  *)
(* times.                                                                  *)
(***************************************************************************)
EXTENDS Operators, TLC

CONSTANTS
  MaxRows,    \* bound: rows of the table
  MaxCount,   \* bound: |count| of @offset and @take
  letter      \* a character

Plain     == [property |-> "subject", type |-> "STRING", form |-> "id"]
Named     == [property |-> "custom",  type |-> "INT",    form |-> "named"]
Stream    == [property |-> "body",    type |-> "STREAM", form |-> "id"]
Malformed == [property |-> "both",    type |-> "INT",    form |-> "malformed"]

MCDefaultColumns == [i \in 1..2 |->
  [property |-> <<"Id", "InstanceKey">>[i], type |-> "ID", form |-> "id"]]
MCDefaultOrder == <<[property |-> "received", type |-> "DATETIME", form |-> "id"]>>

MCColumns == {Plain, Named, Stream, Malformed} \cup ToSet(MCDefaultColumns)

MCIds == 1..(MaxRows + 1)
MCIdTexts == {-1}

\* Row IDs are 1..n in the default order, and backwards in any other.
MCTables == {[o \in {MCDefaultOrder, <<Plain>>, <<Named>>, <<Stream>>, <<Malformed>>} |->
                IF o = MCDefaultOrder
                THEN [i \in 1..n |-> i]
                ELSE [i \in 1..n |-> n + 1 - i]] : n \in 0..MaxRows}

Counts == {Absent} \cup (-MaxCount..MaxCount)

\* Windows with the default columns and order ...
Windows ==
  [seek : {Absent, Null} \cup MCIds, offset : Counts, take : Counts,
   columns : {Absent}, orderBy : {Absent}]

\* ... and columns and orders of the whole table.
Projections ==
  [seek : {Absent, Null, 1} \cup MCIdTexts, offset : {Absent}, take : {Absent},
   columns : {Absent, <<>>, <<Plain, Named>>, <<Stream>>, <<Malformed, Plain>>},
   orderBy : {Absent, <<>>, <<Plain>>, <<Named>>, <<Stream>>, <<Malformed>>}]

MCRequests == Windows \cup Projections
-----------------------------------------------------------------------------
MCTypeRank == [INT |-> 0, STRING |-> 2]

ById(n) == [id |-> n, named |-> Absent]
ByNameId(set, n) == [id |-> Absent, named |-> [propset |-> set, id |-> n, name |-> Absent]]
ByName(set, n) == [id |-> Absent, named |-> [propset |-> set, id |-> Absent, name |-> n]]

Properties == {ById(1), ById(2), ByNameId(1, 1), ByName(1, 1), ByName(1, 2), ByName(2, 1)}

AColumn(p, type) == [property |-> p, type |-> type]
AnOrder(p, type, descending) == [property |-> p, type |-> type, descending |-> descending]

ColumnLists ==
  {Absent, <<>>} \cup {<<AColumn(p, "INT")>> : p \in Properties}
    \cup {<<AColumn(ById(1), "INT"), AColumn(p, "STRING")>> : p \in {ById(1), ByName(1, 1)}}
    \cup {<<AColumn(ById(1), "STRING")>>}

OrderLists ==
  {Absent, <<>>} \cup {<<AnOrder(ById(1), t, d)>> : t \in {"INT", "STRING"}, d \in BOOLEAN}

Small == {Absent, 0, 1}

Key(o, d) == [objectId |-> [storeId |-> o[1], objectId |-> o[2]], directives |-> d]

MCKeys ==
  {Key(o, NoDirectives) : o \in {<<1, 1>>, <<1, 2>>, <<2, 1>>}} \cup
  {Key(<<1, 1>>, [NoDirectives EXCEPT !.offset = n, !.take = m, !.seek = s]) :
     n \in Small, m \in Small, s \in {Absent, Null, 1}} \cup
  {Key(<<1, 1>>, [NoDirectives EXCEPT !.columns = cs, !.take = m]) : cs \in ColumnLists, m \in {Absent, 1}} \cup
  {Key(<<1, 1>>, [NoDirectives EXCEPT !.orderBy = os, !.columns = cs]) :
     os \in OrderLists, cs \in {Absent, <<>>}}
-----------------------------------------------------------------------------
\* GUIDs that differ in where they have zeros: in their last word, and before it.
Times4(d) == [i \in 1..4 |-> d]
Guid(first, third, last) ==
  [data1 |-> Times4(first) \o Times4(first), data2 |-> Times4(7), data3 |-> Times4(first),
   data4 |-> Times4(first) \o Times4(first) \o third \o last]
SomeGuids == {Guid(f, t, l) : f \in {0, 10}, t \in {<<11, 0, 12, 0>>, <<0, 0, 1, 2>>},
                              l \in {<<1, 2, 3, 4>>, <<0, 5, 0, 0>>, <<0, 0, 0, 0>>}}

\* The text of a GUID, with all its digits.
Text(guid) ==
  <<guid.data1, guid.data2, guid.data3, SubSeq(guid.data4, 1, 4), SubSeq(guid.data4, 5, 16)>>

SomeTexts == UNION {[1..n -> {letter, Nul, Lone}] : n \in 0..2}

MCCharacters == {letter, Nul, Lone, Replacement}
MCBinaries == {letter}

Given1 ==
  {"integer" :> n : n \in {Missing} \cup Ints} \cup {"boolean" :> b : b \in BOOLEAN}
    \cup {"string" :> t : t \in SomeTexts} \cup {"guid" :> Text(g) : g \in SomeGuids}
    \cup {"guid" :> g : g \in {<<>>, <<<<1>>, <<>>, <<1>>, <<1>>, <<1>>>>,
                               <<<<1>>, <<0, 1, 1, 1, 1>>, <<1>>, <<1>>, Times4(1) \o Times4(2) \o Times4(3) \o <<4>>>>,
                               <<<<1>>, <<1, 1, 1, 1, 1>>, <<1>>, <<1>>, <<1>>>>}}
    \cup {"guid" :> NotText, "time" :> [second |-> 0, fraction |-> <<5>>],
          "bin" :> Encoded(letter), "stream" :> letter, "none" :> letter}

MCArguments == Given1 \cup {a @@ b : a \in Given1, b \in Given1}

MCNames == [guid : SomeGuids, kind : {"MNID_ID"}, id : Ints] \cup
           [guid : SomeGuids, kind : {"MNID_STRING"}, id : SomeTexts]

MCLeftovers == {Guid(10, <<11, 0, 12, 0>>, <<0, 5, 0, 0>>), Guid(0, <<0, 0, 1, 2>>, <<1, 2, 3, 4>>)}

MCTimes == [second : {0}, tick : {k * 10000 + r : k \in {0, 1, 75, 500, 999}, r \in {0, 1, 9999}}]
=============================================================================
