----------------------------- MODULE Operators -----------------------------
(***************************************************************************)
(* The operators of TableDirectives, KeyOrder and PropertyValues, one      *)
(* input after another: the fields of a table (TableReads), keys, values,  *)
(* names and times; and the walk of a selection (Objects).                 *)
(***************************************************************************)
EXTENDS TableReads, KeyOrder, PropertyValues, Objects

CONSTANTS
  Keys,       \* of registrations
  Arguments,  \* values that a client writes
  Names,      \* of properties, as MAPI has them
  Leftovers,  \* what a buffer for a GUID may hold
  Times

ASSUME KeysAssumption == Keys \subseteq RequestKeys

ASSUME ArgumentsAssumption ==
  \A argument \in Arguments :
    LET input == PropValueInput(argument) IN
    /\ input["integer"] \in {Missing} \cup Ints
    /\ input["boolean"] \in {Missing} \cup BOOLEAN
    /\ input["string"] \in {Missing} \cup Texts
    /\ input["guid"] \in {Missing, NotText} \cup GuidTexts
    /\ input["bin"] \in {Missing} \cup EncodedIds

ASSUME NamesAssumption ==
  \A name \in Names :
    IF name.kind = "MNID_ID"
    THEN name \in [guid : GUIDs, kind : {"MNID_ID"}, id : Ints]
    ELSE name \in [guid : GUIDs, kind : {"MNID_STRING"}, id : Texts]

ASSUME LeftoversAssumption == Leftovers \subseteq GUIDs

ASSUME TimesAssumption == Times \subseteq [second : Int, tick : 0..(1000 * TicksPerMillisecond - 1)]

VARIABLE sample

allVars == <<vars, sample, walkVars>>

Nothing == [of |-> "nothing"]

OpInit == Init /\ sample = Nothing /\ WalkInit

Fields == sample = Nothing /\ root = "none" /\ Read /\ UNCHANGED <<sample, walkVars>>

\* The samples and the walk do not depend on the table.
Apart ==
  /\ sample = Nothing /\ directives = NoDirectives
  /\ sorted = (CHOOSE table \in Tables : TRUE) /\ hasStore
  /\ UNCHANGED vars

Sampling == Apart /\ root = "none" /\ UNCHANGED walkVars

Compare ==
  Sampling /\ \E a, b \in Keys : sample' = [of |-> "keys", a |-> a, b |-> b]

Convert == Sampling /\ \E a \in Arguments : sample' = [of |-> "value", argument |-> a]

\* The store keeps the name it was asked for, or its copy of MAPI's.
Name ==
  Sampling /\ \E n \in Names : \E kept \in {n} \cup Copies(n, Leftovers) :
                sample' = [of |-> "name", name |-> n, kept |-> kept]

Clock == Sampling /\ \E t \in Times : sample' = [of |-> "time", time |-> t]

Walk == Apart /\ WalkNext /\ UNCHANGED sample

OpNext == Fields \/ Compare \/ Convert \/ Name \/ Clock \/ Walk

OpSpec == OpInit /\ [][OpNext]_allVars
-----------------------------------------------------------------------------
PropertiesOf(key) ==
  UNION {{list[i].property : i \in DOMAIN list} :
           list \in {Requested(key.directives.columns), Requested(key.directives.orderBy)}}

\* The order of the registrations is a strict total order of what the requests parse
\* to: exactly equal requests tie, so that equal_range finds all of them and nothing
\* else, and no comparison of well-formed properties throws.
KeysAreOrdered ==
  sample.of = "keys" =>
    LET a == sample.a  b == sample.b IN
    /\ ~(KeyLess(a, b) /\ KeyLess(b, a))
    /\ (~KeyLess(a, b) /\ ~KeyLess(b, a)) <=> a = b
    /\ \A c \in Keys : KeyLess(a, b) /\ KeyLess(b, c) => KeyLess(a, c)
    /\ \A p \in PropertiesOf(a), q \in PropertiesOf(b) : ~CompareThrows(p, q)

\* The five numbers of a GUID, each with all its digits.
AllDigits(parts) == [i \in 1..5 |-> Width(<<8, 4, 4, 4, 12>>[i], parts[i])]

\* GUIDs whose text has all their digits.
Whole(guid) == guid.data4[9] # 0 /\ guid.data4[13] # 0

\* What a client reads of a property it wrote.
Expected(kind, given) ==
  CASE kind = "integer" -> Value("IntValue", given)
    [] kind = "boolean" -> Value("BoolValue", given)
    [] kind = "string"  -> Value("StringValue", CString(Replaced(given)))
    [] kind = "guid"    -> Value("GuidValue", AllDigits(given))
    [] kind = "bin"     -> Value("BinaryValue", Encoded(given))

\* An integer, a boolean, a text and a GUID whose text has all its digits come back as they
\* were written, by way of their MAPI type and the class made for it; a binary comes back
\* encoded once more than it was written.  An input with two values, or none, writes nothing.
\* What becomes of a time is the subject of TimesCanBeSet.
ValuesComeBack ==
  sample.of = "value" =>
    LET input == PropValueInput(sample.argument)
        given == Given(input)
        prop  == ConvertPropertyInput(input)
    IN  IF prop = Throws
        THEN Cardinality(given) # 1 \/ given = {"stream"} \/ input["guid"] = NotText
        ELSE IF prop = Undefined
        THEN given = {"time"} \/ given = {"guid"}
        ELSE \E kind \in given :
               /\ given = {kind}
               /\ \/ getValue(prop) = Expected(kind, input[kind])
                  \/ kind = "guid" /\ ~Whole(prop.value)

\* A time comes back from its text, cut to the millisecond; a fraction has three digits,
\* so that whoever reads it as a fraction reads the same.
TimesComeBack ==
  sample.of = "time" =>
    LET text == time_to_string(sample.time) IN
    /\ time_from_string(text) = [sample.time EXCEPT !.tick = @ - (@ % TicksPerMillisecond)]
    /\ Len(text.fraction) \in {0, 3}

\* The name of a property as a client has read it.
AsRead(name) ==
  LET read1 == NamedId(name) IN
  NamedPropInput(IF read1.id.class = "IntId"
                 THEN [propset |-> read1.propset, id |-> read1.id.id]
                 ELSE [propset |-> read1.propset, name |-> read1.id.name])

SameName(name) ==
  [name EXCEPT !.id = IF name.kind = "MNID_ID" THEN @ ELSE Replaced(CString(@))]

\* A client that gives back the name it has read, if the text of its property set has all its
\* digits, names the property with that name where the store was asked for it by name.  Where
\* the store has the name from MAPI, what it gives back agrees with it in the ID or text, and
\* of the GUID in the first four bytes.
WholeNamesComeBack ==
  (sample.of = "name" /\ Whole(sample.kept.guid)) =>
    LET again == ToNameId(AsRead(sample.kept))  same == SameName(sample.name) IN
    /\ sample.kept = sample.name => again = same
    /\ again.kind = same.kind /\ again.id = same.id /\ again.guid.data1 = same.guid.data1

(* What the repository says and the code does not do. *)

\* schema/mapi.graphql:294 "128-bit Guid type", test/GuidTest.cpp:24: a GUID that has been
\* written as text is read as the same GUID, here in a name the store was asked for by name.
NamesComeBack ==
  (sample.of = "name" /\ sample.kept = sample.name) =>
    ToNameId(AsRead(sample.name)) = SameName(sample.name)

\* schema/mapi.graphql:325 "DateTime value, mutually exclusive with all other fields": a time
\* that is given, and nothing else, is what the property is set to.
TimesCanBeSet ==
  sample.of = "value" =>
    LET input == PropValueInput(sample.argument) IN
    Given(input) = {"time"} =>
      ConvertPropertyInput(input) = SPropValue("PT_SYSTIME", time_from_string(input["time"]))
=============================================================================
