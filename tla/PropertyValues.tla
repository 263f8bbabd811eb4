--------------------------- MODULE PropertyValues ---------------------------
(***************************************************************************)
(* A property on its way from a client to MAPI and back: the arguments of  *)
(* a request (schema/MAPISchema.cpp), Store::ConvertPropertyInputs and     *)
(* lookupPropIdInputs, the classes Property, NamedId, IntId, StringId and  *)
(* ...Value, and the conversions of text, GUIDs and times (Unicode.cpp,    *)
(* Guid.cpp, DateTime.cpp).                                                *)
(*                                                                         *)
(* A text is a sequence of characters, a number in a text a sequence of    *)
(* digits.  An outcome that is no value is Throws, or Undefined where the  *)
(* program reads what is not there.                                        *)
(***************************************************************************)
EXTENDS Integers, FiniteSets, SequencesExt

CONSTANTS
  Missing,            \* what the client left out, or gave as null
  Throws, Undefined,
  Characters,
  Nul, Lone, Replacement,  \* U+0000, an unpaired surrogate, U+FFFD
  Binaries,           \* bytes
  NotText,            \* a Guid that is not given as a string
  IntLimit            \* 2^31: int, LONG and ULONG have 32 bits

\* static_cast<int>
ToInt(n) ==
  LET low == n % (2 * IntLimit) IN IF low < IntLimit THEN low ELSE low - 2 * IntLimit

\* static_cast<ULONG>
ToULong(n) == n % (2 * IntLimit)

\* What a property may hold.
Ints      == (-IntLimit)..(IntLimit - 1)
Texts     == Seq(Characters)
Digits    == 0..15
GuidTexts == Seq(Seq(Digits))
GUIDs     == [data1 : [1..8 -> Digits], data2 : [1..4 -> Digits], data3 : [1..4 -> Digits],
              data4 : [1..16 -> Digits]]
ValueTypes == {"PT_LONG", "PT_BOOLEAN", "PT_UNICODE", "PT_CLSID", "PT_SYSTIME", "PT_BINARY"}

\* An ID, in an answer and as a client gives it, is bytes as text.
Encoded(bytes) == [encoded |-> bytes]
EncodedIds     == {Encoded(bytes) : bytes \in Binaries}

Values == Int \cup Texts \cup GuidTexts \cup GUIDs \cup BOOLEAN \cup Binaries \cup EncodedIds

ASSUME IntLimitAssumption == IntLimit \in Nat \ {0}

ASSUME CharactersAssumption ==
  {Nul, Lone, Replacement} \subseteq Characters /\ Nul # Lone /\ Lone # Replacement /\ Replacement # Nul

ASSUME OutcomesAssumption ==
  /\ Throws # Undefined
  /\ \A outcome \in {Missing, Throws, Undefined} :
       /\ outcome \notin Values /\ outcome \notin [type : ValueTypes, value : Values]
       /\ outcome # NotText
  /\ NotText \notin GuidTexts

First(S) == CHOOSE i \in S : \A j \in S : i <= j
-----------------------------------------------------------------------------
(* Unicode.cpp: WideCharToMultiByte and MultiByteToWideChar, without flags, *)
(* replace what is not valid.                                               *)

Replaced(text) == [i \in DOMAIN text |-> IF text[i] = Lone THEN Replacement ELSE text[i]]

to_utf8(text)  == Replaced(text)
to_utf16(text) == Replaced(text)

\* A PCWSTR ends at its first NUL.
CString(text) ==
  LET ends == {i \in DOMAIN text : text[i] = Nul}
  IN  IF ends = {} THEN text ELSE SubSeq(text, 1, First(ends) - 1)
-----------------------------------------------------------------------------
(* Guid.cpp.  A GUID is its hexadecimal digits: data1 has 8, data2 and data3 4, *)
(* data4 two for each of 8 bytes.  Its text is five numbers between dashes.     *)

\* setw(n) with setfill('0'), and what a number of n digits keeps of a longer one.
Width(n, digits) ==
  LET k == Len(digits) IN [i \in 1..n |-> IF i + k > n THEN digits[i + k - n] ELSE 0]

\* A number without a width.
Bare(digits) ==
  LET nonzero == {i \in DOMAIN digits : digits[i] # 0}
  IN  IF nonzero = {} THEN <<0>> ELSE SubSeq(digits, First(nonzero), Len(digits))

Word(guid, n) == SubSeq(guid.data4, 4 * n - 3, 4 * n)

\* to_string: a width is for the next number only, so the last two words have none.
guid_to_string(guid) ==
  << Width(8, guid.data1), Width(4, guid.data2), Width(4, guid.data3),
     Width(4, Word(guid, 1)),
     Width(4, Word(guid, 2)) \o Bare(Word(guid, 3)) \o Bare(Word(guid, 4)) >>

\* Mutant of guid_from_string: the last part is as wide as the others.
guid_from_stringNarrow(parts) ==
  [data1 |-> Width(8, parts[1]), data2 |-> Width(4, parts[2]), data3 |-> Width(4, parts[3]),
   data4 |-> Width(4, parts[4]) \o Width(4, parts[5]) \o Width(8, <<>>)]

\* from_string: a number that is missing or too long for its type ends the reading,
\* and the variables of the later ones are used as they are.
guid_from_string(parts) ==
  LET bits == <<8, 4, 4, 4, 16>>
      reads == Len(parts) = 5 /\ \A i \in 1..5 : Len(parts[i]) > 0 /\ Len(Bare(parts[i])) <= bits[i]
  IN  IF ~reads THEN Undefined
      ELSE [data1 |-> Width(8, parts[1]), data2 |-> Width(4, parts[2]),
            data3 |-> Width(4, parts[3]),
            data4 |-> Width(4, parts[4]) \o Width(12, parts[5])]
-----------------------------------------------------------------------------
(* DateTime.cpp.  A FILETIME is [second, tick], with ten million ticks to a second; *)
(* its text is the second and the digits of a fraction.                             *)

TicksPerMillisecond == 10000

Number(digits) ==
  LET upTo[n \in 0..Len(digits)] == IF n = 0 THEN 0 ELSE 10 * upTo[n - 1] + digits[n]
  IN  upTo[Len(digits)]

Decimal(n) == <<n \div 100, (n \div 10) % 10, n % 10>>

\* Mutant of time_to_string: no width.
time_to_stringBare(ft) ==
  LET ms == ft.tick \div TicksPerMillisecond
  IN  [second |-> ft.second, fraction |-> IF ms = 0 THEN <<>> ELSE Bare(Decimal(ms))]

time_to_string(ft) ==
  LET ms == ft.tick \div TicksPerMillisecond
  IN  [second |-> ft.second, fraction |-> IF ms = 0 THEN <<>> ELSE Decimal(ms)]

\* The fraction is read as a number of milliseconds, however many digits it has.
time_from_string(text) ==
  IF Number(text.fraction) >= 1000 THEN Throws
  ELSE [second |-> text.second, tick |-> Number(text.fraction) * TicksPerMillisecond]
-----------------------------------------------------------------------------
(* Arguments: PropValueInput has a field for each kind of value.             *)

Kinds == {"integer", "boolean", "string", "guid", "time", "bin", "stream"}

Optional(argument, name) == IF name \in DOMAIN argument THEN argument[name] ELSE Missing

PropValueInput(argument) == [kind \in Kinds |-> Optional(argument, kind)]

\* propset must be there.
NamedPropInput(argument) ==
  IF Optional(argument, "propset") = Missing THEN Throws
  ELSE [propset |-> argument.propset, id |-> Optional(argument, "id"),
        name |-> Optional(argument, "name")]
-----------------------------------------------------------------------------
(* To MAPI. *)

Given(value) == {kind \in Kinds : value[kind] # Missing}

\* An SPropValue; no value when a conversion gave none.
SPropValue(type, value) ==
  IF value \in {Throws, Undefined} THEN value ELSE [type |-> type, value |-> value]

\* One branch of ConvertPropertyInputs.  A guid must be a string.  A time is looked for in
\* the guid, which is not there.  The text of an ID is taken for its bytes.  A stream is not
\* implemented.
ConvertKind(kind, value) ==
  CASE kind = "integer" -> SPropValue("PT_LONG", ToInt(value))
    [] kind = "boolean" -> SPropValue("PT_BOOLEAN", IF value THEN 1 ELSE 0)
    [] kind = "string"  -> SPropValue("PT_UNICODE", to_utf16(value))
    [] kind = "guid"    -> IF value = NotText THEN Throws
                           ELSE SPropValue("PT_CLSID", guid_from_string(value))
    [] kind = "time"    -> Undefined
    [] kind = "bin"     -> SPropValue("PT_BINARY", value)
    [] kind = "stream"  -> Throws

\* Mutant of ConvertPropertyInput: an integer excludes nothing.
ConvertPropertyInputLoose(value) ==
  IF "integer" \in Given(value) THEN ConvertKind("integer", value["integer"])
  ELSE IF Cardinality(Given(value)) # 1 THEN Throws
  ELSE LET kind == CHOOSE k \in Given(value) : TRUE IN ConvertKind(kind, value[kind])

\* ConvertPropertyInputs, for one input: each kind of value excludes all others.
ConvertPropertyInput(value) ==
  IF Cardinality(Given(value)) # 1 THEN Throws
  ELSE LET kind == CHOOSE k \in Given(value) : TRUE IN ConvertKind(kind, value[kind])

\* lookupPropIdInputs, for one named property: its ID or its name, and not both.
ToNameId(named) ==
  LET guid == guid_from_string(named.propset) IN
  IF named.propset = NotText \/ ((named.id = Missing) = (named.name = Missing)) THEN Throws
  ELSE IF guid = Undefined THEN Undefined
  ELSE IF named.id # Missing THEN [guid |-> guid, kind |-> "MNID_ID", id |-> named.id]
  ELSE [guid |-> guid, kind |-> "MNID_STRING", id |-> to_utf16(named.name)]

\* What the store keeps of a name that lookupPropIds has got from MAPI: of the GUID only as
\* many bytes as a pointer has, 4 or 8, the other ones being what the buffer held before.
Copies(name, leftovers) ==
  {[name EXCEPT !.guid = [rest EXCEPT !.data1 = name.guid.data1]] : rest \in leftovers}
-----------------------------------------------------------------------------
(* From MAPI: a value is the class that holds it and what the class answers. *)

Value(class, value) == [class |-> class, value |-> value]

StringValue(text) == Value("StringValue", to_utf8(CString(text)))

\* Property::getValue: other types are not implemented, and there is no value.
getValue(prop) ==
  CASE prop.type \in {"PT_I2", "PT_LONG"} -> Value("IntValue", prop.value)
    [] prop.type = "PT_I8"      -> Value("IntValue", ToInt(prop.value))
    [] prop.type = "PT_BOOLEAN" -> Value("BoolValue", prop.value # 0)
    [] prop.type = "PT_STRING8" -> Value("StringValue", CString(prop.value))
    [] prop.type = "PT_UNICODE" -> StringValue(prop.value)
    [] prop.type = "PT_CLSID"   -> Value("GuidValue", guid_to_string(prop.value))
    [] prop.type = "PT_SYSTIME" -> Value("DateTimeValue", time_to_string(prop.value))
    [] prop.type = "PT_BINARY"  -> Value("BinaryValue", Encoded(prop.value))
    [] OTHER -> Missing

IntId(id)      == [class |-> "IntId", id |-> ToInt(ToULong(id))]
StringId(name) == [class |-> "StringId", name |-> to_utf8(CString(name))]

\* NamedId: the property set as text, and the ID or the name.
NamedId(name) ==
  [propset |-> guid_to_string(name.guid),
   id |-> IF name.kind = "MNID_ID" THEN IntId(name.id) ELSE StringId(name.id)]
=============================================================================
