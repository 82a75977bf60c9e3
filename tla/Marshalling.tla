---------------------------- MODULE Marshalling ----------------------------
(***************************************************************************)
(* The value marshalling of one column (interface/src/data.rs, func.rs):   *)
(* the annotation's type name becomes a gs_type_t through From<&String>    *)
(* (col_data_convert), the engine hands a fetched value back as text, and  *)
(* table_fetch_data decodes it by dispatching on as_string() of the type.  *)
(* A gs_type_t is its repr(C) discriminant.                                *)
(*                                                                         *)
(* Integer widths are scaled by ByteBits bits per byte (8 in the program), *)
(* so that the i32 boundary of parse::<i32> stays within TLC's integers.   *)
(***************************************************************************)
EXTENDS Integers, FiniteSets

CONSTANTS
  TypeNames,   \* "types" strings an entity's #[column] annotation may give
  TextVals,    \* contents of non-integer columns
  ByteBits     \* bits per byte of the scaled integer widths

ASSUME ByteBits \in Nat \ {0}

\* The match arms of gs_type_t::as_string, discriminant |-> name.
AsStringArms ==
  { <<-1, "UNKNOWN">>, <<20000, "BASE">>, <<20001, "INTEGER">>, <<20002, "BIGINT">>,
    <<20003, "REAL">>, <<20004, "NUMBER">>, <<20005, "DECIMAL">>, <<20006, "DATE">>,
    <<20007, "TIMESTAMP">>, <<20008, "CHAR">>, <<20009, "VARCHAR">>, <<20010, "STRING">>,
    <<20011, "BINARY">>, <<20012, "VARBINARY">>, <<20013, "CLOB">>, <<20014, "BLOB">>,
    <<20015, "CURSOR">>, <<20016, "COLUMN">>, <<20017, "BOOLEAN">>,
    <<20018, "TIMESTAMP_TZ_FAKE">>, <<20019, "TIMESTAMP_LTZ">>, <<20020, "INTERVAL">>,
    <<20021, "INTERVAL_YM">>, <<20022, "INTERVAL_DS">>, <<20023, "RAW">>, <<20024, "IMAGE">>,
    <<20025, "UINT32">>, <<20026, "UINT64">>, <<20027, "SMALLINT">>, <<20028, "USMALLINT">>,
    <<20029, "TINYINT">>, <<20030, "UTINYINT">>, <<20031, "FLOAT">>, <<20032, "TIMESTAMP_TZ">>,
    <<20033, "ARRAY">>, <<20040, "OPERAND_CEIL">>, <<20041, "RECORD">>,
    <<20042, "COLLECTION">>, <<20043, "OBJECT">>, <<20044, "_DO_NOT_USE">>,
    <<20200, "FUNC_BASE">>, <<20201, "TYPMODE">>, <<20202, "VM_ROWID">>,
    <<20203, "ITVL_UNIT">>, <<20204, "UNINITIALIZED">>, <<20205, "NATIVE_DATE">>,
    <<20206, "NATIVE_TIMESTAMP">>, <<20207, "LOGIC_TRUE">> }

\* The discriminants of enum gs_type_t.
GsType == {arm[1] : arm \in AsStringArms}
GS_TYPE_UNKNOWN == -1

AsString(t) == (CHOOSE arm \in AsStringArms : arm[1] = t)[2]

\* Mutant: the UINT32 and UINT64 arms return each other's tag.
FromArmsSwapped ==
  { <<"UNKNOWN", -1>>, <<"BASE", 20000>>, <<"INTEGER", 20001>>, <<"BIGINT", 20002>>,
    <<"REAL", 20003>>, <<"NUMBER", 20004>>, <<"DECIMAL", 20005>>, <<"DATE", 20006>>,
    <<"TIMESTAMP", 20007>>, <<"CHAR", 20008>>, <<"VARCHAR", 20009>>, <<"STRING", 20010>>,
    <<"BINARY", 20011>>, <<"VARBINARY", 20012>>, <<"CLOB", 20013>>, <<"BLOB", 20014>>,
    <<"CURSOR", 20015>>, <<"COLUMN", 20016>>, <<"BOOLEAN", 20017>>,
    <<"TIMESTAMP_TZ_FAKE", 20018>>, <<"TIMESTAMP_LTZ", 20019>>, <<"INTERVAL", 20020>>,
    <<"INTERVAL_YM", 20021>>, <<"INTERVAL_DS", 20022>>, <<"RAW", 20023>>, <<"IMAGE", 20024>>,
    <<"UINT32", 20026>>, <<"UINT64", 20025>>, <<"SMALLINT", 20027>>, <<"USMALLINT", 20028>>,
    <<"TINYINT", 20029>>, <<"UTINYINT", 20030>>, <<"FLOAT", 20031>>, <<"TIMESTAMP_TZ", 20032>>,
    <<"ARRAY", 20033>>, <<"OPERAND_CEIL", 20040>>, <<"RECORD", 20041>>,
    <<"COLLECTION", 20042>>, <<"OBJECT", 20043>>, <<"_DO_NOT_USE", 20044>>,
    <<"FUNC_BASE", 20200>>, <<"TYPMODE", 20201>>, <<"VM_ROWID", 20202>>,
    <<"ITVL_UNIT", 20203>>, <<"UNINITIALIZED", 20204>>, <<"NATIVE_DATE", 20205>>,
    <<"NATIVE_TIMESTAMP", 20206>>, <<"LOGIC_TRUE", 20207>> }

\* The named match arms of From<&String> for gs_type_t, name |-> discriminant.
FromArms ==
  { <<"UNKNOWN", -1>>, <<"BASE", 20000>>, <<"INTEGER", 20001>>, <<"BIGINT", 20002>>,
    <<"REAL", 20003>>, <<"NUMBER", 20004>>, <<"DECIMAL", 20005>>, <<"DATE", 20006>>,
    <<"TIMESTAMP", 20007>>, <<"CHAR", 20008>>, <<"VARCHAR", 20009>>, <<"STRING", 20010>>,
    <<"BINARY", 20011>>, <<"VARBINARY", 20012>>, <<"CLOB", 20013>>, <<"BLOB", 20014>>,
    <<"CURSOR", 20015>>, <<"COLUMN", 20016>>, <<"BOOLEAN", 20017>>,
    <<"TIMESTAMP_TZ_FAKE", 20018>>, <<"TIMESTAMP_LTZ", 20019>>, <<"INTERVAL", 20020>>,
    <<"INTERVAL_YM", 20021>>, <<"INTERVAL_DS", 20022>>, <<"RAW", 20023>>, <<"IMAGE", 20024>>,
    <<"UINT32", 20025>>, <<"UINT64", 20026>>, <<"SMALLINT", 20027>>, <<"USMALLINT", 20028>>,
    <<"TINYINT", 20029>>, <<"UTINYINT", 20030>>, <<"FLOAT", 20031>>, <<"TIMESTAMP_TZ", 20032>>,
    <<"ARRAY", 20033>>, <<"OPERAND_CEIL", 20040>>, <<"RECORD", 20041>>,
    <<"COLLECTION", 20042>>, <<"OBJECT", 20043>>, <<"_DO_NOT_USE", 20044>>,
    <<"FUNC_BASE", 20200>>, <<"TYPMODE", 20201>>, <<"VM_ROWID", 20202>>,
    <<"ITVL_UNIT", 20203>>, <<"UNINITIALIZED", 20204>>, <<"NATIVE_DATE", 20205>>,
    <<"NATIVE_TIMESTAMP", 20206>>, <<"LOGIC_TRUE", 20207>> }

\* From<&String>: the named arm, or `_ => GS_TYPE_UNKNOWN`.
FromString(s) ==
  IF \E arm \in FromArms : arm[1] = s
  THEN (CHOOSE arm \in FromArms : arm[1] = s)[2]
  ELSE GS_TYPE_UNKNOWN

\* The integer-width tags and their widths in bytes, from the comments of
\* enum gs_type_t ("native 32 bits integer", "unsigned bigint", ...).
IntWidths ==
  { [t |-> 20001, signed |-> TRUE, bytes |-> 4], [t |-> 20002, signed |-> TRUE, bytes |-> 8],
    [t |-> 20025, signed |-> FALSE, bytes |-> 4], [t |-> 20026, signed |-> FALSE, bytes |-> 8],
    [t |-> 20027, signed |-> TRUE, bytes |-> 2], [t |-> 20028, signed |-> FALSE, bytes |-> 2],
    [t |-> 20029, signed |-> TRUE, bytes |-> 1], [t |-> 20030, signed |-> FALSE, bytes |-> 1] }
IntegerTags == {w.t : w \in IntWidths}

Lo(w) == IF w.signed THEN -(2^(w.bytes * ByteBits - 1)) ELSE 0
Hi(w) == IF w.signed THEN 2^(w.bytes * ByteBits - 1) - 1 ELSE 2^(w.bytes * ByteBits) - 1

\* The values parse::<i32> accepts.
I32 == Lo([signed |-> TRUE, bytes |-> 4]) .. Hi([signed |-> TRUE, bytes |-> 4])

\* Fetched column text: the decimal text of an integer n, or other text.
IntText == [kind : {"int"}, n : Int]
PlainText == [kind : {"text"}, s : TextVals]

\* What the engine hands back for a column of type t: an integer column the
\* decimal text of a value of its range (its bounds, 0, and the values just
\* past the i32 range), any other column some text.
FetchedValues(t) ==
  IF t \in IntegerTags
  THEN LET w == CHOOSE x \in IntWidths : x.t = t
           probe == {Lo(w), Hi(w), 0, Lo([signed |-> TRUE, bytes |-> 4]) - 1,
                     Hi([signed |-> TRUE, bytes |-> 4]) + 1}
       IN {[kind |-> "int", n |-> n] : n \in probe \cap Lo(w)..Hi(w)}
  ELSE PlainText

\* The match on col_type.as_string() in table_fetch_data: "VARCHAR" and `_`
\* give Value::String(val); "BIGINT" gives Value::Number of
\* val.parse::<i32>().unwrap(), which panics when val is not an i32.
DecodeValue(name, v) ==
  IF name # "BIGINT" THEN [kind |-> "string", src |-> v]
  ELSE IF v.kind = "int" /\ v.n \in I32 THEN [kind |-> "number", src |-> v]
  ELSE [kind |-> "panic", src |-> v]

-----------------------------------------------------------------------------

VARIABLES
  types,     \* the column's "types" string in the entity annotation
  colType,   \* exp_column_def_t.col_type handed to the engine
  fetched,   \* the column's text in a row returned by cursor_fetch
  decoded,   \* the serde_json value table_fetch_data put in the row
  phase      \* how far the column has travelled

vars == <<types, colType, fetched, decoded, phase>>

NoText == [kind |-> "none"]

Init ==
  /\ types \in TypeNames
  /\ colType = GS_TYPE_UNKNOWN
  /\ fetched = NoText
  /\ decoded = [kind |-> "none", src |-> NoText]
  /\ phase = "declared"

\* col_data_convert: col_type = gs_type_t::from(&column.types).
ColDataConvert ==
  /\ phase = "declared"
  /\ colType' = FromString(types)
  /\ phase' = "created"
  /\ UNCHANGED <<types, fetched, decoded>>

\* The engine stores and returns a value of the column, or refuses a column
\* of unknown type.
EngineFetch ==
  /\ phase = "created"
  /\ \/ \E v \in FetchedValues(colType) :
          /\ fetched' = v
          /\ phase' = "fetched"
     \/ /\ colType = GS_TYPE_UNKNOWN
        /\ phase' = "rejected"
        /\ UNCHANGED fetched
  /\ UNCHANGED <<types, colType, decoded>>

\* table_fetch_data's decoding of the column.
FetchDecode ==
  /\ phase = "fetched"
  /\ decoded' = DecodeValue(AsString(colType), fetched)
  /\ phase' = "decoded"
  /\ UNCHANGED <<types, colType, fetched>>

Next == ColDataConvert \/ EngineFetch \/ FetchDecode

Spec == Init /\ [][Next]_vars

-----------------------------------------------------------------------------

Names == {arm[1] : arm \in FromArms}

\* Spec 4.2 round trip: the engine receives the tag whose canonical name is
\* the annotation's type name, and an unknown name gives UNKNOWN, so
\* as_string() in the decoder names what the annotation declared.
TagNamesRoundTrip ==
  phase # "declared" =>
    IF types \in Names THEN AsString(colType) = types
    ELSE colType = GS_TYPE_UNKNOWN

\* Spec 4.2 and 7: an integer-width column decodes to the integer it holds,
\* and decoding never fails hard.
DecodeFollowsSpec ==
  phase = "decoded" =>
    /\ decoded.kind # "panic"
    /\ colType \in IntegerTags => decoded = [kind |-> "number", src |-> fetched]

=============================================================================
