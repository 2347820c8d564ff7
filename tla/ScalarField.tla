------------------------------ MODULE ScalarField ------------------------------
(***************************************************************************)
(* An integer field on its way between the program, whose numbers V4 keeps *)
(* as a tagged 32-bit integer or a double, or passes as a QVariant, and a  *)
(* protobuf message.                                                       *)
(***************************************************************************)
EXTENDS Integers

CONSTANTS
  Half32, Half64, \* 2^31 and 2^63: half of the numbers of 32 and of 64 bits
  Exact,          \* 2^53: a double counts exactly up to it
  EnumNumbers     \* the numbers of the enum's values

ASSUME ScalarAssumption ==
  /\ Half32 \in Nat \ {0} /\ Half64 \in Nat /\ 2 * Half32 <= Half64
  /\ Exact \in Nat
  /\ EnumNumbers \subseteq Int

VARIABLES
  kind,       \* type of the field
  repeated,   \* whether the value is an element of a repeated field
  js,         \* the value as the program has it
  given       \* history: the number the program gave

scalarVars == <<kind, repeated, js, given>>

Kinds == {"int32", "uint32", "int64", "uint64", "enum"}

Unsigned == {"uint32", "uint64"}
Wide == {"int64", "uint64"}

Half(k) == IF k \in Wide THEN Half64 ELSE Half32

Fits(n, k) ==
  IF k \in Unsigned THEN n \in 0..(2 * Half(k) - 1) ELSE n \in -Half(k)..(Half(k) - 1)

\* The conversion of C++ and of ToInt32 and ToUint32 to type k.
Wrap(n, k) ==
  LET m == n % (2 * Half(k))
  IN IF k \in Unsigned \/ m < Half(k) THEN m ELSE m - 2 * Half(k)

Js(tag, n) == [tag |-> tag, n |-> n]

FromInt32(n) == Js("int", Wrap(n, "int32"))

FromUInt32(n) == IF Fits(n, "int32") THEN Js("int", n) ELSE Js("double", n)

ScalarInit ==
  /\ kind \in Kinds /\ repeated \in BOOLEAN
  /\ js = Js("int", 0)
  /\ given = 0

\* setFieldValue: 64-bit types take a tagged integer as 32 bits, a double or
\* a QVariant as 64.
setFieldValue(v) ==
  CASE kind = "int64" /\ v.tag = "int"  -> Wrap(v.n, "int32")
    [] kind = "uint64" /\ v.tag = "int" -> Wrap(v.n, "uint32")
    [] OTHER -> Wrap(v.n, kind)

\* setRepeatedFieldValue: a typed array wraps by itself; an array of 64-bit
\* numbers takes what is an int32 as an int32 and anything else as 64 bits.
setRepeatedFieldValue(v) ==
  IF kind \notin Wide \/ ~Fits(v.n, "int32") THEN Wrap(v.n, kind) ELSE Wrap(Wrap(v.n, "int32"), kind)

\* Slip: int64 is told from int32 by the bound of uint32.
getFieldValue_Bound(n) ==
  CASE kind \in {"int32", "enum"} -> FromInt32(n)
    [] kind = "uint32" -> FromUInt32(n)
    [] kind = "int64"  -> IF n < 2 * Half32 /\ n >= -Half32 THEN FromInt32(n) ELSE Js("variant", n)
    [] kind = "uint64" -> IF Fits(n, "uint32") THEN FromUInt32(n) ELSE Js("variant", n)

\* getFieldValue and getRepeatedFieldValue: what a 32-bit number can hold is a
\* number, the rest a QVariant.
getFieldValue(n) ==
  CASE kind \in {"int32", "enum"} -> FromInt32(n)
    [] kind = "uint32" -> FromUInt32(n)
    [] kind = "int64"  -> IF Fits(n, "int32") THEN FromInt32(n) ELSE Js("variant", n)
    [] kind = "uint64" -> IF Fits(n, "uint32") THEN FromUInt32(n) ELSE Js("variant", n)

\* The program sets the field.  A number that fits an int32 may be tagged as
\* one or be the double of a computation; an enum number without a value is
\* left out (FindValueByNumber gives null for it).
SetScalar(n, tag) ==
  /\ tag = "int" => Fits(n, "int32")
  /\ kind = "enum" => n \in EnumNumbers
  /\ js' = Js(tag, n) /\ given' = n
  /\ UNCHANGED <<kind, repeated>>

\* The message is sent and parsed.
ScalarSent ==
  /\ js' = getFieldValue(IF repeated THEN setRepeatedFieldValue(js) ELSE setFieldValue(js))
  /\ UNCHANGED <<kind, repeated, given>>

\* A double counts exactly up to Exact.
Doubles == -Exact..Exact

ScalarNext ==
  \/ \E n \in Doubles, tag \in {"int", "double"} : SetScalar(n, tag)
  \/ ScalarSent

\* Every number of the field's type arrives as it was given, however often it
\* is read and sent again.
NumberKept == Fits(given, kind) => js.n = given
=============================================================================
