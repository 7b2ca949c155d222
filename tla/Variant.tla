------------------------------- MODULE Variant -------------------------------
(***************************************************************************)
(* ucxx::Variant, the tagged value the serializer encodes.  Variant.h is   *)
(* not part of the sources given here, so this module follows spec.md §3   *)
(* and the uses in ByteArraySerializer.cpp (type(), toBoolean(),           *)
(* toInteger(), toReal(), string(), list(), map()).                        *)
(*                                                                         *)
(* A Variant is a record [type |-> tag, val |-> payload]:                  *)
(*   Invalid, Null   val = 0 (no payload)                                  *)
(*   Boolean         val \in BOOLEAN                                       *)
(*   Integer         val \in -2^31 .. 2^31-1 (a 4-byte int)                *)
(*   Real            val = the 8 bytes of the double, as the code only     *)
(*                   copies them                                           *)
(*   String          val = its bytes, a sequence of 0..255                 *)
(*   List            val = a sequence of Variants                          *)
(*   Map             val = a function from strings to Variants (a          *)
(*                   std::map<std::string, Variant>)                       *)
(***************************************************************************)
EXTENDS Integers, Sequences

Types == {"Invalid", "Null", "Boolean", "Integer", "Real", "String",
          "List", "Map"}

Byte == 0..255

MinInt == -2147483647 - 1
MaxInt == 2147483647

InvalidV    == [type |-> "Invalid", val |-> 0]
NullV       == [type |-> "Null", val |-> 0]
BooleanV(b) == [type |-> "Boolean", val |-> b]
IntegerV(i) == [type |-> "Integer", val |-> i]
RealV(r)    == [type |-> "Real", val |-> r]
StringV(s)  == [type |-> "String", val |-> s]
ListV(l)    == [type |-> "List", val |-> l]
MapV(m)     == [type |-> "Map", val |-> m]

\* std::string's operator< (char_traits<char>::lt compares bytes as
\* unsigned char): lexicographic order on byte sequences.
RECURSIVE StringLess(_, _)
StringLess(a, b) ==
    \/ a = <<>> /\ b # <<>>
    \/ /\ a # <<>> /\ b # <<>>
       /\ \/ Head(a) < Head(b)
          \/ Head(a) = Head(b) /\ StringLess(Tail(a), Tail(b))
=============================================================================
