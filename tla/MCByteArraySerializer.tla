------------------------- MODULE MCByteArraySerializer -------------------------
(* Model-checking instance of ByteArraySerializer.                        *)
EXTENDS ByteArraySerializer

\* 1.0 as an IEEE-754 double, little-endian.
One == <<0, 0, 0, 0, 0, 0, 240, 63>>

\* "NN": a string whose bytes are the Null signature 'N'.
NN == <<78, 78>>

\* One value of every type; the String and the Map keys are chosen so that
\* payload bytes look like signature bytes, and the Map is built in
\* descending key order.
MCValues ==
    { InvalidV, NullV, BooleanV(TRUE), IntegerV(-2), RealV(One), StringV(NN),
      ListV(<<IntegerV(7), NullV>>),
      MapV((<<98>> :> BooleanV(FALSE)) @@ (<<97>> :> NullV)) }

\* Received arrays that are no encoding pushValue writes: a Map with the
\* key "a" twice; a Map with keys "b", "a" out of order; a Boolean byte of
\* 2; a String whose length field is 2^32 - 1.
MCGarbled ==
    { <<77, 2, 0, 0, 0, 83, 1, 0, 0, 0, 97, 78, 83, 1, 0, 0, 0, 97, 66, 1>>,
      <<77, 2, 0, 0, 0, 83, 1, 0, 0, 0, 98, 78, 83, 1, 0, 0, 0, 97, 78>>,
      <<66, 2>>,
      <<83, 255, 255, 255, 255, 97>> }

\* A List nested five deep (spec.md §8).
Nested == ListV(<<ListV(<<ListV(<<ListV(<<ListV(<<>>)>>)>>)>>)>>)
=============================================================================
