---------------------------- MODULE MCConversions ----------------------------
(* The instance of Conversions that TLC checks: narrow types, in the       *)
(* proportions of the real ones, and in a type the reals about the largest *)
(* and the smallest integers, with every fraction.                         *)
EXTENDS Conversions

EdgeReals(bits) ==
  {n * One + f : n \in {0, 1, 2 ^ (bits - 3) - 1, 2 ^ (bits - 3), 2 ^ bits - 1},
                 f \in 0 .. One - 1}

\* Up to one byte more than the counter counts.
ShortArrays == UNION {[1 .. n -> Byte] : n \in 0 .. 2 ^ CounterBits}
=============================================================================
