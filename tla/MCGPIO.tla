-------------------------------- MODULE MCGPIO --------------------------------
(* The instance of GPIO that TLC checks: an object and, beside it, the one *)
(* inside ReadOnce and WriteOnce, on the same line or on another.          *)
EXTENDS GPIO, TLC

CONSTANTS a, l1, l2

OneMember == {a}
TwoLines == {l1, l2}
OnFirst == a :> l1
=============================================================================
