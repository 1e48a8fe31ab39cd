-------------------------- MODULE MCI2CTransaction --------------------------
(* The instances of I2CTransaction that TLC checks. *)
EXTENDS I2CTransaction

OnceOrTwice == {0, 1}
=============================================================================
