---------------------------- MODULE MCI2CEvents ----------------------------
(* The instances of I2CEvents that TLC checks. *)
EXTENDS I2CEvents

NoHandle == {}
=============================================================================
