----------------------------- MODULE MCI2CThread -----------------------------
(* The instance of I2CThread that TLC checks. *)
EXTENDS I2CThread, TLC

CONSTANTS c1, c2, m1, m2, m3, m4

TwoClients == {c1, c2}
FourMsgs == {m1, m2, m3, m4}

Symmetry == Permutations(Clients) \cup Permutations(Msgs)

RequestResponse == {"REQUEST_RESPONSE"}
OnlyMessage == {"ONLY_MESSAGE"}
=============================================================================
