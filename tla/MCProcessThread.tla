--------------------------- MODULE MCProcessThread ---------------------------
(* The instances of ProcessThread that TLC checks. *)
EXTENDS ProcessThread, TLC

CONSTANTS c1, c2, m1, m2, m3, m4

TwoClients == {c1, c2}
OneClient == {c1}
TwoMsgs == {m1, m2}
FourMsgs == {m1, m2, m3, m4}

Symmetry == Permutations(Clients) \cup Permutations(Msgs)

RequestResponse == {"REQUEST_RESPONSE"}
OnlyMessage == {"ONLY_MESSAGE"}
=============================================================================
