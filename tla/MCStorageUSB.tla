---------------------------- MODULE MCStorageUSB ----------------------------
(* The instances of StorageUSB that TLC checks. *)
EXTENDS StorageUSB

OnlyCareful == {"careful"}
Never == {FALSE}
=============================================================================
