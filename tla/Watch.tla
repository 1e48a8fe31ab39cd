-------------------------------- MODULE Watch --------------------------------
(***************************************************************************)
(* How the program that watches a USB stick sees it: a device is found     *)
(* while none is known, is mounted or not, and is mounted at one path      *)
(* until it is lost or ejected.  Where its partition really is mounted is  *)
(* known to the system, and changes at any time.                           *)
(***************************************************************************)
CONSTANT Paths

VARIABLES
  state,   \* what getStatus returns
  known,   \* is there a device node?
  path,    \* what getMountPath returns
  where    \* the paths at which the partition is mounted

vars == <<state, known, path, where>>

Places == Paths \cup {""}

Init == /\ state = "SAFE_EJECT" /\ known = FALSE
        /\ path \in Paths /\ where = {}

Move == where' \subseteq Paths /\ UNCHANGED <<state, known, path>>

Find == /\ ~known
        /\ state' = "INSERTED" /\ known' = TRUE
        /\ UNCHANGED <<path, where>>

Unmounted == known /\ state \in {"INSERTED", "INSERTED_UNMOUNTED"}

\* An attempt to mount: it looks at the stick and may set another path, but
\* only what it finds mounted is the stick's path.
TryMount == /\ Unmounted
            /\ state' \in {state, "INSERTED_UNMOUNTED"}
            /\ path' \in Places /\ where' \subseteq Paths
            /\ UNCHANGED known

Mount == /\ Unmounted
         /\ state' = "MOUNTED" /\ path' \in where'
         /\ where' \subseteq Paths
         /\ UNCHANGED known

Lose == /\ state = "MOUNTED" /\ where = {}
        /\ state' = "UNSAFE_EJECT" /\ known' = FALSE
        /\ UNCHANGED <<path, where>>

Eject == /\ state' = "SAFE_EJECT" /\ known' = FALSE /\ path' = ""
         /\ where' \subseteq where

Next == Move \/ Find \/ TryMount \/ Mount \/ Lose \/ Eject

Spec == Init /\ [][Next]_vars
=============================================================================
