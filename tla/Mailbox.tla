------------------------------- MODULE Mailbox -------------------------------
(***************************************************************************)
(* What the request queue and the response queue of a ProcessThread        *)
(* promise: a FIFO mailbox that never blocks a sender.  A mailbox that     *)
(* already holds more than Limit messages makes room by discarding its     *)
(* oldest one, so it holds at most Limit + 1; a message leaves it at the   *)
(* head only, and is never in it twice.                                    *)
(***************************************************************************)
EXTENDS Naturals, Sequences, Functions

CONSTANTS Items, Limit

VARIABLE box

Kept == IF Len(box) > Limit THEN Tail(box) ELSE box

Init == box = <<>>

Put(m) == /\ m \notin Range(box)
          /\ box' = Append(Kept, m)

Take == /\ box # <<>>
        /\ box' = Tail(box)

Next == Take \/ \E m \in Items : Put(m)

Spec == Init /\ [][Next]_box
=============================================================================
