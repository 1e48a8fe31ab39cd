------------------------------ MODULE Exchange ------------------------------
(***************************************************************************)
(* What a client of I2C_Interface is promised of one request after the     *)
(* other: a transaction that is taken has its messages performed in order, *)
(* each once, up to the last or, if it is to stop at a failure, up to the  *)
(* first that fails; then it is answered with the last message that has    *)
(* failed.  A request may also be dropped.  Retries, comparisons and the   *)
(* resets of the bus do not show.                                          *)
(***************************************************************************)
EXTENDS Naturals, Sequences

VARIABLES
  status,   \* what became of the last request
  size,     \* how many messages the transaction has
  stop,     \* m_stopOnAnyTransactionFailure
  log,      \* "ok" or "failed", for each message that is done
  error     \* what the answer says: a message, or 0

vars == <<status, size, stop, log, error>>

Init == status = "none" /\ size = 0 /\ stop = TRUE /\ log = <<>> /\ error = 0

Complete == \/ Len(log) = size
            \/ stop /\ log # <<>> /\ log[Len(log)] = "failed"

Accept == /\ status # "pending" /\ log = <<>>
          /\ status' = "pending"
          /\ size' \in Nat /\ stop' \in BOOLEAN
          /\ UNCHANGED <<log, error>>

Perform(result) == /\ status = "pending" /\ ~Complete
                   /\ log' = Append(log, result)
                   /\ UNCHANGED <<status, size, stop, error>>

\* The last of the messages that have failed, or 0.
IsLastFailure(i) == /\ i \in 0 .. Len(log)
                    /\ i # 0 => log[i] = "failed"
                    /\ \A j \in i + 1 .. Len(log) : log[j] = "ok"

Reply == /\ status = "pending" /\ Complete
         /\ status' = "answered"
         /\ IsLastFailure(error')
         /\ UNCHANGED <<size, stop, log>>

\* The transaction is the client's again.
Forget == /\ status = "answered"
          /\ size' = 0 /\ stop' = TRUE /\ log' = <<>> /\ error' = 0
          /\ UNCHANGED status

Refuse == /\ status # "pending" /\ log = <<>>
          /\ status' = "dropped"
          /\ UNCHANGED <<size, stop, log, error>>

Next == \/ Accept \/ Reply \/ Forget \/ Refuse
        \/ \E result \in {"ok", "failed"} : Perform(result)

Spec == Init /\ [][Next]_vars
=============================================================================
