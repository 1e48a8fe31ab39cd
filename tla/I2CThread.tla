------------------------------ MODULE I2CThread ------------------------------
(***************************************************************************)
(* apra::I2C_Interface on its apra::ProcessThread: the worker of           *)
(* ProcessThread with the process() of I2C_Interface, which answers the    *)
(* request it is given and then takes the whole request queue and answers  *)
(* that as well, before the worker evaluates item->getType() of the first  *)
(* one.  Of a transaction only its answer remains here: I2CTransaction has *)
(* the rest.  m_setupSuccess is what reSetupI2CBus, in another thread,     *)
(* makes of it.                                                            *)
(***************************************************************************)
EXTENDS ProcessThread

VARIABLES
  m_setupSuccess,
  bpc,       \* process's place: "first" until its own request is answered,
             \* "drain", "next", "trim" and "push" in its two loops
  requests,  \* process's local queue
  tx,        \* the request that processMessage works on
  taken,     \* how many requests this call of process has taken
  dropped    \* history: the requests that process has returned on

batchVars == <<bpc, requests, tx, taken>>
ivars == <<vars, m_setupSuccess, batchVars, dropped>>

\* The constructor of I2C_Transaction_Message sets its type.
ASSUME ResponderAssumption ==
  /\ ProcessKind = "respond" /\ ~MayThrow
  /\ MsgTypes = {"REQUEST_RESPONSE"}
  /\ ClientKind \in {"handoff", "defer"}

IInit ==
  /\ Init
  /\ m_setupSuccess = TRUE
  /\ bpc = "first" /\ requests = <<>> /\ tx = NULL /\ taken = 0
  /\ dropped = {}

\* reSetupI2CBus, of which process sees the flag only.
ReSetup ==
  /\ m_setupSuccess' \in BOOLEAN \ {m_setupSuccess}
  /\ UNCHANGED <<vars, batchVars, dropped>>

\* What the other threads do is what they do to any ProcessThread, and so is
\* what the worker does outside process(item) and in enqueResponse's trim.
ElsewhereStep ==
  /\ \/ OwnerStep \/ \E c \in Clients : ClientStep(c)
     \/ WorkerCheck \/ WorkerSwitch \/ WorkerPop \/ WorkerFree \/ RespondTrim
  /\ UNCHANGED <<m_setupSuccess, batchVars, dropped>>

\* process: without a bus it returns, and nobody answers the request.
Drops == ~m_setupSuccess

ProcessDrop ==
  /\ wpc = "process" /\ Drops
  /\ wpc' = "getType"
  /\ dropped' = dropped \cup {item}
  /\ bpc' = "next"
  /\ UNCHANGED <<queueVars, lockVars, heapVars, clientVars, item,
                 executedOnce, ownerVars, m_setupSuccess, requests, tx, taken>>

ProcessFirst ==
  /\ WorkerProcess
  /\ ~Drops
  /\ UNCHANGED <<m_setupSuccess, batchVars, dropped>>

\* processMessage of process's own request: enqueResponse, after which it
\* still reads the request's m_transactionDelayUsec.
RespondFirst ==
  /\ RespondPush
  /\ bpc' = "drain" /\ tx' = item
  /\ UNCHANGED <<m_setupSuccess, requests, taken, dropped>>

\* What the loop under m_requestLock moves, and what it leaves.
BugMoveOne(q) == IF q = <<>> THEN <<>> ELSE <<Head(q)>>
Moved(q) == q

BugLeaveAll(q) == q
Left(q) == <<>>

Drain ==
  /\ bpc = "drain" /\ m_requestLock = NoOne
  /\ requests' = Moved(m_requestQueue)
  /\ m_requestQueue' = Left(m_requestQueue)
  /\ taken' = Len(requests')
  /\ tx' = NULL
  /\ bpc' = "next"
  /\ UNCHANGED <<m_responseQueue, lockVars, heapVars, clientVars, workerVars,
                 ownerVars, m_setupSuccess, dropped>>

\* The flag is not read again: a reset does not stop the batch.
BatchNext ==
  /\ bpc = "next" /\ requests # <<>>
  /\ tx' = Head(requests)
  /\ requests' = Tail(requests)
  /\ bpc' = "trim"
  /\ UNCHANGED <<vars, m_setupSuccess, taken, dropped>>

\* enqueResponse once more.
BatchTrim ==
  /\ bpc = "trim" /\ m_responseLock = NoOne
  /\ m_responseLock' = Worker
  /\ heap' = Delete(TrimFrees(m_responseQueue))
  /\ m_responseQueue' = Trimmed(m_responseQueue)
  /\ bpc' = "push"
  /\ UNCHANGED <<m_requestQueue, m_requestLock, msgType, processed,
                 clientVars, workerVars, ownerVars, m_setupSuccess, requests,
                 tx, taken, dropped>>

BatchPush ==
  /\ bpc = "push"
  /\ m_responseQueue' = Pushed(m_responseQueue, tx)
  /\ m_responseLock' = NoOne
  /\ bpc' = "next"
  /\ UNCHANGED <<m_requestQueue, m_requestLock, heapVars, clientVars,
                 workerVars, ownerVars, m_setupSuccess, requests, tx, taken,
                 dropped>>

\* process returns, and someFunction evaluates getType() of its first request.
ProcessReturn ==
  /\ bpc = "next" /\ requests = <<>>
  /\ WorkerGetType
  /\ bpc' = "first" /\ tx' = NULL /\ taken' = 0
  /\ UNCHANGED <<m_setupSuccess, requests, dropped>>

BatchStep == \/ ProcessDrop \/ ProcessFirst \/ RespondFirst \/ Drain
             \/ BatchNext \/ BatchTrim \/ BatchPush \/ ProcessReturn

INext == ReSetup \/ ElsewhereStep \/ BatchStep

ISpec == IInit /\ [][INext]_ivars

-----------------------------------------------------------------------------
(* Properties.                                                             *)

\* The request that is being answered and is in no queue.
InHands == IF wpc \in {"process", "respond", "respondPush"} THEN <<item>>
           ELSE IF bpc \in {"trim", "push"} THEN <<tx>> ELSE <<>>

\* Every pointer that someone may still follow leads to a live message, those
\* of the batch included, while clients keep what they dequeue until end().
\* One pointer may not: when the batch is longer than m_queueSizeLimit, its
\* answers can push the answer to the worker's own item out of the response
\* queue, which deletes it before item->getType().
BatchPointersLive ==
  /\ \A m \in Range(m_requestQueue) \cup Range(m_responseQueue)
              \cup Range(requests) \cup UNION {hand[c] : c \in Clients} :
       heap[m] = "live"
  /\ tx # NULL => heap[tx] = "live"
  /\ ItemInUse => heap[item] = "live" \/ taken > QueueSizeLimit

\* Answers and requests in one line, oldest first.
BatchLine == m_responseQueue \o InHands \o requests \o m_requestQueue

\* A message is in one place, of all the queues, the batch, the worker's and
\* the clients' hands; the drain does not take what a sender still holds.
BatchSingleOwner ==
  /\ IsInjective(BatchLine)
  /\ \A c \in Clients :
       /\ hand[c] \cap Range(BatchLine) = {}
       /\ cpc[c] \in {"enque", "push"} => cmsg[c] \notin Range(BatchLine)
       /\ \A d \in Clients \ {c} : hand[c] \cap hand[d] = {}

\* Every message is on its way, in somebody's hands or deleted, except those
\* that were dropped for want of a bus: they leak, since the worker does not
\* delete a REQUEST_RESPONSE and nobody can dequeue it; and they are never
\* answered, by this call or a later one.
LeaksOnlyDropped ==
  LET held == Range(m_requestQueue) \cup Range(m_responseQueue)
                \cup Range(requests) \cup Range(InHands) \cup {item}
                \cup UNION {hand[c] \cup {cmsg[c]} : c \in Clients}
  IN  /\ \A m \in Msgs : heap[m] = "live" => m \in held \cup dropped
      /\ dropped \cap (Range(m_responseQueue) \cup Range(requests)
                         \cup UNION {hand[c] : c \in Clients}) = {}

\* Answers come back in the order of the requests, across the two loops: no
\* request that is enqueued while a batch is answered gets ahead of it.
BatchKeepsOrder ==
  [][\A m, n \in Range(BatchLine) \cap Range(BatchLine') :
       Before(BatchLine, m, n) => ~ Before(BatchLine', n, m)]_ivars

\* The response queue is a lossy FIFO mailbox between both loops of process
\* and the clients.
BatchResponseBox ==
  IF m_responseLock = NoOne THEN m_responseQueue
  ELSE Append(m_responseQueue, IF bpc = "push" THEN tx ELSE item)

BatchMailbox == INSTANCE Mailbox
  WITH Items <- Msgs, Limit <- QueueSizeLimit, box <- BatchResponseBox

ResponsesAreMailbox == BatchMailbox!Spec

-----------------------------------------------------------------------------
(* The inductive invariant behind the theorems of I2CThreadProofs.  Of     *)
(* ProcessThread's it takes CoreInv and OwnCore, and ItemLive as long as   *)
(* the batch is not too long.                                              *)

\* The batch, the request of it that is being answered included.
Batch == Range(requests) \cup (IF bpc \in {"trim", "push"} THEN {tx} ELSE {})

\* The type invariant, and where process is.
PlaceInv ==
  /\ m_setupSuccess \in BOOLEAN
  /\ bpc \in {"first", "drain", "next", "trim", "push"}
  /\ requests \in Seq(Msgs) /\ tx \in Msgs \cup {NULL}
  /\ taken \in Nat /\ dropped \subseteq Msgs
  /\ bpc # "first" <=> wpc = "getType"
  /\ bpc = "first" => tx = NULL
  /\ bpc \in {"drain", "trim", "push"} => tx \in Msgs
  /\ bpc \in {"first", "drain"} => requests = <<>> /\ taken = 0

\* Two places call enqueResponse.
EitherLockInv ==
  m_responseLock = Worker <=> wpc = "respondPush" \/ bpc = "push"

\* Alive, and in no hands but the worker's.
Alone(m) == /\ heap[m] = "live" /\ m \notin Sent \cup Back
            /\ \A c \in Clients : m \notin hand[c] /\ cmsg[c] # m

BatchInv ==
  /\ IsInjective(requests)
  /\ bpc \in {"trim", "push"} => tx \notin Range(requests)
  /\ \A m \in Batch : m # item /\ Alone(m)

Returned(m) == m \in Back \/ \E c \in Clients : m \in hand[c]

\* What processMessage has answered has reached somebody.
TxInv == bpc \in {"drain", "next"} /\ tx # NULL => Returned(tx)

\* A dropped request is nowhere, but that it may be the worker's own item.
DropInv ==
  /\ \A m \in dropped : m \notin Batch /\ Alone(m)
  /\ wpc \in {"process", "respond", "respondPush"} => item \notin dropped

\* Someone is still responsible for every live message.
HeldInv ==
  /\ \A m \in Msgs : heap[m] = "live" =>
       m \in Sent \cup Back \cup Batch \cup dropped
         \/ (ItemInUse /\ m = item) \/ Held(m)
  /\ wpc = "getType" /\ heap[item] = "live" => Returned(item) \/ item \in dropped

\* Behind the worker's item are answers to its batch only, so that a batch of
\* at most m_queueSizeLimit cannot push it out.
BehindInv ==
  /\ wpc = "getType" => \A i \in DOMAIN m_responseQueue :
       m_responseQueue[i] = item =>
         Len(m_responseQueue) - i + Len(requests)
           + (IF bpc \in {"trim", "push"} THEN 1 ELSE 0) <= taken
  /\ ItemLive \/ taken > QueueSizeLimit

\* The conjunction, which every step preserves if clients delete after end().
WholeInv == /\ CoreInv /\ OwnCore /\ PlaceInv /\ EitherLockInv /\ BatchInv
            /\ TxInv /\ DropInv /\ HeldInv /\ BehindInv
=============================================================================
