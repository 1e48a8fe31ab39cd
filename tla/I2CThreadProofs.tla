---------------------------- MODULE I2CThreadProofs ----------------------------
(***************************************************************************)
(* Theorems about the process() of I2C_Interface on its ProcessThread, for *)
(* any number of clients and requests, any batch, any queue limit and any  *)
(* resets, while clients delete what they dequeue only after end().        *)
(***************************************************************************)
EXTENDS I2CThread, ProcessThreadProofs, SequenceTheorems

LEMMA DeferIsDisciplined ==
  ASSUME ClientKind = "defer"
  PROVE  Disciplined
BY ResponderAssumption DEF Disciplined

-----------------------------------------------------------------------------
(* What the other threads leave alone.                                     *)

\* A message in nobody's hands stays there, whatever a client does.
LEMMA ClientLeavesAlone ==
  ASSUME CoreInv, OwnCore, Disciplined, NEW c \in Clients, ClientStep(c),
         NEW m \in Msgs, Alone(m)
  PROVE  Alone(m)'
<1> USE PointerTypes DEF Alone
<1>1. /\ cmsg \in [Clients -> Msgs \cup {NULL}]
      /\ hand \in [Clients -> SUBSET Msgs]
      /\ ~ StopWaiting(c)
  BY DEF CoreInv, TypeOK, OwnCore, KindInv, StopWaiting
<1>2. CASE NewMessage(c)
  <2>1. PICK n \in Msgs : /\ heap[n] = "unborn"
                          /\ heap' = [heap EXCEPT ![n] = "live"]
                          /\ cmsg' = [cmsg EXCEPT ![c] = n]
    BY <1>2 DEF NewMessage
  <2>2. UNCHANGED <<m_requestQueue, m_responseQueue, hand>>
    BY <1>2 DEF NewMessage, queueVars
  <2>3. n # m /\ heap'[m] = "live"
    BY <2>1
  <2> QED BY <1>1, <2>1, <2>2, <2>3 DEF Sent, Back
<1>3. CASE EnqueTrim(c)
  <2>1. /\ UNCHANGED <<m_responseQueue, hand, cmsg>>
        /\ heap' = Delete(TrimFrees(m_requestQueue))
        /\ m_requestQueue' = Trimmed(m_requestQueue)
    BY <1>3 DEF EnqueTrim
  <2>2. Sent' \subseteq Sent /\ TrimFrees(m_requestQueue) \subseteq Sent
    BY <2>1, TrimmedFacts DEF Sent
  <2> QED BY <2>1, <2>2 DEF Delete, Back
<1>4. CASE EnquePush(c)
  <2>1. /\ UNCHANGED <<m_responseQueue, hand, heap>>
        /\ cmsg' = [cmsg EXCEPT ![c] = NULL]
        /\ cpc[c] # "idle"
        /\ m_requestQueue' = Pushed(m_requestQueue, cmsg[c])
    BY <1>4 DEF EnquePush, Disciplined, heapVars
  <2>2. Sent' = Sent \cup {cmsg[c]}
    BY <2>1, PushedFacts DEF Sent
  <2> QED BY <1>1, <2>1, <2>2, NamesAssumption DEF Back
<1>5. CASE Dequeue(c)
  <2>1. /\ UNCHANGED <<m_requestQueue, heap, cmsg>>
        /\ hand' = [hand EXCEPT ![c] = hand[c] \cup {Head(m_responseQueue)}]
        /\ m_responseQueue # <<>>
        /\ m_responseQueue' = Popped(m_responseQueue)
    BY <1>5 DEF Dequeue, heapVars
  <2>2. Back' \subseteq Back /\ Head(m_responseQueue) \in Back
    BY <2>1, PoppedFacts DEF Back
  <2> QED BY <1>1, <2>1, <2>2 DEF Sent
<1>6. CASE DeleteResponse(c)
  <2>1. PICK n \in hand[c] : /\ heap' = Delete({n})
                             /\ hand' = [hand EXCEPT ![c] = hand[c] \ {n}]
    BY <1>6 DEF DeleteResponse
  <2>2. UNCHANGED <<m_requestQueue, m_responseQueue, cmsg>>
    BY <1>6 DEF DeleteResponse, queueVars
  <2> QED BY <1>1, <2>1, <2>2 DEF Sent, Back, Delete
<1> QED BY <1>1, <1>2, <1>3, <1>4, <1>5, <1>6 DEF ClientStep

\* Nor does the worker touch it, when it takes or answers another.
LEMMA WorkerLeavesAlone ==
  ASSUME CoreInv, NEW m \in Msgs, Alone(m),
         WorkerPop \/ RespondTrim \/ BatchTrim
  PROVE  Alone(m)'
<1> USE PointerTypes DEF Alone
<1>1. CASE WorkerPop
  <2>1. UNCHANGED <<heap, hand, cmsg, m_responseQueue>>
    BY <1>1 DEF WorkerPop, heapVars, clientVars
  <2>2. Sent' \subseteq Sent
    BY <1>1, PoppedFacts DEF WorkerPop, Sent
  <2> QED BY <2>1, <2>2 DEF Back
<1>2. CASE RespondTrim \/ BatchTrim
  <2>1. /\ UNCHANGED <<m_requestQueue, hand, cmsg>>
        /\ heap' = Delete(TrimFrees(m_responseQueue))
        /\ m_responseQueue' = Trimmed(m_responseQueue)
    BY <1>2 DEF RespondTrim, BatchTrim, clientVars
  <2>2. Back' \subseteq Back /\ TrimFrees(m_responseQueue) \subseteq Back
    BY <2>1, TrimmedFacts DEF Back
  <2> QED BY <2>1, <2>2 DEF Sent, Delete
<1> QED BY <1>1, <1>2

-----------------------------------------------------------------------------
(* Behind the worker's item: positions in the response queue.              *)

\* A pop moves everything one place to the front.
LEMMA PoppedShifts ==
  ASSUME NEW q \in Seq(Msgs), q # <<>>, NEW i \in DOMAIN Popped(q)
  PROVE  /\ i + 1 \in DOMAIN q /\ Popped(q)[i] = q[i + 1]
         /\ Len(Popped(q)) - i = Len(q) - (i + 1)
<1>1. /\ DOMAIN q = 1 .. Len(q)
      /\ DOMAIN Tail(q) = 1 .. Len(q) - 1
      /\ Len(Tail(q)) = Len(q) - 1
      /\ Len(q) \in Nat
      /\ \A j \in 1 .. Len(q) - 1 : Tail(q)[j] = q[j + 1]
  OBVIOUS
<1> QED BY <1>1 DEF Popped

\* A push moves nothing.
LEMMA PushedStays ==
  ASSUME NEW q \in Seq(Msgs), NEW m \in Msgs, NEW i \in DOMAIN Pushed(q, m)
  PROVE  \/ i \in DOMAIN q /\ Pushed(q, m)[i] = q[i]
         \/ i = Len(q) + 1 /\ Pushed(q, m)[i] = m
<1>1. /\ DOMAIN q = 1 .. Len(q)
      /\ DOMAIN Append(q, m) = 1 .. Len(q) + 1
      /\ Len(q) \in Nat
      /\ \A j \in 1 .. Len(q) : Append(q, m)[j] = q[j]
      /\ Append(q, m)[Len(q) + 1] = m
  OBVIOUS
<1> QED BY <1>1 DEF Pushed

\* A short batch leaves the worker's item alone.
LEMMA ShortBatch ==
  ASSUME PlaceInv, BehindInv, bpc \in {"first", "drain"}
  PROVE  ItemLive
BY LimitAssumption DEF PlaceInv, BehindInv

-----------------------------------------------------------------------------
(* The steps of the other threads.                                         *)

batchNames == <<m_setupSuccess, batchVars, dropped>>

LEMMA BatchTypes ==
  ASSUME PlaceInv
  PROVE  Batch \subseteq Msgs /\ Range(requests) \subseteq Msgs
BY DEF PlaceInv, Batch, Range

LEMMA ClientWhole ==
  ASSUME WholeInv, Disciplined, NEW c \in Clients, ClientStep(c),
         UNCHANGED batchNames
  PROVE  WholeInv'
<1> USE DEF WholeInv
<1>1. /\ UNCHANGED <<m_setupSuccess, bpc, requests, tx, taken, dropped, wpc,
                     item, m_responseLock>>
      /\ Batch' = Batch
  BY DEF ClientStep, NewMessage, EnqueTrim, EnquePush, Dequeue, DeleteResponse,
         StopWaiting, workerVars, lockVars, batchNames, batchVars, Batch
<1> HIDE DEF WholeInv
<1>2. CoreInv' /\ OwnCore'
  BY ClientCore, ClientOwn DEF WholeInv
<1>3. PlaceInv' /\ EitherLockInv'
  BY <1>1 DEF WholeInv, PlaceInv, EitherLockInv
<1>4. \A m \in Msgs : Alone(m) => Alone(m)'
  BY ClientLeavesAlone DEF WholeInv
<1>5. BatchInv'
  BY <1>1, <1>4, BatchTypes DEF WholeInv, BatchInv
<1>6. DropInv'
  BY <1>1, <1>4 DEF WholeInv, DropInv, PlaceInv
<1>7. \A m \in Msgs : wpc = "getType" /\ Returned(m) => Returned(m)'
  BY ClientKeepsReturned, ResponderAssumption DEF WholeInv, Returned
<1>8. TxInv'
  BY <1>1, <1>7 DEF WholeInv, TxInv, PlaceInv
<1>9. HeldInv'
  <2>1. ASSUME NEW m \in Msgs, heap'[m] = "live"
        PROVE  \/ m \in Sent' \cup Back' \cup Batch \cup dropped
               \/ ItemInUse /\ m = item
               \/ Held(m)'
    BY <2>1, ClientReaches DEF WholeInv, HeldInv
  <2>2. ASSUME wpc = "getType", heap'[item] = "live"
        PROVE  Returned(item)' \/ item \in dropped
    <3>1. item \in Msgs /\ heap[item] # "unborn"
      BY <2>2 DEF WholeInv, CoreInv, HandsInv, OwnCore, LiveInv, ItemInUse
    <3>2. heap[item] = "live"
      <4>1. ~ NewMessage(c) => heap[item] = "live"
        BY <2>2, <3>1
           DEF ClientStep, EnqueTrim, EnquePush, Dequeue, DeleteResponse,
               StopWaiting, Delete, heapVars
      <4>2. NewMessage(c) => heap[item] = "live"
        BY <2>2, <3>1, PointerTypes DEF NewMessage, WholeInv
      <4> QED BY <4>1, <4>2
    <3>3. Returned(item) \/ item \in dropped
      BY <2>2, <3>2 DEF WholeInv, HeldInv
    <3> QED BY <1>1, <1>7, <2>2, <3>1, <3>3 DEF Returned
  <2> QED BY <1>1, <2>1, <2>2 DEF HeldInv, ItemInUse
<1>10. BehindInv'
  <2>1. ItemLive' \/ taken > QueueSizeLimit
    BY ClientItemLive DEF WholeInv, BehindInv
  <2>2. ASSUME NEW i \in DOMAIN m_responseQueue', wpc = "getType",
               m_responseQueue'[i] = item
        PROVE  \E j \in DOMAIN m_responseQueue :
                 /\ m_responseQueue[j] = item
                 /\ Len(m_responseQueue') - i = Len(m_responseQueue) - j
    <3>1. CASE Dequeue(c)
      BY <2>2, <3>1, PoppedShifts, PointerTypes DEF Dequeue, WholeInv
    <3>2. CASE ~ Dequeue(c)
      <4>1. m_responseQueue' = m_responseQueue
        BY <3>2 DEF ClientStep, NewMessage, EnqueTrim, EnquePush,
                    DeleteResponse, StopWaiting, queueVars
      <4> QED BY <2>2, <4>1
    <3> QED BY <3>1, <3>2
  <2> QED BY <1>1, <2>1, <2>2 DEF WholeInv, BehindInv
<1> QED BY <1>2, <1>3, <1>5, <1>6, <1>8, <1>9, <1>10 DEF WholeInv

-----------------------------------------------------------------------------
(* The worker outside process(), the owner, and resets of the bus.         *)

LEMMA QuietWhole ==
  ASSUME WholeInv,
         \/ /\ OwnerStep \/ WorkerCheck \/ WorkerSwitch \/ WorkerFree
            /\ UNCHANGED batchNames
         \/ ReSetup
         \/ UNCHANGED ivars
  PROVE  WholeInv'
<1>1. /\ UNCHANGED <<bpc, requests, tx, taken, dropped, m_requestQueue,
                     m_responseQueue, m_responseLock, heap, cpc, cmsg, hand,
                     item>>
      /\ m_setupSuccess' \in BOOLEAN
  BY DEF OwnerStep, SetType, Begin, EndSignal, EndJoin, WorkerCheck,
         WorkerSwitch, WorkerFree, ReSetup, ivars, vars, queueVars, heapVars,
         lockVars, clientVars, workerVars, batchNames, batchVars, WholeInv,
         PlaceInv
<1>2. wpc' = wpc \/ (~ ItemInUse /\ ~ ItemInUse')
  BY DEF OwnerStep, SetType, Begin, EndSignal, EndJoin, WorkerCheck,
         WorkerSwitch, Case, WorkerFree, ReSetup, ivars, vars, workerVars,
         ItemInUse, WholeInv, CoreInv, StageInv
<1>3. CoreInv' /\ OwnCore'
  BY OwnerCore, QuietWorkerCore, StutterCore, QuietOwn
     DEF WholeInv, ReSetup, ivars
<1>4. PlaceInv' /\ EitherLockInv'
  BY <1>1, <1>2 DEF WholeInv, PlaceInv, EitherLockInv, ItemInUse
<1>5. /\ Batch' = Batch
      /\ \A m \in Msgs : Alone(m)' = Alone(m) /\ Returned(m)' = Returned(m)
  BY <1>1 DEF Batch, Alone, Returned, Sent, Back
<1>6. BatchInv'
  BY <1>1, <1>5, BatchTypes DEF WholeInv, BatchInv
<1>7. DropInv' /\ TxInv'
  BY <1>1, <1>2, <1>5 DEF WholeInv, DropInv, TxInv, PlaceInv, ItemInUse
<1>8. HeldInv'
  BY <1>1, <1>2, <1>5
     DEF WholeInv, HeldInv, ItemInUse, Held, Sent, Back, Returned
<1>9. BehindInv'
  BY <1>1, <1>2 DEF WholeInv, BehindInv, ItemLive, ItemInUse
<1> QED BY <1>3, <1>4, <1>6, <1>7, <1>8, <1>9 DEF WholeInv

\* Between its requests the worker has no batch.
LEMMA NoBatch ==
  ASSUME PlaceInv, bpc \in {"first", "drain"}
  PROVE  Batch = {}
BY DEF PlaceInv, Batch, Range

LEMMA PopWhole ==
  ASSUME WholeInv, Disciplined, WorkerPop, UNCHANGED batchNames
  PROVE  WholeInv'
<1>1. /\ UNCHANGED <<m_setupSuccess, bpc, requests, tx, taken, dropped,
                     m_responseQueue, m_responseLock, heap, cpc, cmsg, hand>>
      /\ wpc = "pop" /\ wpc' \in {"process", "check", "free"}
      /\ bpc = "first"
  BY DEF WorkerPop, batchNames, batchVars, heapVars, lockVars, clientVars,
         WholeInv, PlaceInv
<1>2. CoreInv' /\ OwnCore'
  BY WorkerPopCore, WorkerPopOwn DEF WholeInv
<1>3. PlaceInv' /\ EitherLockInv' /\ TxInv'
  BY <1>1 DEF WholeInv, PlaceInv, EitherLockInv, TxInv
<1>4. Batch = {} /\ Batch' = {}
  BY <1>1, NoBatch DEF WholeInv, Batch
<1>5. BatchInv'
  BY <1>1, <1>4 DEF WholeInv, BatchInv
<1>6. DropInv'
  <2>1. \A m \in dropped : Alone(m)'
    BY WorkerLeavesAlone DEF WholeInv, DropInv, PlaceInv
  <2>2. wpc' = "process" => item' \in Sent
    BY PoppedFacts, PointerTypes DEF WorkerPop, WholeInv, Sent
  <2>3. wpc' = "process" => item' \notin dropped
    BY <2>2 DEF WholeInv, DropInv, Alone
  <2> QED BY <1>1, <1>4, <2>1, <2>3 DEF DropInv
<1>7. HeldInv'
  <2>1. \A m \in Sent : m \in Sent' \/ (ItemInUse /\ m = item)'
    BY PoppedKeeps, PointerTypes DEF WorkerPop, WholeInv, Sent, ItemInUse
  <2> QED BY <1>1, <1>4, <2>1 DEF WholeInv, HeldInv, Held, Back, ItemInUse
<1>8. ItemLive'
  BY <1>1, ShortBatch, WorkerItemLive DEF WholeInv
<1> QED BY <1>1, <1>2, <1>3, <1>5, <1>6, <1>7, <1>8 DEF WholeInv, BehindInv

LEMMA RespondTrimWhole ==
  ASSUME WholeInv, Disciplined, RespondTrim, UNCHANGED batchNames
  PROVE  WholeInv'
<1>1. /\ UNCHANGED <<m_setupSuccess, bpc, requests, tx, taken, dropped,
                     m_requestQueue, cpc, cmsg, hand, item>>
      /\ wpc = "respond" /\ wpc' = "respondPush" /\ m_responseLock' = Worker
      /\ bpc = "first"
  BY DEF RespondTrim, batchNames, batchVars, clientVars, WholeInv, PlaceInv
<1>2. CoreInv' /\ OwnCore'
  BY RespondCore, RespondTrimOwn DEF WholeInv
<1>3. PlaceInv' /\ EitherLockInv' /\ TxInv'
  BY <1>1 DEF WholeInv, PlaceInv, EitherLockInv, TxInv
<1>4. Batch = {} /\ Batch' = {}
  BY <1>1, NoBatch DEF WholeInv, Batch
<1>5. BatchInv'
  BY <1>1, <1>4 DEF WholeInv, BatchInv
<1>6. DropInv'
  <2>1. \A m \in dropped : Alone(m)'
    BY WorkerLeavesAlone DEF WholeInv, DropInv, PlaceInv
  <2> QED BY <1>1, <1>4, <2>1 DEF WholeInv, DropInv
<1>7. HeldInv'
  <2>1. \A m \in Back \ Back' : m \in TrimFrees(m_responseQueue)
    BY TrimmedKeeps, PointerTypes DEF RespondTrim, WholeInv, Back
  <2>2. \A m \in Msgs : heap'[m] = "live" =>
          heap[m] = "live" /\ m \notin Back \ Back'
    BY <2>1 DEF RespondTrim, Delete
  <2> QED BY <1>1, <1>4, <2>2 DEF WholeInv, HeldInv, Held, Sent, ItemInUse
<1>8. ItemLive'
  BY <1>1, ShortBatch, WorkerItemLive DEF WholeInv
<1> QED BY <1>1, <1>2, <1>3, <1>5, <1>6, <1>7, <1>8 DEF WholeInv, BehindInv

-----------------------------------------------------------------------------
(* The first request of process().                                         *)

\* Every request is one that process() answers.
LEMMA AllRespond ==
  ASSUME CoreInv, OwnCore, NEW m \in Msgs, heap[m] # "unborn"
  PROVE  msgType[m] = "REQUEST_RESPONSE" /\ Responds(m)
BY ResponderAssumption DEF OwnCore, KindInv, Responds

LEMMA FirstWhole ==
  ASSUME WholeInv, Disciplined, ProcessFirst
  PROVE  WholeInv'
<1>1. /\ UNCHANGED <<m_setupSuccess, bpc, requests, tx, taken, dropped,
                     m_requestQueue, m_responseQueue, m_responseLock, heap,
                     cpc, cmsg, hand, item>>
      /\ wpc = "process" /\ bpc = "first"
  BY DEF ProcessFirst, WorkerProcess, batchVars, clientVars, queueVars,
         lockVars, WholeInv, PlaceInv, Disciplined
<1>2. wpc' = "respond"
  BY <1>1, AllRespond, PointerTypes
     DEF ProcessFirst, WorkerProcess, WholeInv, OwnCore, LiveInv, ItemInUse
<1>3. CoreInv' /\ OwnCore'
  BY HeapWorkerCore, WorkerProcessOwn DEF WholeInv, ProcessFirst
<1>4. PlaceInv' /\ EitherLockInv' /\ TxInv'
  BY <1>1, <1>2 DEF WholeInv, PlaceInv, EitherLockInv, TxInv
<1>5. Batch = {} /\ Batch' = {}
  BY <1>1, NoBatch DEF WholeInv, Batch
<1>6. BatchInv' /\ DropInv'
  BY <1>1, <1>2, <1>5
     DEF WholeInv, BatchInv, DropInv, PlaceInv, Alone, Sent, Back
<1>7. HeldInv' /\ BehindInv'
  BY <1>1, <1>2, <1>5 DEF WholeInv, HeldInv, BehindInv, ItemLive, ItemInUse,
     Held, Sent, Back
<1> QED BY <1>3, <1>4, <1>6, <1>7 DEF WholeInv

\* Without a bus: the request is in nobody's hands from now on.
LEMMA DropWhole ==
  ASSUME WholeInv, ProcessDrop
  PROVE  WholeInv'
<1>1. /\ UNCHANGED <<m_setupSuccess, requests, tx, taken, m_requestQueue,
                     m_responseQueue, m_requestLock, m_responseLock, heap,
                     msgType, processed, cpc, cmsg, hand, item, executedOnce,
                     ownerVars>>
      /\ wpc = "process" /\ wpc' = "getType"
      /\ bpc = "first" /\ bpc' = "next" /\ dropped' = dropped \cup {item}
  BY DEF ProcessDrop, clientVars, queueVars, lockVars, heapVars, WholeInv,
         PlaceInv
<1>2. CoreInv'
  BY <1>1 DEF WholeInv, CoreInv, TypeOK, HandsInv, RequestLockInv, RoomInv,
              FreshInv, StageInv, ItemInUse, WorkerPlaces, ownerVars
<1>3. OwnCore'
  BY <1>1 DEF WholeInv, OwnCore, LiveInv, ApartInv, ItemInv, KindInv, Responds,
              Sent, Back, ItemInUse
<1>4. item \in Msgs /\ requests = <<>> /\ tx = NULL /\ heap[item] = "live"
  BY <1>1, PointerTypes, ShortBatch
     DEF WholeInv, PlaceInv, ItemLive, ItemInUse
<1>5. PlaceInv' /\ EitherLockInv' /\ TxInv'
  BY <1>1, <1>4 DEF WholeInv, PlaceInv, EitherLockInv, TxInv
<1>6. Batch = {} /\ Batch' = {}
  BY <1>1, <1>4, NoBatch DEF WholeInv, Batch, Range
<1>7. Alone(item)
  BY <1>1, <1>4 DEF WholeInv, OwnCore, ItemInv, ItemInUse, Alone
<1>8. BatchInv' /\ DropInv'
  BY <1>1, <1>6, <1>7
     DEF WholeInv, BatchInv, DropInv, Alone, Sent, Back
<1>9. HeldInv'
  BY <1>1, <1>6 DEF WholeInv, HeldInv, ItemInUse, Held, Sent, Back
<1>10. BehindInv'
  <2>1. \A i \in DOMAIN m_responseQueue : m_responseQueue[i] # item
    BY <1>7 DEF Alone, Back, Range
  <2> QED BY <1>1, <1>4, <2>1 DEF BehindInv, ItemLive
<1> QED BY <1>2, <1>3, <1>5, <1>8, <1>9, <1>10 DEF WholeInv

\* The answer to the worker's item is the last in the response queue.
LEMMA RespondFirstWhole ==
  ASSUME WholeInv, RespondFirst
  PROVE  WholeInv'
<1>1. /\ UNCHANGED <<m_setupSuccess, requests, taken, dropped, m_requestQueue,
                     heap, cpc, cmsg, hand, item>>
      /\ m_responseQueue' = Pushed(m_responseQueue, item)
      /\ m_responseLock' = NoOne
      /\ wpc = "respondPush" /\ wpc' = "getType"
      /\ bpc = "first" /\ bpc' = "drain" /\ tx' = item
  BY DEF RespondFirst, RespondPush, clientVars, heapVars, WholeInv, PlaceInv
<1>2. RespondPush /\ m_responseLock = Worker
  BY <1>1 DEF RespondFirst, WholeInv, EitherLockInv
<1>3. ItemLive
  BY <1>1, ShortBatch DEF WholeInv
<1>4. CoreInv' /\ OwnCore'
  BY <1>2, <1>3, RespondCore, RespondPushOwn DEF WholeInv
<1>5. /\ item \in Msgs /\ requests = <<>> /\ taken = 0
      /\ m_responseQueue \in Seq(Msgs) /\ item \notin Back
  BY <1>1, PointerTypes
     DEF WholeInv, PlaceInv, OwnCore, ItemInv, ItemInUse
<1>6. PlaceInv' /\ EitherLockInv'
  BY <1>1, <1>5, NamesAssumption DEF WholeInv, PlaceInv, EitherLockInv
<1>7. Back' = Back \cup {item} /\ Sent' = Sent
  BY <1>1, <1>5, PushedFacts DEF Back, Sent
<1>8. TxInv'
  BY <1>1, <1>7 DEF TxInv, Returned
<1>9. Batch = {} /\ Batch' = {}
  BY <1>1, <1>5 DEF Batch, Range
<1>10. BatchInv'
  BY <1>1, <1>9 DEF WholeInv, BatchInv
<1>11. DropInv'
  BY <1>1, <1>7, <1>9 DEF WholeInv, DropInv, Alone
<1>12. HeldInv'
  BY <1>1, <1>7, <1>9 DEF WholeInv, HeldInv, ItemInUse, Held, Returned
<1>13. BehindInv'
  <2>1. ASSUME NEW i \in DOMAIN m_responseQueue', m_responseQueue'[i] = item
        PROVE  i = Len(m_responseQueue) + 1
    BY <1>1, <1>5, <2>1, PushedStays DEF Back, Range
  <2>2. /\ Len(m_responseQueue') = Len(m_responseQueue) + 1
        /\ Len(m_responseQueue) \in Nat /\ Len(<<>>) = 0
    BY <1>1, <1>5, PushedFacts
  <2> QED BY <1>1, <1>3, <1>5, <2>1, <2>2 DEF BehindInv, ItemLive, ItemInUse
<1> QED BY <1>4, <1>6, <1>8, <1>10, <1>11, <1>12, <1>13 DEF WholeInv

-----------------------------------------------------------------------------
(* The batch.                                                              *)

\* All the requests move from the queue to the batch.
LEMMA DrainWhole ==
  ASSUME WholeInv, Drain
  PROVE  WholeInv'
<1>1. /\ UNCHANGED <<m_setupSuccess, dropped, m_responseQueue, m_requestLock,
                     m_responseLock, heap, msgType, processed, cpc, cmsg, hand,
                     wpc, item, executedOnce, ownerVars>>
      /\ requests' = m_requestQueue /\ m_requestQueue' = <<>>
      /\ taken' = Len(requests') /\ tx' = NULL
      /\ bpc = "drain" /\ bpc' = "next" /\ wpc = "getType"
  BY DEF Drain, Moved, Left, clientVars, lockVars, heapVars, workerVars,
         WholeInv, PlaceInv
<1>2. /\ m_requestQueue \in Seq(Msgs) /\ Len(m_requestQueue) \in Nat
      /\ Sent' = {} /\ Sent = Range(requests') /\ Back' = Back
      /\ Len(<<>>) = 0 /\ requests = <<>> /\ taken = 0
  BY <1>1, PointerTypes DEF WholeInv, PlaceInv, Sent, Back, Range
<1>3. CoreInv'
  <2>1. TypeOK'
    BY <1>1 DEF WholeInv, CoreInv, TypeOK, WorkerPlaces, ownerVars
  <2>2. HandsInv' /\ RequestLockInv' /\ StageInv'
    BY <1>1 DEF WholeInv, CoreInv, HandsInv, RequestLockInv, StageInv,
                ItemInUse, ownerVars
  <2>3. RoomInv'
    BY <1>1, <1>2, LimitAssumption DEF WholeInv, CoreInv, RoomInv
  <2>4. FreshInv'
    BY <1>1, <1>2 DEF WholeInv, CoreInv, FreshInv, Sent
  <2> QED BY <2>1, <2>2, <2>3, <2>4 DEF CoreInv
<1>4. OwnCore'
  <2>1. LiveInv' /\ ItemInv' /\ KindInv'
    BY <1>1, <1>2
       DEF WholeInv, OwnCore, LiveInv, ItemInv, KindInv, Responds, ItemInUse
  <2>2. ApartInv'
    <3>1. IsInjective(m_requestQueue')
      BY <1>1 DEF IsInjective
    <3> QED BY <1>1, <1>2, <3>1 DEF WholeInv, OwnCore, ApartInv
  <2> QED BY <2>1, <2>2 DEF OwnCore
<1>5. PlaceInv' /\ EitherLockInv' /\ TxInv'
  BY <1>1, <1>2 DEF WholeInv, PlaceInv, EitherLockInv, TxInv
<1>6. Batch = {} /\ Batch' = Sent
  BY <1>1, <1>2, NoBatch DEF WholeInv, Batch
<1>7. \A m \in Sent : m \in Msgs /\ m # item /\ Alone(m)'
  <2>1. \A m \in Sent : \A c \in Clients : cmsg[c] # m
    BY <1>2, PointerTypes, NamesAssumption
       DEF WholeInv, CoreInv, FreshInv, HandsInv, OwnCore, KindInv, Sent, TypeOK
  <2> QED BY <1>1, <1>2, <2>1, PointerTypes
          DEF WholeInv, OwnCore, LiveInv, ApartInv, ItemInv, Alone, ItemInUse
<1>8. BatchInv'
  BY <1>1, <1>6, <1>7 DEF WholeInv, OwnCore, ApartInv, BatchInv
<1>9. DropInv'
  BY <1>1, <1>2, <1>6 DEF WholeInv, DropInv, Alone
<1>10. HeldInv'
  BY <1>1, <1>2, <1>6 DEF WholeInv, HeldInv, Held, Returned, ItemInUse
<1>11. BehindInv'
  <2>1. ItemLive'
    BY <1>1, ShortBatch DEF WholeInv, ItemLive, ItemInUse
  <2>2. ASSUME NEW i \in DOMAIN m_responseQueue, m_responseQueue[i] = item
        PROVE  Len(m_responseQueue) - i <= 0
    BY <1>1, <1>2, <2>2, PointerTypes DEF WholeInv, BehindInv
  <2>3. Len(m_responseQueue) \in Nat /\ DOMAIN m_responseQueue \subseteq Nat
    BY PointerTypes DEF WholeInv
  <2> QED BY <1>1, <1>2, <2>1, <2>2, <2>3 DEF BehindInv
<1> QED BY <1>3, <1>4, <1>5, <1>8, <1>9, <1>10, <1>11 DEF WholeInv

\* Taking the next request of the batch leaves the batch what it is.
LEMMA NextWhole ==
  ASSUME WholeInv, BatchNext
  PROVE  WholeInv'
<1>1. /\ UNCHANGED vars /\ UNCHANGED <<m_setupSuccess, taken, dropped>>
      /\ requests \in Seq(Msgs) /\ requests # <<>>
      /\ tx' = Head(requests) /\ requests' = Popped(requests)
      /\ bpc = "next" /\ bpc' = "trim" /\ wpc = "getType"
  BY DEF BatchNext, Popped, WholeInv, PlaceInv
<1>2. /\ tx' \in Msgs /\ requests' \in Seq(Msgs)
      /\ IsInjective(requests') /\ tx' \notin Range(requests')
      /\ Len(requests') = Len(requests) - 1 /\ Len(requests) \in Nat
  BY <1>1, PoppedFacts, PoppedInjective DEF WholeInv, BatchInv
<1>3. Batch' = Batch
  <2>1. Range(requests) = Range(requests') \cup {tx'}
    BY <1>1, PoppedFacts, PoppedKeeps
  <2> QED BY <1>1, <2>1 DEF Batch
<1>4. CoreInv' /\ OwnCore'
  BY <1>1, StutterCore, QuietOwn DEF WholeInv
<1>5. PlaceInv' /\ EitherLockInv' /\ TxInv'
  BY <1>1, <1>2
     DEF WholeInv, PlaceInv, EitherLockInv, TxInv, vars, lockVars, workerVars
<1>6. /\ \A m \in Msgs : Alone(m)' = Alone(m)
      /\ \A m \in Msgs : Returned(m)' = Returned(m)
  BY <1>1 DEF Alone, Returned, Sent, Back, vars, queueVars, heapVars, clientVars
<1>7. BatchInv'
  BY <1>1, <1>2, <1>3, <1>6, BatchTypes
     DEF WholeInv, BatchInv, vars, workerVars
<1>8. DropInv'
  BY <1>1, <1>3, <1>6 DEF WholeInv, DropInv, PlaceInv, vars, workerVars
<1>9. HeldInv'
  BY <1>1, <1>3 DEF WholeInv, HeldInv, Held, Returned, Sent, Back, ItemInUse,
     vars, queueVars, heapVars, clientVars, workerVars
<1>10. BehindInv'
  <2>1. UNCHANGED <<m_responseQueue, wpc, item, heap>>
    BY <1>1 DEF vars, queueVars, heapVars, workerVars
  <2>2. Len(m_responseQueue) \in Nat /\ DOMAIN m_responseQueue \subseteq Nat
    BY PointerTypes DEF WholeInv
  <2> QED BY <1>1, <1>2, <2>1, <2>2 DEF WholeInv, BehindInv, ItemLive, ItemInUse
<1> QED BY <1>4, <1>5, <1>7, <1>8, <1>9, <1>10 DEF WholeInv

\* enqueResponse trims: if the worker's own item goes, the batch was too long.
LEMMA TrimWhole ==
  ASSUME WholeInv, BatchTrim
  PROVE  WholeInv'
<1> DEFINE F == TrimFrees(m_responseQueue)
<1>1. /\ UNCHANGED <<m_setupSuccess, requests, tx, taken, dropped,
                     m_requestQueue, m_requestLock, msgType, processed, cpc,
                     cmsg, hand, wpc, item, executedOnce, ownerVars>>
      /\ m_responseLock' = Worker /\ heap' = Delete(F)
      /\ m_responseQueue' = Trimmed(m_responseQueue)
      /\ bpc = "trim" /\ bpc' = "push" /\ wpc = "getType"
  BY DEF BatchTrim, clientVars, workerVars, WholeInv, PlaceInv
<1>2. /\ m_responseQueue' \in Seq(Msgs) /\ Len(m_responseQueue') <= QueueSizeLimit
      /\ Back' \subseteq Back /\ F \subseteq Back /\ F \cap Back' = {}
      /\ IsInjective(m_responseQueue') /\ Back \ Back' \subseteq F
  <2>1. IsInjective(m_responseQueue)
    BY DEF WholeInv, OwnCore, ApartInv
  <2> QED BY <1>1, <2>1, TrimmedInjective, TrimmedFacts, TrimmedKeeps,
             PointerTypes DEF WholeInv, Back
<1>3. /\ \A m \in Msgs \ F : heap'[m] = heap[m]
      /\ \A m \in Msgs \cap F : heap'[m] = "deleted"
      /\ \A m \in Msgs : heap'[m] # "unborn" => heap[m] # "unborn"
      /\ \A m \in Msgs : heap[m] # "unborn" => heap'[m] # "unborn"
      /\ heap' \in [Msgs -> {"unborn", "live", "deleted"}]
  <2>1. \A m \in Back : heap[m] # "unborn"
    BY DEF WholeInv, OwnCore, LiveInv
  <2>2. \A m \in Msgs \cap F : Delete(F)[m] = "deleted"
    BY DEF Delete
  <2> QED BY <1>1, <1>2, <2>1, <2>2, DeleteFacts, DeleteKills, PointerTypes
          DEF WholeInv
<1>4. /\ F \cap Sent = {}
      /\ \A d \in Clients : F \cap hand[d] = {}
      /\ \A d \in Clients : cpc[d] # "idle" => cmsg[d] \notin F
  BY <1>1, <1>2 DEF WholeInv, OwnCore, ApartInv
<1>5. CoreInv'
  <2>1. TypeOK'
    BY <1>1, <1>2, <1>3 DEF WholeInv, CoreInv, TypeOK, WorkerPlaces, ownerVars
  <2>2. HandsInv' /\ RequestLockInv' /\ StageInv'
    BY <1>1 DEF WholeInv, CoreInv, HandsInv, RequestLockInv, StageInv,
                ItemInUse, ownerVars
  <2>3. RoomInv'
    BY <1>1, <1>2, NamesAssumption DEF WholeInv, CoreInv, RoomInv
  <2>4. FreshInv'
    BY <1>1, <1>3, PointerTypes DEF WholeInv, CoreInv, FreshInv, Sent
  <2> QED BY <2>1, <2>2, <2>3, <2>4 DEF CoreInv
<1>6. OwnCore'
  <2>1. LiveInv'
    BY <1>1, <1>2, <1>3, <1>4, PointerTypes
       DEF WholeInv, OwnCore, LiveInv, Sent, ItemInUse
  <2>2. ApartInv'
    BY <1>1, <1>2 DEF WholeInv, OwnCore, ApartInv, Sent
  <2>3. ItemInv' /\ KindInv'
    BY <1>1, <1>2, <1>3
       DEF WholeInv, OwnCore, ItemInv, KindInv, Responds, Sent, ItemInUse
  <2> QED BY <2>1, <2>2, <2>3 DEF OwnCore
<1>7. PlaceInv' /\ EitherLockInv' /\ TxInv'
  BY <1>1 DEF WholeInv, PlaceInv, EitherLockInv, TxInv
<1>8. Batch' = Batch
  BY <1>1 DEF Batch
<1>9. BatchInv' /\ DropInv'
  <2>1. \A m \in Msgs : Alone(m) => Alone(m)'
    BY WorkerLeavesAlone DEF WholeInv
  <2> QED BY <1>1, <1>8, <2>1, BatchTypes
          DEF WholeInv, BatchInv, DropInv, PlaceInv
<1>10. HeldInv'
  <2>1. \A m \in Msgs : heap'[m] = "live" =>
          heap[m] = "live" /\ m \notin Back \ Back'
    BY <1>2, <1>3
  <2>2. item \in Msgs
    BY <1>1, PointerTypes DEF WholeInv, ItemInUse
  <2> QED BY <1>1, <1>8, <2>1, <2>2
          DEF WholeInv, HeldInv, Held, Returned, Sent, ItemInUse
<1>11. BehindInv'
  <2>1. /\ Len(m_responseQueue) \in Nat /\ Len(m_responseQueue') \in Nat
        /\ Len(requests) \in Nat /\ taken \in Nat
        /\ DOMAIN m_responseQueue = 1 .. Len(m_responseQueue)
        /\ item \in Msgs
    BY <1>1, <1>2, PointerTypes DEF WholeInv, PlaceInv, ItemInUse
  <2>2. CASE ~ MustTrim(m_responseQueue)
    <3>1. m_responseQueue' = m_responseQueue /\ heap'[item] = heap[item]
      BY <1>1, <1>3, <2>1, <2>2 DEF Trimmed, TrimFrees
    <3> QED BY <1>1, <3>1 DEF WholeInv, BehindInv, ItemLive, ItemInUse
  <2>3. CASE MustTrim(m_responseQueue)
    <3>1. /\ m_responseQueue # <<>> /\ F = {Head(m_responseQueue)}
          /\ m_responseQueue' = Popped(m_responseQueue)
          /\ Len(m_responseQueue) > QueueSizeLimit
      BY <1>1, <2>3, LimitAssumption DEF MustTrim, Trimmed, TrimFrees
    <3>2. ItemLive' \/ taken > QueueSizeLimit
      <4>1. CASE item \notin F
        BY <1>1, <1>3, <2>1, <4>1 DEF WholeInv, BehindInv, ItemLive, ItemInUse
      <4>2. CASE item \in F
        <5>1. 1 \in DOMAIN m_responseQueue /\ m_responseQueue[1] = item
          BY <2>1, <3>1, <4>2, LimitAssumption, PointerTypes DEF WholeInv
        <5>2. Len(m_responseQueue) - 1 + Len(requests) + 1 <= taken
          BY <1>1, <5>1 DEF WholeInv, BehindInv
        <5> QED BY <2>1, <3>1, <5>2, LimitAssumption
      <4> QED BY <4>1, <4>2
    <3>3. ASSUME NEW i \in DOMAIN m_responseQueue', m_responseQueue'[i] = item
          PROVE  Len(m_responseQueue') - i + Len(requests) + 1 <= taken
      <4>1. /\ i + 1 \in DOMAIN m_responseQueue
            /\ m_responseQueue[i + 1] = item
            /\ Len(m_responseQueue') - i = Len(m_responseQueue) - (i + 1)
        BY <3>1, <3>3, PoppedShifts, PointerTypes DEF WholeInv
      <4> QED BY <1>1, <4>1 DEF WholeInv, BehindInv
    <3> QED BY <1>1, <3>2, <3>3 DEF BehindInv
  <2> QED BY <2>2, <2>3
<1> QED BY <1>5, <1>6, <1>7, <1>9, <1>10, <1>11 DEF WholeInv

\* The answer joins the response queue, and its request leaves the batch.
LEMMA PushWhole ==
  ASSUME WholeInv, BatchPush
  PROVE  WholeInv'
<1>1. /\ UNCHANGED <<m_setupSuccess, requests, tx, taken, dropped,
                     m_requestQueue, m_requestLock, heap, msgType, processed,
                     cpc, cmsg, hand, wpc, item, executedOnce, ownerVars>>
      /\ m_responseQueue' = Pushed(m_responseQueue, tx)
      /\ m_responseLock' = NoOne
      /\ bpc = "push" /\ bpc' = "next" /\ wpc = "getType"
  BY DEF BatchPush, clientVars, heapVars, workerVars, WholeInv, PlaceInv
<1>2. /\ tx \in Msgs /\ tx # item /\ Alone(tx) /\ tx \notin Range(requests)
      /\ Batch = Range(requests) \cup {tx} /\ Batch' = Range(requests)
      /\ m_responseLock = Worker
  BY <1>1 DEF WholeInv, PlaceInv, BatchInv, Batch, EitherLockInv
<1>3. /\ m_responseQueue' \in Seq(Msgs)
      /\ Len(m_responseQueue') = Len(m_responseQueue) + 1
      /\ Len(m_responseQueue) \in Nat
      /\ Back' = Back \cup {tx} /\ IsInjective(m_responseQueue')
      /\ Sent' = Sent
  <2>1. /\ m_responseQueue \in Seq(Msgs) /\ IsInjective(m_responseQueue)
        /\ tx \in Msgs /\ tx \notin Range(m_responseQueue)
    BY <1>2, PointerTypes DEF WholeInv, OwnCore, ApartInv, Alone, Back
  <2>2. IsInjective(m_responseQueue')
    BY <1>1, <2>1, PushedInjective
  <2>3. /\ m_responseQueue' \in Seq(Msgs)
        /\ Len(m_responseQueue') = Len(m_responseQueue) + 1
        /\ Range(m_responseQueue') = Range(m_responseQueue) \cup {tx}
    BY <1>1, <2>1, PushedFacts
  <2>4. Len(m_responseQueue) \in Nat
    BY <2>1
  <2> QED BY <1>1, <2>2, <2>3, <2>4 DEF Sent, Back
<1>4. CoreInv'
  <2>1. TypeOK'
    BY <1>1, <1>3 DEF WholeInv, CoreInv, TypeOK, WorkerPlaces, ownerVars
  <2>2. HandsInv' /\ RequestLockInv' /\ StageInv' /\ FreshInv'
    BY <1>1 DEF WholeInv, CoreInv, HandsInv, RequestLockInv, StageInv,
                FreshInv, ItemInUse, ownerVars
  <2>3. RoomInv'
    BY <1>1, <1>2, <1>3, NamesAssumption, LimitAssumption
       DEF WholeInv, CoreInv, RoomInv
  <2> QED BY <2>1, <2>2, <2>3 DEF CoreInv
<1>5. OwnCore'
  <2>1. LiveInv'
    BY <1>1, <1>2, <1>3 DEF WholeInv, OwnCore, LiveInv, Alone, ItemInUse
  <2>2. ApartInv'
    BY <1>1, <1>2, <1>3 DEF WholeInv, OwnCore, ApartInv, Alone
  <2>3. ItemInv' /\ KindInv'
    BY <1>1, <1>2, <1>3
       DEF WholeInv, OwnCore, ItemInv, KindInv, Responds, ItemInUse
  <2> QED BY <2>1, <2>2, <2>3 DEF OwnCore
<1>6. PlaceInv' /\ EitherLockInv' /\ TxInv'
  BY <1>1, <1>2, <1>3, NamesAssumption
     DEF WholeInv, PlaceInv, EitherLockInv, TxInv, Returned
<1>7. BatchInv' /\ DropInv'
  BY <1>1, <1>2, <1>3 DEF WholeInv, BatchInv, DropInv, Alone
<1>8. HeldInv'
  BY <1>1, <1>2, <1>3 DEF WholeInv, HeldInv, Held, Returned, ItemInUse
<1>9. BehindInv'
  <2>1. ItemLive' \/ taken > QueueSizeLimit
    BY <1>1 DEF WholeInv, BehindInv, ItemLive, ItemInUse
  <2>2. ASSUME NEW i \in DOMAIN m_responseQueue', m_responseQueue'[i] = item
        PROVE  Len(m_responseQueue') - i + Len(requests) <= taken
    <3>1. i \in DOMAIN m_responseQueue /\ m_responseQueue[i] = item
      BY <1>1, <1>2, <2>2, PushedStays, PointerTypes DEF WholeInv
    <3>2. Len(m_responseQueue) - i + Len(requests) + 1 <= taken
      BY <1>1, <3>1 DEF WholeInv, BehindInv
    <3>3. /\ i \in Nat /\ taken \in Nat /\ Len(requests) \in Nat
      BY <3>1, PointerTypes DEF WholeInv, PlaceInv
    <3> QED BY <1>3, <3>2, <3>3
  <2>3. Len(requests) \in Nat /\ DOMAIN m_responseQueue' \subseteq Nat
    BY <1>3 DEF WholeInv, PlaceInv
  <2> QED BY <1>1, <1>3, <2>1, <2>2, <2>3 DEF BehindInv
<1> QED BY <1>4, <1>5, <1>6, <1>7, <1>8, <1>9 DEF WholeInv

\* process returns; getType reads a REQUEST_RESPONSE, or what is deleted
\* already.
LEMMA ReturnWhole ==
  ASSUME WholeInv, ProcessReturn
  PROVE  WholeInv'
<1>1. /\ UNCHANGED <<m_setupSuccess, requests, dropped, m_requestQueue,
                     m_responseQueue, m_requestLock, m_responseLock, msgType,
                     cpc, cmsg, hand>>
      /\ wpc = "getType" /\ wpc' = "check" /\ item' = NULL
      /\ bpc = "next" /\ bpc' = "first" /\ requests = <<>>
      /\ tx' = NULL /\ taken' = 0
  BY DEF ProcessReturn, WorkerGetType, clientVars, queueVars, lockVars
<1>2. heap' = heap
  <2>1. /\ item \in Msgs /\ heap[item] # "unborn"
        /\ heap \in [Msgs -> {"unborn", "live", "deleted"}]
    BY <1>1, PointerTypes DEF WholeInv, OwnCore, LiveInv, ItemInUse
  <2>2. CASE heap[item] = "live"
    BY <2>1, <2>2, AllRespond
       DEF WholeInv, ProcessReturn, WorkerGetType, DeletedAfter
  <2>3. CASE heap[item] = "deleted"
    <3>1. Delete({item}) = heap
      BY <2>1, <2>3 DEF Delete
    <3> QED BY <3>1 DEF ProcessReturn, WorkerGetType
  <2> QED BY <2>1, <2>2, <2>3
<1>3. CoreInv'
  BY HeapWorkerCore DEF WholeInv, ProcessReturn
<1>4. OwnCore'
  BY <1>1, <1>2 DEF WholeInv, OwnCore, LiveInv, ApartInv, ItemInv, KindInv,
                    Sent, Back, ItemInUse
<1>5. PlaceInv' /\ EitherLockInv' /\ TxInv'
  BY <1>1 DEF WholeInv, PlaceInv, EitherLockInv, TxInv
<1>6. Batch = {} /\ Batch' = {}
  BY <1>1 DEF Batch, Range
<1>7. BatchInv' /\ DropInv'
  BY <1>1, <1>2, <1>6
     DEF WholeInv, BatchInv, DropInv, Alone, Sent, Back
<1>8. HeldInv'
  BY <1>1, <1>2, <1>6
     DEF WholeInv, HeldInv, Held, Returned, Sent, Back, ItemInUse
<1>9. BehindInv'
  BY <1>1 DEF BehindInv, ItemLive, ItemInUse
<1> QED BY <1>3, <1>4, <1>5, <1>7, <1>8, <1>9 DEF WholeInv

-----------------------------------------------------------------------------
(* The inductive invariant.                                                *)

LEMMA InitWhole == IInit => WholeInv
<1> SUFFICES ASSUME IInit PROVE WholeInv
  OBVIOUS
<1>1. CoreInv /\ OwnCore /\ ItemLive
  BY InitIInv, InitOwn DEF IInit, IInv, OwnInv
<1>2. /\ m_setupSuccess = TRUE /\ bpc = "first" /\ requests = <<>>
      /\ tx = NULL /\ taken = 0 /\ dropped = {} /\ wpc = "absent"
      /\ m_responseLock = NoOne /\ heap = [m \in Msgs |-> "unborn"]
  BY DEF IInit, Init
<1>3. PlaceInv /\ EitherLockInv /\ TxInv
  BY <1>2, NamesAssumption DEF PlaceInv, EitherLockInv, TxInv
<1>4. BatchInv /\ DropInv
  BY <1>2 DEF BatchInv, DropInv, Batch, Range, IsInjective
<1>5. HeldInv /\ BehindInv
  BY <1>1, <1>2 DEF HeldInv, BehindInv
<1> QED BY <1>1, <1>3, <1>4, <1>5 DEF WholeInv

LEMMA StepWhole ==
  ASSUME WholeInv, ClientKind = "defer", [INext]_ivars
  PROVE  WholeInv'
<1>1. CASE ElsewhereStep
  BY <1>1, DeferIsDisciplined, ClientWhole, QuietWhole, PopWhole,
     RespondTrimWhole DEF ElsewhereStep, batchNames
<1>2. CASE BatchStep
  BY <1>2, DeferIsDisciplined, DropWhole, FirstWhole, RespondFirstWhole,
     DrainWhole, NextWhole, TrimWhole, PushWhole, ReturnWhole DEF BatchStep
<1>3. CASE ReSetup \/ UNCHANGED ivars
  BY <1>3, QuietWhole
<1> QED BY <1>1, <1>2, <1>3 DEF INext

\* The conjunction is inductive, for clients that delete after end().
THEOREM BatchInvariance == ClientKind = "defer" => (ISpec => []WholeInv)
<1> SUFFICES ASSUME ClientKind = "defer" PROVE ISpec => []WholeInv
  OBVIOUS
<1>1. WholeInv /\ [INext]_ivars => WholeInv'
  BY StepWhole
<1> QED BY InitWhole, <1>1, PTL DEF ISpec

\* Of a batch of at most m_queueSizeLimit requests no pointer dangles, and of
\* a longer one the worker's own item is the only one that may.
THEOREM BatchNothingDangles ==
  ClientKind = "defer" => (ISpec => []BatchPointersLive)
<1>1. ASSUME WholeInv PROVE BatchPointersLive
  <2>1. \A m \in Batch : heap[m] = "live"
    BY <1>1 DEF WholeInv, BatchInv, Alone
  <2>2. tx # NULL => heap[tx] = "live"
    <3>1. bpc # "first" => wpc = "getType"
      BY <1>1 DEF WholeInv, PlaceInv
    <3> QED BY <1>1, <2>1, <3>1
            DEF WholeInv, PlaceInv, TxInv, Returned, OwnCore, LiveInv, Batch
  <2>3. ItemInUse => heap[item] = "live" \/ taken > QueueSizeLimit
    BY <1>1 DEF WholeInv, BehindInv, ItemLive
  <2> QED BY <1>1, <2>1, <2>2, <2>3
          DEF WholeInv, OwnCore, LiveInv, BatchPointersLive, Sent, Back, Batch
<1> QED BY <1>1, BatchInvariance, PTL

\* What is lost is what was dropped for want of a bus, and it is never
\* answered later.
THEOREM NothingElseLeaks ==
  ClientKind = "defer" => (ISpec => []LeaksOnlyDropped)
<1>1. ASSUME WholeInv PROVE LeaksOnlyDropped
  <2>1. Batch \subseteq Range(requests) \cup Range(InHands)
    <3>1. bpc \in {"trim", "push"} => wpc = "getType" /\ InHands = <<tx>>
      BY <1>1 DEF WholeInv, PlaceInv, InHands
    <3>2. tx \in Range(<<tx>>)
      BY DEF Range
    <3> QED BY <3>1, <3>2 DEF Batch
  <2>2. \A m \in Msgs : Held(m) => \E c \in Clients : m \in hand[c] \cup {cmsg[c]}
    BY DEF Held
  <2>3. dropped \cap (Back \cup Range(requests)
                        \cup UNION {hand[c] : c \in Clients}) = {}
    BY <1>1 DEF WholeInv, DropInv, Alone, Batch
  <2> QED BY <1>1, <2>1, <2>2, <2>3
          DEF WholeInv, HeldInv, LeaksOnlyDropped, Sent, Back
<1> QED BY <1>1, BatchInvariance, PTL

-----------------------------------------------------------------------------
(* The line of answers and requests.                                       *)

LEMMA ConcatInjective ==
  ASSUME NEW s \in Seq(Msgs), NEW t \in Seq(Msgs), IsInjective(s),
         IsInjective(t), Range(s) \cap Range(t) = {}
  PROVE  IsInjective(s \o t)
<1>1. /\ Len(s) \in Nat /\ Len(t) \in Nat
      /\ DOMAIN s = 1 .. Len(s) /\ DOMAIN t = 1 .. Len(t)
      /\ DOMAIN (s \o t) = 1 .. Len(s) + Len(t)
  BY ConcatProperties
<1>2. \A i \in DOMAIN (s \o t) :
        \/ i \in DOMAIN s /\ (s \o t)[i] = s[i]
        \/ i - Len(s) \in DOMAIN t /\ (s \o t)[i] = t[i - Len(s)]
           /\ i > Len(s)
  BY <1>1, ConcatProperties
<1>3. /\ \A i \in DOMAIN s, j \in DOMAIN t : s[i] # t[j]
      /\ \A i, j \in DOMAIN s : s[i] = s[j] => i = j
      /\ \A i, j \in DOMAIN t : t[i] = t[j] => i = j
  BY DEF Range, IsInjective
<1>4. ASSUME NEW i \in DOMAIN (s \o t), NEW j \in DOMAIN (s \o t),
             (s \o t)[i] = (s \o t)[j]
      PROVE  i = j
  BY <1>1, <1>2, <1>3, <1>4
<1> QED BY <1>4 DEF IsInjective

\* What is in hand is one message, that nobody else has, or none.
LEMMA HandFacts ==
  ASSUME WholeInv
  PROVE  /\ InHands \in Seq(Msgs) /\ IsInjective(InHands)
         /\ Range(InHands) \cap (Sent \cup Back \cup Range(requests)) = {}
         /\ \A c \in Clients : /\ cmsg[c] \notin Range(InHands)
                               /\ hand[c] \cap Range(InHands) = {}
<1>1. /\ IsInjective(<<>>) /\ <<>> \in Seq(Msgs) /\ Range(<<>>) = {}
      /\ \A m \in Msgs : /\ IsInjective(<<m>>) /\ <<m>> \in Seq(Msgs)
                         /\ Range(<<m>>) = {m}
  BY DEF IsInjective, Range
<1>2. CASE wpc \in {"process", "respond", "respondPush"}
  <2>1. InHands = <<item>> /\ item \in Msgs /\ ItemInUse
    BY <1>2, PointerTypes DEF InHands, ItemInUse, WholeInv
  <2>2. requests = <<>>
    BY <1>2 DEF WholeInv, PlaceInv
  <2>3. /\ item \notin Sent \cup Back
        /\ \A c \in Clients : cmsg[c] # item /\ item \notin hand[c]
    BY <1>2, <2>1 DEF WholeInv, OwnCore, ItemInv
  <2> QED BY <1>1, <2>1, <2>2, <2>3
<1>3. CASE /\ wpc \notin {"process", "respond", "respondPush"}
           /\ bpc \in {"trim", "push"}
  <2>1. InHands = <<tx>> /\ tx \in Msgs /\ Alone(tx) /\ tx \notin Range(requests)
    BY <1>3 DEF InHands, WholeInv, PlaceInv, BatchInv, Batch
  <2> QED BY <1>1, <2>1 DEF Alone
<1>4. CASE /\ wpc \notin {"process", "respond", "respondPush"}
           /\ bpc \notin {"trim", "push"}
  BY <1>1, <1>4 DEF InHands
<1> QED BY <1>2, <1>3, <1>4

LEMMA LineFacts ==
  ASSUME WholeInv
  PROVE  /\ BatchLine \in Seq(Msgs) /\ IsInjective(BatchLine)
         /\ Range(BatchLine)
              = Back \cup Range(InHands) \cup Range(requests) \cup Sent
<1> DEFINE one == m_responseQueue \o InHands
           two == one \o requests
<1>1. /\ m_responseQueue \in Seq(Msgs) /\ m_requestQueue \in Seq(Msgs)
      /\ requests \in Seq(Msgs) /\ IsInjective(requests)
      /\ IsInjective(m_responseQueue) /\ IsInjective(m_requestQueue)
      /\ Sent \cap Back = {} /\ Range(requests) \cap (Sent \cup Back) = {}
  BY PointerTypes DEF WholeInv, PlaceInv, BatchInv, OwnCore, ApartInv, Batch,
                      Alone
<1>2. /\ one \in Seq(Msgs) /\ IsInjective(one)
      /\ Range(one) = Back \cup Range(InHands)
  BY <1>1, HandFacts, ConcatProperties, ConcatInjective, RangeConcatenation
     DEF Back
<1>3. /\ two \in Seq(Msgs) /\ IsInjective(two)
      /\ Range(two) = Back \cup Range(InHands) \cup Range(requests)
  <2> HIDE DEF one
  <2>1. Range(one) \cap Range(requests) = {}
    BY <1>1, <1>2, HandFacts
  <2>2. two \in Seq(Msgs) /\ Range(two) = Range(one) \cup Range(requests)
    BY <1>1, <1>2, ConcatProperties, RangeConcatenation
  <2>3. IsInjective(two)
    BY <1>1, <1>2, <2>1, ConcatInjective
  <2> QED BY <1>2, <2>2, <2>3
<1>4. BatchLine = two \o m_requestQueue
  BY DEF BatchLine
<1> HIDE DEF one, two
<1>5. Range(two) \cap Range(m_requestQueue) = {}
  BY <1>1, <1>3, HandFacts DEF Sent
<1> QED BY <1>1, <1>3, <1>4, <1>5, ConcatProperties, ConcatInjective,
           RangeConcatenation DEF Sent

LEMMA OwnerFacts ==
  ASSUME WholeInv
  PROVE  BatchSingleOwner
<1>1. \A c \in Clients :
        /\ hand[c] \cap (Back \cup Range(requests) \cup Sent) = {}
        /\ cpc[c] \in {"enque", "push"} =>
             cmsg[c] \notin Back \cup Range(requests) \cup Sent
        /\ \A d \in Clients : c # d => hand[c] \cap hand[d] = {}
  BY DEF WholeInv, OwnCore, ApartInv, BatchInv, Batch, Alone, CoreInv,
         FreshInv, Sent
<1> QED BY <1>1, HandFacts, LineFacts DEF BatchSingleOwner

\* Every message has one place, the batch among them.
THEOREM BatchOneOwner ==
  ClientKind = "defer" => (ISpec => []BatchSingleOwner)
BY OwnerFacts, BatchInvariance, PTL

-----------------------------------------------------------------------------
(* The response queue implements a Mailbox.                                *)

\* Trimming for an answer that is in hand puts it.
LEMMA TrimAnswers ==
  ASSUME WholeInv, NEW m \in Msgs, m \notin Back, m_responseLock = NoOne,
         m_responseLock' = Worker,
         m_responseQueue' = Trimmed(m_responseQueue),
         m = IF bpc' = "push" THEN tx' ELSE item'
  PROVE  BatchMailbox!Put(m)
<1>1. BatchResponseBox = m_responseQueue
  BY DEF BatchResponseBox
<1>2. BatchResponseBox' = Append(Trimmed(m_responseQueue), m)
  BY NamesAssumption DEF BatchResponseBox
<1> QED BY <1>1, <1>2
        DEF BatchMailbox!Put, BatchMailbox!Kept, BatchMailbox!Range, Range,
            Back, Trimmed, Popped, MustTrim

LEMMA ClientAnswers ==
  ASSUME WholeInv, NEW c \in Clients, ClientStep(c), UNCHANGED batchNames
  PROVE  BatchMailbox!Take \/ UNCHANGED BatchResponseBox
<1>1. CASE Dequeue(c)
  BY <1>1 DEF Dequeue, lockVars, Popped, BatchMailbox!Take, BatchResponseBox
<1>2. CASE ~ Dequeue(c)
  <2>1. UNCHANGED <<m_responseQueue, m_responseLock, bpc, tx, item>>
    BY <1>2 DEF ClientStep, NewMessage, EnqueTrim, EnquePush, DeleteResponse,
                StopWaiting, queueVars, lockVars, workerVars, batchNames,
                batchVars
  <2> QED BY <2>1 DEF BatchResponseBox
<1> QED BY <1>1, <1>2

LEMMA ElsewhereAnswers ==
  ASSUME WholeInv, UNCHANGED batchNames,
         \/ OwnerStep \/ WorkerCheck \/ WorkerSwitch \/ WorkerPop \/ WorkerFree
         \/ RespondTrim
  PROVE  \/ \E m \in Msgs : BatchMailbox!Put(m)
         \/ UNCHANGED BatchResponseBox
<1>1. CASE RespondTrim
  <2>1. /\ m_responseLock = NoOne /\ m_responseLock' = Worker
        /\ m_responseQueue' = Trimmed(m_responseQueue)
        /\ wpc = "respond" /\ bpc' = "first" /\ item' = item
    BY <1>1 DEF RespondTrim, batchNames, batchVars, WholeInv, PlaceInv
  <2>2. item \in Msgs /\ item \notin Back
    BY <2>1, PointerTypes DEF WholeInv, OwnCore, ItemInv, ItemInUse
  <2> QED BY <2>1, <2>2, TrimAnswers
<1>2. CASE ~ RespondTrim
  <2>1. UNCHANGED <<m_responseQueue, m_responseLock, bpc, tx>>
    BY <1>2 DEF OwnerStep, SetType, Begin, EndSignal, EndJoin, WorkerCheck,
                WorkerSwitch, WorkerPop, WorkerFree, queueVars, lockVars,
                batchNames, batchVars
  <2>2. item' = item \/ wpc = "pop"
    BY <1>2 DEF OwnerStep, SetType, Begin, EndSignal, EndJoin, WorkerCheck,
                WorkerSwitch, WorkerPop, WorkerFree, workerVars
  <2>3. wpc = "pop" => m_responseLock = NoOne
    BY DEF WholeInv, EitherLockInv, PlaceInv, CoreInv, TypeOK
  <2> QED BY <2>1, <2>2, <2>3 DEF BatchResponseBox
<1> QED BY <1>1, <1>2

LEMMA BatchAnswers ==
  ASSUME WholeInv, BatchStep
  PROVE  \/ \E m \in Msgs : BatchMailbox!Put(m)
         \/ UNCHANGED BatchResponseBox
<1> USE DEF BatchResponseBox
<1>1. CASE ProcessDrop \/ ProcessFirst \/ Drain \/ BatchNext \/ ProcessReturn
  <2>1. /\ UNCHANGED <<m_responseQueue, m_responseLock>>
        /\ wpc = "process" \/ bpc \in {"drain", "next"}
    BY <1>1 DEF ProcessDrop, ProcessFirst, WorkerProcess, Drain, BatchNext,
                ProcessReturn, WorkerGetType, vars, queueVars, lockVars
  <2>2. m_responseLock = NoOne
    BY <2>1 DEF WholeInv, EitherLockInv, PlaceInv, CoreInv, TypeOK
  <2> QED BY <2>1, <2>2
<1>2. CASE RespondFirst
  <2>1. /\ wpc = "respondPush" /\ m_responseLock' = NoOne
        /\ m_responseQueue' = Append(m_responseQueue, item)
    BY <1>2 DEF RespondFirst, RespondPush, Pushed
  <2>2. m_responseLock = Worker /\ bpc = "first"
    BY <2>1 DEF WholeInv, EitherLockInv, PlaceInv
  <2> QED BY <2>1, <2>2, NamesAssumption
<1>3. CASE BatchTrim
  <2>1. /\ m_responseLock = NoOne /\ m_responseLock' = Worker
        /\ m_responseQueue' = Trimmed(m_responseQueue)
        /\ bpc = "trim" /\ bpc' = "push" /\ tx' = tx
    BY <1>3 DEF BatchTrim
  <2>2. tx \in Msgs /\ tx \notin Back
    BY <2>1 DEF WholeInv, PlaceInv, BatchInv, Batch, Alone
  <2> QED BY <2>1, <2>2, TrimAnswers
<1>4. CASE BatchPush
  <2>1. /\ bpc = "push" /\ m_responseLock' = NoOne
        /\ m_responseQueue' = Append(m_responseQueue, tx)
    BY <1>4 DEF BatchPush, Pushed
  <2>2. m_responseLock = Worker
    BY <2>1 DEF WholeInv, EitherLockInv
  <2> QED BY <2>1, <2>2, NamesAssumption
<1> QED BY <1>1, <1>2, <1>3, <1>4 DEF BatchStep

\* Both loops of process share one lossy FIFO mailbox with the clients.
THEOREM ResponsesImplementMailbox ==
  ClientKind = "defer" => (ISpec => ResponsesAreMailbox)
<1> SUFFICES ASSUME ClientKind = "defer" PROVE ISpec => ResponsesAreMailbox
  OBVIOUS
<1>1. IInit => BatchMailbox!Init
  BY DEF IInit, Init, BatchMailbox!Init, BatchResponseBox
<1>2. ASSUME WholeInv, [INext]_ivars
      PROVE  [BatchMailbox!Next]_BatchResponseBox
  <2>1. CASE ElsewhereStep
    BY <1>2, <2>1, ClientAnswers, ElsewhereAnswers
       DEF ElsewhereStep, BatchMailbox!Next, batchNames
  <2>2. CASE BatchStep
    BY <1>2, <2>2, BatchAnswers DEF BatchMailbox!Next
  <2>3. CASE ReSetup \/ UNCHANGED ivars
    <3>1. UNCHANGED <<m_responseQueue, m_responseLock, bpc, tx, item>>
      BY <2>3 DEF ReSetup, ivars, vars, queueVars, lockVars, workerVars,
                  batchVars
    <3> QED BY <3>1 DEF BatchResponseBox
  <2> QED BY <1>2, <2>1, <2>2, <2>3 DEF INext
<1> QED BY <1>1, <1>2, BatchInvariance, PTL
        DEF ISpec, ResponsesAreMailbox, BatchMailbox!Spec

-----------------------------------------------------------------------------
(* Answers come back in the order of the requests.                         *)

\* t is what is left of s when some of its messages are taken out.
Within(t, s) == /\ Range(t) \subseteq Range(s)
                /\ \A m, n \in Msgs : Before(t, m, n) => Before(s, m, n)

LEMMA BeforeConcat ==
  ASSUME NEW s \in Seq(Msgs), NEW t \in Seq(Msgs), NEW m \in Msgs, NEW n \in Msgs
  PROVE  Before(s \o t, m, n) <=>
           \/ Before(s, m, n) \/ Before(t, m, n)
           \/ m \in Range(s) /\ n \in Range(t)
<1>1. /\ Len(s) \in Nat /\ Len(t) \in Nat /\ Len(s \o t) = Len(s) + Len(t)
      /\ DOMAIN s = 1 .. Len(s) /\ DOMAIN t = 1 .. Len(t)
  BY ConcatProperties
<1>2. /\ \A i \in 1 .. Len(s) : (s \o t)[i] = s[i]
      /\ \A i \in 1 .. Len(t) : (s \o t)[Len(s) + i] = t[i]
  BY <1>1, ConcatProperties
<1>3. ASSUME NEW i \in 1 .. Len(s \o t), NEW j \in 1 .. Len(s \o t), i < j,
             (s \o t)[i] = m, (s \o t)[j] = n
      PROVE  \/ Before(s, m, n) \/ Before(t, m, n)
             \/ m \in Range(s) /\ n \in Range(t)
  <2>1. CASE j <= Len(s)
    BY <1>1, <1>2, <1>3, <2>1 DEF Before
  <2>2. CASE i > Len(s)
    <3>1. /\ i - Len(s) \in 1 .. Len(t) /\ j - Len(s) \in 1 .. Len(t)
          /\ i - Len(s) < j - Len(s)
          /\ Len(s) + (i - Len(s)) = i /\ Len(s) + (j - Len(s)) = j
      BY <1>1, <1>3, <2>2
    <3>2. t[i - Len(s)] = m /\ t[j - Len(s)] = n
      BY <1>2, <1>3, <3>1
    <3> QED BY <3>1, <3>2 DEF Before
  <2>3. CASE i <= Len(s) /\ j > Len(s)
    <3>1. /\ i \in 1 .. Len(s) /\ j - Len(s) \in 1 .. Len(t)
          /\ Len(s) + (j - Len(s)) = j
      BY <1>1, <1>3, <2>3
    <3>2. s[i] = m /\ t[j - Len(s)] = n
      BY <1>2, <1>3, <3>1
    <3> QED BY <1>1, <3>1, <3>2 DEF Range
  <2> QED BY <1>1, <2>1, <2>2, <2>3
<1>4. Before(s, m, n) => Before(s \o t, m, n)
  BY <1>1, <1>2 DEF Before
<1>5. Before(t, m, n) => Before(s \o t, m, n)
  <2>1. ASSUME NEW i \in 1 .. Len(t), NEW j \in 1 .. Len(t), i < j,
               t[i] = m, t[j] = n
        PROVE  Before(s \o t, m, n)
    <3>1. /\ Len(s) + i \in 1 .. Len(s \o t) /\ Len(s) + j \in 1 .. Len(s \o t)
          /\ Len(s) + i < Len(s) + j
      BY <1>1, <2>1
    <3> QED BY <1>2, <2>1, <3>1 DEF Before
  <2> QED BY <2>1 DEF Before
<1>6. m \in Range(s) /\ n \in Range(t) => Before(s \o t, m, n)
  <2>1. ASSUME NEW i \in 1 .. Len(s), NEW j \in 1 .. Len(t), s[i] = m, t[j] = n
        PROVE  Before(s \o t, m, n)
    <3>1. /\ i \in 1 .. Len(s \o t) /\ Len(s) + j \in 1 .. Len(s \o t)
          /\ i < Len(s) + j
      BY <1>1, <2>1
    <3> QED BY <1>2, <2>1, <3>1 DEF Before
  <2> QED BY <1>1, <2>1 DEF Range
<1> QED BY <1>3, <1>4, <1>5, <1>6 DEF Before

LEMMA WithinConcat ==
  ASSUME NEW s1 \in Seq(Msgs), NEW s2 \in Seq(Msgs), NEW t1 \in Seq(Msgs),
         NEW t2 \in Seq(Msgs), Within(t1, s1), Within(t2, s2)
  PROVE  Within(t1 \o t2, s1 \o s2)
<1>1. Range(t1 \o t2) \subseteq Range(s1 \o s2)
  BY RangeConcatenation DEF Within
<1>2. ASSUME NEW m \in Msgs, NEW n \in Msgs, Before(t1 \o t2, m, n)
      PROVE  Before(s1 \o s2, m, n)
  BY <1>2, BeforeConcat DEF Within
<1> QED BY <1>1, <1>2 DEF Within

LEMMA WithinSelf == ASSUME NEW s PROVE Within(s, s)
BY DEF Within

LEMMA WithinEmpty == ASSUME NEW s PROVE Within(<<>>, s)
BY DEF Within, Before, Range

LEMMA WithinPopped ==
  ASSUME NEW s \in Seq(Msgs), s # <<>>
  PROVE  Within(Popped(s), s)
<1>1. /\ Len(Tail(s)) = Len(s) - 1 /\ Len(s) \in Nat
      /\ \A i \in 1 .. Len(s) - 1 : Tail(s)[i] = s[i + 1]
  OBVIOUS
<1>2. ASSUME NEW m \in Msgs, NEW n \in Msgs, NEW i \in 1 .. Len(Tail(s)),
             NEW j \in 1 .. Len(Tail(s)), i < j, Tail(s)[i] = m, Tail(s)[j] = n
      PROVE  Before(s, m, n)
  <2>1. /\ i + 1 \in 1 .. Len(s) /\ j + 1 \in 1 .. Len(s) /\ i + 1 < j + 1
        /\ s[i + 1] = m /\ s[j + 1] = n
    BY <1>1, <1>2
  <2> QED BY <2>1 DEF Before
<1>3. \A m, n \in Msgs : Before(Tail(s), m, n) => Before(s, m, n)
  BY <1>2 DEF Before
<1> QED BY <1>3, PoppedFacts DEF Within, Popped

LEMMA WithinTrimmed ==
  ASSUME NEW s \in Seq(Msgs)
  PROVE  Within(Trimmed(s), s) /\ Trimmed(s) \in Seq(Msgs)
<1>1. MustTrim(s) => s # <<>>
  BY LimitAssumption DEF MustTrim
<1> QED BY <1>1, WithinPopped, WithinSelf, PoppedFacts DEF Trimmed

\* In a line without duplicates nothing is both before and behind.
LEMMA WithinKeeps ==
  ASSUME NEW s \in Seq(Msgs), IsInjective(s), NEW t, Within(t, s),
         NEW m \in Msgs, NEW n \in Msgs, Before(s, m, n)
  PROVE  ~ Before(t, n, m)
<1>1. DOMAIN s = 1 .. Len(s) /\ Len(s) \in Nat
  OBVIOUS
<1>2. ~ Before(s, n, m)
  BY <1>1 DEF Before, IsInjective
<1> QED BY <1>2 DEF Within

LEMMA HeadFirst ==
  ASSUME NEW q \in Seq(Msgs), q # <<>>
  PROVE  <<Head(q)>> \o Tail(q) = q
<1>1. /\ <<Head(q)>> \in Seq(Msgs) /\ Len(<<Head(q)>>) = 1
      /\ <<Head(q)>>[1] = q[1] /\ Tail(q) \in Seq(Msgs)
      /\ Len(Tail(q)) = Len(q) - 1 /\ Len(q) \in Nat
      /\ \A i \in 1 .. Len(q) - 1 : Tail(q)[i] = q[i + 1]
  OBVIOUS
<1>2. /\ <<Head(q)>> \o Tail(q) \in Seq(Msgs)
      /\ Len(<<Head(q)>> \o Tail(q)) = Len(q)
  BY <1>1, ConcatProperties
<1>3. ASSUME NEW i \in 1 .. Len(q) PROVE (<<Head(q)>> \o Tail(q))[i] = q[i]
  BY <1>1, ConcatProperties
<1> QED BY <1>2, <1>3

\* ConcatAssociative, for messages.
LEMMA Regroup ==
  ASSUME NEW s \in Seq(Msgs), NEW t \in Seq(Msgs), NEW u \in Seq(Msgs)
  PROVE  s \o t \o u = s \o (t \o u)
BY ConcatAssociative

LEMMA HeadMoves ==
  ASSUME NEW s \in Seq(Msgs), NEW q \in Seq(Msgs), q # <<>>
  PROVE  s \o <<Head(q)>> \o Tail(q) = s \o q
<1>1. <<Head(q)>> \in Seq(Msgs) /\ Tail(q) \in Seq(Msgs)
  OBVIOUS
<1>2. s \o <<Head(q)>> \o Tail(q) = s \o (<<Head(q)>> \o Tail(q))
  BY <1>1, Regroup
<1> QED BY <1>2, HeadFirst

\* The parts of the line are sequences, before a step and after it.
LEMMA LineParts ==
  ASSUME WholeInv
  PROVE  /\ m_responseQueue \in Seq(Msgs) /\ InHands \in Seq(Msgs)
         /\ requests \in Seq(Msgs) /\ m_requestQueue \in Seq(Msgs)
BY PointerTypes, HandFacts DEF WholeInv, PlaceInv

LEMMA LinePartsNext ==
  ASSUME WholeInv'
  PROVE  /\ m_responseQueue' \in Seq(Msgs) /\ InHands' \in Seq(Msgs)
         /\ requests' \in Seq(Msgs) /\ m_requestQueue' \in Seq(Msgs)
<1>1. /\ wpc' \in {"process", "respond", "respondPush"} => item' \in Msgs
      /\ bpc' \in {"trim", "push"} => tx' \in Msgs
  BY DEF WholeInv, CoreInv, HandsInv, ItemInUse, PlaceInv
<1>2. InHands' \in Seq(Msgs)
  BY <1>1 DEF InHands
<1> QED BY <1>2 DEF WholeInv, CoreInv, TypeOK, PlaceInv

LEMMA LineShrinks ==
  ASSUME WholeInv, WholeInv', Within(m_responseQueue', m_responseQueue),
         Within(InHands', InHands), Within(requests', requests),
         Within(m_requestQueue', m_requestQueue)
  PROVE  Within(BatchLine', BatchLine)
<1> DEFINE one == m_responseQueue \o InHands
           two == one \o requests
<1> USE LineParts, LinePartsNext
<1>1. Within(one', one) /\ one \in Seq(Msgs) /\ one' \in Seq(Msgs)
  BY WithinConcat, ConcatProperties
<1> HIDE DEF one
<1>2. Within(two', two) /\ two \in Seq(Msgs) /\ two' \in Seq(Msgs)
  BY <1>1, WithinConcat, ConcatProperties
<1>3. BatchLine = two \o m_requestQueue /\ BatchLine' = two' \o m_requestQueue'
  BY DEF BatchLine, one
<1> HIDE DEF two
<1> QED BY <1>2, <1>3, WithinConcat


\* A client takes a message out of the line or adds one behind it.
LEMMA ClientLine ==
  ASSUME WholeInv, WholeInv', NEW c \in Clients, ClientStep(c),
         UNCHANGED batchNames
  PROVE  \/ Within(BatchLine', BatchLine)
         \/ /\ cmsg[c] \in Msgs \ Range(BatchLine)
            /\ BatchLine' = BatchLine \o <<cmsg[c]>>
<1>1. UNCHANGED <<bpc, requests, tx, wpc, item>>
  BY DEF ClientStep, NewMessage, EnqueTrim, EnquePush, Dequeue, DeleteResponse,
         StopWaiting, workerVars, batchNames, batchVars
<1>2. requests' = requests /\ InHands' = InHands
  BY <1>1 DEF InHands
<1>3. CASE EnquePush(c)
  <2>1. /\ cpc[c] = "push" /\ m_responseQueue' = m_responseQueue
        /\ m_requestQueue' = Append(m_requestQueue, cmsg[c])
    BY <1>3 DEF EnquePush, Pushed
  <2>2. cmsg[c] \in Msgs \ Range(BatchLine)
    BY <2>1, OwnerFacts, PointerTypes DEF WholeInv, BatchSingleOwner
  <2> DEFINE rest == m_responseQueue \o InHands \o requests
  <2>3. rest \in Seq(Msgs) /\ <<cmsg[c]>> \in Seq(Msgs)
    BY <2>2, LineParts, ConcatProperties
  <2>4. /\ BatchLine = rest \o m_requestQueue
        /\ BatchLine' = rest \o Append(m_requestQueue, cmsg[c])
    BY <1>2, <2>1 DEF BatchLine
  <2> HIDE DEF rest
  <2>5. Append(m_requestQueue, cmsg[c]) = m_requestQueue \o <<cmsg[c]>>
    BY <2>2, LineParts, AppendIsConcat
  <2> QED BY <2>2, <2>3, <2>4, <2>5, LineParts, Regroup
<1>4. CASE ~ EnquePush(c)
  <2>1. Within(m_responseQueue', m_responseQueue)
    <3>1. CASE Dequeue(c)
      BY <3>1, LineParts, WithinPopped DEF Dequeue
    <3>2. CASE ~ Dequeue(c)
      <4>1. m_responseQueue' = m_responseQueue
        BY <3>2 DEF ClientStep, NewMessage, EnqueTrim, EnquePush,
                    DeleteResponse, StopWaiting, queueVars
      <4> QED BY <4>1, WithinSelf
    <3> QED BY <3>1, <3>2
  <2>2. Within(m_requestQueue', m_requestQueue)
    <3>1. CASE EnqueTrim(c)
      BY <3>1, LineParts, WithinTrimmed DEF EnqueTrim
    <3>2. CASE ~ EnqueTrim(c)
      <4>1. m_requestQueue' = m_requestQueue
        BY <1>4, <3>2 DEF ClientStep, NewMessage, Dequeue, DeleteResponse,
                          StopWaiting, queueVars
      <4> QED BY <4>1, WithinSelf
    <3> QED BY <3>1, <3>2
  <2> QED BY <1>2, <2>1, <2>2, WithinSelf, LineShrinks
<1> QED BY <1>3, <1>4

\* The worker only takes out of the line, outside process(item) and in it.
LEMMA QuietLine ==
  ASSUME WholeInv, WholeInv',
         \/ /\ OwnerStep \/ WorkerCheck \/ WorkerSwitch \/ WorkerFree
               \/ RespondTrim
            /\ UNCHANGED batchNames
         \/ ReSetup \/ UNCHANGED ivars
         \/ ProcessDrop \/ ProcessFirst \/ BatchTrim \/ ProcessReturn
  PROVE  Within(BatchLine', BatchLine)
<1>1. UNCHANGED <<requests, m_requestQueue>>
  BY DEF OwnerStep, SetType, Begin, EndSignal, EndJoin, WorkerCheck,
         WorkerSwitch, WorkerFree, RespondTrim, ReSetup, ivars, vars, queueVars,
         ProcessDrop, ProcessFirst, WorkerProcess, BatchTrim, ProcessReturn,
         WorkerGetType, batchNames, batchVars
<1>2. Within(m_responseQueue', m_responseQueue)
  <2>1. CASE RespondTrim \/ BatchTrim
    BY <2>1, LineParts, WithinTrimmed DEF RespondTrim, BatchTrim
  <2>2. CASE ~ (RespondTrim \/ BatchTrim)
    <3>1. m_responseQueue' = m_responseQueue
      BY <2>2 DEF OwnerStep, SetType, Begin, EndSignal, EndJoin, WorkerCheck,
                  WorkerSwitch, WorkerFree, ReSetup, ivars, vars, queueVars,
                  ProcessDrop, ProcessFirst, WorkerProcess, ProcessReturn,
                  WorkerGetType
    <3> QED BY <3>1, WithinSelf
  <2> QED BY <2>1, <2>2
<1>3. Within(InHands', InHands)
  <2>1. CASE /\ OwnerStep \/ WorkerCheck \/ WorkerSwitch \/ WorkerFree
             /\ UNCHANGED batchNames
    <3>1. wpc' = wpc \/ (~ ItemInUse /\ ~ ItemInUse')
      BY <2>1 DEF OwnerStep, SetType, Begin, EndSignal, EndJoin, WorkerCheck,
             WorkerSwitch, Case, WorkerFree, workerVars, ItemInUse, WholeInv,
             CoreInv, StageInv
    <3>2. item' = item
      BY <2>1 DEF OwnerStep, SetType, Begin, EndSignal, EndJoin, WorkerCheck,
             WorkerSwitch, WorkerFree, workerVars
    <3>3. bpc' = bpc /\ tx' = tx
      BY <2>1 DEF batchNames, batchVars
    <3>4. InHands' = InHands
      BY <3>1, <3>2, <3>3 DEF InHands, ItemInUse
    <3> QED BY <3>4, WithinSelf
  <2>2. CASE RespondTrim /\ UNCHANGED batchNames
    <3>1. InHands = <<item>> /\ InHands' = <<item>>
      BY <2>2 DEF RespondTrim, InHands
    <3> QED BY <3>1, WithinSelf
  <2>3. CASE ReSetup \/ UNCHANGED ivars
    <3>1. InHands' = InHands
      BY <2>3 DEF ReSetup, ivars, vars, workerVars, batchVars, InHands
    <3> QED BY <3>1, WithinSelf
  <2>4. CASE ProcessDrop
    <3>1. InHands' = <<>>
      BY <2>4 DEF ProcessDrop, InHands
    <3> QED BY <3>1, WithinEmpty
  <2>5. CASE ProcessFirst
    <3>1. /\ wpc = "process" /\ bpc = "first" /\ wpc' \in {"respond", "getType"}
          /\ UNCHANGED <<item, bpc, tx>>
      BY <2>5 DEF ProcessFirst, WorkerProcess, batchVars, WholeInv, PlaceInv
    <3>2. InHands = <<item>> /\ InHands' \in {<<item>>, <<>>}
      BY <3>1 DEF InHands
    <3> QED BY <3>2, WithinSelf, WithinEmpty
  <2>6. CASE BatchTrim
    <3>1. /\ wpc = "getType" /\ wpc' = wpc /\ tx' = tx
          /\ bpc = "trim" /\ bpc' = "push"
      BY <2>6 DEF BatchTrim, workerVars, WholeInv, PlaceInv
    <3>2. InHands' = InHands
      BY <3>1 DEF InHands
    <3> QED BY <3>2, WithinSelf
  <2>7. CASE ProcessReturn
    <3>1. InHands' = <<>>
      BY <2>7 DEF ProcessReturn, WorkerGetType, InHands
    <3> QED BY <3>1, WithinEmpty
  <2> QED BY <2>1, <2>2, <2>3, <2>4, <2>5, <2>6, <2>7
<1> QED BY <1>1, <1>2, <1>3, WithinSelf, LineShrinks

\* The other steps only move the border between two neighbours in the line.
LEMMA MoveLine ==
  ASSUME WholeInv, WholeInv',
         \/ WorkerPop /\ UNCHANGED batchNames
         \/ RespondFirst \/ Drain \/ BatchNext \/ BatchPush
  PROVE  BatchLine' = BatchLine
<1>1. /\ m_responseQueue \in Seq(Msgs) /\ InHands \in Seq(Msgs)
      /\ requests \in Seq(Msgs) /\ m_requestQueue \in Seq(Msgs)
      /\ m_responseQueue' \in Seq(Msgs) /\ InHands' \in Seq(Msgs)
      /\ requests' \in Seq(Msgs) /\ m_requestQueue' \in Seq(Msgs)
  BY LineParts, LinePartsNext
<1>2. CASE WorkerPop /\ UNCHANGED batchNames
  <2>1. /\ requests = <<>> /\ requests' = <<>> /\ InHands = <<>>
        /\ bpc' = "first" /\ m_responseQueue' = m_responseQueue
    BY <1>2 DEF WorkerPop, batchNames, batchVars, WholeInv, PlaceInv, InHands
  <2>2. CASE m_requestQueue # <<>>
    <3>1. /\ InHands' = <<Head(m_requestQueue)>>
          /\ m_requestQueue' = Tail(m_requestQueue)
      BY <1>2, <2>2 DEF WorkerPop, Popped, InHands
    <3>2. m_responseQueue \o InHands' \o requests' = m_responseQueue \o InHands'
      <4>1. m_responseQueue \o InHands' \in Seq(Msgs)
        BY <1>1, ConcatProperties
      <4> QED BY <2>1, <4>1, ConcatEmptySeq
    <3>3. m_responseQueue \o InHands \o requests = m_responseQueue
      BY <1>1, <2>1, ConcatEmptySeq
    <3>4. m_responseQueue \o InHands' \o m_requestQueue'
            = m_responseQueue \o m_requestQueue
      BY <1>1, <2>2, <3>1, HeadMoves
    <3> QED BY <2>1, <3>2, <3>3, <3>4 DEF BatchLine
  <2>3. CASE m_requestQueue = <<>>
    <3>1. InHands' = <<>> /\ m_requestQueue' = <<>>
      BY <1>2, <2>1, <2>3 DEF WorkerPop, InHands
    <3> QED BY <2>1, <2>3, <3>1 DEF BatchLine
  <2> QED BY <2>2, <2>3
<1>3. CASE RespondFirst
  <2>1. /\ InHands = <<item>> /\ InHands' = <<>> /\ requests' = requests
        /\ m_responseQueue' = Append(m_responseQueue, item)
        /\ m_requestQueue' = m_requestQueue /\ item \in Msgs
    BY <1>3, PointerTypes DEF RespondFirst, RespondPush, Pushed, InHands,
       WholeInv, ItemInUse
  <2>2. m_responseQueue' \o InHands' = m_responseQueue \o InHands
    <3>1. m_responseQueue' \o InHands' = m_responseQueue'
      BY <1>1, <2>1, ConcatEmptySeq
    <3> QED BY <1>1, <2>1, <3>1, AppendIsConcat
  <2> QED BY <2>1, <2>2 DEF BatchLine
<1>4. CASE Drain
  <2>1. /\ InHands = <<>> /\ InHands' = <<>> /\ requests = <<>>
        /\ requests' = m_requestQueue /\ m_requestQueue' = <<>>
        /\ m_responseQueue' = m_responseQueue
    BY <1>4 DEF Drain, Moved, Left, workerVars, InHands, WholeInv, PlaceInv
  <2>2. m_responseQueue \o <<>> = m_responseQueue
    BY <1>1, ConcatEmptySeq
  <2>3. m_responseQueue \o m_requestQueue \o <<>>
          = m_responseQueue \o m_requestQueue
    <3>1. m_responseQueue \o m_requestQueue \in Seq(Msgs)
      BY <1>1, ConcatProperties
    <3> QED BY <3>1, ConcatEmptySeq
  <2> QED BY <2>1, <2>2, <2>3 DEF BatchLine
<1>5. CASE BatchNext
  <2>1. /\ InHands = <<>> /\ InHands' = <<Head(requests)>> /\ requests # <<>>
        /\ requests' = Tail(requests) /\ m_requestQueue' = m_requestQueue
        /\ m_responseQueue' = m_responseQueue
    BY <1>5 DEF BatchNext, vars, queueVars, workerVars, InHands, WholeInv,
       PlaceInv
  <2>2. m_responseQueue \o InHands = m_responseQueue
    BY <1>1, <2>1, ConcatEmptySeq
  <2>3. m_responseQueue \o InHands' \o requests' = m_responseQueue \o requests
    BY <1>1, <2>1, HeadMoves
  <2> QED BY <2>1, <2>2, <2>3 DEF BatchLine
<1>6. CASE BatchPush
  <2>1. /\ InHands = <<tx>> /\ InHands' = <<>> /\ requests' = requests
        /\ m_responseQueue' = Append(m_responseQueue, tx)
        /\ m_requestQueue' = m_requestQueue /\ tx \in Msgs
    BY <1>6 DEF BatchPush, Pushed, InHands, workerVars, WholeInv, PlaceInv
  <2>2. m_responseQueue' \o InHands' = m_responseQueue \o InHands
    <3>1. m_responseQueue' \o InHands' = m_responseQueue'
      BY <1>1, <2>1, ConcatEmptySeq
    <3> QED BY <1>1, <2>1, <3>1, AppendIsConcat
  <2> QED BY <2>1, <2>2 DEF BatchLine
<1> QED BY <1>2, <1>3, <1>4, <1>5, <1>6

\* Answers come back in the order of the requests, for any batch.
THEOREM OrderKept == ClientKind = "defer" => (ISpec => BatchKeepsOrder)
<1> SUFFICES ASSUME ClientKind = "defer" PROVE ISpec => BatchKeepsOrder
  OBVIOUS
<1> DEFINE Kept == \A m, n \in Range(BatchLine) \cap Range(BatchLine') :
                     Before(BatchLine, m, n) => ~ Before(BatchLine', n, m)
<1>1. ASSUME WholeInv, [INext]_ivars PROVE Kept
  <2> SUFFICES ASSUME NEW m \in Range(BatchLine), NEW n \in Range(BatchLine),
                      Before(BatchLine, m, n)
               PROVE  ~ Before(BatchLine', n, m)
    OBVIOUS
  <2>1. /\ WholeInv' /\ BatchLine \in Seq(Msgs) /\ IsInjective(BatchLine)
        /\ m \in Msgs /\ n \in Msgs
    BY <1>1, StepWhole, LineFacts DEF Range
  <2>2. CASE Within(BatchLine', BatchLine)
    BY <2>1, <2>2, WithinKeeps
  <2>3. ASSUME NEW x \in Msgs \ Range(BatchLine),
               BatchLine' = BatchLine \o <<x>>
        PROVE  ~ Before(BatchLine', n, m)
    <3>1. ~ Before(BatchLine, n, m)
      BY <2>1, WithinSelf, WithinKeeps
    <3>2. /\ <<x>> \in Seq(Msgs) /\ Range(<<x>>) = {x}
          /\ ~ Before(<<x>>, n, m)
      BY DEF Range, Before
    <3> QED BY <2>1, <2>3, <3>1, <3>2, BeforeConcat
  <2>4. \/ Within(BatchLine', BatchLine)
        \/ \E x \in Msgs \ Range(BatchLine) : BatchLine' = BatchLine \o <<x>>
    <3>1. CASE ElsewhereStep
      BY <1>1, <2>1, <3>1, ClientLine, QuietLine, MoveLine, WithinSelf
         DEF ElsewhereStep, batchNames
    <3>2. CASE BatchStep
      BY <1>1, <2>1, <3>2, QuietLine, MoveLine, WithinSelf DEF BatchStep
    <3>3. CASE ReSetup \/ UNCHANGED ivars
      BY <1>1, <2>1, <3>3, QuietLine
    <3> QED BY <1>1, <3>1, <3>2, <3>3 DEF INext
  <2> QED BY <2>2, <2>3, <2>4
<1>2. WholeInv /\ [INext]_ivars => [Kept]_ivars
  BY <1>1
<1> QED BY <1>2, BatchInvariance, PTL DEF ISpec, BatchKeepsOrder
=============================================================================
