------------------------- MODULE ProcessThreadProofs -------------------------
(***************************************************************************)
(* Theorems about ProcessThread, for any number of clients and messages,   *)
(* any queue limit, any subclass and any client discipline.                *)
(***************************************************************************)
EXTENDS ProcessThread, TLAPS

-----------------------------------------------------------------------------
(* Sequences: what push, pop and trimQueue do to a queue.                  *)

\* push adds its message and nothing else, at the end.
LEMMA PushedFacts ==
  ASSUME NEW q \in Seq(Msgs), NEW m \in Msgs
  PROVE  /\ Pushed(q, m) \in Seq(Msgs)
         /\ Len(Pushed(q, m)) = Len(q) + 1
         /\ Range(Pushed(q, m)) = Range(q) \cup {m}
<1>1. Append(q, m) \in Seq(Msgs) /\ Len(Append(q, m)) = Len(q) + 1
  OBVIOUS
<1>2. Range(Append(q, m)) = Range(q) \cup {m}
  <2>1. DOMAIN q = 1 .. Len(q) /\ DOMAIN Append(q, m) = 1 .. Len(q) + 1
    BY <1>1
  <2>2. /\ \A i \in 1 .. Len(q) : Append(q, m)[i] = q[i]
        /\ Append(q, m)[Len(q) + 1] = m
    OBVIOUS
  <2>3. Len(q) \in Nat
    OBVIOUS
  <2>4. Range(q) \cup {m} \subseteq Range(Append(q, m))
    BY <2>1, <2>2, <2>3 DEF Range
  <2>5. Range(Append(q, m)) \subseteq Range(q) \cup {m}
    BY <2>1, <2>2, <2>3 DEF Range
  <2> QED BY <2>4, <2>5
<1> QED BY <1>1, <1>2 DEF Pushed

\* pop adds nothing, and takes the oldest message.
LEMMA PoppedFacts ==
  ASSUME NEW q \in Seq(Msgs), q # <<>>
  PROVE  /\ Head(q) \in Msgs
         /\ Head(q) \in Range(q)
         /\ Popped(q) \in Seq(Msgs)
         /\ Len(Popped(q)) = Len(q) - 1
         /\ Range(Popped(q)) \subseteq Range(q)
<1>1. /\ Head(q) = q[1] /\ Head(q) \in Msgs
      /\ Tail(q) \in Seq(Msgs)
      /\ Len(Tail(q)) = Len(q) - 1
      /\ Len(q) \in Nat /\ Len(q) > 0
  OBVIOUS
<1>2. \A i \in 1 .. Len(Tail(q)) : Tail(q)[i] = q[i + 1]
  OBVIOUS
<1>3. DOMAIN q = 1 .. Len(q) /\ DOMAIN Tail(q) = 1 .. Len(Tail(q))
  BY <1>1
<1>4. Range(Tail(q)) \subseteq Range(q)
  BY <1>1, <1>2, <1>3 DEF Range
<1>5. Head(q) \in Range(q)
  BY <1>1, <1>3 DEF Range
<1> QED BY <1>1, <1>4, <1>5 DEF Popped

\* trimQueue leaves room for one more message, whatever it found.
LEMMA TrimmedFacts ==
  ASSUME NEW q \in Seq(Msgs), Len(q) <= QueueSizeLimit + 1
  PROVE  /\ Trimmed(q) \in Seq(Msgs)
         /\ Len(Trimmed(q)) <= QueueSizeLimit
         /\ Range(Trimmed(q)) \subseteq Range(q)
         /\ TrimFrees(q) \subseteq Range(q)
<1>1. Len(q) \in Nat /\ QueueSizeLimit \in Nat
  BY LimitAssumption
<1>2. CASE ~ MustTrim(q)
  BY <1>1, <1>2 DEF MustTrim, Trimmed, TrimFrees
<1>3. CASE MustTrim(q)
  <2>1. q # <<>>
    BY <1>1, <1>3 DEF MustTrim
  <2> QED BY <1>1, <1>3, <2>1, PoppedFacts DEF MustTrim, Trimmed, TrimFrees
<1> QED BY <1>2, <1>3

\* A deleted message is not unborn, and the others are what they were.
LEMMA DeleteFacts ==
  ASSUME NEW S, heap \in [Msgs -> {"unborn", "live", "deleted"}]
  PROVE  /\ Delete(S) \in [Msgs -> {"unborn", "live", "deleted"}]
         /\ \A m \in Msgs : heap[m] # "unborn" => Delete(S)[m] # "unborn"
BY DEF Delete

-----------------------------------------------------------------------------
(* The inductive invariant.                                                *)

LEMMA InitIInv == Init => IInv
<1> SUFFICES ASSUME Init PROVE IInv
  OBVIOUS
<1> USE NamesAssumption, LimitAssumption, KindsAssumption DEF Init
<1>1. TypeOK
  <2>1. begins \in 0 .. MaxBegins
    OBVIOUS
  <2>2. m_requestQueue \in Seq(Msgs) /\ m_responseQueue \in Seq(Msgs)
    OBVIOUS
  <2>3. /\ heap \in [Msgs -> {"unborn", "live", "deleted"}]
        /\ processed \in [Msgs -> BOOLEAN]
        /\ cpc \in [Clients -> {"idle", "enque", "push", "wait"}]
    OBVIOUS
  <2>4. msgType \in [Msgs -> MessageTypes] /\ m_typeofThread \in AllThreadTypes
    BY DEF MessageTypes, AllThreadTypes
  <2>5. hand \in [Clients -> SUBSET Msgs] /\ cmsg \in [Clients -> Msgs \cup {NULL}]
    OBVIOUS
  <2> QED BY <2>1, <2>2, <2>3, <2>4, <2>5 DEF TypeOK, WorkerPlaces
<1>2. HandsInv /\ RequestLockInv /\ ResponseLockInv
  BY DEF HandsInv, RequestLockInv, ResponseLockInv, ItemInUse
<1>3. RoomInv
  BY DEF RoomInv
<1>4. FreshInv /\ StageInv
  BY DEF FreshInv, StageInv, Range
<1> QED BY <1>1, <1>2, <1>3, <1>4 DEF IInv, CoreInv

-----------------------------------------------------------------------------
(* The steps of a client.                                                  *)

LEMMA NewMessageCore ==
  ASSUME CoreInv, NEW c \in Clients, NewMessage(c)
  PROVE  CoreInv'
<1> USE NamesAssumption DEF CoreInv, NewMessage, queueVars, lockVars, workerVars,
        ownerVars
<1> PICK m \in Msgs, t \in MsgTypes :
      /\ heap[m] = "unborn"
      /\ heap' = [heap EXCEPT ![m] = "live"]
      /\ msgType' = [msgType EXCEPT ![m] = t]
      /\ cmsg' = [cmsg EXCEPT ![c] = m]
  OBVIOUS
<1>1. TypeOK'
  BY KindsAssumption DEF TypeOK
<1>2. HandsInv'
  BY DEF HandsInv, TypeOK, ItemInUse
<1>3. RequestLockInv' /\ RoomInv'
  BY DEF RequestLockInv, RoomInv, TypeOK
<1>4. FreshInv'
  <2>1. \A d \in Clients : cmsg[d] # m
    BY DEF FreshInv, HandsInv
  <2>2. Range(m_requestQueue) \subseteq Msgs /\ m \notin Range(m_requestQueue)
    BY DEF FreshInv, TypeOK, Range
  <2> QED BY <2>1, <2>2 DEF FreshInv, TypeOK, HandsInv
<1>5. StageInv'
  BY DEF StageInv
<1> QED BY <1>1, <1>2, <1>3, <1>4, <1>5

LEMMA EnqueTrimCore ==
  ASSUME CoreInv, NEW c \in Clients, EnqueTrim(c)
  PROVE  CoreInv'
<1> USE NamesAssumption DEF CoreInv, EnqueTrim, EntersEnque, workerVars, ownerVars
<1>1. /\ Len(m_requestQueue) <= QueueSizeLimit + 1
      /\ m_requestQueue \in Seq(Msgs)
  BY DEF RoomInv, TypeOK
<1>2. /\ m_requestQueue' \in Seq(Msgs)
      /\ Len(m_requestQueue') <= QueueSizeLimit
      /\ Range(m_requestQueue') \subseteq Range(m_requestQueue)
  <2>1. m_requestQueue' = Trimmed(m_requestQueue)
    BY DEF EnqueTrim
  <2> HIDE DEF CoreInv, EnqueTrim
  <2> QED BY <1>1, <2>1, TrimmedFacts
<1>3. /\ heap' \in [Msgs -> {"unborn", "live", "deleted"}]
      /\ \A m \in Msgs : heap[m] # "unborn" => heap'[m] # "unborn"
  BY DeleteFacts DEF TypeOK
<1>4. TypeOK'
  BY <1>2, <1>3 DEF TypeOK
<1>5. HandsInv'
  BY DEF HandsInv, TypeOK, ItemInUse
<1>6. RequestLockInv'
  BY DEF RequestLockInv, TypeOK
<1>7. RoomInv'
  BY <1>2 DEF RoomInv, TypeOK
<1>8. FreshInv'
  <2>1. Range(m_requestQueue) \subseteq Msgs
    BY <1>1 DEF Range
  <2> QED BY <1>2, <1>3, <2>1 DEF FreshInv, HandsInv, TypeOK
<1>9. StageInv'
  BY DEF StageInv
<1> QED BY <1>4, <1>5, <1>6, <1>7, <1>8, <1>9

LEMMA EnquePushCore ==
  ASSUME CoreInv, NEW c \in Clients, EnquePush(c)
  PROVE  CoreInv'
<1> USE NamesAssumption DEF CoreInv, EnquePush, heapVars, workerVars, ownerVars
<1>1. m_requestQueue \in Seq(Msgs) /\ cmsg[c] \in Msgs
  BY DEF TypeOK, HandsInv
<1>2. /\ m_requestQueue' \in Seq(Msgs)
      /\ Len(m_requestQueue') = Len(m_requestQueue) + 1
      /\ Range(m_requestQueue') = Range(m_requestQueue) \cup {cmsg[c]}
  <2>1. m_requestQueue' = Pushed(m_requestQueue, cmsg[c])
    BY DEF EnquePush
  <2> HIDE DEF CoreInv, EnquePush
  <2> QED BY <1>1, <2>1, PushedFacts
<1>3. m_requestLock = c
  BY DEF RequestLockInv
<1>4. TypeOK'
  BY <1>2 DEF TypeOK
<1>5. HandsInv'
  BY DEF HandsInv, TypeOK, ItemInUse
<1>6. RequestLockInv'
  BY <1>3 DEF RequestLockInv, TypeOK
<1>7. RoomInv'
  BY <1>1, <1>2, <1>3, LimitAssumption DEF RoomInv, TypeOK
<1>8. FreshInv'
  <2>1. \A d \in Clients \ {c} : cmsg[d] # cmsg[c]
    BY DEF FreshInv
  <2>2. heap[cmsg[c]] # "unborn"
    BY DEF FreshInv
  <2>3. \A d \in Clients \ {c} : cmsg'[d] = cmsg[d] /\ cpc'[d] = cpc[d]
    BY DEF TypeOK
  <2>4. cpc'[c] \in {"wait", "idle"} /\ cmsg'[c] \in {cmsg[c], NULL}
    BY DEF TypeOK
  <2>5. heap' = heap
    OBVIOUS
  <2>6. \A m \in Range(m_requestQueue') : heap'[m] # "unborn"
    BY <1>2, <2>2, <2>5 DEF FreshInv
  <2>7. \A d \in Clients : cpc'[d] # "idle" => heap'[cmsg'[d]] # "unborn"
    BY <2>2, <2>3, <2>5 DEF FreshInv, TypeOK
  <2>8. ASSUME NEW d \in Clients, cpc'[d] \in {"enque", "push"}
        PROVE  /\ cmsg'[d] \notin Range(m_requestQueue')
               /\ \A e \in Clients \ {d} : cmsg'[e] # cmsg'[d]
    <3>1. d # c
      BY <2>4, <2>8
    <3>2. cpc[d] \in {"enque", "push"} /\ cmsg'[d] = cmsg[d] /\ cmsg[d] \in Msgs
      BY <2>3, <2>8, <3>1 DEF HandsInv
    <3>3. cmsg[d] \notin Range(m_requestQueue) \cup {cmsg[c]}
      BY <2>1, <3>1, <3>2 DEF FreshInv
    <3>4. \A e \in Clients \ {d} : cmsg'[e] # cmsg[d]
      BY <2>1, <2>3, <2>4, <3>1, <3>2 DEF FreshInv
    <3> QED BY <1>2, <3>2, <3>3, <3>4
  <2> QED BY <2>6, <2>7, <2>8 DEF FreshInv
<1>9. StageInv'
  BY DEF StageInv
<1> QED BY <1>4, <1>5, <1>6, <1>7, <1>8, <1>9

LEMMA DequeueCore ==
  ASSUME CoreInv, NEW c \in Clients, Dequeue(c)
  PROVE  CoreInv'
<1> USE NamesAssumption DEF CoreInv, Dequeue, lockVars, heapVars, workerVars,
        ownerVars
<1>1. /\ Head(m_responseQueue) \in Msgs
      /\ m_responseQueue' \in Seq(Msgs)
      /\ Len(m_responseQueue') = Len(m_responseQueue) - 1
      /\ Len(m_responseQueue) \in Nat
  BY PoppedFacts DEF TypeOK
<1>2. TypeOK'
  BY <1>1 DEF TypeOK
<1>3. HandsInv' /\ RequestLockInv' /\ FreshInv'
  BY DEF HandsInv, RequestLockInv, FreshInv, ItemInUse
<1>4. RoomInv'
  BY <1>1, LimitAssumption DEF RoomInv
<1>5. StageInv'
  BY DEF StageInv
<1> QED BY <1>2, <1>3, <1>4, <1>5

LEMMA DeleteResponseCore ==
  ASSUME CoreInv, NEW c \in Clients, DeleteResponse(c)
  PROVE  CoreInv'
<1> USE NamesAssumption DEF CoreInv, DeleteResponse, queueVars, lockVars,
        workerVars, ownerVars
<1> PICK m \in hand[c] : /\ heap' = Delete({m})
                         /\ hand' = [hand EXCEPT ![c] = @ \ {m}]
  OBVIOUS
<1>1. /\ heap' \in [Msgs -> {"unborn", "live", "deleted"}]
      /\ \A n \in Msgs : heap[n] # "unborn" => heap'[n] # "unborn"
  BY DeleteFacts DEF TypeOK
<1>2. TypeOK'
  BY <1>1 DEF TypeOK
<1>3. HandsInv' /\ RequestLockInv' /\ RoomInv'
  BY DEF HandsInv, RequestLockInv, RoomInv, ItemInUse
<1>4. FreshInv'
  <2>1. Range(m_requestQueue) \subseteq Msgs
    BY DEF TypeOK, Range
  <2> QED BY <1>1, <2>1 DEF FreshInv, HandsInv
<1>5. StageInv'
  BY DEF StageInv
<1> QED BY <1>2, <1>3, <1>4, <1>5

LEMMA StopWaitingCore ==
  ASSUME CoreInv, NEW c \in Clients, StopWaiting(c)
  PROVE  CoreInv'
<1> USE NamesAssumption DEF CoreInv, StopWaiting, queueVars, lockVars,
        workerVars, ownerVars
<1>1. /\ heap' \in [Msgs -> {"unborn", "live", "deleted"}]
      /\ \A n \in Msgs : heap[n] # "unborn" => heap'[n] # "unborn"
  BY DeleteFacts DEF TypeOK
<1>2. TypeOK'
  BY <1>1 DEF TypeOK
<1>3. HandsInv' /\ RequestLockInv' /\ RoomInv'
  BY DEF HandsInv, RequestLockInv, RoomInv, ItemInUse, TypeOK
<1>4. FreshInv'
  <2>1. Range(m_requestQueue) \subseteq Msgs
    BY DEF TypeOK, Range
  <2>2. /\ cpc'[c] = "idle" /\ cmsg'[c] = NULL
        /\ \A d \in Clients \ {c} : cmsg'[d] = cmsg[d] /\ cpc'[d] = cpc[d]
    BY DEF TypeOK
  <2>3. ASSUME NEW d \in Clients, cpc'[d] \in {"enque", "push"}
        PROVE  /\ cmsg'[d] \notin Range(m_requestQueue')
               /\ \A e \in Clients \ {d} : cmsg'[e] # cmsg'[d]
    <3>1. d # c /\ cmsg'[d] = cmsg[d] /\ cmsg[d] \in Msgs
      BY <2>2, <2>3 DEF HandsInv
    <3> QED BY <2>2, <2>3, <3>1 DEF FreshInv
  <2> QED BY <1>1, <2>1, <2>2, <2>3 DEF FreshInv, HandsInv
<1>5. StageInv'
  BY DEF StageInv
<1> QED BY <1>2, <1>3, <1>4, <1>5

LEMMA ClientCore ==
  ASSUME CoreInv, NEW c \in Clients, ClientStep(c)
  PROVE  CoreInv'
BY NewMessageCore, EnqueTrimCore, EnquePushCore, DequeueCore,
   DeleteResponseCore, StopWaitingCore DEF ClientStep

-----------------------------------------------------------------------------
(* The steps of the owner, which touch neither queues nor messages.        *)

LEMMA OwnerCore ==
  ASSUME CoreInv, OwnerStep
  PROVE  CoreInv'
<1> USE NamesAssumption DEF CoreInv, queueVars, lockVars, heapVars, clientVars,
        workerVars
<1>1. CASE SetType
  BY <1>1, KindsAssumption
     DEF SetType, TypeOK, HandsInv, RequestLockInv, RoomInv, FreshInv, StageInv,
         ItemInUse
<1>2. CASE Begin
  <2>1. begins' \in 0 .. MaxBegins
    BY <1>2, KindsAssumption DEF Begin, TypeOK
  <2>2. wpc = "absent" /\ wpc' \in {"absent", "check"}
    BY <1>2 DEF Begin, StageInv
  <2> QED BY <1>2, <2>1, <2>2
          DEF Begin, TypeOK, HandsInv, RequestLockInv, RoomInv, FreshInv, StageInv,
              ItemInUse, WorkerPlaces
<1>3. CASE EndSignal
  BY <1>3 DEF EndSignal, TypeOK, HandsInv, RequestLockInv, RoomInv, FreshInv,
              StageInv, ItemInUse
<1>4. CASE EndJoin
  BY <1>4 DEF EndJoin, TypeOK, HandsInv, RequestLockInv, RoomInv, FreshInv, StageInv,
              ItemInUse, WorkerPlaces
<1> QED BY <1>1, <1>2, <1>3, <1>4 DEF OwnerStep

-----------------------------------------------------------------------------
(* The steps of the worker.                                                *)

\* The steps that only move the worker along, outside enqueResponse.
LEMMA QuietWorkerCore ==
  ASSUME CoreInv,
         WorkerCheck \/ WorkerSwitch \/ WorkerThrow \/ WorkerFree
  PROVE  CoreInv'
<1> USE NamesAssumption
    DEF CoreInv, queueVars, lockVars, heapVars, clientVars, ownerVars
<1>1. /\ UNCHANGED <<queueVars, lockVars, heapVars, clientVars, ownerVars>>
      /\ wpc \notin {"absent", "respondPush"}
      /\ wpc' \in {"switch", "free", "pop", "check", "exited"}
      /\ item' \in {item, NULL} /\ executedOnce' \in BOOLEAN
  BY DEF WorkerCheck, WorkerSwitch, Case, WorkerThrow, WorkerFree, TypeOK
<1>2. TypeOK'
  BY <1>1 DEF TypeOK, WorkerPlaces
<1>3. HandsInv' /\ RequestLockInv' /\ RoomInv' /\ FreshInv' /\ StageInv'
  BY <1>1 DEF HandsInv, RequestLockInv, RoomInv, FreshInv, StageInv, ItemInUse
<1> QED BY <1>2, <1>3

LEMMA WorkerPopCore ==
  ASSUME CoreInv, WorkerPop
  PROVE  CoreInv'
<1> USE NamesAssumption
    DEF CoreInv, WorkerPop, lockVars, heapVars, clientVars, ownerVars
<1>1. CASE m_requestQueue # <<>>
  <2>1. /\ item' = Head(m_requestQueue)
        /\ m_requestQueue' = Popped(m_requestQueue)
        /\ wpc' = "process"
    BY <1>1
  <2>2. /\ item' \in Msgs
        /\ m_requestQueue' \in Seq(Msgs)
        /\ Len(m_requestQueue') = Len(m_requestQueue) - 1
        /\ Len(m_requestQueue) \in Nat
        /\ Range(m_requestQueue') \subseteq Range(m_requestQueue)
    BY <1>1, <2>1, PoppedFacts DEF TypeOK
  <2>3. TypeOK'
    BY <2>1, <2>2 DEF TypeOK, WorkerPlaces
  <2>4. RoomInv'
    BY <2>2, LimitAssumption DEF RoomInv
  <2>5. HandsInv' /\ RequestLockInv' /\ StageInv'
    BY <2>1, <2>2 DEF HandsInv, RequestLockInv, StageInv, ItemInUse
  <2>6. FreshInv'
    BY <2>2 DEF FreshInv
  <2> QED BY <2>3, <2>4, <2>5, <2>6
<1>2. CASE m_requestQueue = <<>>
  <2>1. /\ wpc' \in {"check", "free"}
        /\ UNCHANGED <<item, m_requestQueue>>
    BY <1>2
  <2>2. TypeOK'
    BY <2>1 DEF TypeOK, WorkerPlaces
  <2> QED BY <2>1, <2>2
          DEF HandsInv, RequestLockInv, RoomInv, FreshInv, StageInv, ItemInUse
<1> QED BY <1>1, <1>2

\* process(item) and getType(): the worker writes to the heap and no queue.
LEMMA HeapWorkerCore ==
  ASSUME CoreInv, WorkerProcess \/ WorkerGetType
  PROVE  CoreInv'
<1> USE NamesAssumption
    DEF CoreInv, queueVars, lockVars, clientVars, ownerVars
<1>1. heap \in [Msgs -> {"unborn", "live", "deleted"}]
  BY DEF TypeOK
<1>2. heap' \in {heap, Delete({item})}
  BY DEF WorkerProcess, WorkerGetType
<1>3. /\ heap' \in [Msgs -> {"unborn", "live", "deleted"}]
      /\ \A m \in Msgs : heap[m] # "unborn" => heap'[m] # "unborn"
  BY <1>1, <1>2, DeleteFacts
<1>4. /\ UNCHANGED <<queueVars, lockVars, clientVars, ownerVars, msgType>>
      /\ wpc \in {"process", "getType"}
      /\ \/ wpc' = "check"
         \/ wpc' \in {"respond", "getType"} /\ item' = item
      /\ item' \in {item, NULL}
      /\ executedOnce' \in BOOLEAN
  BY DEF WorkerProcess, WorkerGetType, TypeOK
<1>5. processed' \in [Msgs -> BOOLEAN]
  <2>1. CASE WorkerProcess
    <3>1. processed' = [processed EXCEPT ![item] =
                          processed[item] \/ ProcessKind # "delete"]
      BY <2>1 DEF WorkerProcess
    <3>2. item \in Msgs
      BY <2>1 DEF WorkerProcess, HandsInv, ItemInUse
    <3>3. (processed[item] \/ ProcessKind # "delete") \in BOOLEAN
      OBVIOUS
    <3> QED BY <3>1, <3>2, <3>3, Zenon DEF TypeOK
  <2>2. CASE WorkerGetType
    BY <2>2 DEF WorkerGetType, TypeOK
  <2> QED BY <2>1, <2>2
<1>6. TypeOK'
  BY <1>3, <1>4, <1>5 DEF TypeOK, WorkerPlaces
<1>7. HandsInv' /\ RequestLockInv' /\ RoomInv' /\ StageInv'
  BY <1>4 DEF HandsInv, RequestLockInv, RoomInv, StageInv, ItemInUse
<1>8. FreshInv'
  <2>1. Range(m_requestQueue) \subseteq Msgs
    BY DEF TypeOK, Range
  <2> QED BY <1>3, <1>4, <2>1 DEF FreshInv, HandsInv
<1> QED BY <1>6, <1>7, <1>8

LEMMA RespondCore ==
  ASSUME CoreInv, RespondTrim \/ (RespondPush /\ m_responseLock = Worker)
  PROVE  CoreInv'
<1> USE NamesAssumption DEF CoreInv, heapVars, clientVars, ownerVars
<1>1. CASE RespondTrim
  <2> USE <1>1 DEF RespondTrim
  <2>1. /\ Len(m_responseQueue) <= QueueSizeLimit + 1
        /\ m_responseQueue \in Seq(Msgs)
    BY DEF RoomInv, TypeOK
  <2>2. /\ m_responseQueue' \in Seq(Msgs)
        /\ Len(m_responseQueue') <= QueueSizeLimit
    BY <2>1, TrimmedFacts
  <2>3. /\ heap' \in [Msgs -> {"unborn", "live", "deleted"}]
        /\ \A m \in Msgs : heap[m] # "unborn" => heap'[m] # "unborn"
    BY DeleteFacts DEF TypeOK
  <2>4. TypeOK'
    BY <2>2, <2>3 DEF TypeOK, WorkerPlaces
  <2>5. HandsInv' /\ RequestLockInv' /\ StageInv'
    BY DEF HandsInv, RequestLockInv, StageInv, ItemInUse
  <2>6. RoomInv'
    BY <2>2 DEF RoomInv
  <2>7. FreshInv'
    <3>1. Range(m_requestQueue) \subseteq Msgs
      BY DEF TypeOK, Range
    <3> QED BY <2>3, <3>1 DEF FreshInv, HandsInv
  <2> QED BY <2>4, <2>5, <2>6, <2>7
<1>2. CASE RespondPush /\ m_responseLock = Worker
  <2> USE <1>2 DEF RespondPush
  <2>1. m_responseQueue \in Seq(Msgs) /\ item \in Msgs /\ m_responseLock = Worker
    BY DEF TypeOK, HandsInv, ItemInUse
  <2>2. /\ m_responseQueue' \in Seq(Msgs)
        /\ Len(m_responseQueue') = Len(m_responseQueue) + 1
        /\ Len(m_responseQueue) \in Nat
    BY <2>1, PushedFacts
  <2>3. TypeOK'
    BY <2>2 DEF TypeOK, WorkerPlaces
  <2>4. HandsInv' /\ RequestLockInv' /\ FreshInv' /\ StageInv'
    BY DEF HandsInv, RequestLockInv, FreshInv, StageInv, ItemInUse
  <2>5. RoomInv'
    BY <2>1, <2>2, LimitAssumption DEF RoomInv
  <2> QED BY <2>3, <2>4, <2>5
<1> QED BY <1>1, <1>2

LEMMA WorkerCore ==
  ASSUME CoreInv, WorkerStep, ResponseLockInv
  PROVE  CoreInv'
<1>1. RespondPush => m_responseLock = Worker
  BY DEF RespondPush, ResponseLockInv
<1> QED BY <1>1, QuietWorkerCore, WorkerPopCore, HeapWorkerCore, RespondCore
        DEF WorkerStep

LEMMA StutterCore ==
  ASSUME CoreInv, UNCHANGED vars
  PROVE  CoreInv'
BY DEF CoreInv, TypeOK, HandsInv, RequestLockInv, RoomInv, FreshInv, StageInv, ItemInUse,
       vars, queueVars, lockVars, heapVars, clientVars, workerVars, ownerVars

\* Nobody but the worker takes the response queue's lock for longer than a step.
LEMMA ResponseLockKept ==
  ASSUME CoreInv, ResponseLockInv, [Next]_vars
  PROVE  ResponseLockInv'
<1> USE NamesAssumption DEF ResponseLockInv
<1>1. CASE \E c \in Clients : ClientStep(c)
  BY <1>1 DEF ClientStep, NewMessage, EnqueTrim, EnquePush, Dequeue,
              DeleteResponse, StopWaiting, lockVars, workerVars
<1>2. CASE OwnerStep \/ UNCHANGED vars
  BY <1>2 DEF OwnerStep, SetType, Begin, EndSignal, EndJoin, CoreInv, StageInv,
              vars, lockVars, workerVars
<1>3. CASE WorkerStep
  BY <1>3 DEF WorkerStep, WorkerCheck, WorkerSwitch, Case, WorkerPop,
              WorkerThrow, WorkerFree, WorkerProcess, RespondTrim, RespondPush,
              WorkerGetType, lockVars
<1> QED BY <1>1, <1>2, <1>3 DEF Next

-----------------------------------------------------------------------------
(* The theorems.                                                           *)

\* Every reachable state satisfies the inductive invariant.
THEOREM Invariance == Spec => []IInv
<1>1. IInv /\ [Next]_vars => IInv'
  BY ClientCore, OwnerCore, WorkerCore, StutterCore, ResponseLockKept
     DEF Next, IInv
<1> QED BY InitIInv, <1>1, PTL DEF Spec

\* Every variable keeps its type.
THEOREM TypeCorrect == Spec => []TypeOK
<1>1. IInv => TypeOK
  BY DEF IInv, CoreInv
<1> QED BY Invariance, <1>1, PTL

\* enque and enqueResponse keep both queues at m_queueSizeLimit + 1 messages
\* at most, for any number of senders.
THEOREM QueuesBounded == Spec => []QueueBounded
<1>1. IInv => QueueBounded
  BY LimitAssumption DEF IInv, CoreInv, TypeOK, RoomInv, QueueBounded
<1> QED BY Invariance, <1>1, PTL

-----------------------------------------------------------------------------
(* The request queue implements a Mailbox.                                 *)

\* A client that takes the lock and trims has put its message.
LEMMA TrimPuts ==
  ASSUME IInv, NEW c \in Clients, EnqueTrim(c)
  PROVE  RequestMailbox!Put(cmsg[c])
<1>1. m_requestLock = NoOne /\ m_requestLock' = c /\ cmsg' = cmsg
  BY DEF EnqueTrim, EntersEnque
<1>2. /\ RequestBox = m_requestQueue
      /\ RequestBox' = Append(Trimmed(m_requestQueue), cmsg[c])
  BY <1>1, NamesAssumption DEF EnqueTrim, RequestBox
<1>3. cmsg[c] \notin Range(m_requestQueue)
  BY DEF IInv, CoreInv, FreshInv, EnqueTrim, EntersEnque
<1> QED BY <1>2, <1>3
        DEF RequestMailbox!Put, RequestMailbox!Kept, RequestMailbox!Range,
            Range, Trimmed, Popped, MustTrim

\* Its push does not change the box: the message was counted already.
LEMMA PushStutters ==
  ASSUME IInv, NEW c \in Clients, EnquePush(c)
  PROVE  RequestBox' = RequestBox
<1>1. m_requestLock = c /\ m_requestLock' = NoOne
  BY DEF IInv, CoreInv, RequestLockInv, EnquePush
<1> QED BY <1>1, NamesAssumption DEF EnquePush, Pushed, RequestBox

\* A client that holds no lock does not change the message of the one that
\* does.
LEMMA OtherClientStutters ==
  ASSUME IInv, NEW c \in Clients,
         NewMessage(c) \/ Dequeue(c) \/ DeleteResponse(c) \/ StopWaiting(c)
  PROVE  RequestBox' = RequestBox
<1>1. UNCHANGED <<m_requestQueue, m_requestLock>> /\ cpc[c] # "push"
  BY DEF NewMessage, Dequeue, DeleteResponse, StopWaiting, queueVars, lockVars
<1>2. \A d \in Clients \ {c} : cmsg'[d] = cmsg[d]
  BY DEF NewMessage, Dequeue, DeleteResponse, StopWaiting, IInv, CoreInv, TypeOK
<1>3. m_requestLock \in (Clients \ {c}) \cup {NoOne}
  BY <1>1 DEF IInv, CoreInv, TypeOK, RequestLockInv
<1> QED BY <1>1, <1>2, <1>3 DEF RequestBox

\* The worker takes the head, and only while no client is inside enque.
LEMMA PopTakes ==
  ASSUME IInv, WorkerPop
  PROVE  RequestMailbox!Take \/ RequestBox' = RequestBox
<1>1. m_requestLock = NoOne /\ m_requestLock' = NoOne
  BY DEF WorkerPop, lockVars
<1>2. RequestBox = m_requestQueue /\ RequestBox' = m_requestQueue'
  BY <1>1 DEF RequestBox
<1> QED BY <1>2 DEF WorkerPop, Popped, RequestMailbox!Take

LEMMA OtherStepsStutter ==
  ASSUME OwnerStep \/ (WorkerStep /\ ~ WorkerPop) \/ UNCHANGED vars
  PROVE  RequestBox' = RequestBox
<1>1. UNCHANGED <<m_requestQueue, m_requestLock, cmsg>>
  BY DEF OwnerStep, SetType, Begin, EndSignal, EndJoin, WorkerStep, WorkerCheck,
         WorkerSwitch, WorkerThrow, WorkerFree, WorkerProcess, RespondTrim,
         RespondPush, WorkerGetType, vars, queueVars, lockVars, clientVars
<1> QED BY <1>1 DEF RequestBox

\* Whatever the number of senders, the subclass and the clients' discipline,
\* the request queue behaves as a lossy FIFO mailbox: nothing enters it twice,
\* nothing leaves it but from its head, and only a full queue loses messages.
THEOREM RequestQueueRefinesMailbox == Spec => RequestQueueIsMailbox
<1>1. Init => RequestMailbox!Init
  BY DEF Init, RequestMailbox!Init, RequestBox
<1>2. IInv /\ [Next]_vars => [RequestMailbox!Next]_RequestBox
  <2> SUFFICES ASSUME IInv, [Next]_vars
               PROVE  RequestMailbox!Next \/ RequestBox' = RequestBox
    OBVIOUS
  <2>1. ASSUME NEW c \in Clients, EnqueTrim(c)
        PROVE  RequestMailbox!Next
    <3>1. cmsg[c] \in Msgs
      BY <2>1 DEF IInv, CoreInv, HandsInv, EnqueTrim, EntersEnque
    <3> QED BY <2>1, <3>1, TrimPuts DEF RequestMailbox!Next
  <2>2. ASSUME NEW c \in Clients, ClientStep(c), ~ EnqueTrim(c)
        PROVE  RequestBox' = RequestBox
    BY <2>2, PushStutters, OtherClientStutters DEF ClientStep
  <2>3. CASE WorkerPop
    BY <2>3, PopTakes DEF RequestMailbox!Next
  <2>4. CASE OwnerStep \/ (WorkerStep /\ ~ WorkerPop) \/ UNCHANGED vars
    BY <2>4, OtherStepsStutter
  <2> QED BY <2>1, <2>2, <2>3, <2>4 DEF Next
<1> QED BY <1>1, <1>2, Invariance, PTL
        DEF Spec, RequestQueueIsMailbox, RequestMailbox!Spec

-----------------------------------------------------------------------------
(* Ownership: under a client discipline that fits the subclass, no message *)
(* is used after it is deleted and every message has one owner, for any    *)
(* number of clients and messages and any queue limit.                     *)
(*                                                                         *)
(* Sequences without repetition.                                           *)

\* Pushing something new repeats nothing.
LEMMA PushedInjective ==
  ASSUME NEW q \in Seq(Msgs), NEW m \in Msgs, IsInjective(q), m \notin Range(q)
  PROVE  IsInjective(Pushed(q, m))
<1>1. /\ DOMAIN q = 1 .. Len(q)
      /\ DOMAIN Append(q, m) = 1 .. Len(q) + 1
      /\ Len(q) \in Nat
  OBVIOUS
<1>2. /\ \A i \in 1 .. Len(q) : Append(q, m)[i] = q[i]
      /\ Append(q, m)[Len(q) + 1] = m
  OBVIOUS
<1>3. \A i \in 1 .. Len(q) : q[i] # m
  BY <1>1 DEF Range
<1>4. SUFFICES ASSUME NEW i \in 1 .. Len(q) + 1, NEW j \in 1 .. Len(q) + 1,
                      Append(q, m)[i] = Append(q, m)[j]
               PROVE  i = j
  BY <1>1 DEF IsInjective, Pushed
<1>5. CASE i \in 1 .. Len(q) /\ j \in 1 .. Len(q)
  BY <1>1, <1>2, <1>4, <1>5 DEF IsInjective
<1>6. CASE i = Len(q) + 1 \/ j = Len(q) + 1
  BY <1>1, <1>2, <1>3, <1>4, <1>6
<1> QED BY <1>1, <1>5, <1>6

\* What is popped is gone from the queue.
LEMMA PoppedInjective ==
  ASSUME NEW q \in Seq(Msgs), q # <<>>, IsInjective(q)
  PROVE  IsInjective(Popped(q)) /\ Head(q) \notin Range(Popped(q))
<1>1. /\ DOMAIN q = 1 .. Len(q)
      /\ DOMAIN Tail(q) = 1 .. Len(q) - 1
      /\ Len(q) \in Nat /\ Len(q) > 0
      /\ Head(q) = q[1]
      /\ \A i \in 1 .. Len(q) - 1 : Tail(q)[i] = q[i + 1]
  OBVIOUS
<1>2. IsInjective(Tail(q))
  BY <1>1 DEF IsInjective
<1>3. ASSUME Head(q) \in Range(Tail(q))
      PROVE  FALSE
  <2>1. PICK i \in 1 .. Len(q) - 1 : Tail(q)[i] = q[1]
    BY <1>1, <1>3 DEF Range
  <2>2. q[i + 1] = q[1] /\ i + 1 \in 1 .. Len(q) /\ 1 \in 1 .. Len(q)
    BY <1>1, <2>1
  <2>3. i + 1 = 1
    BY <1>1, <2>2 DEF IsInjective
  <2> QED BY <2>3
<1> QED BY <1>2, <1>3 DEF Popped

\* What trimQueue deletes is not in what it leaves.
LEMMA TrimmedInjective ==
  ASSUME NEW q \in Seq(Msgs), Len(q) <= QueueSizeLimit + 1, IsInjective(q)
  PROVE  /\ IsInjective(Trimmed(q))
         /\ TrimFrees(q) \cap Range(Trimmed(q)) = {}
<1>1. CASE ~ MustTrim(q)
  BY <1>1 DEF Trimmed, TrimFrees
<1>2. CASE MustTrim(q)
  <2>1. q # <<>>
    BY <1>2, LimitAssumption DEF MustTrim
  <2> QED BY <1>2, <2>1, PoppedInjective DEF Trimmed, TrimFrees
<1> QED BY <1>1, <1>2

\* What a pop or trimQueue takes is the head, and nothing else goes.
LEMMA PoppedKeeps ==
  ASSUME NEW q \in Seq(Msgs), q # <<>>
  PROVE  \A m \in Range(q) : m \in Range(Popped(q)) \/ m = Head(q)
<1>1. /\ DOMAIN q = 1 .. Len(q)
      /\ DOMAIN Tail(q) = 1 .. Len(q) - 1
      /\ Len(q) \in Nat /\ Head(q) = q[1]
      /\ \A i \in 1 .. Len(q) - 1 : Tail(q)[i] = q[i + 1]
  OBVIOUS
<1>2. SUFFICES ASSUME NEW i \in 1 .. Len(q), i # 1
               PROVE  q[i] \in Range(Tail(q))
  BY <1>1 DEF Range, Popped
<1>3. i - 1 \in 1 .. Len(q) - 1 /\ Tail(q)[i - 1] = q[i]
  BY <1>1, <1>2
<1> QED BY <1>1, <1>3 DEF Range

LEMMA TrimmedKeeps ==
  ASSUME NEW q \in Seq(Msgs)
  PROVE  Range(q) \ Range(Trimmed(q)) \subseteq TrimFrees(q)
<1>1. MustTrim(q) => q # <<>>
  BY LimitAssumption DEF MustTrim
<1> QED BY <1>1, PoppedKeeps DEF Trimmed, TrimFrees

\* delete kills what it is given, and nothing else.
LEMMA DeleteKills ==
  ASSUME NEW S, heap \in [Msgs -> {"unborn", "live", "deleted"}]
  PROVE  /\ \A m \in Msgs \ S : Delete(S)[m] = heap[m]
         /\ \A m \in Msgs : Delete(S)[m] # "unborn" => heap[m] # "unborn" \/ m \in S
BY DEF Delete

-----------------------------------------------------------------------------
(* The initial states, and the steps of a client.                          *)

LEMMA InitOwn == Init => OwnInv
<1> SUFFICES ASSUME Init PROVE OwnInv
  OBVIOUS
<1>1. LiveInv /\ ItemLive /\ ItemInv /\ KindInv
  BY DEF Init, LiveInv, ItemLive, ItemInv, KindInv, Sent, Back, Range, ItemInUse
<1>2. ApartInv
  BY DEF Init, ApartInv, Sent, Back, Range, IsInjective
<1> QED BY <1>1, <1>2 DEF OwnInv, OwnCore

\* The types of the pointers, as facts to cite.
LEMMA PointerTypes ==
  ASSUME CoreInv
  PROVE  /\ Sent \subseteq Msgs /\ Back \subseteq Msgs
         /\ \A c \in Clients : hand[c] \subseteq Msgs
         /\ \A c \in Clients : cpc[c] # "idle" => cmsg[c] \in Msgs
         /\ ItemInUse => item \in Msgs
         /\ m_requestQueue \in Seq(Msgs) /\ m_responseQueue \in Seq(Msgs)
         /\ Len(m_requestQueue) <= QueueSizeLimit + 1
         /\ Len(m_responseQueue) <= QueueSizeLimit + 1
         /\ heap \in [Msgs -> {"unborn", "live", "deleted"}]
         /\ cmsg \in [Clients -> Msgs \cup {NULL}]
BY LimitAssumption
   DEF CoreInv, TypeOK, HandsInv, RoomInv, Sent, Back, Range

LEMMA NewMessageOwn ==
  ASSUME CoreInv, OwnCore, NEW c \in Clients, NewMessage(c)
  PROVE  OwnCore'
<1> USE PointerTypes, NamesAssumption
    DEF OwnCore, NewMessage, queueVars, lockVars, workerVars, ownerVars
<1> PICK m \in Msgs, t \in MsgTypes :
      /\ heap[m] = "unborn"
      /\ heap' = [heap EXCEPT ![m] = "live"]
      /\ msgType' = [msgType EXCEPT ![m] = t]
      /\ cmsg' = [cmsg EXCEPT ![c] = m]
  OBVIOUS
<1> HIDE DEF NewMessage
<1>1. /\ UNCHANGED <<m_requestQueue, m_responseQueue, hand, wpc, item>>
      /\ cpc[c] = "idle" /\ cpc' = [cpc EXCEPT ![c] = "enque"]
      /\ cpc \in [Clients -> {"idle", "enque", "push", "wait"}]
      /\ msgType \in [Msgs -> MessageTypes]
  BY DEF NewMessage, CoreInv, TypeOK
<1>2. /\ m \notin Sent \cup Back
      /\ \A d \in Clients : m \notin hand[d] /\ cmsg[d] # m
      /\ ItemInUse => item # m
  BY <1>1 DEF LiveInv, CoreInv, HandsInv
<1>3. LiveInv'
  BY <1>1, <1>2 DEF LiveInv, Sent, Back, ItemInUse
<1>4. ApartInv'
  BY <1>1, <1>2 DEF ApartInv, Sent, Back
<1>5. UNCHANGED Responds(item) \/ ~ ItemInUse
  BY <1>1, <1>2 DEF Responds, ItemInUse
<1>6. ItemInv' /\ KindInv'
  BY <1>1, <1>2, <1>5 DEF ItemInv, KindInv, Sent, Back, ItemInUse
<1> QED BY <1>3, <1>4, <1>6

\* The message that trimQueue deletes was in the queue, and in nobody's hands.
LEMMA EnqueTrimOwn ==
  ASSUME CoreInv, OwnCore, NEW c \in Clients, EnqueTrim(c)
  PROVE  OwnCore'
<1> DEFINE F == TrimFrees(m_requestQueue)
<1>1. /\ UNCHANGED <<m_responseQueue, hand, wpc, item, cmsg, msgType>>
      /\ cpc[c] = "enque" /\ cpc' = [cpc EXCEPT ![c] = "push"]
      /\ cpc \in [Clients -> {"idle", "enque", "push", "wait"}]
      /\ heap' = Delete(F) /\ m_requestQueue' = Trimmed(m_requestQueue)
  BY DEF EnqueTrim, EntersEnque, CoreInv, TypeOK, workerVars
<1>2. /\ Sent' \subseteq Sent /\ F \subseteq Sent /\ F \cap Sent' = {}
      /\ IsInjective(m_requestQueue')
  <2>1. IsInjective(m_requestQueue)
    BY DEF OwnCore, ApartInv
  <2> QED BY <1>1, <2>1, TrimmedInjective, TrimmedFacts, PointerTypes DEF Sent
<1>3. /\ \A m \in Msgs \ F : heap'[m] = heap[m]
      /\ \A m \in Msgs : heap'[m] # "unborn" => heap[m] # "unborn"
  <2>1. \A m \in Sent : heap[m] # "unborn"
    BY DEF OwnCore, LiveInv
  <2> QED BY <1>1, <1>2, <2>1, DeleteKills, PointerTypes
<1>4. /\ F \cap Back = {}
      /\ \A d \in Clients : F \cap hand[d] = {}
      /\ \A d \in Clients : cpc[d] # "idle" => cmsg[d] \notin F
      /\ ItemInUse => item \notin F
  <2>1. \A d \in Clients : cpc[d] # "idle" => cpc[d] \in {"enque", "push"}
    BY <1>1 DEF OwnCore, KindInv
  <2> QED BY <1>2, <2>1 DEF OwnCore, ApartInv, ItemInv, CoreInv, FreshInv, Sent
<1>5. LiveInv'
  BY <1>1, <1>2, <1>3, <1>4, PointerTypes DEF OwnCore, LiveInv, Back, ItemInUse
<1>6. ApartInv'
  BY <1>1, <1>2 DEF OwnCore, ApartInv, Back
<1>7. ItemInv'
  BY <1>1, <1>2 DEF OwnCore, ItemInv, Responds, Back, ItemInUse
<1>8. KindInv'
  BY <1>1, <1>3 DEF OwnCore, KindInv, Responds
<1> QED BY <1>5, <1>6, <1>7, <1>8 DEF OwnCore

\* Under these disciplines a client lets go of what it has pushed.
LEMMA EnquePushOwn ==
  ASSUME CoreInv, OwnCore, Disciplined, NEW c \in Clients, EnquePush(c)
  PROVE  OwnCore'
<1>1. /\ UNCHANGED <<m_responseQueue, hand, wpc, item, heap, msgType>>
      /\ cpc[c] = "push" /\ cpc' = [cpc EXCEPT ![c] = "idle"]
      /\ cmsg' = [cmsg EXCEPT ![c] = NULL]
      /\ cpc \in [Clients -> {"idle", "enque", "push", "wait"}]
      /\ m_requestQueue' = Pushed(m_requestQueue, cmsg[c])
  BY DEF EnquePush, Disciplined, CoreInv, TypeOK, workerVars, heapVars
<1>2. cmsg[c] \in Msgs /\ cmsg[c] \notin Sent
  BY <1>1, PointerTypes DEF CoreInv, FreshInv, Sent
<1>3. IsInjective(m_requestQueue') /\ Sent' = Sent \cup {cmsg[c]}
  <2>1. IsInjective(m_requestQueue)
    BY DEF OwnCore, ApartInv
  <2> QED BY <1>1, <1>2, <2>1, PushedInjective, PushedFacts, PointerTypes
          DEF Sent
<1>4. LiveInv'
  BY <1>1, <1>3, PointerTypes DEF OwnCore, LiveInv, Back, ItemInUse
<1>5. ApartInv'
  BY <1>1, <1>3, PointerTypes DEF OwnCore, ApartInv, Back
<1>6. ItemInv'
  BY <1>1, <1>3, PointerTypes, NamesAssumption
     DEF OwnCore, ItemInv, Responds, Back, ItemInUse
<1>7. KindInv'
  BY <1>1 DEF OwnCore, KindInv, Responds
<1> QED BY <1>4, <1>5, <1>6, <1>7 DEF OwnCore

LEMMA DequeueOwn ==
  ASSUME CoreInv, OwnCore, NEW c \in Clients, Dequeue(c)
  PROVE  OwnCore'
<1> DEFINE h == Head(m_responseQueue)
<1>1. /\ UNCHANGED <<m_requestQueue, wpc, item, heap, msgType, cpc, cmsg>>
      /\ hand' = [hand EXCEPT ![c] = hand[c] \cup {h}]
      /\ hand \in [Clients -> SUBSET Msgs]
      /\ m_responseQueue # <<>>
      /\ m_responseQueue' = Popped(m_responseQueue)
  BY DEF Dequeue, CoreInv, TypeOK, workerVars, heapVars
<1>2. /\ h \in Back /\ h \notin Back' /\ Back' \subseteq Back
      /\ IsInjective(m_responseQueue')
  <2>1. IsInjective(m_responseQueue)
    BY DEF OwnCore, ApartInv
  <2> QED BY <1>1, <2>1, PoppedInjective, PoppedFacts, PointerTypes DEF Back
<1>3. LiveInv'
  BY <1>1, <1>2 DEF OwnCore, LiveInv, Sent, ItemInUse
<1>4. ApartInv'
  BY <1>1, <1>2 DEF OwnCore, ApartInv, Sent
<1>5. ItemInv'
  BY <1>1, <1>2 DEF OwnCore, ItemInv, Responds, Sent, ItemInUse
<1>6. KindInv'
  BY <1>1 DEF OwnCore, KindInv, Responds
<1> QED BY <1>3, <1>4, <1>5, <1>6 DEF OwnCore

\* A deferring client deletes when there is no worker; otherwise there is no
\* response that the worker could still look at.
LEMMA ItemKept ==
  ASSUME CoreInv, OwnCore, Disciplined, NEW c \in Clients, DeleteResponse(c)
  PROVE  ItemInUse => item \notin hand[c]
<1>1. CASE ProcessKind = "consume"
  BY <1>1 DEF OwnCore, ItemInv, Responds
<1>2. CASE ProcessKind # "consume"
  BY <1>2 DEF Disciplined, DeleteResponse, CoreInv, StageInv, ItemInUse
<1> QED BY <1>1, <1>2

LEMMA DeleteResponseOwn ==
  ASSUME CoreInv, OwnCore, Disciplined, NEW c \in Clients, DeleteResponse(c)
  PROVE  OwnCore'
<1> PICK m \in hand[c] : /\ heap' = Delete({m})
                         /\ hand' = [hand EXCEPT ![c] = hand[c] \ {m}]
  BY DEF DeleteResponse
<1>1. /\ UNCHANGED <<m_requestQueue, m_responseQueue, wpc, item, msgType, cpc,
                     cmsg>>
      /\ hand \in [Clients -> SUBSET Msgs]
  BY DEF DeleteResponse, CoreInv, TypeOK, workerVars, queueVars
<1>2. m \in Msgs /\ heap[m] = "live"
  BY <1>1, PointerTypes DEF OwnCore, LiveInv
<1>3. /\ \A n \in Msgs \ {m} : heap'[n] = heap[n]
      /\ \A n \in Msgs : heap'[n] # "unborn" => heap[n] # "unborn"
  BY <1>2, DeleteKills, PointerTypes
<1>4. ItemInUse => item # m
  BY ItemKept
<1>5. LiveInv'
  <2>1. /\ m \notin Sent \cup Back
        /\ \A d \in Clients : cpc[d] # "idle" => cmsg[d] # m
        /\ \A d \in Clients : m \notin hand'[d] /\ hand'[d] \subseteq hand[d]
    BY <1>1 DEF OwnCore, ApartInv
  <2>2. \A n \in Sent' \cup Back' : heap'[n] = "live"
    BY <1>1, <1>3, <2>1, PointerTypes DEF OwnCore, LiveInv, Sent, Back
  <2>3. \A d \in Clients : \A n \in hand'[d] : heap'[n] = "live"
    <3> SUFFICES ASSUME NEW d \in Clients, NEW n \in hand'[d]
                 PROVE  heap'[n] = "live"
      OBVIOUS
    <3>1. n \in hand[d] /\ n # m /\ n \in Msgs
      BY <2>1, PointerTypes
    <3> QED BY <1>3, <3>1 DEF OwnCore, LiveInv
  <2>4. \A d \in Clients : cpc'[d] # "idle" => heap'[cmsg'[d]] = "live"
    BY <1>1, <1>3, <2>1, PointerTypes DEF OwnCore, LiveInv
  <2>5. ItemInUse' => heap'[item'] # "unborn"
    BY <1>1, <1>3, <1>4, PointerTypes DEF OwnCore, LiveInv, ItemInUse
  <2> QED BY <2>2, <2>3, <2>4, <2>5 DEF LiveInv
<1>6. ApartInv'
  BY <1>1 DEF OwnCore, ApartInv, Sent, Back
<1>7. ItemInv'
  BY <1>1 DEF OwnCore, ItemInv, Responds, Sent, Back, ItemInUse
<1>8. KindInv'
  BY <1>1, <1>3 DEF OwnCore, KindInv, Responds
<1> QED BY <1>5, <1>6, <1>7, <1>8 DEF OwnCore

LEMMA ClientOwn ==
  ASSUME CoreInv, OwnCore, Disciplined, NEW c \in Clients, ClientStep(c)
  PROVE  OwnCore'
<1>1. ~ StopWaiting(c)
  BY DEF OwnCore, KindInv, StopWaiting
<1> QED BY <1>1, NewMessageOwn, EnqueTrimOwn, EnquePushOwn, DequeueOwn,
           DeleteResponseOwn DEF ClientStep

-----------------------------------------------------------------------------
(* The steps of the owner and of the worker.                               *)

\* The owner and the worker's bookkeeping move no message.
LEMMA QuietOwn ==
  ASSUME CoreInv, OwnCore,
         \/ OwnerStep \/ UNCHANGED vars
         \/ WorkerCheck \/ WorkerSwitch \/ WorkerThrow \/ WorkerFree
  PROVE  OwnCore'
<1>1. /\ UNCHANGED <<m_requestQueue, m_responseQueue, heap, msgType, cpc, cmsg,
                     hand>>
      /\ \/ wpc' = wpc /\ item' = item
         \/ wpc' \in {"absent", "check", "switch", "free", "pop", "exited"}
  BY DEF OwnerStep, SetType, Begin, EndSignal, EndJoin, WorkerCheck,
         WorkerSwitch, Case, WorkerThrow, WorkerFree, vars, queueVars, heapVars,
         clientVars, workerVars
<1>2. ItemInUse' => ItemInUse /\ item' = item /\ wpc' = wpc
  BY <1>1 DEF ItemInUse
<1>3. LiveInv' /\ ApartInv'
  BY <1>1, <1>2 DEF OwnCore, LiveInv, ApartInv, Sent, Back
<1>4. ItemInv'
  BY <1>1, <1>2 DEF OwnCore, ItemInv, Responds, Sent, Back
<1>5. KindInv'
  BY <1>1, <1>2 DEF OwnCore, KindInv, ItemInUse, Responds
<1> QED BY <1>3, <1>4, <1>5 DEF OwnCore

LEMMA WorkerPopOwn ==
  ASSUME CoreInv, OwnCore, WorkerPop
  PROVE  OwnCore'
<1>1. /\ UNCHANGED <<m_responseQueue, heap, msgType, cpc, cmsg, hand>>
      /\ m_requestLock = NoOne
  BY DEF WorkerPop, heapVars, clientVars
<1>2. CASE m_requestQueue = <<>>
  <2>1. m_requestQueue' = m_requestQueue /\ ~ ItemInUse'
    BY <1>2 DEF WorkerPop, ItemInUse
  <2> QED BY <1>1, <2>1
          DEF OwnCore, LiveInv, ApartInv, ItemInv, KindInv, Sent, Back, ItemInUse
<1>3. CASE m_requestQueue # <<>>
  <2>1. /\ item' = Head(m_requestQueue) /\ wpc' = "process"
        /\ m_requestQueue' = Popped(m_requestQueue)
    BY <1>3 DEF WorkerPop
  <2>2. /\ item' \in Sent /\ item' \notin Sent' /\ Sent' \subseteq Sent
        /\ IsInjective(m_requestQueue')
    <3>1. IsInjective(m_requestQueue)
      BY DEF OwnCore, ApartInv
    <3> QED BY <1>3, <2>1, <3>1, PoppedInjective, PoppedFacts, PointerTypes
            DEF Sent
  <2>3. LiveInv' /\ ApartInv'
    BY <1>1, <2>2 DEF OwnCore, LiveInv, ApartInv, Back
  <2>4. item' \notin Back /\ \A c \in Clients : item' \notin hand[c]
    BY <2>2 DEF OwnCore, ApartInv
  <2>5. \A c \in Clients : cmsg[c] # item'
    <3>1. item' \in Msgs
      BY <2>2, PointerTypes
    <3>2. \A c \in Clients : cpc[c] = "idle" => cmsg[c] # item'
      BY <3>1, NamesAssumption DEF CoreInv, HandsInv
    <3>3. \A c \in Clients : cpc[c] # "idle" => cmsg[c] # item'
      BY <2>2 DEF OwnCore, KindInv, CoreInv, FreshInv, TypeOK, Sent
    <3> QED BY <3>2, <3>3
  <2>6. ItemInv'
    BY <1>1, <2>2, <2>4, <2>5 DEF ItemInv, Back
  <2>7. KindInv'
    BY <1>1, <2>1 DEF OwnCore, KindInv
  <2> QED BY <2>3, <2>6, <2>7 DEF OwnCore
<1> QED BY <1>2, <1>3

\* process() deletes nothing: the subclass is not the one that does.
LEMMA WorkerProcessOwn ==
  ASSUME CoreInv, OwnCore, Disciplined, WorkerProcess
  PROVE  OwnCore'
<1>1. /\ UNCHANGED <<m_requestQueue, m_responseQueue, heap, msgType, cpc, cmsg,
                     hand, item>>
      /\ wpc = "process"
      /\ \/ wpc' = "respond" /\ Responds(item)
         \/ wpc' = "getType"
  BY DEF WorkerProcess, Disciplined, queueVars, clientVars
<1>2. LiveInv' /\ ApartInv' /\ ItemInv' /\ KindInv'
  BY <1>1 DEF OwnCore, LiveInv, ApartInv, ItemInv, KindInv, Sent, Back,
              ItemInUse, Responds
<1> QED BY <1>2 DEF OwnCore

\* The response that trimQueue deletes was in the queue, and is not the one
\* that is about to be pushed.
LEMMA RespondTrimOwn ==
  ASSUME CoreInv, OwnCore, RespondTrim
  PROVE  OwnCore'
<1> DEFINE F == TrimFrees(m_responseQueue)
<1>1. /\ UNCHANGED <<m_requestQueue, hand, item, cpc, cmsg, msgType>>
      /\ wpc = "respond" /\ wpc' = "respondPush"
      /\ heap' = Delete(F) /\ m_responseQueue' = Trimmed(m_responseQueue)
  BY DEF RespondTrim, clientVars
<1>2. /\ Back' \subseteq Back /\ F \subseteq Back /\ F \cap Back' = {}
      /\ IsInjective(m_responseQueue')
  <2>1. IsInjective(m_responseQueue)
    BY DEF OwnCore, ApartInv
  <2> QED BY <1>1, <2>1, TrimmedInjective, TrimmedFacts, PointerTypes DEF Back
<1>3. /\ \A m \in Msgs \ F : heap'[m] = heap[m]
      /\ \A m \in Msgs : heap'[m] # "unborn" => heap[m] # "unborn"
  <2>1. \A m \in Back : heap[m] # "unborn"
    BY DEF OwnCore, LiveInv
  <2> QED BY <1>1, <1>2, <2>1, DeleteKills, PointerTypes
<1>4. /\ F \cap Sent = {} /\ item \notin F
      /\ \A d \in Clients : F \cap hand[d] = {}
      /\ \A d \in Clients : cpc[d] # "idle" => cmsg[d] \notin F
  BY <1>1, <1>2 DEF OwnCore, ApartInv, ItemInv, ItemInUse
<1>5. LiveInv'
  BY <1>1, <1>2, <1>3, <1>4, PointerTypes DEF OwnCore, LiveInv, Sent, ItemInUse
<1>6. ApartInv'
  BY <1>1, <1>2 DEF OwnCore, ApartInv, Sent
<1>7. ItemInv'
  BY <1>1, <1>2 DEF OwnCore, ItemInv, Responds, Sent, ItemInUse
<1>8. KindInv'
  BY <1>1, <1>3 DEF OwnCore, KindInv, Responds
<1> QED BY <1>5, <1>6, <1>7, <1>8 DEF OwnCore

LEMMA RespondPushOwn ==
  ASSUME CoreInv, OwnCore, ItemLive, RespondPush
  PROVE  OwnCore'
<1>1. /\ UNCHANGED <<m_requestQueue, hand, item, cpc, cmsg, msgType, heap>>
      /\ wpc = "respondPush" /\ wpc' = "getType"
      /\ m_responseQueue' = Pushed(m_responseQueue, item)
  BY DEF RespondPush, clientVars, heapVars
<1>2. /\ item \in Msgs /\ item \notin Back /\ item \notin Sent
      /\ Responds(item)
      /\ \A c \in Clients : cmsg[c] # item /\ item \notin hand[c]
  BY <1>1, PointerTypes
     DEF OwnCore, LiveInv, ItemInv, KindInv, ItemInUse
<1>3. IsInjective(m_responseQueue') /\ Back' = Back \cup {item}
  <2>1. IsInjective(m_responseQueue)
    BY DEF OwnCore, ApartInv
  <2> QED BY <1>1, <1>2, <2>1, PushedInjective, PushedFacts, PointerTypes
          DEF Back
<1>4. LiveInv'
  BY <1>1, <1>2, <1>3 DEF OwnCore, LiveInv, ItemLive, Sent, ItemInUse
<1>5. ApartInv'
  BY <1>1, <1>2, <1>3 DEF OwnCore, ApartInv, Sent
<1>6. ItemInv'
  BY <1>1, <1>2 DEF OwnCore, ItemInv, Responds, Sent, ItemInUse
<1>7. KindInv'
  BY <1>1 DEF OwnCore, KindInv, Responds
<1> QED BY <1>4, <1>5, <1>6, <1>7 DEF OwnCore

\* The worker deletes its item only if it shares it with nobody.
LEMMA WorkerGetTypeOwn ==
  ASSUME CoreInv, OwnCore, ItemLive, WorkerGetType
  PROVE  OwnCore'
<1>1. /\ UNCHANGED <<m_requestQueue, m_responseQueue, hand, cpc, cmsg, msgType>>
      /\ wpc = "getType" /\ ItemInUse /\ ~ ItemInUse' /\ wpc' = "check"
  BY DEF WorkerGetType, clientVars, queueVars, ItemInUse
<1>2. item \in Msgs /\ heap[item] = "live"
  BY <1>1, PointerTypes DEF ItemLive
<1>3. heap' = heap \/ (heap' = Delete({item}) /\ ~ Responds(item))
  BY <1>2 DEF WorkerGetType, DeletedAfter, Responds
<1>4. CASE heap' = heap
  BY <1>1, <1>4
     DEF OwnCore, LiveInv, ApartInv, ItemInv, KindInv, Sent, Back
<1>5. CASE heap' = Delete({item}) /\ ~ Responds(item)
  <2>1. /\ \A m \in Msgs \ {item} : heap'[m] = heap[m]
        /\ \A m \in Msgs : heap'[m] # "unborn" => heap[m] # "unborn"
    BY <1>2, <1>5, DeleteKills, PointerTypes
  <2>2. /\ item \notin Sent \cup Back
        /\ \A c \in Clients : cmsg[c] # item /\ item \notin hand[c]
    BY <1>1, <1>5 DEF OwnCore, ItemInv
  <2>3. LiveInv'
    BY <1>1, <2>1, <2>2, PointerTypes DEF OwnCore, LiveInv, Sent, Back
  <2>4. ApartInv' /\ ItemInv'
    BY <1>1 DEF OwnCore, ApartInv, ItemInv, Sent, Back
  <2>5. KindInv'
    BY <1>1, <2>1 DEF OwnCore, KindInv
  <2> QED BY <2>3, <2>4, <2>5 DEF OwnCore
<1> QED BY <1>3, <1>4, <1>5

-----------------------------------------------------------------------------
(* What the worker still uses of its item stays alive.                     *)

LEMMA ClientItemLive ==
  ASSUME CoreInv, OwnCore, ItemLive, Disciplined, NEW c \in Clients,
         ClientStep(c)
  PROVE  ItemLive'
<1>1. UNCHANGED <<wpc, item>> /\ ~ StopWaiting(c)
  BY DEF ClientStep, NewMessage, EnqueTrim, EnquePush, Dequeue,
         DeleteResponse, StopWaiting, workerVars, OwnCore, KindInv
<1>2. SUFFICES ASSUME ItemInUse, item \in Msgs, heap[item] = "live"
               PROVE  heap'[item] = "live"
  BY <1>1, PointerTypes DEF ItemLive, ItemInUse
<1>3. CASE NewMessage(c)
  BY <1>2, <1>3, PointerTypes DEF NewMessage
<1>4. CASE EnqueTrim(c)
  <2>1. item \notin TrimFrees(m_requestQueue)
    BY <1>2, TrimmedFacts, PointerTypes DEF OwnCore, ItemInv, Sent
  <2> QED BY <1>2, <1>4, <2>1 DEF EnqueTrim, Delete
<1>5. CASE DeleteResponse(c)
  BY <1>2, <1>5, ItemKept DEF DeleteResponse, Delete
<1> QED BY <1>1, <1>2, <1>3, <1>4, <1>5
        DEF ClientStep, EnquePush, Dequeue, heapVars

LEMMA QuietItemLive ==
  ASSUME ItemLive, CoreInv,
         \/ OwnerStep \/ UNCHANGED vars
         \/ WorkerCheck \/ WorkerSwitch \/ WorkerThrow \/ WorkerFree
  PROVE  ItemLive'
<1>1. /\ heap' = heap
      /\ \/ wpc' = wpc /\ item' = item
         \/ wpc' \in {"absent", "check", "switch", "free", "pop", "exited"}
  BY DEF OwnerStep, SetType, Begin, EndSignal, EndJoin, WorkerCheck,
         WorkerSwitch, Case, WorkerThrow, WorkerFree, vars, heapVars, workerVars
<1> QED BY <1>1 DEF ItemLive, ItemInUse

LEMMA WorkerItemLive ==
  ASSUME CoreInv, OwnCore, ItemLive, Disciplined,
         \/ WorkerPop \/ WorkerProcess \/ RespondTrim \/ RespondPush
         \/ WorkerGetType
  PROVE  ItemLive'
<1>1. CASE WorkerPop
  BY <1>1, PoppedFacts, PointerTypes
     DEF WorkerPop, OwnCore, LiveInv, Sent, ItemLive, ItemInUse, heapVars
<1>2. CASE WorkerProcess \/ RespondPush
  BY <1>2 DEF WorkerProcess, RespondPush, Disciplined, ItemLive, ItemInUse,
              heapVars
<1>3. CASE RespondTrim
  <2>1. item \notin TrimFrees(m_responseQueue) /\ item \in Msgs
    BY <1>3, TrimmedFacts, PointerTypes
       DEF RespondTrim, OwnCore, ItemInv, Back, ItemInUse
  <2> QED BY <1>3, <2>1 DEF RespondTrim, Delete, ItemLive, ItemInUse
<1>4. CASE WorkerGetType
  BY <1>4 DEF WorkerGetType, ItemLive, ItemInUse
<1> QED BY <1>1, <1>2, <1>3, <1>4

-----------------------------------------------------------------------------
(* The theorems.                                                           *)

\* Under a discipline that fits, the ownership invariant holds throughout.
THEOREM Ownership == Disciplined => (Spec => []OwnInv)
<1> SUFFICES ASSUME Disciplined PROVE Spec => []OwnInv
  OBVIOUS
<1>1. IInv /\ OwnInv /\ [Next]_vars => OwnCore'
  BY ClientOwn, QuietOwn, WorkerPopOwn, WorkerProcessOwn, RespondTrimOwn,
     RespondPushOwn, WorkerGetTypeOwn DEF IInv, OwnInv, Next, WorkerStep
<1>2. IInv /\ OwnInv /\ [Next]_vars => ItemLive'
  BY ClientItemLive, QuietItemLive, WorkerItemLive
     DEF IInv, OwnInv, Next, WorkerStep
<1> QED BY InitOwn, <1>1, <1>2, Invariance, PTL DEF Spec, OwnInv

\* No pointer that is still followed leads to a deleted message.
THEOREM NothingDangles == Disciplined => (Spec => []NoDangling)
<1>1. OwnInv => NoDangling
  BY DEF OwnInv, OwnCore, LiveInv, ItemLive, NoDangling, Sent, Back
<1> QED BY <1>1, Ownership, PTL

\* Every message has one owner at a time.
THEOREM OneOwner == Disciplined => (Spec => []SingleOwner)
<1>1. IInv /\ OwnInv => SingleOwner
  <2> SUFFICES ASSUME IInv, OwnInv PROVE SingleOwner
    OBVIOUS
  <2> DEFINE work == IF wpc \in {"process", "respond", "respondPush"}
                       THEN {item} ELSE {}
  <2>1. /\ work \cap (Sent \cup Back) = {}
        /\ \A c \in Clients : hand[c] \cap work = {} /\ cmsg[c] \notin work
    BY DEF OwnInv, OwnCore, ItemInv, Responds, ItemInUse
  <2>2. \A c \in Clients : cpc[c] \in {"enque", "push"} =>
          /\ cmsg[c] \notin Sent \cup Back
          /\ \A d \in Clients \ {c} : cmsg[d] # cmsg[c]
    BY DEF OwnInv, OwnCore, ApartInv, IInv, CoreInv, FreshInv, Sent
  <2>3. /\ IsInjective(m_requestQueue) /\ IsInjective(m_responseQueue)
        /\ Sent \cap Back = {}
        /\ \A c \in Clients : hand[c] \cap (Sent \cup Back) = {}
    BY DEF OwnInv, OwnCore, ApartInv
  <2> HIDE DEF work
  <2>4. SingleOwner <=>
          /\ IsInjective(m_requestQueue) /\ IsInjective(m_responseQueue)
          /\ Sent \cap Back = {} /\ work \cap (Sent \cup Back) = {}
          /\ \A c \in Clients :
               /\ hand[c] \cap (Sent \cup Back \cup work) = {}
               /\ cpc[c] \in {"enque", "push"} =>
                    /\ cmsg[c] \notin Sent \cup Back \cup work
                    /\ \A d \in Clients \ {c} : cmsg[d] # cmsg[c]
    BY DEF SingleOwner, Sent, Back, work
  <2> QED BY <2>1, <2>2, <2>3, <2>4
<1> QED BY <1>1, Ownership, Invariance, PTL

-----------------------------------------------------------------------------
(* Nothing leaks while process does not throw.                             *)

LEMMA InitKept == Init => KeptInv
BY DEF Init, KeptInv

\* A client puts a message down where someone else finds it, or deletes it.
LEMMA ClientReaches ==
  ASSUME CoreInv, OwnCore, Disciplined, NEW c \in Clients, ClientStep(c),
         NEW n \in Msgs, heap'[n] = "live"
  PROVE  /\ heap[n] # "live" => Held(n)'
         /\ n \in Sent \cup Back \/ Held(n) =>
              n \in Sent' \cup Back' \/ Held(n)'
<1> USE PointerTypes
<1>1. /\ cpc \in [Clients -> {"idle", "enque", "push", "wait"}]
      /\ hand \in [Clients -> SUBSET Msgs]
      /\ ~ StopWaiting(c)
  BY DEF CoreInv, TypeOK, OwnCore, KindInv, StopWaiting
<1>2. CASE NewMessage(c)
  <2> USE <1>2 DEF NewMessage, queueVars
  <2>1. PICK m \in Msgs : /\ heap' = [heap EXCEPT ![m] = "live"]
                          /\ cmsg' = [cmsg EXCEPT ![c] = m]
    OBVIOUS
  <2>2. Held(m)' /\ (Held(n) => Held(n)')
    BY <1>1, <2>1 DEF Held
  <2> QED BY <2>1, <2>2 DEF Sent, Back
<1>3. CASE EnqueTrim(c)
  <2>1. /\ UNCHANGED <<m_responseQueue, hand, cmsg>>
        /\ cpc' = [cpc EXCEPT ![c] = "push"] /\ cpc[c] = "enque"
        /\ heap' = Delete(TrimFrees(m_requestQueue))
        /\ m_requestQueue' = Trimmed(m_requestQueue)
    BY <1>3 DEF EnqueTrim, EntersEnque
  <2>2. \A m \in Sent \ Sent' : m \in TrimFrees(m_requestQueue)
    BY <2>1, TrimmedKeeps DEF Sent
  <2>3. heap[n] = "live" /\ n \notin Sent \ Sent'
    BY <2>1, <2>2 DEF Delete
  <2>4. Held(n) => Held(n)'
    BY <1>1, <2>1 DEF Held
  <2> QED BY <2>1, <2>3, <2>4 DEF Back
<1>4. CASE EnquePush(c)
  <2>1. /\ UNCHANGED <<m_responseQueue, hand, heap>>
        /\ cpc[c] = "push" /\ cpc' = [cpc EXCEPT ![c] = "idle"]
        /\ cmsg' = [cmsg EXCEPT ![c] = NULL]
        /\ m_requestQueue' = Pushed(m_requestQueue, cmsg[c])
    BY <1>4 DEF EnquePush, Disciplined, heapVars
  <2>2. Sent' = Sent \cup {cmsg[c]}
    BY <2>1, PushedFacts DEF Sent
  <2>3. Held(n) => Held(n)' \/ n = cmsg[c]
    BY <1>1, <2>1 DEF Held
  <2> QED BY <2>1, <2>2, <2>3 DEF Back
<1>5. CASE Dequeue(c)
  <2> PICK h : h = Head(m_responseQueue)
    OBVIOUS
  <2>1. /\ UNCHANGED <<m_requestQueue, heap, cpc, cmsg>>
        /\ hand' = [hand EXCEPT ![c] = hand[c] \cup {h}]
        /\ m_responseQueue # <<>>
        /\ m_responseQueue' = Popped(m_responseQueue)
    BY <1>5 DEF Dequeue, heapVars
  <2>2. \A m \in Back : m \in Back' \/ m = h
    BY <2>1, PoppedKeeps DEF Back
  <2>3. h \in hand'[c] /\ \A d \in Clients : hand[d] \subseteq hand'[d]
    BY <1>1, <2>1
  <2>4. Held(n) \/ n = h => Held(n)'
    BY <2>1, <2>3 DEF Held
  <2> QED BY <2>1, <2>2, <2>4 DEF Sent
<1>6. CASE DeleteResponse(c)
  <2>1. PICK m \in hand[c] : /\ heap' = Delete({m})
                             /\ hand' = [hand EXCEPT ![c] = hand[c] \ {m}]
    BY <1>6 DEF DeleteResponse
  <2>2. UNCHANGED <<m_requestQueue, m_responseQueue, cpc, cmsg>>
    BY <1>6 DEF DeleteResponse, queueVars
  <2>3. heap[n] = "live" /\ n # m
    BY <2>1 DEF Delete
  <2>4. Held(n) => Held(n)'
    BY <1>1, <2>1, <2>2, <2>3 DEF Held
  <2> QED BY <2>2, <2>3, <2>4 DEF Sent, Back
<1> QED BY <1>1, <1>2, <1>3, <1>4, <1>5, <1>6 DEF ClientStep

\* Deferring clients keep what the worker may still look at.
LEMMA ClientKeepsReturned ==
  ASSUME CoreInv, OwnCore, Disciplined, NEW c \in Clients, ClientStep(c),
         wpc = "getType", ProcessKind = "respond", NEW m \in Msgs,
         m \in Back \/ \E d \in Clients : m \in hand[d]
  PROVE  m \in Back' \/ \E d \in Clients : m \in hand'[d]
<1>1. ~ DeleteResponse(c)
  BY DEF DeleteResponse, Disciplined, CoreInv, StageInv
<1>2. ASSUME Dequeue(c), NEW h, h = Head(m_responseQueue)
      PROVE  m \in Back' \/ \E d \in Clients : m \in hand'[d]
  <2>1. hand' = [hand EXCEPT ![c] = hand[c] \cup {h}]
    BY <1>2 DEF Dequeue
  <2>2. hand \in [Clients -> SUBSET Msgs]
    BY DEF CoreInv, TypeOK
  <2>3. h \in hand'[c] /\ \A d \in Clients : hand[d] \subseteq hand'[d]
    BY <2>1, <2>2
  <2>4. \A n \in Back : n \in Back' \/ n = h
    BY <1>2, PoppedKeeps, PointerTypes DEF Dequeue, Back
  <2> QED BY <2>3, <2>4
<1>3. CASE Dequeue(c)
  BY <1>2, <1>3
<1> QED BY <1>1, <1>3 DEF ClientStep, NewMessage, EnqueTrim, EnquePush,
           StopWaiting, Back, queueVars

LEMMA ClientKept ==
  ASSUME IInv, OwnInv, KeptInv, Disciplined, NEW c \in Clients, ClientStep(c)
  PROVE  KeptInv'
<1> USE PointerTypes DEF IInv, OwnInv
<1>1. UNCHANGED <<wpc, item>> /\ (ItemInUse => Responds(item)' = Responds(item))
  <2>1. ItemInUse => msgType'[item] = msgType[item]
    BY DEF ClientStep, NewMessage, EnqueTrim, EnquePush, Dequeue,
           DeleteResponse, StopWaiting, heapVars, CoreInv, TypeOK, ItemLive
  <2>2. UNCHANGED <<wpc, item>>
    BY DEF ClientStep, NewMessage, EnqueTrim, EnquePush, Dequeue,
           DeleteResponse, StopWaiting, workerVars
  <2> QED BY <2>1, <2>2 DEF Responds
<1>2. ASSUME NEW n \in Msgs, heap'[n] = "live"
      PROVE  \/ n \in Sent' \cup Back' \/ Held(n)'
             \/ ItemInUse /\ n = item
  BY <1>2, ClientReaches DEF KeptInv
<1>3. wpc = "getType" /\ Responds(item) =>
        item \in Back' \/ \E d \in Clients : item \in hand'[d]
  BY ClientKeepsReturned DEF KeptInv, ItemInUse, Responds
<1> QED BY <1>1, <1>2, <1>3 DEF KeptInv, ItemInUse

\* The worker deletes its item or hands it back, and trims what it deletes.
LEMMA WorkerKept ==
  ASSUME IInv, OwnInv, KeptInv, Disciplined, ~ MayThrow,
         WorkerStep \/ OwnerStep \/ UNCHANGED vars
  PROVE  KeptInv'
<1> USE PointerTypes DEF IInv
<1>1. CASE OwnerStep \/ UNCHANGED vars \/ WorkerCheck \/ WorkerSwitch
           \/ WorkerFree
  <2>1. /\ UNCHANGED <<m_requestQueue, m_responseQueue, heap, msgType, cpc,
                       cmsg, hand>>
        /\ \/ UNCHANGED <<wpc, item>>
           \/ ~ ItemInUse /\ ~ ItemInUse'
    BY <1>1 DEF OwnerStep, SetType, Begin, EndSignal, EndJoin, WorkerCheck,
         WorkerSwitch, Case, WorkerFree, vars, queueVars, heapVars, clientVars,
         workerVars, ItemInUse, IInv, CoreInv, StageInv
  <2> QED BY <2>1 DEF KeptInv, Sent, Back, ItemInUse, Held, Responds
<1>2. CASE WorkerPop
  <2>1. /\ UNCHANGED <<m_responseQueue, heap, msgType, cpc, cmsg, hand>>
        /\ wpc = "pop" /\ wpc' # "getType"
    BY <1>2 DEF WorkerPop, heapVars, clientVars
  <2>2. \A m \in Sent : m \in Sent' \/ (ItemInUse /\ m = item)'
    BY <1>2, PoppedKeeps DEF WorkerPop, Sent, ItemInUse
  <2> QED BY <2>1, <2>2 DEF KeptInv, Back, ItemInUse, Held
<1>3. CASE WorkerProcess
  <2>1. /\ UNCHANGED <<m_requestQueue, m_responseQueue, heap, msgType, cpc,
                       cmsg, hand, item>>
        /\ ItemInUse /\ ItemInUse'
        /\ wpc' = "getType" => ~ Responds(item)
    BY <1>3 DEF WorkerProcess, Disciplined, queueVars, clientVars, ItemInUse
  <2> QED BY <2>1 DEF KeptInv, Sent, Back, Held, Responds
<1>4. CASE RespondTrim
  <2>1. /\ UNCHANGED <<m_requestQueue, hand, item, cpc, cmsg, msgType>>
        /\ ItemInUse /\ ItemInUse' /\ wpc' # "getType"
        /\ heap' = Delete(TrimFrees(m_responseQueue))
        /\ m_responseQueue' = Trimmed(m_responseQueue)
    BY <1>4 DEF RespondTrim, clientVars, ItemInUse
  <2>2. \A m \in Back \ Back' : m \in TrimFrees(m_responseQueue)
    BY <2>1, TrimmedKeeps DEF Back
  <2>3. \A m \in Msgs : heap'[m] = "live" =>
          heap[m] = "live" /\ m \notin Back \ Back'
    BY <2>1, <2>2 DEF Delete
  <2> QED BY <2>1, <2>3 DEF KeptInv, Sent, Held
<1>5. CASE RespondPush
  <2>1. /\ UNCHANGED <<m_requestQueue, hand, item, cpc, cmsg, heap, msgType>>
        /\ ItemInUse /\ ItemInUse'
        /\ m_responseQueue' = Pushed(m_responseQueue, item)
    BY <1>5 DEF RespondPush, heapVars, clientVars, ItemInUse
  <2>2. Back' = Back \cup {item}
    BY <2>1, PushedFacts DEF Back
  <2> QED BY <2>1, <2>2 DEF KeptInv, Sent, Held
<1>6. CASE WorkerGetType
  <2>1. /\ UNCHANGED <<m_requestQueue, m_responseQueue, hand, cpc, cmsg>>
        /\ wpc = "getType" /\ wpc' = "check" /\ ItemInUse
    BY <1>6 DEF WorkerGetType, clientVars, queueVars, ItemInUse
  <2>2. /\ item \in Msgs /\ heap[item] = "live"
        /\ msgType[item] \in MsgTypes
    BY <2>1 DEF OwnInv, OwnCore, LiveInv, ItemLive, KindInv
  <2>3. heap' = IF msgType[item] # "REQUEST_RESPONSE" THEN Delete({item})
                ELSE heap
    BY <1>6, <2>2 DEF WorkerGetType, DeletedAfter
  <2>4. heap' = Delete({item}) \/ (heap' = heap /\ Responds(item))
    BY <2>2, <2>3 DEF Disciplined, Responds
  <2>5. \A m \in Msgs : heap'[m] = "live" =>
          heap[m] = "live" /\ (m = item => Responds(item))
    BY <2>4 DEF Delete
  <2>6. Responds(item) => item \in Back \/ Held(item)
    BY <2>1 DEF KeptInv, Held
  <2> QED BY <2>1, <2>2, <2>5, <2>6 DEF KeptInv, Sent, Back, Held
<1> QED BY <1>1, <1>2, <1>3, <1>4, <1>5, <1>6 DEF WorkerStep, WorkerThrow

\* No live message is lost to everyone, as long as process does not throw.
THEOREM NothingLeaks == Disciplined /\ ~ MayThrow => (Spec => []NoLeak)
<1> SUFFICES ASSUME Disciplined, ~ MayThrow PROVE Spec => []NoLeak
  OBVIOUS
<1>1. IInv /\ OwnInv /\ KeptInv /\ [Next]_vars => KeptInv'
  BY ClientKept, WorkerKept DEF Next
<1>2. KeptInv => NoLeak
  BY DEF KeptInv, NoLeak, Held, Sent, Back
<1> QED BY InitKept, <1>1, <1>2, Invariance, Ownership, PTL DEF Spec

-----------------------------------------------------------------------------
(* What is deleted unprocessed was trimmed.                                *)

LEMMA DoneStep ==
  ASSUME IInv, OwnInv, DoneInv, Disciplined, [Next]_vars
  PROVE  DoneInv'
<1> USE PointerTypes DEF IInv
<1>1. hand \in [Clients -> SUBSET Msgs]
  BY DEF IInv, CoreInv, TypeOK
<1>2. CASE \E c \in Clients : NewMessage(c) \/ EnqueTrim(c) \/ EnquePush(c)
  BY <1>2 DEF NewMessage, EnqueTrim, EnquePush, queueVars, workerVars, heapVars,
              DoneInv, Back
<1>3. CASE \E c \in Clients : Dequeue(c)
  <2>1. PICK c \in Clients : Dequeue(c)
    BY <1>3
  <2>2. /\ UNCHANGED <<wpc, item, processed>> /\ m_responseQueue # <<>>
        /\ hand' = [hand EXCEPT ![c] = hand[c] \cup {Head(m_responseQueue)}]
        /\ m_responseQueue' = Popped(m_responseQueue)
    BY <2>1 DEF Dequeue, workerVars, heapVars
  <2>3. Head(m_responseQueue) \in Back /\ Back' \subseteq Back
    BY <2>2, PoppedFacts DEF Back
  <2> QED BY <1>1, <2>2, <2>3 DEF DoneInv
<1>4. CASE \E c \in Clients : DeleteResponse(c) \/ StopWaiting(c)
  <2>1. /\ UNCHANGED <<m_responseQueue, wpc, item, processed>>
        /\ \A d \in Clients : hand'[d] \subseteq hand[d]
    BY <1>1, <1>4 DEF DeleteResponse, StopWaiting, queueVars, workerVars
  <2> QED BY <2>1 DEF DoneInv, Back
<1>5. CASE \/ OwnerStep \/ UNCHANGED vars \/ WorkerCheck \/ WorkerSwitch
           \/ WorkerPop \/ WorkerThrow \/ WorkerFree
  <2>1. /\ UNCHANGED <<m_responseQueue, processed, hand>>
        /\ \/ UNCHANGED <<wpc, item>>
           \/ wpc' \in WorkerPlaces \ {"respond", "respondPush", "getType"}
    BY <1>5 DEF OwnerStep, SetType, Begin, EndSignal, EndJoin, WorkerCheck,
         WorkerSwitch, Case, WorkerPop, WorkerThrow, WorkerFree, vars,
         queueVars, heapVars, clientVars, workerVars, WorkerPlaces
  <2> QED BY <2>1 DEF DoneInv, Back
<1>6. CASE WorkerProcess
  <2>1. /\ UNCHANGED <<m_responseQueue, hand, item>> /\ item \in Msgs
        /\ processed' = [processed EXCEPT ![item] = TRUE]
    BY <1>6 DEF WorkerProcess, Disciplined, queueVars, clientVars, ItemInUse
  <2>2. processed \in [Msgs -> BOOLEAN]
    BY DEF IInv, CoreInv, TypeOK
  <2>3. processed'[item] /\ \A m \in Msgs : processed[m] => processed'[m]
    BY <2>1, <2>2
  <2> QED BY <2>1, <2>3 DEF DoneInv, Back
<1>7. CASE RespondTrim
  <2>1. Back' \subseteq Back
    BY <1>7, TrimmedFacts DEF RespondTrim, Back
  <2> QED BY <1>7, <2>1 DEF RespondTrim, DoneInv, clientVars
<1>8. CASE RespondPush
  <2>1. Back' = Back \cup {item}
    BY <1>8, PushedFacts DEF RespondPush, Back, ItemInUse
  <2> QED BY <1>8, <2>1 DEF RespondPush, DoneInv, clientVars, heapVars
<1>9. CASE WorkerGetType
  BY <1>9 DEF WorkerGetType, DoneInv, Back, clientVars, queueVars
<1> QED BY <1>2, <1>3, <1>4, <1>5, <1>6, <1>7, <1>8, <1>9
        DEF Next, ClientStep, WorkerStep

\* A message is deleted unprocessed only by trimQueue, at a full queue.
THEOREM LostOnlyWhenFull == Disciplined => (Spec => LossOnlyWhenFull)
<1> SUFFICES ASSUME Disciplined PROVE Spec => LossOnlyWhenFull
  OBVIOUS
<1>1. Init => DoneInv
  BY DEF Init, DoneInv, Back, Range
<1>2. IInv /\ OwnInv /\ DoneInv /\ [Next]_vars => DoneInv'
  BY DoneStep
<1>3. IInv /\ OwnInv /\ DoneInv /\ [Next]_vars =>
        [\A m \in Msgs :
           heap[m] = "live" /\ heap'[m] = "deleted" /\ ~processed[m] =>
             m_requestQueue # <<>> /\ m = Head(m_requestQueue)
             /\ Len(m_requestQueue) > QueueSizeLimit]_vars
  <2> SUFFICES ASSUME IInv, OwnInv, DoneInv, [Next]_vars, NEW m \in Msgs,
                      heap[m] = "live", heap'[m] = "deleted", ~processed[m]
               PROVE  /\ m_requestQueue # <<>> /\ m = Head(m_requestQueue)
                      /\ Len(m_requestQueue) > QueueSizeLimit
    OBVIOUS
  <2>1. CASE \E c \in Clients : EnqueTrim(c)
    <3>1. m \in TrimFrees(m_requestQueue)
      BY <2>1 DEF EnqueTrim, Delete
    <3>2. MustTrim(m_requestQueue) => m_requestQueue # <<>>
      BY LimitAssumption DEF MustTrim
    <3> QED BY <3>1, <3>2 DEF TrimFrees, MustTrim
  <2>2. CASE \E c \in Clients : DeleteResponse(c)
    BY <2>2 DEF DeleteResponse, Delete, DoneInv
  <2>3. CASE \E c \in Clients : StopWaiting(c)
    BY <2>3 DEF StopWaiting, OwnInv, OwnCore, KindInv
  <2>4. CASE RespondTrim
    <3>1. m \in TrimFrees(m_responseQueue)
      BY <2>4 DEF RespondTrim, Delete
    <3>2. m \in Back
      BY <3>1, TrimmedFacts, PointerTypes DEF Back, IInv
    <3> QED BY <3>2 DEF DoneInv
  <2>5. CASE WorkerGetType
    BY <2>5 DEF WorkerGetType, Delete, DoneInv
  <2>6. CASE \E c \in Clients : NewMessage(c)
    BY <2>6, PointerTypes DEF NewMessage
  <2>7. CASE UNCHANGED heap
    BY <2>7
  <2> QED BY <2>1, <2>2, <2>3, <2>4, <2>5, <2>6, <2>7
          DEF Next, ClientStep, WorkerStep, OwnerStep, SetType, Begin, EndSignal,
              EndJoin, WorkerCheck, WorkerSwitch, WorkerPop, WorkerThrow,
              WorkerFree, WorkerProcess, Disciplined, RespondPush, EnquePush,
              Dequeue, vars, heapVars
<1> QED
  BY <1>1, <1>2, <1>3, Invariance, Ownership, PTL DEF Spec, LossOnlyWhenFull

-----------------------------------------------------------------------------
(* The response queue implements a Mailbox as well.  That no answer enters  *)
(* it twice is a matter of ownership.                                       *)

\* A worker that takes the lock and trims has put its answer.
LEMMA RespondPuts ==
  ASSUME IInv, OwnInv, RespondTrim
  PROVE  item \in Msgs /\ ResponseMailbox!Put(item)
<1>1. m_responseLock = NoOne /\ m_responseLock' = Worker /\ item' = item
  BY DEF RespondTrim
<1>2. /\ ResponseBox = m_responseQueue
      /\ ResponseBox' = Append(Trimmed(m_responseQueue), item)
  BY <1>1, NamesAssumption DEF RespondTrim, ResponseBox
<1>3. item \in Msgs /\ item \notin Range(m_responseQueue)
  BY DEF RespondTrim, IInv, CoreInv, HandsInv, OwnInv, OwnCore, ItemInv,
         ItemInUse, Back
<1> QED BY <1>2, <1>3
        DEF ResponseMailbox!Put, ResponseMailbox!Kept, ResponseMailbox!Range,
            Range, Trimmed, Popped, MustTrim

\* A client takes the oldest answer, if it calls dequeue.
LEMMA ClientTakes ==
  ASSUME IInv, NEW c \in Clients, ClientStep(c)
  PROVE  ResponseMailbox!Take \/ ResponseBox' = ResponseBox
<1>1. CASE Dequeue(c)
  BY <1>1 DEF Dequeue, lockVars, Popped, ResponseMailbox!Take, ResponseBox
<1>2. CASE ~ Dequeue(c)
  <2>1. UNCHANGED <<m_responseQueue, m_responseLock, item>>
    BY <1>2 DEF ClientStep, NewMessage, EnqueTrim, EnquePush, DeleteResponse,
                StopWaiting, queueVars, lockVars, workerVars
  <2> QED BY <2>1 DEF ResponseBox
<1> QED BY <1>1, <1>2

\* The push does not change the box, and the item changes only while the lock
\* is free.
LEMMA RespondStutters ==
  ASSUME IInv, OwnerStep \/ (WorkerStep /\ ~ RespondTrim) \/ UNCHANGED vars
  PROVE  ResponseBox' = ResponseBox
<1>1. CASE RespondPush
  <2>1. m_responseLock = Worker
    BY <1>1 DEF RespondPush, IInv, ResponseLockInv
  <2> QED BY <1>1, <2>1, NamesAssumption DEF RespondPush, Pushed, ResponseBox
<1>2. CASE ~ RespondPush
  <2>1. UNCHANGED <<m_responseQueue, m_responseLock>>
    BY <1>2 DEF OwnerStep, SetType, Begin, EndSignal, EndJoin, WorkerStep,
                WorkerCheck, WorkerSwitch, WorkerPop, WorkerThrow, WorkerFree,
                WorkerProcess, WorkerGetType, vars, queueVars, lockVars
  <2>2. item' = item \/ wpc # "respondPush"
    BY <1>2 DEF OwnerStep, SetType, Begin, EndSignal, EndJoin, WorkerStep,
                WorkerCheck, WorkerSwitch, WorkerPop, WorkerThrow, WorkerFree,
                WorkerProcess, WorkerGetType, vars, workerVars
  <2>3. wpc # "respondPush" => m_responseLock = NoOne
    BY DEF IInv, CoreInv, TypeOK, ResponseLockInv
  <2> QED BY <2>1, <2>2, <2>3 DEF ResponseBox
<1> QED BY <1>1, <1>2

\* In a disciplined system the answers wait in a lossy FIFO mailbox: none
\* enters it twice, it is emptied from its head, and only a full one loses.
THEOREM ResponseQueueRefinesMailbox ==
  Disciplined => (Spec => ResponseQueueIsMailbox)
<1> SUFFICES ASSUME Disciplined PROVE Spec => ResponseQueueIsMailbox
  OBVIOUS
<1>1. Init => ResponseMailbox!Init
  BY DEF Init, ResponseMailbox!Init, ResponseBox
<1>2. IInv /\ OwnInv /\ [Next]_vars => [ResponseMailbox!Next]_ResponseBox
  BY RespondPuts, ClientTakes, RespondStutters
     DEF Next, ResponseMailbox!Next, WorkerStep
<1> QED BY <1>1, <1>2, Invariance, Ownership, PTL
        DEF Spec, ResponseQueueIsMailbox, ResponseMailbox!Spec
=============================================================================
