---------------------------- MODULE ProcessThread ----------------------------
(***************************************************************************)
(* apra::ProcessThread: a worker thread with a request queue and a         *)
(* response queue of Message pointers.  The processes are                  *)
(*   - the owner, which calls setType, begin and end;                      *)
(*   - the clients, which allocate messages, call enque and dequeue, and   *)
(*     free what is theirs;                                                *)
(*   - the worker, started by begin, which runs mainLoop.                  *)
(* A message is a heap object; a queue holds pointers, so that an object   *)
(* can be freed while a pointer to it is still in use.                     *)
(***************************************************************************)
EXTENDS Naturals, Sequences, FiniteSets, Functions

CONSTANTS
  Clients,         \* threads that talk to the worker
  Msgs,            \* message objects a run may allocate
  NULL,            \* the null pointer
  NoOne,           \* the holder of a free lock
  Worker,          \* the worker, as the holder of m_responseLock
  QueueSizeLimit,  \* m_queueSizeLimit
  MsgTypes,        \* the REQUEST_TYPEs the clients give their messages
  ThreadTypes,     \* the THREAD_TYPEs the owner may choose with setType
  ProcessKind,     \* what the subclass's process(item) does with its item:
                   \*   "consume"  uses it and marks it processed
                   \*   "delete"   uses it and deletes it
                   \*   "respond"  marks it, and hands it to enqueResponse
                   \*              if it is a REQUEST_RESPONSE
  ClientKind,      \* what a client does with a message it has enqueued:
                   \*   "handoff"  forgets it, deletes what it dequeues
                   \*   "defer"    the same, but deletes after end() only
                   \*   "poll"     keeps it, polls it, deletes it
                   \*   "timeout"  the same, and gives up waiting
  MayThrow,        \* may process() throw?
  MaxBegins        \* bound on the number of calls to begin

MessageTypes == {"REQUEST_ONLY", "REQUEST_RESPONSE"}
AllThreadTypes == {"FREERUNNING", "ONLY_MESSAGE", "MESSAGE_AND_FREERUNNING"}

ASSUME LimitAssumption == QueueSizeLimit \in Nat
ASSUME NamesAssumption == /\ NULL \notin Msgs
                          /\ NoOne \notin Clients
                          /\ NoOne # Worker
ASSUME KindsAssumption ==
  /\ MsgTypes \subseteq MessageTypes
  /\ ThreadTypes \subseteq AllThreadTypes
  /\ ProcessKind \in {"consume", "delete", "respond"}
  /\ ClientKind \in {"handoff", "defer", "poll", "timeout"}
  /\ MayThrow \in BOOLEAN
  /\ MaxBegins \in Nat

VARIABLES
  m_shouldIquit,    \* TRUE while the worker is to keep running
  m_typeofThread,
  m_requestQueue,
  m_responseQueue,
  m_requestLock,    \* the client inside enque, or NoOne
  m_responseLock,   \* Worker while it is inside enqueResponse, or NoOne
  heap,             \* "unborn", "live" or "deleted", for each message
  msgType,          \* getType(), for each message
  processed,        \* isProcessed, for each message
  cpc,              \* each client's place: "idle", "enque", "push", "wait"
  cmsg,             \* the message a client is about to enque or waits for
  hand,             \* the messages a client has dequeued and not deleted
  wpc,              \* the worker's place
  item,             \* the message in someFunction's local variable item
  executedOnce,     \* someFunction's local of that name
  opc,              \* the owner: "stopped", "running" or "ending"
  begins            \* calls to begin so far

queueVars  == <<m_requestQueue, m_responseQueue>>
lockVars   == <<m_requestLock, m_responseLock>>
heapVars   == <<heap, msgType, processed>>
clientVars == <<cpc, cmsg, hand>>
workerVars == <<wpc, item, executedOnce>>
ownerVars  == <<m_shouldIquit, m_typeofThread, opc, begins>>
vars == <<queueVars, lockVars, heapVars, clientVars, workerVars, ownerVars>>

WorkerPlaces == {"absent", "check", "switch", "free", "pop", "process",
                 "respond", "respondPush", "getType", "exited"}

\* Where the worker's local variable item points to a message.
ItemInUse == wpc \in {"process", "respond", "respondPush", "getType"}

TypeOK ==
  /\ m_shouldIquit \in BOOLEAN
  /\ m_typeofThread \in AllThreadTypes
  /\ m_requestQueue \in Seq(Msgs)
  /\ m_responseQueue \in Seq(Msgs)
  /\ m_requestLock \in Clients \cup {NoOne}
  /\ m_responseLock \in {Worker, NoOne}
  /\ heap \in [Msgs -> {"unborn", "live", "deleted"}]
  /\ msgType \in [Msgs -> MessageTypes]
  /\ processed \in [Msgs -> BOOLEAN]
  /\ cpc \in [Clients -> {"idle", "enque", "push", "wait"}]
  /\ cmsg \in [Clients -> Msgs \cup {NULL}]
  /\ hand \in [Clients -> SUBSET Msgs]
  /\ wpc \in WorkerPlaces
  /\ item \in Msgs \cup {NULL}
  /\ executedOnce \in BOOLEAN
  /\ opc \in {"stopped", "running", "ending"}
  /\ begins \in 0 .. MaxBegins

\* The constructor.
Init ==
  /\ m_shouldIquit = FALSE
  /\ m_typeofThread = "FREERUNNING"
  /\ m_requestQueue = <<>> /\ m_responseQueue = <<>>
  /\ m_requestLock = NoOne /\ m_responseLock = NoOne
  /\ heap = [m \in Msgs |-> "unborn"]
  /\ msgType = [m \in Msgs |-> "REQUEST_ONLY"]
  /\ processed = [m \in Msgs |-> FALSE]
  /\ cpc = [c \in Clients |-> "idle"]
  /\ cmsg = [c \in Clients |-> NULL]
  /\ hand = [c \in Clients |-> {}]
  /\ wpc = "absent" /\ item = NULL /\ executedOnce = FALSE
  /\ opc = "stopped" /\ begins = 0

-----------------------------------------------------------------------------
(* std::queue's push and pop, trimQueue and delete.  An operator named Bug *)
(* is a mistake one could make in the definition that follows it; nothing  *)
(* uses it but the mutation runs, which show what that mistake breaks.     *)

BugPushFront(q, m) == <<m>> \o q
Pushed(q, m) == Append(q, m)

BugFrontNoPop(q) == q
Popped(q) == Tail(q)

BugTrimEarly(q) == Len(q) >= QueueSizeLimit
MustTrim(q) == Len(q) > QueueSizeLimit

\* What trimQueue leaves of a queue, and what it deletes.
BugTrimNoPop(q) == q
Trimmed(q) == IF MustTrim(q) THEN Popped(q) ELSE q

TrimFrees(q) == IF MustTrim(q) THEN {Head(q)} ELSE {}

Delete(S) == [m \in Msgs |-> IF m \in S THEN "deleted" ELSE heap[m]]

-----------------------------------------------------------------------------
(* The clients.                                                            *)

\* new Message, setType: a client has an object it is about to enque.
NewMessage(c) ==
  /\ cpc[c] = "idle"
  /\ \E m \in Msgs, t \in MsgTypes :
       /\ heap[m] = "unborn"
       /\ heap' = [heap EXCEPT ![m] = "live"]
       /\ msgType' = [msgType EXCEPT ![m] = t]
       /\ cmsg' = [cmsg EXCEPT ![c] = m]
  /\ cpc' = [cpc EXCEPT ![c] = "enque"]
  /\ UNCHANGED <<queueVars, lockVars, processed, hand, workerVars, ownerVars>>

\* The constructor of enque's ScopeLock returns.
BugNoLock(c) == cpc[c] = "enque"
EntersEnque(c) == cpc[c] = "enque" /\ m_requestLock = NoOne

\* enque: the constructor of ScopeLock, then trimQueue.
EnqueTrim(c) ==
  /\ EntersEnque(c)
  /\ m_requestLock' = c
  /\ heap' = Delete(TrimFrees(m_requestQueue))
  /\ m_requestQueue' = Trimmed(m_requestQueue)
  /\ cpc' = [cpc EXCEPT ![c] = "push"]
  /\ UNCHANGED <<m_responseQueue, m_responseLock, msgType, processed, cmsg,
                 hand, workerVars, ownerVars>>

\* enque: push, then the destructor of ScopeLock.
EnquePush(c) ==
  /\ cpc[c] = "push"
  /\ m_requestQueue' = Pushed(m_requestQueue, cmsg[c])
  /\ m_requestLock' = NoOne
  /\ IF ClientKind \in {"poll", "timeout"}
       THEN cpc' = [cpc EXCEPT ![c] = "wait"] /\ cmsg' = cmsg
       ELSE cpc' = [cpc EXCEPT ![c] = "idle"]
            /\ cmsg' = [cmsg EXCEPT ![c] = NULL]
  /\ UNCHANGED <<m_responseQueue, m_responseLock, heapVars, hand, workerVars,
                 ownerVars>>

\* dequeue, when it does not return NULL.
Dequeue(c) ==
  /\ cpc[c] = "idle"
  /\ m_responseLock = NoOne
  /\ m_responseQueue # <<>>
  /\ hand' = [hand EXCEPT ![c] = @ \cup {Head(m_responseQueue)}]
  /\ m_responseQueue' = Popped(m_responseQueue)
  /\ UNCHANGED <<m_requestQueue, lockVars, heapVars, cpc, cmsg, workerVars,
                 ownerVars>>

\* A client deletes a response it has dequeued.
DeleteResponse(c) ==
  /\ cpc[c] = "idle"
  /\ ClientKind = "defer" => opc = "stopped"
  /\ \E m \in hand[c] :
       /\ heap' = Delete({m})
       /\ hand' = [hand EXCEPT ![c] = @ \ {m}]
  /\ UNCHANGED <<queueVars, lockVars, msgType, processed, cpc, cmsg,
                 workerVars, ownerVars>>

\* The example client: while (!msg->isProcessed && in time) ...; delete msg.
StopWaiting(c) ==
  /\ cpc[c] = "wait"
  /\ ClientKind = "poll" => processed[cmsg[c]]
  /\ heap' = Delete({cmsg[c]})
  /\ cpc' = [cpc EXCEPT ![c] = "idle"]
  /\ cmsg' = [cmsg EXCEPT ![c] = NULL]
  /\ UNCHANGED <<queueVars, lockVars, msgType, processed, hand, workerVars,
                 ownerVars>>

ClientStep(c) == \/ NewMessage(c) \/ EnqueTrim(c) \/ EnquePush(c)
                 \/ Dequeue(c) \/ DeleteResponse(c) \/ StopWaiting(c)

-----------------------------------------------------------------------------
(* The owner.                                                              *)

SetType ==
  /\ opc # "ending"
  /\ \E t \in ThreadTypes : m_typeofThread' = t
  /\ UNCHANGED <<queueVars, lockVars, heapVars, clientVars, workerVars,
                 m_shouldIquit, opc, begins>>

\* begin: pthread_create may fail, and the flag stays set.
Begin ==
  /\ opc = "stopped"
  /\ begins < MaxBegins
  /\ begins' = begins + 1
  /\ m_shouldIquit' = TRUE
  /\ \/ opc' = "running" /\ wpc' = "check"
     \/ UNCHANGED <<opc, wpc>>
  /\ UNCHANGED <<queueVars, lockVars, heapVars, clientVars, item,
                 executedOnce, m_typeofThread>>

\* end, up to pthread_join.
EndSignal ==
  /\ opc = "running"
  /\ m_shouldIquit' = FALSE
  /\ opc' = "ending"
  /\ UNCHANGED <<queueVars, lockVars, heapVars, clientVars, workerVars,
                 m_typeofThread, begins>>

\* pthread_join returns.
EndJoin ==
  /\ opc = "ending"
  /\ wpc = "exited"
  /\ opc' = "stopped"
  /\ wpc' = "absent"
  /\ UNCHANGED <<queueVars, lockVars, heapVars, clientVars, item,
                 executedOnce, m_shouldIquit, m_typeofThread, begins>>

OwnerStep == SetType \/ Begin \/ EndSignal \/ EndJoin

-----------------------------------------------------------------------------
(* The worker.                                                             *)

\* shouldIquit, which is TRUE as long as the thread is to go on.
BugFlagNotRead == TRUE
shouldIquit == m_shouldIquit

\* mainLoop: while (shouldIquit()); executedonce is fresh in each round.
WorkerCheck ==
  /\ wpc = "check"
  /\ wpc' = IF shouldIquit THEN "switch" ELSE "exited"
  /\ executedOnce' = FALSE
  /\ UNCHANGED <<queueVars, lockVars, heapVars, clientVars, item, ownerVars>>

\* someFunction: the case m_typeofThread leads to; ONLY_MESSAGE falls through.
BugNoFallThrough == IF m_typeofThread = "MESSAGE_AND_FREERUNNING"
                      THEN "pop" ELSE "free"
Case == IF m_typeofThread = "FREERUNNING" THEN "free" ELSE "pop"

\* someFunction: switch (m_typeofThread).
WorkerSwitch ==
  /\ wpc = "switch"
  /\ wpc' = Case
  /\ executedOnce' = (m_typeofThread = "ONLY_MESSAGE")
  /\ UNCHANGED <<queueVars, lockVars, heapVars, clientVars, item, ownerVars>>

\* someFunction: the block that takes the front of m_requestQueue.
WorkerPop ==
  /\ wpc = "pop"
  /\ m_requestLock = NoOne
  /\ \/ /\ m_requestQueue # <<>>
        /\ item' = Head(m_requestQueue)
        /\ m_requestQueue' = Popped(m_requestQueue)
        /\ wpc' = "process"
     \/ /\ m_requestQueue = <<>>
        /\ wpc' = IF executedOnce THEN "check" ELSE "free"
        /\ UNCHANGED <<item, m_requestQueue>>
  /\ UNCHANGED <<m_responseQueue, lockVars, heapVars, clientVars,
                 executedOnce, ownerVars>>

\* process throws: mainLoop's catch ends the thread, whatever item held.
WorkerThrow ==
  /\ MayThrow
  /\ wpc \in {"free", "process"}
  /\ wpc' = "exited"
  /\ item' = NULL
  /\ UNCHANGED <<queueVars, lockVars, heapVars, clientVars, executedOnce,
                 ownerVars>>

\* process(NULL): every subclass of the repository leaves the queues alone.
WorkerFree ==
  /\ wpc = "free"
  /\ wpc' = "check"
  /\ UNCHANGED <<queueVars, lockVars, heapVars, clientVars, item,
                 executedOnce, ownerVars>>

\* Does the subclass answer the message?
Responds(m) == ProcessKind = "respond" /\ msgType[m] = "REQUEST_RESPONSE"

\* process(item), up to enqueResponse if the subclass calls it.
WorkerProcess ==
  /\ wpc = "process"
  /\ processed' = [processed EXCEPT ![item] = @ \/ ProcessKind # "delete"]
  /\ heap' = IF ProcessKind = "delete" THEN Delete({item}) ELSE heap
  /\ wpc' = IF Responds(item) THEN "respond" ELSE "getType"
  /\ UNCHANGED <<queueVars, lockVars, msgType, clientVars, item,
                 executedOnce, ownerVars>>

\* enqueResponse: the constructor of ScopeLock, then trimQueue.
RespondTrim ==
  /\ wpc = "respond"
  /\ m_responseLock = NoOne
  /\ m_responseLock' = Worker
  /\ heap' = Delete(TrimFrees(m_responseQueue))
  /\ m_responseQueue' = Trimmed(m_responseQueue)
  /\ wpc' = "respondPush"
  /\ UNCHANGED <<m_requestQueue, m_requestLock, msgType, processed,
                 clientVars, item, executedOnce, ownerVars>>

\* enqueResponse: push, then the destructor of ScopeLock.
RespondPush ==
  /\ wpc = "respondPush"
  /\ m_responseQueue' = Pushed(m_responseQueue, item)
  /\ m_responseLock' = NoOne
  /\ wpc' = "getType"
  /\ UNCHANGED <<m_requestQueue, m_requestLock, heapVars, clientVars, item,
                 executedOnce, ownerVars>>

BugDeleteAlways(t) == TRUE
BugDeleteResponses(t) == t = "REQUEST_RESPONSE"
DeletedAfter(t) == t # "REQUEST_RESPONSE"

\* if (item->getType() != REQUEST_RESPONSE) delete item.  What getType reads
\* of a message that is gone is anybody's guess.
WorkerGetType ==
  /\ wpc = "getType"
  /\ \E t \in IF heap[item] = "live" THEN {msgType[item]} ELSE MessageTypes :
       heap' = IF DeletedAfter(t) THEN Delete({item}) ELSE heap
  /\ item' = NULL
  /\ executedOnce' = TRUE
  /\ wpc' = "check"
  /\ UNCHANGED <<queueVars, lockVars, msgType, processed, clientVars,
                 ownerVars>>

WorkerStep == \/ WorkerCheck \/ WorkerSwitch \/ WorkerPop \/ WorkerThrow
              \/ WorkerFree \/ WorkerProcess \/ RespondTrim \/ RespondPush
              \/ WorkerGetType

Next == OwnerStep \/ WorkerStep \/ \E c \in Clients : ClientStep(c)

Spec == Init /\ [][Next]_vars

\* The scheduler runs the worker, a client that has called enque or polls its
\* message, and an owner whose join may return; nobody is obliged to call
\* anything.
Fairness == /\ WF_vars(WorkerStep)
            /\ WF_vars(EndJoin)
            /\ \A c \in Clients : /\ WF_vars(EnqueTrim(c))
                                 /\ WF_vars(EnquePush(c))
                                 /\ WF_vars(StopWaiting(c))

FairSpec == Spec /\ Fairness

-----------------------------------------------------------------------------
(* Properties.                                                             *)

\* The locks make trimQueue and push one step: however many senders race, a
\* queue never holds more than one message above m_queueSizeLimit.
QueueBounded == /\ Len(m_requestQueue) <= QueueSizeLimit + 1
                /\ Len(m_responseQueue) <= QueueSizeLimit + 1

\* Every pointer that someone may still follow leads to a live message:
\* those in the queues, the worker's item up to item->getType() after
\* process, and those the clients hold.
NoDangling ==
  /\ \A m \in Range(m_requestQueue) \cup Range(m_responseQueue) :
       heap[m] = "live"
  /\ ItemInUse => heap[item] = "live"
  /\ \A c \in Clients : /\ cpc[c] # "idle" => heap[cmsg[c]] = "live"
                        /\ \A m \in hand[c] : heap[m] = "live"

\* The message a client is handing over is in no queue yet and nobody else
\* has it; a message is in one queue or in the worker's hands, not in two
\* places, and at one position of its queue.
SingleOwner ==
  LET sent == Range(m_requestQueue)
      back == Range(m_responseQueue)
      work == IF wpc \in {"process", "respond", "respondPush"}
                THEN {item} ELSE {}
  IN  /\ IsInjective(m_requestQueue) /\ IsInjective(m_responseQueue)
      /\ sent \cap back = {} /\ work \cap (sent \cup back) = {}
      /\ \A c \in Clients :
           /\ hand[c] \cap (sent \cup back \cup work) = {}
           /\ cpc[c] \in {"enque", "push"} =>
                /\ cmsg[c] \notin sent \cup back \cup work
                /\ \A d \in Clients \ {c} : cmsg[d] # cmsg[c]

\* No leak while process does not throw: a live message can still be reached
\* from a queue, from the worker or from a client.
NoLeak ==
  \A m \in Msgs : heap[m] = "live" =>
    \/ m \in Range(m_requestQueue) \cup Range(m_responseQueue)
    \/ m = item
    \/ \E c \in Clients : m \in hand[c] \cup {cmsg[c]}

\* A message is deleted without having been processed only by trimQueue, and
\* only when the request queue it was the oldest of was over its limit.
LossOnlyWhenFull ==
  [][\A m \in Msgs :
       heap[m] = "live" /\ heap'[m] = "deleted" /\ ~processed[m] =>
         m_requestQueue # <<>> /\ m = Head(m_requestQueue)
         /\ Len(m_requestQueue) > QueueSizeLimit]_vars

\* Requests and their responses in one line, oldest first.
InFlight == IF wpc \in {"process", "respond", "respondPush"}
              THEN <<item>> ELSE <<>>
Pipeline == m_responseQueue \o InFlight \o m_requestQueue

Before(s, m, n) == \E i, j \in 1 .. Len(s) : i < j /\ s[i] = m /\ s[j] = n

\* Until it is told to stop, a worker of a type that reads its queue takes
\* every request that is not trimmed away first.
Consuming == /\ wpc \notin {"absent", "exited"}
             /\ m_shouldIquit
             /\ m_typeofThread # "FREERUNNING"

RequestServed ==
  \A m \in Msgs :
    m \in Range(m_requestQueue)
      ~> (m \notin Range(m_requestQueue) \/ ~ Consuming)

\* A client that polls its message is answered, unless an exception takes the
\* message and the worker with it: while every client has one request at a
\* time and the queue has room for all of them, none is trimmed from under a
\* client that waits for it.
InPipeline(m) == m \in Range(Pipeline) \/ (ItemInUse /\ item = m)

WaiterAnswered ==
  \A c \in Clients :
    cpc[c] = "wait" /\ InPipeline(cmsg[c]) ~> (cpc[c] = "idle" \/ ~ Consuming)

\* end() returns, whatever the worker was doing when it was called and even
\* if the worker has died of an exception before.
EndReturns == opc = "ending" ~> opc = "stopped"

-----------------------------------------------------------------------------
(* The inductive invariant behind the theorems of ProcessThreadProofs.     *)

\* Whoever is about to use a message has one.
HandsInv == /\ ItemInUse => item \in Msgs
            /\ \A c \in Clients : cpc[c] # "idle" => cmsg[c] \in Msgs
            /\ \A c \in Clients : cpc[c] = "idle" => cmsg[c] = NULL

\* A lock is held exactly between trimQueue and push, by one thread.
RequestLockInv == \A c \in Clients : cpc[c] = "push" <=> m_requestLock = c
ResponseLockInv == wpc = "respondPush" <=> m_responseLock = Worker

\* The holder of a lock has made room for its message.
RoomInv ==
  /\ Len(m_requestQueue)
       <= IF m_requestLock = NoOne THEN QueueSizeLimit + 1 ELSE QueueSizeLimit
  /\ Len(m_responseQueue)
       <= IF m_responseLock = NoOne THEN QueueSizeLimit + 1 ELSE QueueSizeLimit

\* A message being enqueued is not in the queue, nor in another client's
\* hands: messages are never unborn once they are out.
FreshInv ==
  /\ \A m \in Range(m_requestQueue) : heap[m] # "unborn"
  /\ \A c \in Clients : cpc[c] # "idle" => heap[cmsg[c]] # "unborn"
  /\ \A c \in Clients : cpc[c] \in {"enque", "push"} =>
       /\ cmsg[c] \notin Range(m_requestQueue)
       /\ \A d \in Clients \ {c} : cmsg[d] # cmsg[c]

\* Before begin and once end has returned there is no worker, so that no
\* second one is started beside it.
StageInv == opc = "stopped" <=> wpc = "absent"

\* The conjunction, which every step preserves.  A subclass that calls
\* enqueResponse elsewhere too, as I2CThread does, keeps CoreInv.
CoreInv == /\ TypeOK /\ HandsInv /\ RequestLockInv /\ RoomInv /\ FreshInv
           /\ StageInv
IInv == CoreInv /\ ResponseLockInv

\* The disciplines under which messages are safe: the worker deletes what
\* clients only send, or it responds and clients delete after end().
Disciplined ==
  \/ /\ ProcessKind = "consume"
     /\ ClientKind \in {"handoff", "defer"}
     /\ MsgTypes \subseteq {"REQUEST_ONLY"}
  \/ /\ ProcessKind = "respond"
     /\ ClientKind = "defer"

Sent == Range(m_requestQueue)
Back == Range(m_responseQueue)

\* What is still used is alive.
LiveInv ==
  /\ \A m \in Sent \cup Back : heap[m] = "live"
  /\ \A c \in Clients : \A m \in hand[c] : heap[m] = "live"
  /\ \A c \in Clients : cpc[c] # "idle" => heap[cmsg[c]] = "live"
  /\ ItemInUse => heap[item] # "unborn"

ItemLive == ItemInUse => heap[item] = "live"

\* The queues and the clients share nothing.
ApartInv ==
  /\ IsInjective(m_requestQueue) /\ IsInjective(m_responseQueue)
  /\ Sent \cap Back = {}
  /\ \A c \in Clients :
       /\ hand[c] \cap (Sent \cup Back) = {}
       /\ \A d \in Clients : c # d => hand[c] \cap hand[d] = {}
       /\ \A d \in Clients : cpc[d] # "idle" => cmsg[d] \notin hand[c] \cup Back

\* The worker shares its item with nobody before it has responded; a worker
\* that does not respond shares it with nobody before it is deleted.
ItemInv ==
  /\ ItemInUse => item \notin Sent /\ \A c \in Clients : cmsg[c] # item
  /\ ItemInUse /\ (wpc # "getType" \/ ~Responds(item)) =>
       item \notin Back /\ \A c \in Clients : item \notin hand[c]

\* The kinds of the actors, as the state shows them.
KindInv ==
  /\ \A m \in Msgs : heap[m] # "unborn" => msgType[m] \in MsgTypes
  /\ \A c \in Clients : cpc[c] # "wait"
  /\ wpc \in {"respond", "respondPush"} => Responds(item)

\* The conjunction, which every step preserves under such a discipline.
OwnCore == LiveInv /\ ApartInv /\ ItemInv /\ KindInv
OwnInv == OwnCore /\ ItemLive

\* Someone is still responsible for every live message; the one the worker has
\* responded with is no longer its own.
Held(m) == \E c \in Clients : m \in hand[c] \/ (cpc[c] # "idle" /\ cmsg[c] = m)

KeptInv ==
  /\ \A m \in Msgs : heap[m] = "live" =>
       m \in Sent \cup Back \/ (ItemInUse /\ m = item) \/ Held(m)
  /\ wpc = "getType" /\ Responds(item) =>
       item \in Back \/ \E c \in Clients : item \in hand[c]

\* What has left the request queue without being trimmed has been processed.
DoneInv ==
  /\ \A m \in Back : processed[m]
  /\ \A c \in Clients : \A m \in hand[c] : processed[m]
  /\ wpc \in {"respond", "respondPush", "getType"} => processed[item]

-----------------------------------------------------------------------------
(* Each queue implements a Mailbox.  A sender that has trimmed a queue and *)
(* still holds its lock counts as having put its message.                  *)

RequestBox == IF m_requestLock = NoOne THEN m_requestQueue
              ELSE Append(m_requestQueue, cmsg[m_requestLock])

RequestMailbox == INSTANCE Mailbox
  WITH Items <- Msgs, Limit <- QueueSizeLimit, box <- RequestBox

\* The request queue is a lossy FIFO mailbox, whatever races on it.
RequestQueueIsMailbox == RequestMailbox!Spec

ResponseBox == IF m_responseLock = NoOne THEN m_responseQueue
               ELSE Append(m_responseQueue, item)

ResponseMailbox == INSTANCE Mailbox
  WITH Items <- Msgs, Limit <- QueueSizeLimit, box <- ResponseBox

\* So is the response queue, if no message is enqueued again while it is in it.
ResponseQueueIsMailbox == ResponseMailbox!Spec
=============================================================================
