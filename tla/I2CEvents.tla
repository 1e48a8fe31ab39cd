------------------------------ MODULE I2CEvents ------------------------------
(***************************************************************************)
(* apra::I2C_Interface's registered events.  Its one thread performs them  *)
(* from process, between the requests, and again from inside a transaction *)
(* that idles between two attempts, so that the functions call themselves; *)
(* stack is the thread's calls.  Other threads register and unregister     *)
(* events meanwhile.                                                       *)
(***************************************************************************)
EXTENDS Naturals, Sequences, FiniteSets

CONSTANTS
  Handles,      \* the handles of the events, which order them
  IdleHandles,  \* those whose messages have m_allowOtherProcessOnIdle
  MaxIdles,     \* bound on the delays of a transaction
  MaxDepth      \* bound on the length of the stack

ASSUME HandlesAssumption == /\ Handles \subseteq Nat \ {0}
                            /\ IsFiniteSet(Handles)
                            /\ IdleHandles \subseteq Handles
                            /\ MaxIdles \in Nat /\ MaxDepth \in Nat

VARIABLES
  m_registeredEvents, \* the handles of the map
  m_processedEvents,
  due,                \* has m_frequSec passed since m_lastProcessedEventTs?
  base,               \* process's place: "idle", "events" or "request"
  stack,              \* the calls under process
  performed,          \* how often each event was performed since the last
                      \* change of m_lastProcessedEventTs or of the map
  late                \* how often each event was performed since it was
                      \* unregistered

historyVars == <<performed, late>>
vars == <<m_registeredEvents, m_processedEvents, due, base, stack,
          historyVars>>

\* idles counts the delays that a transaction has had.
Request == [kind |-> "request", cur |-> 0, idles |-> 0]
Single(h) == [kind |-> "single", cur |-> h, idles |-> 0]
Events(todo) == [kind |-> "events", cur |-> 0, idles |-> 0,
                 todo |-> todo, any |-> FALSE]
Delay(pending) == [kind |-> "delay", pending |-> pending]

Top == stack[Len(stack)]
Below == SubSeq(stack, 1, Len(stack) - 1)
TopIs(kind) == stack # <<>> /\ Top.kind = kind

Processed == {m_processedEvents[i] : i \in DOMAIN m_processedEvents}
None == [h \in Handles |-> 0]

\* Counting stops at two.
Counted(n) == IF n < 2 THEN n + 1 ELSE n

Init ==
  /\ m_registeredEvents = {} /\ m_processedEvents = <<>>
  /\ due = TRUE /\ base = "idle" /\ stack = <<>>
  /\ performed = None /\ late = None

-----------------------------------------------------------------------------
(* The other threads, and time.                                            *)

registerEvent(h) ==
  /\ m_registeredEvents' = m_registeredEvents \cup {h}
  /\ performed' = None /\ late' = [late EXCEPT ![h] = 0]
  /\ UNCHANGED <<m_processedEvents, due, base, stack>>

unregisterEvent(h) ==
  /\ m_registeredEvents' = m_registeredEvents \ {h}
  /\ performed' = None /\ late' = [late EXCEPT ![h] = 0]
  /\ UNCHANGED <<m_processedEvents, due, base, stack>>

Elapse ==
  /\ ~due
  /\ due' = TRUE
  /\ UNCHANGED <<m_registeredEvents, m_processedEvents, base, stack,
                 historyVars>>

\* The top of the stack is at the transaction of an event.
Performing == TopIs("single") \/ (TopIs("events") /\ Top.cur # 0)

-----------------------------------------------------------------------------
(* process and processMessage.                                             *)

\* A call of processEvents: it takes a copy of the map, if it is time.
CallProcessEvents ==
  /\ stack = <<>>
  /\ base' = "events"
  /\ stack' = IF due THEN <<Events(m_registeredEvents)>> ELSE <<>>
  /\ UNCHANGED <<m_registeredEvents, m_processedEvents, due, historyVars>>

\* It is called at the head of process, and after a request.
Process == base = "idle" /\ CallProcessEvents
AfterRequest == base = "request" /\ CallProcessEvents

StartRequest ==
  /\ base = "events" /\ stack = <<>>
  /\ base' = "request"
  /\ stack' = <<Request>>
  /\ UNCHANGED <<m_registeredEvents, m_processedEvents, due, historyVars>>

\* No request, or no more.
ProcessReturn ==
  /\ base = "events" /\ stack = <<>>
  /\ base' = "idle"
  /\ UNCHANGED <<m_registeredEvents, m_processedEvents, due, stack,
                 historyVars>>

RequestDone ==
  /\ TopIs("request")
  /\ stack' = Below
  /\ UNCHANGED <<m_registeredEvents, m_processedEvents, due, base,
                 historyVars>>

-----------------------------------------------------------------------------
(* processEvents, once it has copied the map.                              *)

\* A new period: m_processedEvents.clear() and m_lastProcessedEventTs.
BugNeverCleared == m_processedEvents
Cleared == <<>>

BugTodoStays(todo, h) == todo
TodoAfter(todo, h) == {x \in todo : x > h}

Unprocessed(events) == {h \in events : h \notin Processed}

\* The map is in the order of the handles: its first event, if there is one.
First(events) == {h \in events : \A x \in events : h <= x}

NextEvent ==
  /\ TopIs("events") /\ Top.cur = 0
  /\ \E h \in First(Unprocessed(Top.todo)) :
       stack' = Append(Below, [Top EXCEPT !.cur = h, !.idles = 0,
                               !.todo = TodoAfter(@, h), !.any = TRUE])
  /\ UNCHANGED <<m_registeredEvents, m_processedEvents, due, base,
                 historyVars>>

EventsDone ==
  /\ TopIs("events") /\ Top.cur = 0
  /\ Unprocessed(Top.todo) = {}
  /\ stack' = Below
  /\ m_processedEvents' = Cleared
  /\ IF Top.any THEN due' = FALSE /\ performed' = None
     ELSE UNCHANGED <<due, performed>>
  /\ UNCHANGED <<m_registeredEvents, base, late>>

\* publishTransaction of the event that has been performed.
Publish ==
  /\ Performing
  /\ performed' = [performed EXCEPT ![Top.cur] = Counted(@)]
  /\ late' = IF Top.cur \in m_registeredEvents THEN late
             ELSE [late EXCEPT ![Top.cur] = Counted(@)]
  /\ stack' = Append(Below, IF TopIs("single") THEN [Top EXCEPT !.kind = "mark"]
                            ELSE [Top EXCEPT !.cur = 0])
  /\ UNCHANGED <<m_registeredEvents, m_processedEvents, due, base>>

-----------------------------------------------------------------------------
(* performTransactionDelay and processSingleEvent.                         *)

\* The transactions whose messages have m_allowOtherProcessOnIdle.
BugAllIdle(frame) == TRUE
MayIdle(frame) == frame.kind = "request" \/ frame.cur \in IdleHandles

\* registered - processed, in size_t: less than none is more than any.
Many == Cardinality(Handles) + 1
Pending ==
  IF Len(m_processedEvents) > Cardinality(m_registeredEvents) THEN Many
  ELSE Cardinality(m_registeredEvents) - Len(m_processedEvents)

StartDelay ==
  /\ Len(stack) < MaxDepth
  /\ TopIs("request") \/ Performing
  /\ MayIdle(Top) /\ Top.idles < MaxIdles
  /\ stack' = Below \o <<[Top EXCEPT !.idles = @ + 1], Delay(Pending)>>
  /\ UNCHANGED <<m_registeredEvents, m_processedEvents, due, base,
                 historyVars>>

\* The end of processSingleEvent, where m_processedEvents has become done.
EndSingle(done) ==
  IF Len(done) >= Cardinality(m_registeredEvents)
  THEN m_processedEvents' = Cleared /\ due' = FALSE /\ performed' = None
  ELSE m_processedEvents' = done /\ UNCHANGED <<due, performed>>

\* One round of the loop: the call of processSingleEvent, which does nothing
\* before it is time, and nothing but its end if there is nothing to do.
DelayLoop ==
  /\ TopIs("delay") /\ Top.pending # 0
  /\ LET todo  == Unprocessed(m_registeredEvents)
         delay == [Top EXCEPT !.pending = IF @ = Many THEN @ ELSE @ - 1]
     IN  \/ /\ due
            /\ \E h \in First(todo) : stack' = Below \o <<delay, Single(h)>>
            /\ UNCHANGED <<m_processedEvents, due, performed>>
         \/ /\ due => todo = {}
            /\ stack' = Append(Below, delay)
            /\ IF due THEN EndSingle(m_processedEvents)
               ELSE UNCHANGED <<m_processedEvents, due, performed>>
  /\ UNCHANGED <<m_registeredEvents, base, late>>

\* The delay is over, or what is left of it is slept.
DelayOver ==
  /\ TopIs("delay")
  /\ stack' = Below
  /\ UNCHANGED <<m_registeredEvents, m_processedEvents, due, base,
                 historyVars>>

BugNotMarked(h) == m_processedEvents
Marked(h) == Append(m_processedEvents, h)

\* processSingleEvent, after it has published the event.
SingleDone ==
  /\ TopIs("mark")
  /\ stack' = Below
  /\ EndSingle(Marked(Top.cur))
  /\ UNCHANGED <<m_registeredEvents, base, late>>

Call == \/ AfterRequest \/ StartRequest \/ ProcessReturn \/ RequestDone
        \/ NextEvent \/ EventsDone \/ Publish \/ DelayLoop \/ SingleDone

Next == \/ Process \/ Call \/ StartDelay \/ DelayOver \/ Elapse
        \/ \E h \in Handles : registerEvent(h) \/ unregisterEvent(h)

\* The thread's loop calls process again and again, its functions go on, time
\* passes and ends every delay.
Fairness == /\ WF_vars(Process) /\ WF_vars(Call) /\ WF_vars(Elapse)
            /\ SF_vars(DelayOver)

Spec == Init /\ [][Next]_vars /\ Fairness

-----------------------------------------------------------------------------
(* Properties.                                                             *)

TypeOK ==
  /\ m_registeredEvents \subseteq Handles
  /\ m_processedEvents \in Seq(Handles)
  /\ due \in BOOLEAN /\ base \in {"idle", "events", "request"}
  /\ performed \in [Handles -> 0 .. 2] /\ late \in [Handles -> 0 .. 2]
  /\ \A i \in DOMAIN stack :
       stack[i].kind \in {"request", "events", "delay", "single", "mark"}

\* The types; and if no event idles, the thread's stack is at most a request
\* that idles and the event performed meanwhile, and processEvents runs under
\* nothing else.
NestingBounded ==
  /\ TypeOK
  /\ IdleHandles = {} =>
       /\ Len(stack) <= 3
       /\ \A i \in DOMAIN stack : stack[i].kind = "events" => Len(stack) = 1

\* "Register as periodic event" (i2c_example.cpp): while no event is
\* registered or unregistered, none is performed twice in a period, be it
\* performed between the requests or while one of them idles.
OncePerPeriod == \A h \in Handles : performed[h] <= 1

\* The copies of the map outlive unregisterEvent, but if no event idles an
\* unregistered event is performed at most once more.
LateOnce == IdleHandles = {} => \A h \in Handles : late[h] <= 1

\* Once nobody registers or unregisters any more, every registered event is
\* performed again and again, whatever is left of earlier registrations in
\* m_processedEvents and however many requests come.  (Without that an event
\* may starve: an entry of an unregistered one counts as a registered one.)
EventsServed ==
  \A S \in SUBSET Handles : \A h \in S :
    <>[](m_registeredEvents = S) => []<>(performed[h] > 0)

-----------------------------------------------------------------------------
(* The inductive invariant behind the theorems of I2CEventsProofs, about   *)
(* events that do not idle.                                                *)

Requests == [kind : {"request"}, cur : {0}, idles : Nat]
Delays   == [kind : {"delay"}, pending : Nat]
Singles  == [kind : {"single", "mark"}, cur : Handles, idles : Nat]
Batches  == [kind : {"events"}, cur : Handles \cup {0}, idles : Nat,
             todo : SUBSET Handles, any : BOOLEAN]
Frames   == Requests \cup Delays \cup Singles \cup Batches

\* The stacks there are without idling events.
Shape ==
  /\ stack \in Seq(Frames)
  /\ \/ Len(stack) = 0
     \/ Len(stack) = 1 /\ stack[1] \in Requests \cup Batches
     \/ Len(stack) = 2 /\ stack[1] \in Requests /\ stack[2] \in Delays
     \/ Len(stack) = 3 /\ stack[1] \in Requests /\ stack[2] \in Delays
                       /\ stack[3] \in Singles

InBatch == Len(stack) = 1 /\ stack[1] \in Batches
Single1 == Len(stack) = 3 /\ stack[3].kind = "single"
Mark1   == Len(stack) = 3 /\ stack[3].kind = "mark"

\* What has been performed in this period is in m_processedEvents, or about to
\* enter it, or behind the place that processEvents has reached.
PeriodInv ==
  /\ \A h \in Handles : performed[h] # 0 =>
       /\ performed[h] = 1
       /\ \/ h \in Processed
          \/ Mark1 /\ stack[3].cur = h
          \/ InBatch /\ stack[1].any /\ h \notin stack[1].todo
                     /\ h # stack[1].cur
  /\ Single1 => stack[3].cur \notin Processed
  /\ InBatch /\ stack[1].cur # 0 =>
       /\ stack[1].any
       /\ stack[1].cur \notin Processed \cup stack[1].todo

\* A period in which something has been performed is not over before all that
\* is registered has been: m_processedEvents is cleared in time.
OverInv ==
  performed # None =>
    /\ Mark1 \/ (InBatch /\ stack[1].any)
         \/ Len(m_processedEvents) < Cardinality(m_registeredEvents)
    /\ InBatch /\ ~stack[1].any => stack[1].todo = m_registeredEvents

\* What is still to be performed has not been since it was unregistered.
LateInv ==
  /\ \A h \in Handles : late[h] \in {0, 1}
  /\ \A h \in m_registeredEvents : late[h] = 0
  /\ Single1 => late[stack[3].cur] = 0
  /\ InBatch => \A h \in Handles :
       h \in stack[1].todo \/ h = stack[1].cur => late[h] = 0
  /\ InBatch => stack[1].cur \notin stack[1].todo

\* The conjunction, which every step preserves.
IInv == TypeOK /\ Shape /\ PeriodInv /\ OverInv /\ LateInv
=============================================================================
