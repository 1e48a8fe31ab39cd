---------------------------- MODULE I2CEventsProofs ----------------------------
(***************************************************************************)
(* What I2C_Interface promises of its registered events while none of them *)
(* idles, for any number of events and any delays of the requests.         *)
(***************************************************************************)
EXTENDS I2CEvents, TLAPS, FiniteSetTheorems, FunctionTheorems, SequenceTheorems

-----------------------------------------------------------------------------
(* Stacks and counts.                                                      *)

LEMMA PrefixFacts ==
  ASSUME NEW S, NEW s \in Seq(S), NEW n \in Nat, n <= Len(s)
  PROVE  /\ SubSeq(s, 1, n) \in Seq(S)
         /\ Len(SubSeq(s, 1, n)) = n
         /\ \A i \in 1 .. n : SubSeq(s, 1, n)[i] = s[i]
<1>1. SubSeq(s, 1, n) \in Seq(S)
  OBVIOUS
<1>2. Len(SubSeq(s, 1, n)) = n
  OBVIOUS
<1>3. \A i \in 1 .. n : SubSeq(s, 1, n)[i] = s[i]
  OBVIOUS
<1> QED BY <1>1, <1>2, <1>3

\* A return: the frames below the top stay.
LEMMA BelowFacts ==
  ASSUME stack \in Seq(Frames), stack # <<>>
  PROVE  /\ Len(stack) \in Nat /\ Len(stack) > 0
         /\ Below \in Seq(Frames)
         /\ Len(Below) = Len(stack) - 1
         /\ \A i \in 1 .. Len(stack) - 1 : Below[i] = stack[i]
         /\ Top \in Frames /\ Top = stack[Len(stack)]
<1>1. Len(stack) \in Nat /\ Len(stack) > 0
  BY EmptySeq
<1> DEFINE n == Len(stack) - 1
<1>2. n \in Nat /\ n <= Len(stack) /\ Below = SubSeq(stack, 1, n)
  BY <1>1 DEF Below
<1> HIDE DEF n
<1>3. /\ SubSeq(stack, 1, n) \in Seq(Frames)
      /\ Len(SubSeq(stack, 1, n)) = n
      /\ \A i \in 1 .. n : SubSeq(stack, 1, n)[i] = stack[i]
  BY <1>2, PrefixFacts
<1>4. Top \in Frames
  BY <1>1 DEF Top
<1> QED BY <1>1, <1>2, <1>3, <1>4 DEF Top, n

\* A step of the function on top, and a call.
LEMMA ReplaceFacts ==
  ASSUME stack \in Seq(Frames), stack # <<>>, NEW f \in Frames
  PROVE  /\ Append(Below, f) \in Seq(Frames)
         /\ Len(Append(Below, f)) = Len(stack)
         /\ \A i \in 1 .. Len(stack) - 1 : Append(Below, f)[i] = stack[i]
         /\ Append(Below, f)[Len(stack)] = f
BY BelowFacts, AppendProperties

LEMMA CallFacts ==
  ASSUME stack \in Seq(Frames), stack # <<>>, NEW f \in Frames, NEW g \in Frames
  PROVE  /\ Below \o <<f, g>> \in Seq(Frames)
         /\ Len(Below \o <<f, g>>) = Len(stack) + 1
         /\ \A i \in 1 .. Len(stack) - 1 : (Below \o <<f, g>>)[i] = stack[i]
         /\ (Below \o <<f, g>>)[Len(stack)] = f
         /\ (Below \o <<f, g>>)[Len(stack) + 1] = g
<1>1. <<f, g>> \in Seq(Frames) /\ Len(<<f, g>>) = 2
  OBVIOUS
<1>2. <<f, g>>[1] = f /\ <<f, g>>[2] = g
  OBVIOUS
<1> QED BY <1>1, <1>2, BelowFacts, ConcatProperties

LEMMA OneFrame ==
  ASSUME NEW f \in Frames
  PROVE  <<f>> \in Seq(Frames) /\ Len(<<f>>) = 1 /\ <<f>>[1] = f
OBVIOUS

\* The kinds tell the frames apart.
LEMMA KindsOfFrames ==
  /\ \A f \in Requests : f.kind = "request"
  /\ \A f \in Delays : f.kind = "delay"
  /\ \A f \in Singles : f.kind \in {"single", "mark"}
  /\ \A f \in Batches : f.kind = "events"
BY DEF Requests, Delays, Singles, Batches

\* The kind on top tells the whole stack.
LEMMA TopTells ==
  ASSUME Shape
  PROVE  /\ TopIs("request") => Len(stack) = 1 /\ stack[1] \in Requests
         /\ TopIs("events") => InBatch
         /\ TopIs("delay") => Len(stack) = 2 /\ stack[1] \in Requests
                              /\ stack[2] \in Delays
         /\ TopIs("single") => Single1
         /\ TopIs("mark") => Mark1
         /\ stack = <<>> <=> Len(stack) = 0
BY KindsOfFrames, EmptySeq DEF Shape, TopIs, Top, InBatch, Single1, Mark1

LEMMA CountIsNat ==
  ASSUME NEW S \in SUBSET Handles
  PROVE  Cardinality(S) \in Nat
BY HandlesAssumption, FS_Subset, FS_CardinalityType

\* A list that is shorter than the map does not hold all of it.
LEMMA ShortListMisses ==
  ASSUME m_processedEvents \in Seq(Handles),
         m_registeredEvents \subseteq Processed, m_registeredEvents \subseteq Handles
  PROVE  Cardinality(m_registeredEvents) <= Len(m_processedEvents)
<1> DEFINE n == Len(m_processedEvents)
<1>1. n \in Nat /\ DOMAIN m_processedEvents = 1 .. n
  OBVIOUS
<1>2. m_processedEvents \in Surjection(1 .. n, Processed)
  BY <1>1 DEF Processed, Surjection
<1>3. ExistsSurjection(1 .. n, Processed)
  BY <1>2 DEF ExistsSurjection
<1>4. Cardinality(Processed) <= n
  BY <1>1, <1>3, FS_SurjCardinalityBound
<1>5. Processed \subseteq Handles
  BY <1>1 DEF Processed
<1>6. IsFiniteSet(Processed)
  BY <1>5, HandlesAssumption, FS_Subset
<1>7. Cardinality(m_registeredEvents) <= Cardinality(Processed)
  BY <1>6, FS_Subset
<1> QED BY <1>1, <1>4, <1>5, <1>7, CountIsNat

LEMMA AppendHolds ==
  ASSUME NEW p \in Seq(Handles), NEW h \in Handles
  PROVE  LET q == Append(p, h)
         IN  {q[i] : i \in DOMAIN q} = {p[i] : i \in DOMAIN p} \cup {h}
<1>1. /\ DOMAIN Append(p, h) = 1 .. Len(p) + 1 /\ DOMAIN p = 1 .. Len(p)
      /\ Len(p) \in Nat /\ Append(p, h)[Len(p) + 1] = h
      /\ \A i \in 1 .. Len(p) : Append(p, h)[i] = p[i]
  OBVIOUS
<1> QED BY <1>1

-----------------------------------------------------------------------------
(* What a step does to the frame on top.                                   *)

LEMMA FrameUpdates ==
  /\ \A f \in Requests : [f EXCEPT !.idles = @ + 1] \in Requests
  /\ \A f \in Delays : f.pending # 0 =>
       [f EXCEPT !.pending = IF @ = Many THEN @ ELSE @ - 1] \in Delays
  /\ \A f \in Singles : LET g == [f EXCEPT !.kind = "mark"]
       IN  g \in Singles /\ g.kind = "mark" /\ g.cur = f.cur
  /\ \A f \in Batches : LET g == [f EXCEPT !.cur = 0]
       IN  g \in Batches /\ g.cur = 0 /\ g.todo = f.todo /\ g.any = f.any
<1>1. \A f \in Requests : [f EXCEPT !.idles = @ + 1] \in Requests
  BY DEF Requests
<1>2. \A f \in Delays : f.pending # 0 =>
        [f EXCEPT !.pending = IF @ = Many THEN @ ELSE @ - 1] \in Delays
  BY DEF Delays
<1>3. \A f \in Singles : LET g == [f EXCEPT !.kind = "mark"]
        IN  g \in Singles /\ g.kind = "mark" /\ g.cur = f.cur
  BY DEF Singles
<1>4. \A f \in Batches : LET g == [f EXCEPT !.cur = 0]
        IN  g \in Batches /\ g.cur = 0 /\ g.todo = f.todo /\ g.any = f.any
  BY DEF Batches
<1> QED BY <1>1, <1>2, <1>3, <1>4

\* The frames a call begins with.
LEMMA NewFrames ==
  /\ Request \in Requests
  /\ \A n \in Nat : Delay(n) \in Delays
  /\ \A h \in Handles : /\ Single(h) \in Singles /\ Single(h).kind = "single"
                        /\ Single(h).cur = h
  /\ \A S \in SUBSET Handles :
       /\ Events(S) \in Batches /\ Events(S).cur = 0
       /\ Events(S).todo = S /\ Events(S).any = FALSE
<1>1. Request \in Requests /\ \A n \in Nat : Delay(n) \in Delays
  BY DEF Request, Requests, Delay, Delays
<1>2. \A h \in Handles : /\ Single(h) \in Singles /\ Single(h).kind = "single"
                        /\ Single(h).cur = h
  BY DEF Single, Singles
<1>3. \A S \in SUBSET Handles :
        /\ Events(S) \in Batches /\ Events(S).cur = 0
        /\ Events(S).todo = S /\ Events(S).any = FALSE
  BY DEF Events, Batches
<1> QED BY <1>1, <1>2, <1>3

LEMMA FrameKinds ==
  ASSUME NEW s \in Seq(Frames)
  PROVE  \A i \in DOMAIN s :
           s[i].kind \in {"request", "events", "delay", "single", "mark"}
<1>1. \A i \in DOMAIN s : s[i] \in Frames
  OBVIOUS
<1> QED BY <1>1, KindsOfFrames DEF Frames

-----------------------------------------------------------------------------
(* The steps.                                                              *)

\* processEvents begins: what has been performed is in m_processedEvents.
LEMMA CallStep ==
  ASSUME IInv, CallProcessEvents
  PROVE  IInv'
<1>1. /\ Len(stack) = 0 /\ m_registeredEvents \in SUBSET Handles
      /\ UNCHANGED <<m_registeredEvents, m_processedEvents, due, performed, late>>
      /\ base' = "events"
  BY TopTells DEF CallProcessEvents, IInv, TypeOK, historyVars
<1>2. Processed' = Processed
  BY <1>1 DEF Processed
<1>3. \/ stack' = <<>>
      \/ stack' = <<Events(m_registeredEvents)>>
  BY DEF CallProcessEvents
<1>4. CASE stack' = <<>>
  <2>1. stack' \in Seq(Frames) /\ Len(stack') = 0
    BY <1>4
  <2>2. TypeOK' /\ Shape'
    BY <1>1, <2>1, FrameKinds DEF IInv, TypeOK, Shape
  <2>3. PeriodInv' /\ OverInv' /\ LateInv'
    BY <1>1, <1>2, <2>1
       DEF IInv, PeriodInv, OverInv, LateInv, InBatch, Single1, Mark1
  <2> QED BY <2>2, <2>3 DEF IInv
<1>5. CASE stack' = <<Events(m_registeredEvents)>>
  <2>1. PICK f \in Batches : /\ f = Events(m_registeredEvents) /\ f.cur = 0
                             /\ f.todo = m_registeredEvents /\ f.any = FALSE
    BY <1>1, NewFrames
  <2>2. stack' \in Seq(Frames) /\ Len(stack') = 1 /\ stack'[1] = f
    BY <1>5, <2>1, OneFrame DEF Frames
  <2>3. TypeOK' /\ Shape'
    BY <1>1, <2>2, FrameKinds DEF IInv, TypeOK, Shape
  <2>4. InBatch' /\ ~Single1' /\ ~Mark1'
    BY <2>2 DEF InBatch, Single1, Mark1
  <2>5. ~InBatch /\ ~Single1 /\ ~Mark1
    BY <1>1 DEF InBatch, Single1, Mark1
  <2>6. PeriodInv' /\ OverInv'
    BY <1>1, <1>2, <2>1, <2>2, <2>4, <2>5 DEF IInv, PeriodInv, OverInv
  <2>7. LateInv'
    BY <1>1, <2>1, <2>2, <2>4, HandlesAssumption DEF IInv, LateInv
  <2> QED BY <2>3, <2>6, <2>7 DEF IInv
<1> QED BY <1>3, <1>4, <1>5

\* Steps that only move between requests and their delays.
LEMMA RequestStep ==
  ASSUME IInv, IdleHandles = {},
         \/ StartRequest \/ ProcessReturn \/ RequestDone \/ DelayOver
         \/ StartDelay
  PROVE  IInv'
<1> USE TopTells, KindsOfFrames
<1>1. /\ UNCHANGED <<m_registeredEvents, m_processedEvents, due, performed, late>>
      /\ base' \in {"idle", "events", "request"}
  BY DEF StartRequest, ProcessReturn, RequestDone, DelayOver, StartDelay, IInv,
         TypeOK, historyVars
<1>2. ~InBatch /\ ~Single1 /\ ~Mark1 /\ Shape
  BY DEF StartRequest, ProcessReturn, RequestDone, DelayOver, StartDelay, IInv,
         InBatch, Single1, Mark1, Performing, MayIdle, TopIs
<1>3. /\ stack' \in Seq(Frames)
      /\ \/ Len(stack') = 0
         \/ Len(stack') = 1 /\ stack'[1] \in Requests
         \/ Len(stack') = 2 /\ stack'[1] \in Requests /\ stack'[2] \in Delays
  <2>1. CASE StartRequest
    BY <2>1, OneFrame, NewFrames DEF StartRequest, Frames
  <2>2. CASE ProcessReturn
    BY <1>2, <2>2 DEF ProcessReturn, Shape
  <2>3. CASE RequestDone \/ DelayOver
    <3>1. stack # <<>> /\ stack \in Seq(Frames) /\ stack' = Below
      BY <1>2, <2>3 DEF RequestDone, DelayOver, Shape, TopIs
    <3>2. \/ Len(stack) = 1
          \/ Len(stack) = 2 /\ stack[1] \in Requests
      BY <1>2, <2>3 DEF RequestDone, DelayOver
    <3>3. Below \in Seq(Frames) /\ Len(Below) = Len(stack) - 1
      BY <3>1, BelowFacts
    <3>4. Len(stack) = 2 => Below[1] = stack[1]
      BY <3>1, BelowFacts
    <3> QED BY <3>1, <3>2, <3>3, <3>4
  <2>4. CASE StartDelay
    <3>1. TopIs("request")
      BY <1>2, <2>4 DEF StartDelay, Performing
    <3>2. /\ stack # <<>> /\ stack \in Seq(Frames) /\ Len(stack) = 1
          /\ Top \in Requests
      BY <1>2, <3>1 DEF Shape, TopIs, Top
    <3>3. Pending \in Nat
      <4>1. /\ Len(m_processedEvents) \in Nat
            /\ Cardinality(m_registeredEvents) \in Nat
            /\ Cardinality(Handles) \in Nat
        BY CountIsNat DEF IInv, TypeOK
      <4> QED BY <4>1 DEF Pending, Many
    <3>4. /\ [Top EXCEPT !.idles = @ + 1] \in Requests
          /\ Delay(Pending) \in Delays
      BY <3>2, <3>3, FrameUpdates, NewFrames
    <3> QED BY <2>4, <3>2, <3>4, CallFacts DEF StartDelay, Frames
  <2> QED BY <2>1, <2>2, <2>3, <2>4
<1>4. ~InBatch' /\ ~Single1' /\ ~Mark1' /\ Processed' = Processed
  BY <1>1, <1>3 DEF InBatch, Single1, Mark1, Processed
<1>5. TypeOK' /\ Shape'
  BY <1>1, <1>3, FrameKinds DEF IInv, TypeOK, Shape
<1>6. PeriodInv' /\ OverInv' /\ LateInv'
  BY <1>1, <1>2, <1>4 DEF IInv, PeriodInv, OverInv, LateInv
<1> QED BY <1>5, <1>6 DEF IInv

\* The other threads: what they change has not been performed yet.
LEMMA MapStep ==
  ASSUME IInv, NEW h \in Handles, registerEvent(h) \/ unregisterEvent(h)
  PROVE  IInv'
<1>1. /\ UNCHANGED <<m_processedEvents, due, base, stack>>
      /\ performed' = None /\ late' = [late EXCEPT ![h] = 0]
      /\ m_registeredEvents' \subseteq m_registeredEvents \cup {h}
      /\ m_registeredEvents' \subseteq Handles
      /\ late \in [Handles -> 0 .. 2]
  BY DEF registerEvent, unregisterEvent, IInv, TypeOK
<1>2. /\ \A x \in Handles : None[x] = 0
      /\ None \in [Handles -> 0 .. 2]
  BY DEF None
<1>3. \A x \in Handles : late'[x] = IF x = h THEN 0 ELSE late[x]
  BY <1>1
<1>4. /\ Processed' = Processed /\ InBatch' = InBatch /\ Single1' = Single1
      /\ Mark1' = Mark1 /\ None' = None
  BY <1>1 DEF Processed, InBatch, Single1, Mark1, None
<1>5. TypeOK' /\ Shape'
  BY <1>1, <1>2 DEF IInv, TypeOK, Shape
<1>6. PeriodInv' /\ OverInv'
  BY <1>1, <1>2, <1>4 DEF IInv, PeriodInv, OverInv
<1>7. LateInv'
  <2>1. Single1 => stack[3].cur \in Handles
    BY KindsOfFrames DEF Single1, IInv, Shape, Singles
  <2> QED BY <1>1, <1>3, <1>4, <2>1 DEF IInv, LateInv
<1> QED BY <1>5, <1>6, <1>7 DEF IInv

LEMMA ElapseStep ==
  ASSUME IInv, Elapse \/ UNCHANGED vars
  PROVE  IInv'
<1>1. /\ UNCHANGED <<m_registeredEvents, m_processedEvents, base, stack,
                     performed, late>>
      /\ due' \in BOOLEAN
  BY DEF Elapse, vars, historyVars, IInv, TypeOK
<1> QED BY <1>1 DEF IInv, TypeOK, Shape, PeriodInv, OverInv, LateInv, Processed,
                    InBatch, Single1, Mark1, None

\* processEvents goes on to its next event, which is not yet processed.
LEMMA NextEventStep ==
  ASSUME IInv, NextEvent
  PROVE  IInv'
<1> DEFINE f == stack[1]
<1>1. /\ UNCHANGED <<m_registeredEvents, m_processedEvents, due, base,
                     performed, late>>
      /\ InBatch /\ Top.cur = 0 /\ stack # <<>> /\ stack \in Seq(Frames)
  BY TopTells DEF NextEvent, IInv, historyVars, Shape, TopIs
<1>2. Top = f /\ f \in Batches /\ Len(stack) = 1 /\ f.todo \in SUBSET Handles
  BY <1>1 DEF Top, InBatch, Batches
<1>3. PICK h \in First(Unprocessed(f.todo)) :
        stack' = Append(Below, [f EXCEPT !.cur = h, !.idles = 0,
                                !.todo = TodoAfter(@, h), !.any = TRUE])
  BY <1>2 DEF NextEvent
<1>4. /\ h \in f.todo /\ h \notin Processed /\ h \in Handles /\ h # 0
      /\ \A x \in f.todo : x \in Processed \/ h <= x
  BY <1>2, <1>3, HandlesAssumption DEF First, Unprocessed
<1> PICK g : g = [f EXCEPT !.cur = h, !.idles = 0, !.todo = TodoAfter(f.todo, h),
                         !.any = TRUE]
  OBVIOUS
<1>5. /\ g \in Batches
      /\ g.cur = h /\ g.any = TRUE /\ g.todo = TodoAfter(f.todo, h)
  <2>1. TodoAfter(f.todo, h) \in SUBSET Handles
    BY <1>2 DEF TodoAfter
  <2> HIDE DEF f
  <2> QED BY <1>2, <1>4, <2>1 DEF Batches
<1>6. stack' \in Seq(Frames) /\ Len(stack') = 1 /\ stack'[1] = g
  BY <1>1, <1>2, <1>3, <1>5, ReplaceFacts DEF Frames
<1>7. g.todo \subseteq f.todo /\ h \notin g.todo
  BY <1>2, <1>4, <1>5, HandlesAssumption DEF TodoAfter
<1>8. /\ InBatch' /\ ~Single1' /\ ~Mark1' /\ ~Single1 /\ ~Mark1
      /\ Processed' = Processed /\ None' = None
  BY <1>1, <1>2, <1>5, <1>6 DEF InBatch, Single1, Mark1, Processed, None
<1>9. performed[h] = 0
  BY <1>1, <1>4, <1>8 DEF IInv, PeriodInv
<1> HIDE DEF f
<1>10. TypeOK' /\ Shape'
  BY <1>1, <1>5, <1>6, FrameKinds DEF IInv, TypeOK, Shape
<1>11. PeriodInv'
  <2>1. \A x \in Handles : performed[x] # 0 =>
          performed[x] = 1 /\ (x \in Processed \/ x \notin f.todo)
    BY <1>1, <1>8 DEF IInv, PeriodInv, f
  <2> QED BY <1>1, <1>4, <1>5, <1>6, <1>7, <1>8, <1>9, <2>1 DEF PeriodInv
<1>12. OverInv'
  BY <1>1, <1>5, <1>6, <1>8 DEF OverInv
<1>13. LateInv'
  <2>1. \A x \in Handles : x \in f.todo => late[x] = 0
    BY <1>1 DEF IInv, LateInv, f
  <2>2. /\ \A x \in Handles : late[x] \in {0, 1}
        /\ \A x \in m_registeredEvents : late[x] = 0
    BY DEF IInv, LateInv
  <2> QED BY <1>1, <1>4, <1>5, <1>6, <1>7, <1>8, <2>1, <2>2 DEF LateInv
<1> QED BY <1>10, <1>11, <1>12, <1>13 DEF IInv

\* processEvents ends: a batch that has performed something ends the period,
\* and one that has not has found everything processed.
LEMMA EventsDoneStep ==
  ASSUME IInv, EventsDone
  PROVE  IInv'
<1> DEFINE f == stack[1]
<1>1. /\ UNCHANGED <<m_registeredEvents, base, late>>
      /\ InBatch /\ Top.cur = 0 /\ stack # <<>> /\ stack \in Seq(Frames)
      /\ stack' = Below /\ m_processedEvents' = <<>>
  BY TopTells DEF EventsDone, IInv, Shape, TopIs, Cleared
<1>2. /\ Top = f /\ f \in Batches /\ Len(stack) = 1 /\ f.any \in BOOLEAN
      /\ f.todo \subseteq Processed
  BY <1>1 DEF Top, InBatch, Batches, EventsDone, Unprocessed
<1>3. stack' \in Seq(Frames) /\ Len(stack') = 0
  BY <1>1, <1>2, BelowFacts
<1>4. performed' = None
  <2>1. CASE f.any
    BY <1>2, <2>1 DEF EventsDone
  <2>2. CASE ~f.any
    <3>1. performed' = performed
      BY <1>2, <2>2 DEF EventsDone
    <3>2. ASSUME performed # None
          PROVE  FALSE
      <4>1. /\ f.todo = m_registeredEvents
            /\ Len(m_processedEvents) < Cardinality(m_registeredEvents)
        BY <1>1, <1>2, <2>2, <3>2 DEF IInv, OverInv, Mark1
      <4>2. /\ Cardinality(m_registeredEvents) <= Len(m_processedEvents)
            /\ Cardinality(m_registeredEvents) \in Nat
            /\ Len(m_processedEvents) \in Nat
        BY <1>2, <4>1, ShortListMisses, CountIsNat DEF IInv, TypeOK
      <4> QED BY <4>1, <4>2
    <3> QED BY <3>1, <3>2
  <2> QED BY <1>2, <2>1, <2>2
<1>5. /\ \A x \in Handles : None[x] = 0
      /\ None \in [Handles -> 0 .. 2] /\ None' = None
  BY DEF None
<1>6. due' \in BOOLEAN
  BY DEF EventsDone, IInv, TypeOK
<1>7. TypeOK' /\ Shape'
  BY <1>1, <1>3, <1>4, <1>5, <1>6, FrameKinds DEF IInv, TypeOK, Shape
<1>8. PeriodInv' /\ OverInv' /\ LateInv'
  BY <1>1, <1>3, <1>4, <1>5
     DEF IInv, PeriodInv, OverInv, LateInv, InBatch, Single1, Mark1
<1> QED BY <1>7, <1>8 DEF IInv

\* An event has been performed: it was not in this period, nor since it was
\* unregistered.
LEMMA PublishStep ==
  ASSUME IInv, Publish
  PROVE  IInv'
<1> DEFINE n == Len(stack)
           c == Top.cur
<1>1. /\ UNCHANGED <<m_registeredEvents, m_processedEvents, due, base>>
      /\ stack # <<>> /\ stack \in Seq(Frames) /\ Shape
      /\ \/ Single1 /\ TopIs("single")
         \/ InBatch /\ TopIs("events") /\ c # 0
  BY TopTells DEF Publish, Performing, IInv, Shape, TopIs
<1>2. \/ Single1 /\ TopIs("single") /\ Top \in Singles /\ Top = stack[3] /\ n = 3
      \/ InBatch /\ TopIs("events") /\ Top \in Batches /\ Top = stack[1] /\ n = 1
         /\ c # 0
  BY <1>1 DEF Single1, InBatch, Shape, Top
<1>3. c \in Handles /\ c \notin Processed /\ performed[c] = 0 /\ late[c] = 0
  <2>1. c \in Handles
    BY <1>2 DEF Singles, Batches
  <2>2. c \notin Processed
    BY <1>2 DEF IInv, PeriodInv
  <2>3. ~Mark1
    BY <1>2 DEF Single1, InBatch, Mark1
  <2>4. ~(InBatch /\ c # stack[1].cur)
    BY <1>2 DEF Single1, InBatch
  <2>5. performed[c] = 0
    BY <2>1, <2>2, <2>3, <2>4 DEF IInv, PeriodInv
  <2>6. late[c] = 0
    BY <1>2, <2>1 DEF IInv, LateInv
  <2> QED BY <2>1, <2>2, <2>5, <2>6
<1>4. /\ performed' = [performed EXCEPT ![c] = 1]
      /\ late' \in {late, [late EXCEPT ![c] = 1]}
      /\ c \in m_registeredEvents => late' = late
      /\ performed \in [Handles -> 0 .. 2] /\ late \in [Handles -> 0 .. 2]
  BY <1>3 DEF Publish, Counted, IInv, TypeOK
<1>5. /\ performed' \in [Handles -> 0 .. 2] /\ late' \in [Handles -> 0 .. 2]
      /\ \A x \in Handles : performed'[x] = IF x = c THEN 1 ELSE performed[x]
      /\ \A x \in Handles : x # c => late'[x] = late[x]
      /\ late'[c] \in {0, 1}
  BY <1>3, <1>4
<1> HIDE DEF c
<1>6. /\ \A x \in Handles : late'[x] \in {0, 1}
      /\ \A x \in m_registeredEvents : late'[x] = 0
  <2>1. /\ \A x \in Handles : late[x] \in {0, 1}
        /\ \A x \in m_registeredEvents : late[x] = 0
        /\ m_registeredEvents \subseteq Handles
    BY DEF IInv, LateInv, TypeOK
  <2> QED BY <1>3, <1>4, <1>5, <2>1
<1> USE DEF c
<1>7. CASE TopIs("single")
  <2>1. PICK g : g = [Top EXCEPT !.kind = "mark"]
    OBVIOUS
  <2>2. Single1 /\ Top \in Singles /\ Top = stack[3] /\ n = 3 /\ ~InBatch /\ ~Mark1
    BY <1>2, <1>7, KindsOfFrames DEF TopIs, Single1, InBatch, Mark1
  <2>3. g \in Singles /\ g.kind = "mark" /\ g.cur = c
    BY <2>1, <2>2, FrameUpdates
  <2>4. stack' = Append(Below, g)
    BY <1>7, <2>1 DEF Publish
  <2>5. /\ stack' \in Seq(Frames) /\ Len(stack') = 3 /\ stack'[3] = g
        /\ stack'[1] = stack[1] /\ stack'[2] = stack[2]
    BY <1>1, <2>2, <2>3, <2>4, ReplaceFacts DEF Frames
  <2>6. Mark1' /\ ~Single1' /\ ~InBatch' /\ Processed' = Processed
    BY <1>1, <2>3, <2>5 DEF Mark1, Single1, InBatch, Processed
  <2>7. TypeOK' /\ Shape'
    BY <1>1, <1>5, <2>2, <2>3, <2>5, FrameKinds DEF IInv, TypeOK, Shape
  <2>8. PeriodInv' /\ OverInv'
    BY <1>3, <1>5, <2>2, <2>3, <2>5, <2>6 DEF IInv, PeriodInv, OverInv
  <2>9. LateInv'
    BY <1>1, <1>6, <2>6 DEF LateInv
  <2> QED BY <2>7, <2>8, <2>9 DEF IInv
<1>8. CASE ~TopIs("single")
  <2>1. PICK g : g = [Top EXCEPT !.cur = 0]
    OBVIOUS
  <2>2. InBatch /\ Top \in Batches /\ Top = stack[1] /\ n = 1 /\ ~Single1 /\ ~Mark1
    BY <1>2, <1>8 DEF InBatch, Single1, Mark1
  <2>3. g \in Batches /\ g.cur = 0 /\ g.todo = Top.todo /\ g.any = Top.any
    BY <2>1, <2>2, FrameUpdates
  <2>4. stack' = Append(Below, g)
    BY <1>8, <2>1 DEF Publish
  <2>5. stack' \in Seq(Frames) /\ Len(stack') = 1 /\ stack'[1] = g
    BY <1>1, <2>2, <2>3, <2>4, ReplaceFacts DEF Frames
  <2>6. InBatch' /\ ~Mark1' /\ ~Single1' /\ Processed' = Processed
    BY <1>1, <2>3, <2>5 DEF Mark1, Single1, InBatch, Processed
  <2>7. TypeOK' /\ Shape'
    BY <1>1, <1>5, <2>2, <2>3, <2>5, FrameKinds DEF IInv, TypeOK, Shape
  <2>8. Top.any /\ c \notin Top.todo /\ c # 0
    BY <1>2, <2>2 DEF IInv, PeriodInv
  <2>9. PeriodInv' /\ OverInv'
    BY <1>3, <1>5, <2>2, <2>3, <2>5, <2>6, <2>8, HandlesAssumption
       DEF IInv, PeriodInv, OverInv
  <2>10. LateInv'
    <3>1. \A x \in Handles : x \in g.todo => late'[x] = 0
      BY <1>5, <2>2, <2>3, <2>8 DEF IInv, LateInv
    <3>2. 0 \notin g.todo
      BY <2>3, HandlesAssumption DEF Batches
    <3> QED BY <1>1, <1>6, <2>3, <2>5, <2>6, <3>1, <3>2, HandlesAssumption
            DEF LateInv
  <2> QED BY <2>7, <2>9, <2>10 DEF IInv
<1> QED BY <1>7, <1>8

\* The end of processSingleEvent starts a new period or leaves one in which
\* not all that is registered has been processed.
LEMMA EndSingleFacts ==
  ASSUME TypeOK, NEW done \in Seq(Handles), EndSingle(done)
  PROVE  /\ due' \in BOOLEAN /\ m_processedEvents' \in Seq(Handles)
         /\ performed' \in [Handles -> 0 .. 2]
         /\ \/ performed' = None
            \/ /\ performed' = performed /\ m_processedEvents' = done
               /\ Len(done) < Cardinality(m_registeredEvents)
<1>1. Cardinality(m_registeredEvents) \in Nat /\ Len(done) \in Nat
  BY CountIsNat DEF TypeOK
<1>2. None \in [Handles -> 0 .. 2] /\ <<>> \in Seq(Handles)
  BY DEF None
<1>3. CASE Len(done) >= Cardinality(m_registeredEvents)
  BY <1>2, <1>3 DEF EndSingle, Cleared
<1>4. CASE Len(done) < Cardinality(m_registeredEvents)
  BY <1>1, <1>4 DEF EndSingle, TypeOK
<1> QED BY <1>1, <1>3, <1>4

\* A round of the delay's loop: what it performs next has not been processed.
LEMMA DelayLoopStep ==
  ASSUME IInv, DelayLoop
  PROVE  IInv'
<1> DEFINE d == [Top EXCEPT !.pending = IF @ = Many THEN @ ELSE @ - 1]
<1>1. /\ UNCHANGED <<m_registeredEvents, base, late>>
      /\ stack # <<>> /\ stack \in Seq(Frames) /\ Len(stack) = 2
      /\ stack[1] \in Requests /\ Top \in Delays /\ Top.pending # 0
  BY TopTells DEF DelayLoop, IInv, Shape, TopIs, Top
<1>2. d \in Delays
  BY <1>1, FrameUpdates
<1>3. \/ /\ \E h \in First(Unprocessed(m_registeredEvents)) :
              stack' = Below \o <<d, Single(h)>>
         /\ UNCHANGED <<m_processedEvents, due, performed>>
      \/ /\ stack' = Append(Below, d)
         /\ \/ EndSingle(m_processedEvents)
            \/ UNCHANGED <<m_processedEvents, due, performed>>
  BY DEF DelayLoop
<1> HIDE DEF d
<1>4. ~InBatch /\ ~Single1 /\ ~Mark1
  BY <1>1 DEF InBatch, Single1, Mark1
<1>5. CASE \E h \in First(Unprocessed(m_registeredEvents)) :
             /\ stack' = Below \o <<d, Single(h)>>
             /\ UNCHANGED <<m_processedEvents, due, performed>>
  <2>1. PICK h \in First(Unprocessed(m_registeredEvents)) :
          stack' = Below \o <<d, Single(h)>>
    BY <1>5
  <2>2. h \in Handles /\ h \in m_registeredEvents /\ h \notin Processed
    BY DEF First, Unprocessed, IInv, TypeOK
  <2>3. /\ Single(h) \in Singles /\ Single(h).kind = "single"
        /\ Single(h).cur = h
    BY <2>2, NewFrames
  <2>4. d \in Frames /\ Single(h) \in Frames
    BY <1>2, <2>3 DEF Frames
  <2>5. /\ stack' \in Seq(Frames) /\ Len(stack') = 3 /\ stack'[1] = stack[1]
        /\ stack'[2] = d /\ stack'[3] = Single(h)
    BY <1>1, <2>1, <2>4, CallFacts
  <2>6. /\ ~InBatch' /\ Single1' /\ ~Mark1'
        /\ Processed' = Processed /\ None' = None
    BY <1>5, <2>3, <2>5 DEF InBatch, Single1, Mark1, Processed, None
  <2>7. TypeOK' /\ Shape'
    BY <1>1, <1>2, <1>5, <2>3, <2>5, FrameKinds DEF IInv, TypeOK, Shape
  <2>8. PeriodInv' /\ OverInv'
    BY <1>1, <1>4, <1>5, <2>2, <2>3, <2>5, <2>6 DEF IInv, PeriodInv, OverInv
  <2>9. LateInv'
    BY <1>1, <2>2, <2>3, <2>5, <2>6 DEF IInv, LateInv
  <2> QED BY <2>7, <2>8, <2>9 DEF IInv
<1>6. CASE /\ stack' = Append(Below, d)
           /\ \/ EndSingle(m_processedEvents)
              \/ UNCHANGED <<m_processedEvents, due, performed>>
  <2>1. /\ stack' \in Seq(Frames) /\ Len(stack') = 2 /\ stack'[1] = stack[1]
        /\ stack'[2] = d
    <3>1. d \in Frames
      BY <1>2 DEF Frames
    <3> QED BY <1>1, <1>6, <3>1, ReplaceFacts
  <2>2. ~InBatch' /\ ~Single1' /\ ~Mark1' /\ None' = None
    BY <2>1 DEF InBatch, Single1, Mark1, None
  <2>3. /\ due' \in BOOLEAN /\ m_processedEvents' \in Seq(Handles)
        /\ performed' \in [Handles -> 0 .. 2]
        /\ \/ performed' = None
           \/ performed' = performed /\ m_processedEvents' = m_processedEvents
    BY <1>6, EndSingleFacts DEF IInv, TypeOK
  <2>4. TypeOK' /\ Shape'
    BY <1>1, <1>2, <2>1, <2>3, FrameKinds DEF IInv, TypeOK, Shape
  <2>5. \A x \in Handles : None[x] = 0
    BY DEF None
  <2>6. PeriodInv' /\ OverInv'
    <3>1. CASE performed' = None
      BY <2>2, <2>5, <3>1 DEF PeriodInv, OverInv
    <3>2. CASE performed' = performed /\ m_processedEvents' = m_processedEvents
      <4>1. Processed' = Processed
        BY <3>2 DEF Processed
      <4> QED BY <1>1, <1>4, <2>2, <3>2, <4>1 DEF IInv, PeriodInv, OverInv
    <3> QED BY <2>3, <3>1, <3>2
  <2>7. LateInv'
    BY <1>1, <2>2 DEF IInv, LateInv
  <2> QED BY <2>4, <2>6, <2>7 DEF IInv
<1> QED BY <1>3, <1>5, <1>6

\* processSingleEvent marks what it has performed.
LEMMA SingleDoneStep ==
  ASSUME IInv, SingleDone
  PROVE  IInv'
<1> DEFINE c == stack[3].cur
<1>1. /\ UNCHANGED <<m_registeredEvents, base, late>>
      /\ stack # <<>> /\ stack \in Seq(Frames) /\ Mark1 /\ Len(stack) = 3
      /\ stack[1] \in Requests /\ stack[2] \in Delays /\ stack[3] \in Singles
      /\ stack' = Below /\ c \in Handles
  BY TopTells DEF SingleDone, IInv, Shape, TopIs, Mark1, Singles
<1>2. Top.cur = c
  BY <1>1 DEF Top
<1>3. EndSingle(Append(m_processedEvents, c))
  BY <1>2 DEF SingleDone, Marked
<1> HIDE DEF c
<1>4. m_processedEvents \in Seq(Handles)
  BY DEF IInv, TypeOK
<1>5. /\ due' \in BOOLEAN /\ m_processedEvents' \in Seq(Handles)
      /\ performed' \in [Handles -> 0 .. 2]
      /\ \/ performed' = None
         \/ /\ performed' = performed
            /\ m_processedEvents' = Append(m_processedEvents, c)
            /\ Len(m_processedEvents') < Cardinality(m_registeredEvents)
  <2>1. Append(m_processedEvents, c) \in Seq(Handles)
    BY <1>1, <1>4
  <2> QED BY <1>3, <2>1, EndSingleFacts DEF IInv
<1>6. /\ stack' \in Seq(Frames) /\ Len(stack') = 2
      /\ stack'[1] = stack[1] /\ stack'[2] = stack[2]
  BY <1>1, BelowFacts
<1>7. ~InBatch' /\ ~Single1' /\ ~Mark1' /\ None' = None /\ ~InBatch
  BY <1>1, <1>6 DEF InBatch, Single1, Mark1, None
<1>8. TypeOK' /\ Shape'
  BY <1>1, <1>5, <1>6, FrameKinds DEF IInv, TypeOK, Shape
<1>9. PeriodInv' /\ OverInv'
  <2>1. CASE performed' = None
    <3>1. \A x \in Handles : None[x] = 0
      BY DEF None
    <3> QED BY <1>7, <2>1, <3>1 DEF PeriodInv, OverInv
  <2>2. CASE /\ performed' = performed
             /\ m_processedEvents' = Append(m_processedEvents, c)
             /\ Len(m_processedEvents') < Cardinality(m_registeredEvents)
    <3>1. Processed' = Processed \cup {c}
      BY <1>1, <1>4, <2>2, AppendHolds DEF Processed
    <3> QED BY <1>1, <1>7, <2>2, <3>1 DEF IInv, PeriodInv, OverInv, c
  <2> QED BY <1>5, <2>1, <2>2
<1>10. LateInv'
  BY <1>1, <1>7 DEF IInv, LateInv
<1> QED BY <1>8, <1>9, <1>10 DEF IInv

-----------------------------------------------------------------------------
(* The theorems.                                                           *)

LEMMA NextStep == IdleHandles = {} /\ IInv /\ [Next]_vars => IInv'
BY CallStep, RequestStep, MapStep, ElapseStep, NextEventStep, EventsDoneStep,
   PublishStep, DelayLoopStep, SingleDoneStep
   DEF Next, Call, Process, AfterRequest

\* While no event idles, the order in which events, requests and delays call
\* each other keeps m_processedEvents in step with what has been performed.
THEOREM Invariance == IdleHandles = {} => (Spec => []IInv)
<1> SUFFICES ASSUME IdleHandles = {}
             PROVE  Spec => []IInv
  OBVIOUS
<1>1. Init => IInv
  <2> SUFFICES ASSUME Init PROVE IInv
    OBVIOUS
  <2>1. /\ stack \in Seq(Frames) /\ Len(stack) = 0
        /\ \A x \in Handles : None[x] = 0
        /\ None \in [Handles -> 0 .. 2]
    BY DEF Init, None
  <2> QED BY <2>1 DEF Init, IInv, TypeOK, Shape, PeriodInv, OverInv, LateInv,
                      InBatch, Single1, Mark1
<1>2. IInv /\ [Next]_vars => IInv'
  BY NextStep
<1> QED BY <1>1, <1>2, PTL DEF Spec

\* While no event idles, the thread's calls nest three deep at most.
THEOREM NestingIsBounded == IdleHandles = {} => (Spec => []NestingBounded)
<1>1. ASSUME IInv
      PROVE  NestingBounded
  <2>1. Len(stack) <= 3
    <3>1. /\ stack \in Seq(Frames)
          /\ Len(stack) = 0 \/ Len(stack) = 1 \/ Len(stack) = 2
             \/ Len(stack) = 3
      BY <1>1 DEF IInv, Shape
    <3>2. \A n \in Nat : n = 0 \/ n = 1 \/ n = 2 \/ n = 3 => n <= 3
      OBVIOUS
    <3>3. Len(stack) \in Nat
      BY <3>1
    <3> QED BY <3>1, <3>2, <3>3
  <2>2. ASSUME NEW i \in DOMAIN stack, stack[i].kind = "events"
        PROVE  Len(stack) = 1
    <3>1. stack[i] \notin Requests \cup Delays \cup Singles
      BY <2>2 DEF Requests, Delays, Singles
    <3>2. stack \in Seq(Frames) /\ i \in 1 .. Len(stack)
      BY <1>1, <2>2 DEF IInv, Shape
    <3> QED BY <1>1, <3>1, <3>2 DEF IInv, Shape
  <2> QED BY <1>1, <2>1, <2>2 DEF IInv, NestingBounded
<1> QED BY <1>1, Invariance, PTL

\* While no event idles, none is performed twice in a period.
THEOREM PerformedOnce == IdleHandles = {} => (Spec => []OncePerPeriod)
<1>1. IInv => OncePerPeriod
  BY DEF IInv, TypeOK, PeriodInv, OncePerPeriod
<1> QED BY <1>1, Invariance, PTL

\* While no event idles, an unregistered one is performed once more at most.
THEOREM OnceMoreAtMost == Spec => []LateOnce
<1>1. CASE IdleHandles = {}
  <2>1. Spec => []IInv
    BY <1>1, Invariance
  <2>2. IInv => LateOnce
    BY DEF IInv, LateInv, LateOnce
  <2> QED BY <2>1, <2>2, PTL
<1>2. CASE IdleHandles # {}
  <2>1. LateOnce
    BY <1>2 DEF LateOnce
  <2> QED BY <2>1, PTL
<1> QED BY <1>1, <1>2
=============================================================================
