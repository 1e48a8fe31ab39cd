----------------------------- MODULE GPIOProofs -----------------------------
(***************************************************************************)
(* The inductive invariant of GPIO: who holds which descriptor, for any    *)
(* objects, lines and descriptors, whatever the system calls return.       *)
(***************************************************************************)
EXTENDS GPIO, SequenceTheorems, TLAPS

USE DEF objectVars, lineVars, vars

\* What is left of a call after its next step.
LEMMA Tails ==
  /\ Tail(<<"edge">>) = <<>> /\ Tail(<<"read">>) = <<>>
  /\ Tail(<<"unexport">>) = <<>>
  /\ Tail(<<"close", "unexport">>) = <<"unexport">>
  /\ \A io \in {"read", "write"} :
       /\ Tail(<<io, "close", "unexport">>) = <<"close", "unexport">>
       /\ Tail(<<"open", io, "close", "unexport">>)
            = <<io, "close", "unexport">>
OBVIOUS

\* What is left of a call is a sequence of steps.
LEMMA Steps ==
  /\ <<>> \in Seq(StepNames) /\ <<"edge">> \in Seq(StepNames)
  /\ <<"read">> \in Seq(StepNames)
  /\ \A io \in {"read", "write"} :
       <<"open", io, "close", "unexport">> \in Seq(StepNames)
<1>1. \A s, t, u, v \in StepNames : <<s, t, u, v>> \in Seq(StepNames)
  OBVIOUS
<1>2. \A s \in StepNames : <<s>> \in Seq(StepNames)
  OBVIOUS
<1> QED
  BY <1>1, <1>2 DEF StepNames

\* The first step of what is left of a call.
LEMMA Heads ==
  /\ Head(<<"edge">>) = "edge" /\ Head(<<"read">>) = "read"
  /\ Head(<<"unexport">>) = "unexport"
  /\ Head(<<"close", "unexport">>) = "close"
  /\ \A io \in {"read", "write"} :
       /\ Head(<<io, "close", "unexport">>) = io
       /\ Head(<<"open", io, "close", "unexport">>) = "open"
OBVIOUS

\* The object inside ReadOnce and WriteOnce goes from step to step in order.
LEMMA OnceGoesOn ==
  ASSUME TypeOK, TodoInv, ~Idle(Once), Advance(Once)
  PROVE  /\ TodoInv'
         /\ Idle(Once)' <=> At(Once, "unexport")
         /\ At(Once, "unexport")' <=> At(Once, "close")
         /\ At(Once, "close")' <=> At(Once, "read") \/ At(Once, "write")
         /\ ~At(Once, "open")'
<1>1. Once \in Objects /\ Once \notin Members
  BY ObjectsAssumption DEF Objects
<1>2. \A o \in Members : todo'[o] = todo[o]
  BY <1>1 DEF TypeOK, Advance, Objects
<1>3. todo'[Once] = Tail(todo[Once])
  BY <1>1 DEF TypeOK, Advance, Idle
<1>4. CASE todo[Once] = <<"unexport">>
  BY <1>2, <1>3, <1>4, Tails, Heads DEF TodoInv, Idle, At
<1>5. CASE todo[Once] = <<"close", "unexport">>
  BY <1>2, <1>3, <1>5, Tails, Heads DEF TodoInv, Idle, At
<1>6. ASSUME NEW io \in {"read", "write"},
             todo[Once] = <<io, "close", "unexport">>
      PROVE  /\ TodoInv'
             /\ Idle(Once)' <=> At(Once, "unexport")
             /\ At(Once, "unexport")' <=> At(Once, "close")
             /\ At(Once, "close")' <=> At(Once, "read") \/ At(Once, "write")
             /\ ~At(Once, "open")'
  BY <1>2, <1>3, <1>6, Tails, Heads DEF TodoInv, Idle, At
<1>7. ASSUME NEW io \in {"read", "write"},
             todo[Once] = <<"open", io, "close", "unexport">>
      PROVE  /\ TodoInv'
             /\ Idle(Once)' <=> At(Once, "unexport")
             /\ At(Once, "unexport")' <=> At(Once, "close")
             /\ At(Once, "close")' <=> At(Once, "read") \/ At(Once, "write")
             /\ ~At(Once, "open")'
  BY <1>2, <1>3, <1>7, Tails, Heads DEF TodoInv, Idle, At
<1> QED
  BY <1>4, <1>5, <1>6, <1>7 DEF TodoInv, Idle

\* What Advance does to the calls of all the objects.
LEMMA GoesOn ==
  ASSUME TypeOK, TodoInv, NEW o \in Objects, Advance(o),
         o = Once => ~Idle(Once)
  PROVE  /\ todo' \in [Objects -> Seq(StepNames)]
         /\ TodoInv'
         /\ \A p \in Objects \ {o} : todo'[p] = todo[p]
         /\ o \in Members => Idle(o)'
<1>1. \A p \in Objects \ {o} : todo'[p] = todo[p]
  BY DEF TypeOK, Advance
<1>2. todo' \in [Objects -> Seq(StepNames)]
  <2>1. todo[o] # <<>> => Tail(todo[o]) \in Seq(StepNames)
    BY HeadTailProperties DEF TypeOK
  <2> QED
    BY <2>1 DEF TypeOK, Advance, Idle
<1>3. CASE o = Once
  BY <1>1, <1>2, <1>3, OnceGoesOn, ObjectsAssumption
<1>4. CASE o \in Members
  <2>1. todo'[o] = IF Idle(o) THEN <<>> ELSE Tail(todo[o])
    BY DEF TypeOK, Advance
  <2>2. todo'[o] = <<>>
    BY <1>4, <2>1, Tails DEF TodoInv, Idle
  <2> QED
    BY <1>1, <1>2, <1>4, <2>2, ObjectsAssumption DEF TodoInv, Idle, Objects
<1> QED
  BY <1>3, <1>4 DEF Objects

\* The object that does a step is Once at this step of its call, or a member;
\* in a careful program a member that uses its descriptor has it open.
LEMMA WhoMayDo ==
  ASSUME TypeOK, TodoInv, PollInv, NEW o \in Objects, NEW step,
         MayDo(o, step)
  PROVE  /\ o = Once => ~Idle(Once) /\ At(Once, step)
         /\ Careful /\ o \in Members /\ step \in {"close", "read", "write", "poll"}
              => o \in opened
         /\ Careful /\ o \in Members /\ step = "open" => o \notin opened
<1>1. CASE At(o, step)
  <2>1. CASE o = Once
    BY <1>1, <2>1, ObjectsAssumption DEF At, Idle
  <2>2. CASE o \in Members
    <3>1. todo[o] \in {<<"edge">>, <<"read">>}
      BY <1>1, <2>2 DEF At, TodoInv
    <3>2. step \in {"edge", "read"}
      BY <1>1, <3>1, Heads DEF At
    <3>3. step = "read" => At(o, "read")
      BY <1>1
    <3> QED
      BY <2>2, <3>2, <3>3, ObjectsAssumption DEF PollInv
  <2> QED
    BY <2>1, <2>2 DEF Objects
<1>2. CASE o \in Members /\ Idle(o)
  BY <1>2, ObjectsAssumption DEF MayDo, At, Idle
<1> QED
  BY <1>1, <1>2 DEF MayDo

\* A call has one next step.
LEMMA OneStep ==
  ASSUME NEW o, NEW s, NEW t, At(o, s), At(o, t) PROVE s = t
BY DEF At

LEMMA InitEstablishes == Init => IInv
<1> SUFFICES ASSUME Init PROVE IInv
  OBVIOUS
<1>1. TypeOK
  BY ObjectsAssumption, FdsAssumption DEF Init, TypeOK, Objects, Fds, NoFile, Stdin
<1>2. TodoInv
  BY ObjectsAssumption DEF Init, TodoInv, Objects
<1>3. NoDescriptorLeak
  BY FdsAssumption DEF Init, NoDescriptorLeak, Taken, Fds
<1>4. AnswersOwnLine /\ OnceInv /\ PollInv
  BY ObjectsAssumption DEF Init, AnswersOwnLine, OnceInv, PollInv, At, Idle, Objects
<1>5. DescriptorsApart
  BY DEF Init, DescriptorsApart
<1> QED
  BY <1>1, <1>2, <1>3, <1>4, <1>5 DEF IInv

LEMMA StepOpen == ASSUME IInv, NEW o \in Objects, Open(o) PROVE IInv'
<1> USE DEF IInv
<1>0. /\ o = Once => ~Idle(Once) /\ At(Once, "open")
      /\ o = Once => m_fd[Once] = -1
      /\ Careful => o \notin opened
  <2>1. MayDo(o, "open")
    BY DEF Open
  <2>2. /\ o = Once => ~Idle(Once) /\ At(Once, "open")
        /\ Careful /\ o \in Members => o \notin opened
    BY <2>1, WhoMayDo
  <2>3. o = Once => m_fd[Once] = -1
    BY <2>2 DEF OnceInv
  <2>4. Careful /\ Once \in opened => m_fd[Once] \in Fds
    BY DEF DescriptorsApart, Taken
  <2>5. -1 \notin Fds
    BY FdsAssumption DEF Fds
  <2> QED
    BY <2>2, <2>3, <2>4, <2>5 DEF Objects
<1>1. /\ todo' \in [Objects -> Seq(StepNames)]
      /\ TodoInv'
      /\ \A p \in Objects \ {o} : todo'[p] = todo[p]
      /\ o \in Members => Idle(o)'
  BY <1>0, GoesOn DEF Open
<1>2. CASE \E fd \in Fds \ Taken :
             /\ m_fd' = [m_fd EXCEPT ![o] = fd]
             /\ files' = [files EXCEPT ![fd] = Value(line[o], m_isRead[o])]
             /\ opened' = opened \cup {o}
  <2> PICK fd \in Fds \ Taken :
             /\ m_fd' = [m_fd EXCEPT ![o] = fd]
             /\ files' = [files EXCEPT ![fd] = Value(line[o], m_isRead[o])]
             /\ opened' = opened \cup {o}
    BY <1>2
  <2> DEFINE new == Value(line[o], m_isRead[o])
  <2>1. new \in ValueFiles /\ new # NoFile /\ new.kind = "value" /\ new.of = line[o]
        /\ new.read = m_isRead[o]
    BY DEF TypeOK, ValueFiles, Value, NoFile
  <2> HIDE DEF new
  <2>2. files' = [files EXCEPT ![fd] = new]
    BY DEF new
  <2>3. Taken' = Taken \cup {fd}
    BY <2>1, <2>2 DEF TypeOK, Taken
  <2>4. UNCHANGED <<line, m_isRead, lineVars, misled>>
    BY DEF Open
  <2>5. TypeOK'
    BY <1>1, <2>1, <2>2, <2>4 DEF TypeOK
  <2>6. DescriptorsApart'
    BY <1>0, <2>1, <2>2, <2>3, <2>4 DEF TypeOK, DescriptorsApart
  <2>7. NoDescriptorLeak'
    BY <1>0, <2>2, <2>3 DEF TypeOK, NoDescriptorLeak
  <2>8. PollInv'
    BY <1>1, <2>2 DEF PollInv, At, Idle, Objects
  <2>9. ASSUME o = Once PROVE OnceInv'
    <3>1. /\ ~Idle(Once)' /\ ~At(Once, "unexport")' /\ ~At(Once, "open")'
      <4>1. ~At(Once, "unexport") /\ ~At(Once, "close")
        BY <1>0, <2>9 DEF At
      <4>2. Advance(Once) /\ ~Idle(Once)
        BY <1>0, <2>9 DEF Open
      <4> QED
        BY <4>1, <4>2, OnceGoesOn
    <3>2. m_isRead'[Once] /\ m_fd'[Once] = fd
      BY <1>0, <2>1, <2>2, <2>4, <2>9 DEF TypeOK, OnceInv
    <3> QED
      BY <2>9, <3>1, <3>2 DEF OnceInv
  <2>10. ASSUME o # Once PROVE OnceInv'
    <3>1. m_fd'[Once] = m_fd[Once] /\ todo'[Once] = todo[Once]
      BY <1>1, <2>10 DEF TypeOK, Objects
    <3> QED
      BY <2>2, <2>4, <2>10, <3>1 DEF OnceInv, At, Idle, DescriptorsApart
  <2>11. AnswersOwnLine'
    BY <2>4 DEF AnswersOwnLine
  <2> QED
    BY <1>1, <2>5, <2>6, <2>7, <2>8, <2>9, <2>10, <2>11
<1>3. CASE /\ m_fd' = [m_fd EXCEPT ![o] = -1]
           /\ opened' = opened \ {o} /\ files' = files
  <2>1. UNCHANGED <<line, m_isRead, lineVars, misled>>
    BY DEF Open
  <2>2. TypeOK'
    BY <1>1, <1>3, <2>1 DEF TypeOK
  <2>3. Taken' = Taken
    BY <1>3 DEF Taken
  <2>4. DescriptorsApart' /\ NoDescriptorLeak'
    BY <1>0, <1>3, <2>1, <2>3
    DEF TypeOK, DescriptorsApart, NoDescriptorLeak
  <2>5. PollInv'
    BY <1>0, <1>1, <1>3 DEF PollInv, At, Idle, Objects
  <2>6. ASSUME o = Once PROVE OnceInv'
    <3>1. ~At(Once, "unexport") /\ ~At(Once, "close")
      BY <1>0, <2>6 DEF At
    <3>2. Advance(Once) /\ ~Idle(Once)
      BY <1>0, <2>6 DEF Open
    <3>3. ~Idle(Once)' /\ ~At(Once, "unexport")' /\ ~At(Once, "open")'
      BY <3>1, <3>2, OnceGoesOn
    <3>4. m_isRead'[Once] /\ m_fd'[Once] = -1
      BY <1>0, <1>3, <2>1, <2>6 DEF TypeOK, OnceInv
    <3> QED
      BY <1>3, <2>6, <3>3, <3>4 DEF OnceInv
  <2>7. ASSUME o # Once PROVE OnceInv'
    <3>1. m_fd'[Once] = m_fd[Once] /\ todo'[Once] = todo[Once]
      BY <1>1, <1>3, <2>7 DEF TypeOK, Objects
    <3> QED
      BY <1>3, <2>1, <2>7, <3>1 DEF OnceInv, At, Idle
  <2>8. AnswersOwnLine'
    BY <2>1 DEF AnswersOwnLine
  <2> QED
    BY <1>1, <2>2, <2>4, <2>5, <2>6, <2>7, <2>8
<1> QED
  BY <1>2, <1>3 DEF Open

LEMMA StepClose == ASSUME IInv, NEW o \in Objects, Close(o) PROVE IInv'
<1> USE DEF IInv
<1>0. /\ o = Once => ~Idle(Once) /\ At(Once, "close")
      /\ Careful => o \in opened \/ m_fd[o] = -1
  <2>1. MayDo(o, "close")
    BY DEF Close
  <2>2. /\ o = Once => ~Idle(Once) /\ At(Once, "close")
        /\ Careful /\ o \in Members => o \in opened
    BY <2>1, WhoMayDo
  <2>3. At(Once, "close") => ~At(Once, "unexport")
    BY DEF At
  <2> QED
    BY <2>2, <2>3 DEF OnceInv, Objects
<1>1. /\ todo' \in [Objects -> Seq(StepNames)]
      /\ TodoInv'
      /\ \A p \in Objects \ {o} : todo'[p] = todo[p]
      /\ o \in Members => Idle(o)'
  BY <1>0, GoesOn DEF Close
<1>2. /\ UNCHANGED <<line, m_fd, m_isRead, lineVars, misled>>
      /\ opened' = opened \ {o}
  BY DEF Close
<1>3. /\ \A fd \in Fds : fd # m_fd[o] \/ fd = 0 => files'[fd] = files[fd]
      /\ \A fd \in Fds : fd = m_fd[o] /\ fd # 0 => files'[fd] = NoFile
  BY DEF Close, Closes
<1>4. files' \in [Fds -> ValueFiles \cup {NoFile, Stdin, EdgeFile}]
  BY DEF TypeOK, Close
<1>5. TypeOK'
  BY <1>1, <1>2, <1>4 DEF TypeOK
<1>6. DescriptorsApart'
  BY <1>0, <1>2, <1>3, FdsAssumption DEF DescriptorsApart, Taken, Fds
<1>7. NoDescriptorLeak'
  BY <1>0, <1>2, <1>3, FdsAssumption DEF NoDescriptorLeak, Taken, Fds
<1>8. PollInv'
  BY <1>1, <1>2 DEF PollInv, At, Idle, Objects
<1>9. ASSUME o = Once PROVE OnceInv'
  <2>1. ~Idle(Once)' /\ At(Once, "unexport")' /\ ~At(Once, "open")'
    <3>1. Advance(Once) /\ ~At(Once, "unexport") /\ ~Idle(Once)
      BY <1>0, <1>9 DEF Close, At
    <3> QED
      BY <1>0, <1>9, <3>1, OnceGoesOn
  <2> QED
    BY <1>0, <1>2, <1>9, <2>1 DEF OnceInv
<1>10. ASSUME o # Once PROVE OnceInv'
  <2>1. todo'[Once] = todo[Once]
    BY <1>1, <1>10 DEF Objects
  <2> QED
    BY <1>2, <1>10, <2>1 DEF OnceInv, At, Idle
<1>11. AnswersOwnLine'
  BY <1>2 DEF AnswersOwnLine
<1> QED
  BY <1>1, <1>5, <1>6, <1>7, <1>8, <1>9, <1>10, <1>11

\* What Read and Write have in common.  An open object reaches its own line.
LEMMA StepUse ==
  ASSUME IInv, NEW o \in Objects, NEW step \in {"read", "write"},
         NEW reached, MayDo(o, step), Advance(o), Misled(o, reached),
         reached \subseteq Reached(o, TRUE) \cup Reached(o, FALSE),
         UNCHANGED <<line, m_fd, m_isRead, opened, lineVars, files>>
  PROVE  IInv'
<1> USE DEF IInv
<1>0. /\ o = Once => ~Idle(Once) /\ At(Once, step)
      /\ Careful /\ o \in Members => o \in opened
  BY WhoMayDo
<1>1. /\ todo' \in [Objects -> Seq(StepNames)]
      /\ TodoInv'
      /\ \A p \in Objects \ {o} : todo'[p] = todo[p]
      /\ o \in Members => Idle(o)'
  BY <1>0, GoesOn
<1>2. misled' \subseteq Objects
  BY DEF Misled, TypeOK
<1>3. TypeOK'
  BY <1>1, <1>2 DEF TypeOK
<1>4. DescriptorsApart' /\ NoDescriptorLeak'
  BY DEF DescriptorsApart, NoDescriptorLeak, Taken
<1>5. PollInv'
  BY <1>1 DEF PollInv, At, Idle, Objects
<1>6. ASSUME o = Once PROVE OnceInv'
  <2>1. ~Idle(Once)' /\ ~At(Once, "unexport")' /\ ~At(Once, "open")'
    <3>1. /\ Advance(Once) /\ ~At(Once, "unexport") /\ ~Idle(Once)
          /\ ~At(Once, "close")
      BY <1>0, <1>6 DEF At
    <3> QED
      BY <1>0, <1>6, <3>1, OnceGoesOn
  <2>2. ~Idle(Once) /\ ~At(Once, "unexport")
    BY <1>0, <1>6 DEF At
  <2> QED
    BY <2>1, <2>2 DEF OnceInv
<1>7. ASSUME o # Once PROVE OnceInv'
  BY <1>1, <1>7 DEF OnceInv, At, Idle, Objects
<1>8. Careful => reached \subseteq {line[o]}
  <2>1. CASE o \in Members
    BY <1>0, <2>1 DEF Reached, DescriptorsApart
  <2>2. CASE o = Once
    <3>1. ~At(Once, "unexport")
      BY <1>0, <2>2 DEF At
    <3>2. -1 \notin Taken
      BY FdsAssumption DEF Taken, Fds
    <3> QED
      BY <2>2, <3>1, <3>2 DEF Reached, OnceInv, DescriptorsApart
  <2> QED
    BY <2>1, <2>2 DEF Objects
<1>9. AnswersOwnLine'
  BY <1>8 DEF Misled, AnswersOwnLine
<1> QED
  BY <1>1, <1>3, <1>4, <1>5, <1>6, <1>7, <1>9

LEMMA StepReadWrite ==
  ASSUME IInv, NEW o \in Objects, Read(o) \/ Write(o) PROVE IInv'
<1>1. CASE Read(o)
  <2>1. /\ MayDo(o, "read") /\ Advance(o) /\ Misled(o, Reached(o, TRUE))
        /\ UNCHANGED <<line, m_fd, m_isRead, opened, lineVars, files>>
    BY <1>1 DEF Read
  <2> QED
    BY <2>1, StepUse
<1>2. CASE Write(o)
  <2> DEFINE set == {l \in Reached(o, FALSE) : direction[l] = "out"}
  <2>1. /\ MayDo(o, "write") /\ Advance(o) /\ Misled(o, set)
        /\ set \subseteq Reached(o, FALSE)
        /\ UNCHANGED <<line, m_fd, m_isRead, opened, lineVars, files>>
    BY <1>2 DEF Write
  <2> HIDE DEF set
  <2> QED
    BY <2>1, StepUse
<1> QED
  BY <1>1, <1>2

LEMMA StepUnInit == ASSUME IInv, NEW o \in Objects, UnInit(o) PROVE IInv'
<1> USE DEF IInv
<1>0. o = Once => ~Idle(Once) /\ At(Once, "unexport")
  BY WhoMayDo DEF UnInit
<1>1. /\ todo' \in [Objects -> Seq(StepNames)]
      /\ TodoInv'
      /\ \A p \in Objects \ {o} : todo'[p] = todo[p]
      /\ o \in Members => Idle(o)'
  BY <1>0, GoesOn DEF UnInit
<1>2. UNCHANGED <<line, opened, direction, misled>>
  BY DEF UnInit
<1>3. /\ files' \in [Fds -> ValueFiles \cup {NoFile, Stdin, EdgeFile}]
      /\ \A fd \in Fds : /\ files'[fd] = NoFile <=> files[fd] = NoFile
                         /\ files[fd] = EdgeFile => files'[fd] = EdgeFile
                         /\ files[fd].kind = "value" =>
                              /\ files'[fd].kind = "value"
                              /\ files'[fd].of = files[fd].of
                              /\ files'[fd].read = files[fd].read
  <2>1. CASE files' = files
    BY <2>1 DEF TypeOK
  <2>2. CASE files' = [fd \in Fds |->
                         IF files[fd].kind = "value" /\ files[fd].of = line[o]
                           THEN [files[fd] EXCEPT !.dead = TRUE] ELSE files[fd]]
    <3> SUFFICES ASSUME NEW fd \in Fds
                 PROVE  /\ files'[fd] \in ValueFiles \cup {NoFile, Stdin, EdgeFile}
                        /\ files'[fd] = NoFile <=> files[fd] = NoFile
                        /\ files[fd] = EdgeFile => files'[fd] = EdgeFile
                        /\ files[fd].kind = "value" =>
                              /\ files'[fd].kind = "value"
                              /\ files'[fd].of = files[fd].of
                              /\ files'[fd].read = files[fd].read
      BY <2>2
    <3>1. files[fd] \in ValueFiles \cup {NoFile, Stdin, EdgeFile}
      BY DEF TypeOK
    <3>2. files[fd] \notin ValueFiles => files'[fd] = files[fd]
      BY <2>2, <3>1 DEF NoFile, Stdin, EdgeFile
    <3>3. ASSUME NEW f \in ValueFiles
          PROVE  LET g == [f EXCEPT !.dead = TRUE]
                 IN  /\ g \in ValueFiles /\ g # NoFile /\ f # NoFile
                     /\ f # EdgeFile /\ g.kind = f.kind /\ g.of = f.of
                     /\ g.read = f.read
      <4> DEFINE g == [f EXCEPT !.dead = TRUE]
      <4>1. /\ g.kind = f.kind /\ g.of = f.of /\ g.read = f.read
            /\ g \in ValueFiles
        BY DEF ValueFiles
      <4>2. \A h \in ValueFiles : h.kind = "value"
        BY DEF ValueFiles
      <4>3. NoFile.kind = "free" /\ EdgeFile.kind = "edge"
        BY DEF NoFile, EdgeFile
      <4> HIDE DEF g
      <4>4. g # NoFile /\ f # NoFile /\ f # EdgeFile
        BY <4>1, <4>2, <4>3
      <4> QED
        BY <4>1, <4>4 DEF g
    <3>4. CASE files[fd] \in ValueFiles
      <4>1. files'[fd] \in {files[fd], [files[fd] EXCEPT !.dead = TRUE]}
        BY <2>2
      <4> QED
        BY <3>3, <3>4, <4>1
    <3> QED
      BY <3>1, <3>2, <3>4
  <2> QED
    BY <2>1, <2>2 DEF UnInit
<1>4. Taken' = Taken
  BY <1>3 DEF Taken
<1>5. /\ \A p \in Members : m_fd'[p] = m_fd[p]
      /\ o = Once => m_fd'[Once] = -1 /\ ~m_isRead'[Once]
      /\ o # Once => UNCHANGED <<m_fd, m_isRead>>
  BY ObjectsAssumption DEF UnInit, TypeOK, Objects
<1>6. TypeOK'
  BY <1>1, <1>2, <1>3 DEF UnInit, TypeOK
<1>7. o = Once => Once \notin opened
  BY <1>0 DEF OnceInv
<1>8. DescriptorsApart' /\ NoDescriptorLeak'
  BY <1>2, <1>3, <1>4, <1>5, <1>7
  DEF DescriptorsApart, NoDescriptorLeak, TypeOK, Taken, Objects
<1>9. PollInv'
  BY <1>1, <1>2 DEF PollInv, At, Idle, Objects
<1>10. ASSUME o = Once PROVE OnceInv'
  <2>1. Idle(Once)'
    <3>1. Advance(Once)
      BY <1>10 DEF UnInit
    <3> QED
      BY <1>0, <1>10, <3>1, OnceGoesOn
  <2> QED
    BY <1>2, <1>5, <1>7, <1>10, <2>1 DEF OnceInv, At, Idle
<1>11. ASSUME o # Once PROVE OnceInv'
  <2>1. todo'[Once] = todo[Once]
    BY <1>1, <1>11 DEF Objects
  <2> QED
    BY <1>2, <1>5, <1>11, <2>1 DEF OnceInv, At, Idle
<1>12. AnswersOwnLine'
  BY <1>2 DEF AnswersOwnLine
<1> QED
  BY <1>1, <1>6, <1>8, <1>9, <1>10, <1>11, <1>12

LEMMA StepInit == ASSUME IInv, NEW o \in Objects, CallInit(o) PROVE IInv'
<1> USE DEF IInv
<1>0. o \in Members /\ o # Once /\ Once \in Objects
  BY ObjectsAssumption DEF CallInit, Objects
<1>1. PICK isRead, ok, edge \in BOOLEAN :
        /\ m_isRead' = [m_isRead EXCEPT ![o] = isRead]
        /\ InitLine(line[o], isRead, ok)
        /\ todo' = [todo EXCEPT ![o] = IF ok /\ edge THEN <<"edge">> ELSE <<>>]
  BY DEF CallInit
<1>2. UNCHANGED <<line, m_fd, opened, files, misled>>
  BY DEF CallInit
<1>3. /\ todo' \in [Objects -> Seq(StepNames)]
      /\ todo'[o] \in {<<>>, <<"edge">>}
      /\ \A p \in Objects \ {o} : todo'[p] = todo[p]
  BY <1>1, Steps DEF TypeOK
<1>4. exported' \subseteq Lines /\ direction' \in [Lines -> {"in", "out"}]
  BY <1>1 DEF InitLine, Export, SetDirection, TypeOK
<1>5. m_isRead' \in [Objects -> BOOLEAN] /\ m_isRead'[Once] = m_isRead[Once]
  BY <1>0, <1>1 DEF TypeOK
<1>6. TypeOK'
  BY <1>2, <1>3, <1>4, <1>5 DEF TypeOK
<1>7. TodoInv'
  BY <1>0, <1>3 DEF TodoInv, Objects
<1>8. DescriptorsApart' /\ NoDescriptorLeak'
  BY <1>2 DEF DescriptorsApart, NoDescriptorLeak, Taken
<1>9. PollInv'
  <2>1. ~At(o, "read")'
    BY <1>3, Heads DEF At
  <2> QED
    BY <1>2, <1>3, <2>1 DEF PollInv, At, Objects
<1>10. OnceInv'
  BY <1>0, <1>2, <1>3, <1>5 DEF OnceInv, At, Idle
<1>11. AnswersOwnLine'
  BY <1>2 DEF AnswersOwnLine
<1> QED
  BY <1>6, <1>7, <1>8, <1>9, <1>10, <1>11

LEMMA StepSetEdge == ASSUME IInv, NEW o \in Objects, SetEdge(o) PROVE IInv'
<1> USE DEF IInv
<1>0. o \in Members /\ o # Once /\ Once \in Objects
  BY ObjectsAssumption, Heads DEF SetEdge, At, TodoInv, Objects
<1>1. /\ todo' \in [Objects -> Seq(StepNames)]
      /\ TodoInv'
      /\ \A p \in Objects \ {o} : todo'[p] = todo[p]
      /\ Idle(o)'
  BY <1>0, GoesOn DEF SetEdge
<1>2. UNCHANGED <<line, m_fd, m_isRead, opened, lineVars, misled>>
  BY DEF SetEdge
<1>3. /\ files' \in [Fds -> ValueFiles \cup {NoFile, Stdin, EdgeFile}]
      /\ \A fd \in Fds : files'[fd] # files[fd] =>
                           fd \notin Taken /\ files'[fd] = EdgeFile
  BY DEF SetEdge, TypeOK
<1>4. TypeOK'
  BY <1>1, <1>2, <1>3 DEF TypeOK
<1>5. DescriptorsApart'
  BY <1>2, <1>3 DEF DescriptorsApart, Taken
<1>6. NoDescriptorLeak'
  BY <1>2, <1>3 DEF NoDescriptorLeak, Taken
<1>7. PollInv'
  BY <1>1, <1>2 DEF PollInv, At, Idle, Objects
<1>8. OnceInv'
  BY <1>0, <1>1, <1>2, <1>3 DEF OnceInv, At, Idle, DescriptorsApart, Taken
<1>9. AnswersOwnLine'
  BY <1>2 DEF AnswersOwnLine
<1> QED
  BY <1>1, <1>4, <1>5, <1>6, <1>7, <1>8, <1>9

LEMMA StepPoll ==
  ASSUME IInv, NEW o \in Objects, ReadWithInterrupt(o) PROVE IInv'
<1> USE DEF IInv
<1>0. o \in Members /\ o # Once /\ Once \in Objects
  BY ObjectsAssumption DEF ReadWithInterrupt, Objects
<1>1. Careful => o \in opened
  BY <1>0, WhoMayDo DEF ReadWithInterrupt
<1>2. /\ todo' \in [Objects -> Seq(StepNames)]
      /\ todo'[o] = <<"read">>
      /\ \A p \in Objects \ {o} : todo'[p] = todo[p]
  BY Steps DEF ReadWithInterrupt, TypeOK
<1>3. UNCHANGED <<line, m_fd, m_isRead, opened, lineVars, files, misled>>
  BY DEF ReadWithInterrupt
<1>4. TypeOK'
  BY <1>2, <1>3 DEF TypeOK
<1>5. TodoInv'
  BY <1>0, <1>2 DEF TodoInv, Objects
<1>6. DescriptorsApart' /\ NoDescriptorLeak'
  BY <1>3 DEF DescriptorsApart, NoDescriptorLeak, Taken
<1>7. PollInv'
  BY <1>1, <1>2, <1>3 DEF PollInv, At, Objects
<1>8. OnceInv'
  BY <1>0, <1>2, <1>3 DEF OnceInv, At, Idle
<1>9. AnswersOwnLine'
  BY <1>3 DEF AnswersOwnLine
<1> QED
  BY <1>4, <1>5, <1>6, <1>7, <1>8, <1>9

LEMMA StepOnce == ASSUME IInv, CallOnce PROVE IInv'
<1> USE DEF IInv
<1>0. Idle(Once) /\ Once \in Objects /\ Once \notin Members
  BY ObjectsAssumption DEF CallOnce, Objects
<1>1. PICK l \in Lines, io \in {"read", "write"}, ok \in BOOLEAN :
        /\ line' = [line EXCEPT ![Once] = l]
        /\ InitLine(l, TRUE, ok)
        /\ todo' = [todo EXCEPT ![Once] = IF ok THEN OnceSteps(io) ELSE <<>>]
        /\ m_isRead' = [m_isRead EXCEPT ![Once] = ok]
  BY DEF CallOnce
<1>2. UNCHANGED <<m_fd, opened, files, misled>>
  BY DEF CallOnce
<1>3. /\ todo' \in [Objects -> Seq(StepNames)]
      /\ todo'[Once] = IF ok THEN <<"open", io, "close", "unexport">> ELSE <<>>
      /\ \A p \in Objects \ {Once} : todo'[p] = todo[p]
  BY <1>0, <1>1, Steps DEF TypeOK, OnceSteps
<1>4. exported' \subseteq Lines /\ direction' \in [Lines -> {"in", "out"}]
  BY <1>1 DEF InitLine, Export, SetDirection, TypeOK
<1>5. /\ line' \in [Objects -> Lines] /\ m_isRead' \in [Objects -> BOOLEAN]
      /\ \A p \in Objects \ {Once} : line'[p] = line[p]
      /\ m_isRead'[Once] <=> ok
  BY <1>0, <1>1 DEF TypeOK
<1>6. Once \notin opened /\ m_fd[Once] = -1
  BY <1>0 DEF OnceInv, At, Idle
<1>7. TypeOK'
  BY <1>0, <1>2, <1>3, <1>4, <1>5 DEF TypeOK
<1>8. TodoInv'
  BY <1>0, <1>3 DEF TodoInv, Objects
<1>9. DescriptorsApart' /\ NoDescriptorLeak'
  BY <1>2, <1>5, <1>6 DEF DescriptorsApart, NoDescriptorLeak, Taken, TypeOK
<1>10. PollInv'
  BY <1>0, <1>2, <1>3 DEF PollInv, At, Objects
<1>11. OnceInv'
  <2>1. Idle(Once)' <=> ~ok
    BY <1>3 DEF Idle
  <2> QED
    BY <1>2, <1>5, <1>6, <2>1 DEF OnceInv
<1>12. AnswersOwnLine'
  BY <1>2 DEF AnswersOwnLine
<1> QED
  BY <1>7, <1>8, <1>9, <1>10, <1>11, <1>12

\* Every step preserves the invariant.
LEMMA StepPreserves == ASSUME IInv, [Next]_vars PROVE IInv'
<1>1. CASE UNCHANGED vars
  BY <1>1
  DEF IInv, TypeOK, TodoInv, DescriptorsApart, NoDescriptorLeak,
      AnswersOwnLine, OnceInv, PollInv, At, Idle, Taken, Reached
<1>2. CASE CallOnce
  BY <1>2, StepOnce
<1>3. ASSUME NEW o \in Objects, Step(o) PROVE IInv'
  BY <1>3, StepInit, StepSetEdge, StepOpen, StepClose, StepReadWrite,
     StepPoll, StepUnInit DEF Step
<1> QED
  BY <1>1, <1>2, <1>3 DEF Next

-----------------------------------------------------------------------------
\* The steps that are left of every call, the descriptors of the open objects
\* and what the object of ReadOnce and WriteOnce leaves behind form an
\* inductive invariant.
THEOREM Invariance == Spec => []IInv
<1>1. Init => IInv
  BY InitEstablishes
<1>2. IInv /\ [Next]_vars => IInv'
  BY StepPreserves
<1> QED
  BY <1>1, <1>2, PTL DEF Spec

\* No two open objects ever share a descriptor, and each has its own line's,
\* with any number of objects, threads and reused descriptors.
THEOREM NoSharedDescriptor == Spec => []DescriptorsApart
<1>1. IInv => DescriptorsApart
  BY DEF IInv
<1> QED
  BY <1>1, Invariance, PTL

\* A careful program leaks only what the code itself forgets to close.
THEOREM OnlyForgottenLeak == Spec => []NoDescriptorLeak
<1>1. IInv => NoDescriptorLeak
  BY DEF IInv
<1> QED
  BY <1>1, Invariance, PTL

\* Whatever other threads export, open and unexport, no read or write of a
\* careful program's object, of ReadOnce or of WriteOnce is of another line
\* than the one it was asked for.
THEOREM NobodyMisled == Spec => []AnswersOwnLine
<1>1. IInv => AnswersOwnLine
  BY DEF IInv
<1> QED
  BY <1>1, Invariance, PTL
=============================================================================
