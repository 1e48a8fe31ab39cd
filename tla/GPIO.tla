-------------------------------- MODULE GPIO --------------------------------
(***************************************************************************)
(* apra::GPIO: objects that each stand for one line of the sysfs interface *)
(* and keep a file descriptor of its value.  A call is a sequence of       *)
(* system calls, and the threads of a process that use different objects   *)
(* share the lines and the descriptor table.  ReadOnce and WriteOnce are   *)
(* static: they work with an object of their own, here Once, on any line.  *)
(***************************************************************************)
EXTENDS Integers, Sequences, FiniteSets

CONSTANTS
  Members,   \* the objects of the program, used by a thread each
  Once,      \* the object inside ReadOnce and WriteOnce
  Lines,
  LineOf,    \* the line of each member, m_gpio
  Careful,   \* does the program use the descriptor of an object only
             \* between Open and Close?
  MaxFd      \* the largest descriptor the process may have

Objects == Members \cup {Once}
Fds == 0 .. MaxFd

ASSUME ObjectsAssumption == /\ Once \notin Members
                            /\ Lines # {} /\ LineOf \in [Members -> Lines]
ASSUME FdsAssumption == MaxFd \in Nat /\ Careful \in BOOLEAN

VARIABLES
  line,       \* m_gpio
  m_fd,
  m_isRead,
  todo,       \* the steps that are left of each object's call
  opened,     \* the objects whose last Open succeeded and was not closed
  exported,   \* the lines that have a directory
  direction,
  files,      \* the descriptor table
  misled      \* history: the objects that have read or set another line

objectVars == <<line, m_fd, m_isRead, todo, opened>>
lineVars == <<exported, direction>>
vars == <<objectVars, lineVars, files, misled>>

\* What a descriptor may refer to: nothing, what the process was started
\* with, an edge file, or the value of a line, opened to be read or written;
\* it is dead once the line was unexported.
NoFile == [kind |-> "free"]
Stdin == [kind |-> "stdin"]
EdgeFile == [kind |-> "edge"]
Value(l, r) == [kind |-> "value", of |-> l, read |-> r, dead |-> FALSE]
ValueFiles == [kind : {"value"}, of : Lines, read : BOOLEAN, dead : BOOLEAN]
Taken == {fd \in Fds : files[fd] # NoFile}

Init ==
  /\ \E l \in Lines :
       line = [o \in Objects |-> IF o \in Members THEN LineOf[o] ELSE l]
  /\ m_fd = [o \in Objects |-> -1] /\ m_isRead = [o \in Objects |-> FALSE]
  /\ todo = [o \in Objects |-> <<>>] /\ opened = {}
  /\ exported = {} /\ direction = [l \in Lines |-> "in"]
  /\ \E f \in {NoFile, Stdin} :
       files = [fd \in Fds |-> IF fd = 0 THEN f ELSE NoFile]
  /\ misled = {}

-----------------------------------------------------------------------------
(* The steps of a call.                                                    *)

StepNames == {"edge", "open", "close", "read", "write", "poll", "unexport"}

Idle(o) == todo[o] = <<>>

\* The step is the next one of o's call, or a call of its own.
At(o, step) == todo[o] # <<>> /\ Head(todo[o]) = step
MayDo(o, step) ==
  \/ At(o, step)
  \/ /\ o \in Members /\ Idle(o)
     /\ Careful => /\ step = "open" => o \notin opened
                   /\ step \in {"close", "read", "write", "poll"} =>
                        o \in opened

\* The call goes on with its next step.
Advance(o) ==
  todo' = [todo EXCEPT ![o] = IF Idle(o) THEN <<>> ELSE Tail(@)]

\* Export makes the line's directory, unless it fails.
Export(l) == exported' \in {exported, exported \cup {l}}

\* SetDirection, whose file is in that directory.
SetDirection(l, isRead) ==
  /\ l \in exported'
  /\ direction' = [direction EXCEPT ![l] = IF isRead THEN "in" ELSE "out"]

\* Init, which succeeds (ok) if SetDirection does, whatever Export returned.
InitLine(l, isRead, ok) ==
  /\ Export(l)
  /\ IF ok THEN SetDirection(l, isRead) ELSE UNCHANGED direction

\* Init, and Init4EdgeInterrupt, which goes on with SetGPIOEdgeEvent.
CallInit(o) ==
  /\ o \in Members /\ Idle(o)
  /\ \E isRead, ok, edge \in BOOLEAN :
       /\ m_isRead' = [m_isRead EXCEPT ![o] = isRead]
       /\ InitLine(line[o], isRead, ok)
       /\ todo' = [todo EXCEPT ![o] = IF ok /\ edge THEN <<"edge">> ELSE <<>>]
  /\ UNCHANGED <<line, m_fd, opened, files, misled>>

\* What ReadOnce and WriteOnce do after Init, io being Read or Write.
BugCloseTwice(io) == <<"open", io, "close", "close", "unexport">>
BugCloseEarly(io) == <<"open", "close", io, "unexport">>
OnceSteps(io) == <<"open", io, "close", "unexport">>

\* ReadOnce and WriteOnce, which both say Init(true) and return if that fails.
CallOnce ==
  /\ Idle(Once)
  /\ \E l \in Lines, io \in {"read", "write"}, ok \in BOOLEAN :
       /\ line' = [line EXCEPT ![Once] = l]
       /\ InitLine(l, TRUE, ok)
       /\ todo' = [todo EXCEPT ![Once] = IF ok THEN OnceSteps(io) ELSE <<>>]
       /\ m_isRead' = [m_isRead EXCEPT ![Once] = ok]
  /\ UNCHANGED <<m_fd, opened, files, misled>>

\* SetGPIOEdgeEvent: a descriptor whose write was refused is not closed.
SetEdge(o) ==
  /\ At(o, "edge")
  /\ \/ files' = files
     \/ /\ line[o] \in exported
        /\ \E fd \in Fds \ Taken : files' = [files EXCEPT ![fd] = EdgeFile]
  /\ Advance(o)
  /\ UNCHANGED <<line, m_fd, m_isRead, opened, lineVars, misled>>

\* Open.  Descriptors below the one it gets may be in use for a moment by the
\* other threads' calls, so that it need not be the lowest of the free ones.
Open(o) ==
  /\ MayDo(o, "open")
  /\ \/ /\ line[o] \in exported
        /\ \E fd \in Fds \ Taken :
             /\ m_fd' = [m_fd EXCEPT ![o] = fd]
             /\ files' = [files EXCEPT ![fd] = Value(line[o], m_isRead[o])]
        /\ opened' = opened \cup {o}
     \/ /\ m_fd' = [m_fd EXCEPT ![o] = -1]
        /\ opened' = opened \ {o}
        /\ files' = files
  /\ Advance(o)
  /\ UNCHANGED <<line, m_isRead, lineVars, misled>>

\* Close: if (m_fd) return close(m_fd), which is true if it fails; m_fd stays.
BugOnlyInvalid(fd) == fd < 0
Closes(fd) == fd # 0

Close(o) ==
  /\ MayDo(o, "close")
  /\ files' = [fd \in Fds |-> IF fd = m_fd[o] /\ Closes(fd) THEN NoFile
                              ELSE files[fd]]
  /\ opened' = opened \ {o}
  /\ Advance(o)
  /\ UNCHANGED <<line, m_fd, m_isRead, lineVars, misled>>

\* The lines that a read or a write through m_fd reaches: one or none.
Reached(o, isRead) ==
  {files[fd].of : fd \in {g \in Taken \ {0} :
                            /\ g = m_fd[o]
                            /\ files[g].kind = "value" /\ ~files[g].dead
                            /\ files[g].read = isRead}}

\* A read or a write through m_fd is its caller's word on the object's line.
Misled(o, reached) ==
  misled' = IF reached \subseteq {line[o]} THEN misled ELSE misled \cup {o}

\* Read returns -1 if it reaches nothing.
Read(o) ==
  /\ MayDo(o, "read")
  /\ Misled(o, Reached(o, TRUE))
  /\ Advance(o)
  /\ UNCHANGED <<line, m_fd, m_isRead, opened, lineVars, files>>

\* Write returns false if it reaches nothing but an input.
Write(o) ==
  /\ MayDo(o, "write")
  /\ Misled(o, {l \in Reached(o, FALSE) : direction[l] = "out"})
  /\ Advance(o)
  /\ UNCHANGED <<line, m_fd, m_isRead, opened, lineVars, files>>

\* ReadWithInterrupt: if poll does not time out, Read is next.
ReadWithInterrupt(o) ==
  /\ o \in Members /\ MayDo(o, "poll")
  /\ m_fd[o] \in Taken
  /\ todo' = [todo EXCEPT ![o] = <<"read">>]
  /\ UNCHANGED <<line, m_fd, m_isRead, opened, lineVars, files, misled>>

\* UnInit: the line's directory and whatever is open in it are gone.  It is
\* the last step of ReadOnce and WriteOnce, whose object goes with it.
UnInit(o) ==
  /\ MayDo(o, "unexport")
  /\ \/ /\ line[o] \in exported
        /\ exported' = exported \ {line[o]}
        /\ files' = [fd \in Fds |->
                       IF files[fd].kind = "value" /\ files[fd].of = line[o]
                         THEN [files[fd] EXCEPT !.dead = TRUE] ELSE files[fd]]
     \/ UNCHANGED <<exported, files>>
  /\ Advance(o)
  /\ IF o = Once THEN /\ m_fd' = [m_fd EXCEPT ![Once] = -1]
                      /\ m_isRead' = [m_isRead EXCEPT ![Once] = FALSE]
                 ELSE UNCHANGED <<m_fd, m_isRead>>
  /\ UNCHANGED <<line, opened, direction, misled>>

Step(o) == \/ CallInit(o) \/ SetEdge(o) \/ Open(o) \/ Close(o) \/ Read(o)
           \/ Write(o) \/ ReadWithInterrupt(o) \/ UnInit(o)

Next == CallOnce \/ \E o \in Objects : Step(o)

Spec == Init /\ [][Next]_vars

-----------------------------------------------------------------------------
(* Properties.                                                             *)

TypeOK ==
  /\ line \in [Objects -> Lines]
  /\ m_fd \in [Objects -> Fds \cup {-1}]
  /\ m_isRead \in [Objects -> BOOLEAN]
  /\ todo \in [Objects -> Seq(StepNames)]
  /\ opened \subseteq Objects
  /\ exported \subseteq Lines
  /\ misled \subseteq Objects
  /\ direction \in [Lines -> {"in", "out"}]
  /\ files \in [Fds -> ValueFiles \cup {NoFile, Stdin, EdgeFile}]

\* The steps a call may have left.
TodoInv ==
  /\ \A o \in Members : todo[o] \in {<<>>, <<"edge">>, <<"read">>}
  /\ todo[Once] \in {<<>>, <<"unexport">>, <<"close", "unexport">>}
       \cup UNION {{<<io, "close", "unexport">>,
                    <<"open", io, "close", "unexport">>} :
                      io \in {"read", "write"}}

\* In a careful program the descriptor of an open object is a value file of
\* its own line, and of no other object: ReadOnce and WriteOnce, which leave a
\* stale m_fd behind them, and other threads that reuse the numbers included.
DescriptorsApart ==
  Careful =>
    \A o \in opened :
      /\ m_fd[o] \in Taken
      /\ files[m_fd[o]].kind = "value" /\ files[m_fd[o]].of = line[o]
      /\ \A p \in opened \ {o} : m_fd[p] # m_fd[o]

\* A careful program leaks no descriptor but two kinds: an edge file whose
\* write was refused, and number 0, if Open ever gets it.
NoDescriptorLeak ==
  Careful =>
    \A fd \in Taken \ {0} : files[fd] = EdgeFile \/ \E o \in opened : m_fd[o] = fd

\* In a careful program no Read, ReadOnce or ReadWithInterrupt returns the
\* value of another line than the one asked for, and no Write or WriteOnce
\* sets another one, however the threads reuse each other's descriptors and
\* export, open and unexport each other's lines.
AnswersOwnLine == Careful => misled = {}

\* The object of ReadOnce and WriteOnce follows the discipline by itself.
OnceInv ==
  /\ m_isRead[Once] <=> ~Idle(Once)
  /\ m_fd[Once] # -1 => Once \in opened \/ At(Once, "unexport")
  /\ Once \in opened => ~Idle(Once) /\ ~At(Once, "unexport")
  /\ At(Once, "open") => m_fd[Once] = -1

\* A member whose poll has succeeded is still open when it reads.
PollInv == Careful => \A o \in Members : At(o, "read") => o \in opened

\* The conjunction, which every step preserves.
IInv == TypeOK /\ TodoInv /\ DescriptorsApart /\ NoDescriptorLeak
          /\ AnswersOwnLine /\ OnceInv /\ PollInv
=============================================================================
