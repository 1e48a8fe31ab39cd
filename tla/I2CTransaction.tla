--------------------------- MODULE I2CTransaction ---------------------------
(***************************************************************************)
(* apra::I2C_Interface handling one request at a time, as built for ARM:   *)
(* process takes a transaction, performs its messages in order, each with  *)
(* its retries, and answers; meanwhile another thread may call             *)
(* reSetupI2CBus, which closes and reopens the bus under m_processLock.    *)
(* The delays, and the registered events that may be performed in them,    *)
(* use copies and touch nothing of this module's state.                    *)
(***************************************************************************)
EXTENDS Naturals, Sequences, FiniteSets

CONSTANTS
  MaxMessages,   \* bound on the messages of a transaction
  RetryCounts,   \* the values of m_retryCount
  PrintModes,    \* the values of the constructor's shouldPrint
  MaxResets      \* bound on the calls to reSetupI2CBus

ASSUME BoundsAssumption == /\ MaxMessages \in Nat
                           /\ RetryCounts \subseteq Nat
                           /\ PrintModes \subseteq BOOLEAN
                           /\ MaxResets \in Nat

VARIABLES
  m_shouldPrint,
  open,             \* m_i2cFileDescriptor > -1
  m_setupSuccess,
  rpc,              \* the next step of reSetupI2CBus, or "idle"
  resets,           \* calls to reSetupI2CBus so far
  wpc,              \* the worker's place: "idle", "next", "attempt",
                    \* "answered" or "more"
  tx,               \* the transaction's m_messages
  m_stopOnAnyTransactionFailure,
  messageIndex,
  retryCount,       \* of the perform... function that is running
  outcome,          \* m_error and m_data of each message
  attempts,         \* how often the bus has been asked for each message
  transactionError, \* the message whose error it is, or 0
  answer            \* what became of the last request

busVars  == <<m_shouldPrint, open, m_setupSuccess, rpc, resets>>
reqVars  == <<tx, m_stopOnAnyTransactionFailure, answer>>
workVars == <<wpc, messageIndex, retryCount, outcome, attempts,
              transactionError>>
vars == <<busVars, reqVars, workVars>>

Plain == {"READ", "WRITE"}
Compare == {"READ_COMPARE_EQUAL", "READ_COMPARE_NOT_EQUAL"}

\* A message; fits says whether m_compareData is as long as the data read.
Messages == [type : Plain, retries : RetryCounts, fits : {TRUE}]
              \cup [type : Compare, retries : RetryCounts, fits : BOOLEAN]

Transactions == UNION {[1 .. n -> Messages] : n \in 0 .. MaxMessages}

\* What the bus makes of an attempt: an error, or data equal to m_compareData
\* or not (of a plain message: data).
Outcomes(msg) == IF ~open THEN {"error"}
                 ELSE IF msg.fits THEN {"error", "equal", "differ"}
                 ELSE {"error", "differ"}

\* The constructor, if it does not throw.  openBus reports that it has
\* failed only if m_shouldPrint.
Init ==
  /\ m_shouldPrint \in PrintModes
  /\ open \in BOOLEAN /\ (m_shouldPrint => open)
  /\ m_setupSuccess = TRUE
  /\ rpc = "idle" /\ resets = 0
  /\ wpc = "idle" /\ messageIndex = 1 /\ retryCount = 0
  /\ tx = <<>> /\ m_stopOnAnyTransactionFailure = TRUE
  /\ outcome = <<>> /\ attempts = <<>>
  /\ transactionError = 0 /\ answer = "none"

-----------------------------------------------------------------------------
(* reSetupI2CBus: it holds m_processLock from its first to its last step.  *)

LockFree == rpc = "idle"

ResetClose ==
  /\ LockFree
  /\ resets < MaxResets
  /\ resets' = resets + 1
  /\ open' = FALSE
  /\ rpc' = "flag"
  /\ UNCHANGED <<m_shouldPrint, m_setupSuccess, reqVars, workVars>>

ResetFlag ==
  /\ rpc = "flag"
  /\ m_setupSuccess' = FALSE
  /\ rpc' = "open"
  /\ UNCHANGED <<m_shouldPrint, open, resets, reqVars, workVars>>

\* openBus; then m_setupSuccess = !response.isError().
SuccessAfterOpen(opened) == opened \/ ~m_shouldPrint

BugTryAgain(opened) == IF opened THEN "idle" ELSE "flag"
AfterOpen(opened) == "idle"

ResetOpen ==
  /\ rpc = "open"
  /\ open' \in BOOLEAN
  /\ m_setupSuccess' = SuccessAfterOpen(open')
  /\ rpc' = AfterOpen(open')
  /\ UNCHANGED <<m_shouldPrint, resets, reqVars, workVars>>

ResetStep == ResetFlag \/ ResetOpen

-----------------------------------------------------------------------------
(* The worker.                                                             *)

\* The worker takes a request: at the head of process, or from what process
\* has found in the queue besides.
TakeRequest ==
  /\ \E t \in Transactions, s \in BOOLEAN :
       /\ tx' = t /\ m_stopOnAnyTransactionFailure' = s
       /\ outcome' = [i \in 1 .. Len(t) |-> "none"]
       /\ attempts' = [i \in 1 .. Len(t) |-> 0]
  /\ answer' = "pending"
  /\ wpc' = "next"
  /\ UNCHANGED <<busVars, messageIndex, retryCount, transactionError>>

\* process(obj).
Process == wpc = "idle" /\ m_setupSuccess /\ TakeRequest

\* process's second loop does not look at m_setupSuccess again.
ProcessMore == wpc = "more" /\ TakeRequest

ProcessReturn ==
  /\ wpc = "more"
  /\ wpc' = "idle"
  /\ UNCHANGED <<busVars, reqVars, messageIndex, retryCount, outcome,
                 attempts, transactionError>>

\* process(obj) that finds the bus in the middle of a reset, or the reset
\* failed: obj is not answered.
Drop ==
  /\ wpc = "idle" /\ ~m_setupSuccess
  /\ answer' = "dropped"
  /\ UNCHANGED <<busVars, tx, m_stopOnAnyTransactionFailure, workVars>>

\* processI2CTransaction's loop: the next message.
StartMessage ==
  /\ wpc = "next"
  /\ messageIndex <= Len(tx)
  /\ retryCount' = tx[messageIndex].retries
  /\ wpc' = "attempt"
  /\ UNCHANGED <<busVars, reqVars, messageIndex, outcome, attempts,
                 transactionError>>

\* performRead, performWrite and performCompareRead: does this outcome end
\* the retries?  The conditions are the code's, also that of NOT_EQUAL.
BugErrorIsEnough(msg, o) == TRUE
Settles(msg, o) ==
  /\ o # "error"
  /\ \/ msg.type \in Plain
     \/ msg.type = "READ_COMPARE_EQUAL" /\ msg.fits /\ o = "equal"
     \/ msg.type = "READ_COMPARE_NOT_EQUAL" /\ (~msg.fits \/ o = "equal")

\* while (retryCount-- > 0)
Retries(n) == n > 0

\* Does the failure of a message end the transaction?
StopsAtError == m_stopOnAnyTransactionFailure

BugLastResult(failed) == IF failed THEN messageIndex ELSE 0
ErrorAfter(failed) == IF failed THEN messageIndex ELSE transactionError

\* The message is done: the rest of the loop's body.
MessageDone(o) ==
  /\ transactionError' = ErrorAfter(o = "error")
  /\ messageIndex' = IF o = "error" /\ StopsAtError THEN Len(tx) + 1
                     ELSE messageIndex + 1
  /\ wpc' = "next"
  /\ UNCHANGED retryCount

BugNoLock == TRUE
MayUseBus == LockFree

\* One pass of the do loop: the lock, setSize, genericRead or genericWrite.
Attempt ==
  /\ wpc = "attempt"
  /\ MayUseBus
  /\ \E o \in Outcomes(tx[messageIndex]) :
       /\ outcome' = [outcome EXCEPT ![messageIndex] = o]
       /\ attempts' = [attempts EXCEPT ![messageIndex] = @ + 1]
       /\ IF ~Settles(tx[messageIndex], o) /\ Retries(retryCount)
          THEN /\ retryCount' = retryCount - 1
               /\ UNCHANGED <<wpc, messageIndex, transactionError>>
          ELSE MessageDone(o)
  /\ UNCHANGED <<busVars, reqVars>>

\* setError, enqueResponse.
Answer ==
  /\ wpc = "next"
  /\ messageIndex > Len(tx)
  /\ answer' = "answered"
  /\ wpc' = "answered"
  /\ UNCHANGED <<busVars, tx, m_stopOnAnyTransactionFailure, messageIndex,
                 retryCount, outcome, attempts, transactionError>>

\* Nothing of the transaction outlives processMessage.
MessageReturn ==
  /\ wpc = "answered"
  /\ wpc' = "more"
  /\ tx' = <<>> /\ outcome' = <<>> /\ attempts' = <<>>
  /\ messageIndex' = 1 /\ retryCount' = 0 /\ transactionError' = 0
  /\ m_stopOnAnyTransactionFailure' = TRUE
  /\ UNCHANGED <<busVars, answer>>

WorkerStep == StartMessage \/ Attempt \/ Answer \/ MessageReturn

Next == ResetClose \/ ResetStep \/ Process \/ ProcessMore
          \/ ProcessReturn \/ Drop \/ WorkerStep

\* A thread inside a function goes on; MaxResets keeps the lock from being
\* taken by resets for ever.
Spec == Init /\ [][Next]_vars /\ WF_vars(WorkerStep) /\ WF_vars(ResetStep)

-----------------------------------------------------------------------------
(* Properties.                                                             *)

TypeOK ==
  /\ m_shouldPrint \in BOOLEAN /\ open \in BOOLEAN
  /\ m_setupSuccess \in BOOLEAN
  /\ rpc \in {"idle", "flag", "open"} /\ resets \in 0 .. MaxResets
  /\ wpc \in {"idle", "next", "attempt", "answered", "more"}
  /\ tx \in Transactions /\ m_stopOnAnyTransactionFailure \in BOOLEAN
  /\ messageIndex \in 1 .. Len(tx) + 1
  /\ wpc = "attempt" => messageIndex \in 1 .. Len(tx)
  /\ retryCount \in Nat
  /\ outcome \in [1 .. Len(tx) -> {"none", "error", "equal", "differ"}]
  /\ attempts \in [1 .. Len(tx) -> Nat]
  /\ transactionError \in 0 .. Len(tx)
  /\ answer \in {"none", "pending", "answered", "dropped"}

\* A message the worker has begun, and one it has also left.
Begun(i) == attempts[i] > 0
Left(i) == Begun(i) /\ (wpc = "attempt" => i # messageIndex)

\* While the worker is at a message, retryCount is what is left of its
\* retries; it has not begun later ones.
CountInv ==
  /\ \A i \in 1 .. Len(tx) :
       /\ i > messageIndex => ~Begun(i)
       /\ i = messageIndex /\ wpc = "next" => ~Begun(i)
       /\ ~Begun(i) <=> outcome[i] = "none"
  /\ wpc = "attempt" =>
       attempts[messageIndex] + retryCount = tx[messageIndex].retries

\* The error is that of the last message that has failed for good.
ErrorInv ==
  /\ transactionError # 0 => Left(transactionError)
                               /\ outcome[transactionError] = "error"
  /\ \A i \in 1 .. Len(tx) : Left(i) /\ outcome[i] = "error"
                               => i <= transactionError

\* A failure is behind the worker only if it may go on; else it has skipped
\* what follows.
StopInv ==
  /\ transactionError # 0 /\ m_stopOnAnyTransactionFailure =>
       /\ wpc # "attempt" /\ messageIndex = Len(tx) + 1
       /\ \A i \in 1 .. Len(tx) : i > transactionError => ~Begun(i)
  /\ transactionError = 0 \/ ~m_stopOnAnyTransactionFailure =>
       \A i \in 1 .. Len(tx) : i < messageIndex => Begun(i)

\* An answer that waits is the worker's; one that has been given stays so
\* until the next request.
AnswerInv ==
  /\ wpc \in {"next", "attempt"} <=> answer = "pending"
  /\ wpc = "answered" => messageIndex = Len(tx) + 1 /\ answer = "answered"
  /\ wpc \in {"idle", "more"} => tx = <<>> /\ messageIndex = 1
                                   /\ transactionError = 0

\* With m_shouldPrint, m_setupSuccess tells the truth outside a reset.
BusInv == m_shouldPrint /\ LockFree => (open <=> m_setupSuccess)

\* A message is asked for at most m_retryCount + 1 times, and no less when it
\* is left with an error or, if it waits for a value, without that value.
GivesUpLate ==
  \A i \in 1 .. Len(tx) :
    /\ attempts[i] <= tx[i].retries + 1
    /\ Left(i) /\ \/ outcome[i] = "error"
                  \/ tx[i].type = "READ_COMPARE_EQUAL" /\ outcome[i] = "differ"
         => attempts[i] = tx[i].retries + 1

\* A transaction without an error has performed all its messages without
\* one; an error is that of the last message that failed, and of the last
\* message performed if m_stopOnAnyTransactionFailure.
AnswerIsTrue ==
  wpc = "answered" =>
    /\ transactionError = 0 =>
         \A i \in 1 .. Len(tx) : Begun(i) /\ outcome[i] # "error"
    /\ transactionError # 0 =>
         /\ outcome[transactionError] = "error"
         /\ \A i \in 1 .. Len(tx) : i > transactionError =>
              /\ outcome[i] # "error"
              /\ m_stopOnAnyTransactionFailure <=> ~Begun(i)

\* The messages the worker is done with, as their client sees them: a failure
\* that ends the transaction has moved messageIndex behind the last message.
Done == IF transactionError # 0 /\ m_stopOnAnyTransactionFailure
        THEN transactionError ELSE messageIndex - 1

Results == [i \in 1 .. Done |-> IF outcome[i] = "error" THEN "failed" ELSE "ok"]

Promise == INSTANCE Exchange
  WITH status <- answer, size <- Len(tx),
       stop <- m_stopOnAnyTransactionFailure, log <- Results,
       error <- IF wpc = "answered" THEN transactionError ELSE 0

\* Through all retries, failures and resets of the bus, process performs the
\* messages of a transaction in order and each once, stops where it should,
\* and answers with the failure that a look back at all results would find.
KeepsPromise == Promise!Spec

\* The conjunction, which every step preserves.
IInv == /\ TypeOK /\ CountInv /\ ErrorInv /\ StopInv /\ AnswerInv /\ BusInv
        /\ GivesUpLate

\* Whatever reSetupI2CBus does meanwhile, an attempt finds the bus in a state
\* that isSuccessfullSetup tells: never between closeBus and openBus.
AttemptsSeeSettledBus ==
  [][m_shouldPrint /\ wpc = "attempt" /\ attempts' # attempts =>
       (open <=> m_setupSuccess)]_vars

\* A request that was not dropped is answered, however often it is retried
\* and the bus is reset meanwhile.
RequestAnswered == answer = "pending" ~> answer = "answered"
=============================================================================
