------------------------ MODULE I2CTransactionProofs ------------------------
(***************************************************************************)
(* What I2C_Interface does with a request, for transactions of any length  *)
(* and any number of retries, and however often the bus is reset.          *)
(***************************************************************************)
EXTENDS I2CTransaction, TLAPS

\* A transaction is a sequence of messages.
LEMMA TransactionsAreSeqs ==
  ASSUME NEW t \in Transactions
  PROVE  /\ Len(t) \in Nat /\ DOMAIN t = 1 .. Len(t)
         /\ \A i \in 1 .. Len(t) : t[i] \in Messages /\ t[i].retries \in Nat
<1>1. PICK n \in Nat : t \in [1 .. n -> Messages]
  BY BoundsAssumption DEF Transactions
<1>2. t \in Seq(Messages) /\ Len(t) = n
  BY <1>1
<1>3. \A m \in Messages : m.retries \in Nat
  BY BoundsAssumption DEF Messages
<1> QED
  BY <1>1, <1>2, <1>3

\* The empty transaction, which an idle worker has.
LEMMA NoMessages == <<>> \in Transactions /\ Len(<<>>) = 0
<1>1. <<>> \in [1 .. 0 -> Messages]
  OBVIOUS
<1> QED
  BY <1>1, BoundsAssumption DEF Transactions

LEMMA InitEstablishes == Init => IInv
<1> SUFFICES ASSUME Init PROVE IInv
  OBVIOUS
<1>1. TypeOK
  BY NoMessages, BoundsAssumption DEF Init, TypeOK
<1>2. CountInv /\ ErrorInv /\ StopInv /\ GivesUpLate
  BY NoMessages DEF Init, CountInv, ErrorInv, StopInv, GivesUpLate
<1>3. AnswerInv /\ BusInv
  BY NoMessages DEF Init, AnswerInv, BusInv, LockFree
<1> QED
  BY <1>1, <1>2, <1>3 DEF IInv

-----------------------------------------------------------------------------
(* The steps of the other thread, and those that leave the messages alone. *)

LEMMA StepReset ==
  ASSUME IInv, ResetClose \/ ResetFlag \/ ResetOpen
  PROVE  IInv'
<1>1. UNCHANGED <<m_shouldPrint, reqVars, workVars>>
  BY DEF ResetClose, ResetFlag, ResetOpen
<1>a. /\ open' \in BOOLEAN /\ m_setupSuccess' \in BOOLEAN
      /\ rpc' \in {"idle", "flag", "open"} /\ resets' \in 0 .. MaxResets
  <2>1. CASE ResetClose
    <3>1. m_setupSuccess' = m_setupSuccess /\ m_setupSuccess \in BOOLEAN
      BY <2>1 DEF ResetClose, IInv, TypeOK
    <3>2. open' \in BOOLEAN /\ rpc' = "flag"
      BY <2>1 DEF ResetClose
    <3>3. resets' \in 0 .. MaxResets
      BY <2>1, BoundsAssumption DEF ResetClose, IInv, TypeOK
    <3> QED
      BY <3>1, <3>2, <3>3
  <2>2. CASE ResetFlag
    BY <2>2 DEF IInv, TypeOK, ResetFlag
  <2>3. CASE ResetOpen
    BY <2>3 DEF IInv, TypeOK, ResetOpen, AfterOpen, SuccessAfterOpen
  <2> QED
    BY <2>1, <2>2, <2>3
<1>2. TypeOK'
  BY <1>1, <1>a DEF IInv, TypeOK, reqVars, workVars
<1>3. CountInv' /\ ErrorInv' /\ StopInv' /\ AnswerInv' /\ GivesUpLate'
  BY <1>1 DEF IInv, CountInv, ErrorInv, StopInv, AnswerInv, GivesUpLate,
     Begun, Left, reqVars, workVars
<1>4. BusInv'
  BY DEF IInv, TypeOK, BusInv, LockFree, ResetClose, ResetFlag, ResetOpen,
     AfterOpen, SuccessAfterOpen
<1> QED
  BY <1>2, <1>3, <1>4 DEF IInv

LEMMA StepQuiet ==
  ASSUME IInv, ProcessReturn \/ Drop \/ Answer
  PROVE  IInv'
<1>1. UNCHANGED <<busVars, tx, m_stopOnAnyTransactionFailure, messageIndex,
                  retryCount, outcome, attempts, transactionError>>
      /\ wpc # "attempt" /\ wpc' \in {"idle", "answered"}
  BY DEF ProcessReturn, Drop, Answer, reqVars, workVars
<1>2. TypeOK'
  BY <1>1 DEF IInv, TypeOK, busVars, ProcessReturn, Drop, Answer, reqVars
<1>3. CountInv' /\ ErrorInv' /\ StopInv' /\ GivesUpLate' /\ BusInv'
  BY <1>1 DEF IInv, CountInv, ErrorInv, StopInv, GivesUpLate, BusInv,
     LockFree, Begun, Left, busVars
<1>4. AnswerInv'
  <2>1. CASE Answer
    <3>1. /\ messageIndex' = Len(tx) + 1 /\ Len(tx') = Len(tx)
          /\ answer' = "answered" /\ wpc' = "answered"
      BY <1>1, <2>1, TransactionsAreSeqs DEF IInv, TypeOK, Answer
    <3> QED BY <3>1 DEF AnswerInv
  <2>2. CASE ProcessReturn \/ Drop
    BY <1>1, <2>2 DEF IInv, AnswerInv, ProcessReturn, Drop, reqVars, workVars
  <2> QED BY <2>1, <2>2
<1> QED
  BY <1>2, <1>3, <1>4 DEF IInv

LEMMA StepMessageReturn == ASSUME IInv, MessageReturn PROVE IInv'
<1>1. TypeOK'
  BY NoMessages DEF IInv, TypeOK, MessageReturn, busVars
<1>2. CountInv' /\ ErrorInv' /\ StopInv' /\ GivesUpLate'
  BY NoMessages DEF CountInv, ErrorInv, StopInv, GivesUpLate, MessageReturn
<1>3. AnswerInv' /\ BusInv'
  BY NoMessages DEF IInv, AnswerInv, BusInv, LockFree, MessageReturn, busVars
<1> QED
  BY <1>1, <1>2, <1>3 DEF IInv

LEMMA StepTakeRequest == ASSUME IInv, Process \/ ProcessMore PROVE IInv'
<1>1. /\ TakeRequest
      /\ messageIndex = 1 /\ transactionError = 0
  BY DEF IInv, AnswerInv, Process, ProcessMore
<1>2. PICK t \in Transactions, s \in BOOLEAN :
        /\ tx' = t /\ m_stopOnAnyTransactionFailure' = s
        /\ outcome' = [i \in 1 .. Len(t) |-> "none"]
        /\ attempts' = [i \in 1 .. Len(t) |-> 0]
  BY <1>1 DEF TakeRequest
<1>3. /\ answer' = "pending" /\ wpc' = "next"
      /\ UNCHANGED <<busVars, messageIndex, retryCount, transactionError>>
  BY <1>1 DEF TakeRequest
<1>4. Len(t) \in Nat /\ \A i \in 1 .. Len(t) : t[i].retries \in Nat
  BY TransactionsAreSeqs
<1>5. TypeOK'
  BY <1>1, <1>2, <1>3, <1>4 DEF IInv, TypeOK, busVars
<1>6. CountInv' /\ ErrorInv' /\ StopInv' /\ GivesUpLate'
  BY <1>1, <1>2, <1>3, <1>4 DEF CountInv, ErrorInv, StopInv, GivesUpLate,
     Begun, Left
<1>7. AnswerInv' /\ BusInv'
  BY <1>3 DEF IInv, AnswerInv, BusInv, LockFree, busVars
<1> QED
  BY <1>5, <1>6, <1>7 DEF IInv

LEMMA StepStartMessage == ASSUME IInv, StartMessage PROVE IInv'
<1>1. /\ Len(tx) \in Nat /\ tx[messageIndex].retries \in Nat
      /\ messageIndex \in 1 .. Len(tx)
  BY TransactionsAreSeqs DEF IInv, TypeOK, StartMessage
<1>2. TypeOK'
  BY <1>1 DEF IInv, TypeOK, StartMessage, busVars, reqVars
<1>3. CountInv'
  BY <1>1 DEF IInv, TypeOK, CountInv, Begun, StartMessage, reqVars
<1>4. ErrorInv'
  BY <1>1 DEF IInv, TypeOK, CountInv, ErrorInv, Begun, Left, StartMessage,
     reqVars
<1>5. StopInv'
  BY <1>1 DEF IInv, TypeOK, StopInv, Begun, StartMessage, reqVars
<1>6. AnswerInv' /\ BusInv'
  BY DEF IInv, AnswerInv, BusInv, LockFree, StartMessage, busVars, reqVars
<1>7. GivesUpLate'
  BY <1>1 DEF IInv, TypeOK, GivesUpLate, Begun, Left, StartMessage, reqVars
<1> QED
  BY <1>2, <1>3, <1>4, <1>5, <1>6, <1>7 DEF IInv

-----------------------------------------------------------------------------
(* An attempt that is followed by another, and one that is the last.       *)

LEMMA StepAttempt == ASSUME IInv, Attempt PROVE IInv'
<1>1. PICK o \in Outcomes(tx[messageIndex]) :
        /\ outcome' = [outcome EXCEPT ![messageIndex] = o]
        /\ attempts' = [attempts EXCEPT ![messageIndex] = @ + 1]
        /\ IF ~Settles(tx[messageIndex], o) /\ Retries(retryCount)
           THEN /\ retryCount' = retryCount - 1
                /\ UNCHANGED <<wpc, messageIndex, transactionError>>
           ELSE MessageDone(o)
  BY DEF Attempt
<1>2. /\ wpc = "attempt" /\ UNCHANGED <<busVars, reqVars>>
      /\ UNCHANGED <<tx, m_stopOnAnyTransactionFailure, answer>>
  BY DEF Attempt, reqVars
<1>3. /\ Len(tx) \in Nat /\ messageIndex \in 1 .. Len(tx)
      /\ \A i \in 1 .. Len(tx) : tx[i].retries \in Nat
  BY <1>2, TransactionsAreSeqs DEF IInv, TypeOK
<1>4. o \in {"error", "equal", "differ"}
  BY DEF Outcomes
<1>5. /\ outcome' \in [1 .. Len(tx) -> {"none", "error", "equal", "differ"}]
      /\ attempts' \in [1 .. Len(tx) -> Nat]
  BY <1>1, <1>3, <1>4 DEF IInv, TypeOK
<1>6. /\ outcome'[messageIndex] = o
      /\ attempts'[messageIndex] = attempts[messageIndex] + 1
      /\ \A i \in 1 .. Len(tx) : i # messageIndex =>
           outcome'[i] = outcome[i] /\ attempts'[i] = attempts[i]
      /\ \A i \in 1 .. Len(tx) : attempts[i] \in Nat
  BY <1>1, <1>3 DEF IInv, TypeOK
<1>7. attempts[messageIndex] + retryCount = tx[messageIndex].retries
      /\ retryCount \in Nat
  BY <1>2 DEF IInv, TypeOK, CountInv
<1>8. BusInv'
  BY <1>2 DEF IInv, BusInv, LockFree, busVars
<1>9. CASE ~Settles(tx[messageIndex], o) /\ Retries(retryCount)
  <2>1. /\ retryCount' = retryCount - 1 /\ retryCount > 0
        /\ UNCHANGED <<wpc, messageIndex, transactionError>>
    BY <1>1, <1>9 DEF Retries
  <2>2. TypeOK'
    BY <1>2, <1>3, <1>5, <1>7, <2>1 DEF IInv, TypeOK, busVars
  <2>3. CountInv'
    <3>1. ASSUME NEW i \in 1 .. Len(tx)
          PROVE  /\ i > messageIndex => ~(attempts'[i] > 0)
                 /\ ~(attempts'[i] > 0) <=> outcome'[i] = "none"
      <4>1. CASE i = messageIndex
        BY <4>1, <1>3, <1>4, <1>6
      <4>2. CASE i # messageIndex
        BY <4>2, <1>6 DEF IInv, CountInv, Begun
      <4> QED
        BY <4>1, <4>2
    <3>2. attempts'[messageIndex] + retryCount' = tx[messageIndex].retries
      BY <1>3, <1>6, <1>7, <2>1
    <3> QED
      BY <1>2, <2>1, <3>1, <3>2 DEF CountInv, Begun
  <2>4. ErrorInv'
    <3>1. \A i \in 1 .. Len(tx) : Left(i)' <=> Left(i)
      BY <1>2, <1>3, <1>6, <2>1 DEF Begun, Left
    <3>2. \A i \in 1 .. Len(tx) : Left(i) => outcome'[i] = outcome[i]
      BY <1>2, <1>6 DEF Left
    <3>3. /\ transactionError' = transactionError
          /\ transactionError # 0 => transactionError \in 1 .. Len(tx)
      BY <1>3, <2>1 DEF IInv, TypeOK
    <3>4. transactionError' # 0 => Left(transactionError)'
                                   /\ outcome'[transactionError'] = "error"
      <4>1. ASSUME transactionError # 0
            PROVE  /\ transactionError \in 1 .. Len(tx)
                   /\ Left(transactionError)
                   /\ outcome[transactionError] = "error"
        BY <4>1, <3>3 DEF IInv, ErrorInv
      <4>2. ASSUME transactionError # 0
            PROVE  /\ attempts'[transactionError] > 0
                   /\ transactionError # messageIndex
                   /\ outcome'[transactionError] = "error"
        BY <4>1, <4>2, <1>2, <1>6, <3>2 DEF Left, Begun
      <4> QED
        BY <4>2, <3>3, <2>1 DEF Left, Begun
    <3>5. \A i \in 1 .. Len(tx) : Left(i)' /\ outcome'[i] = "error"
                                    => i <= transactionError'
      BY <3>1, <3>2, <3>3 DEF IInv, ErrorInv
    <3> QED
      BY <3>4, <3>5, <1>2 DEF ErrorInv
  <2>5. StopInv' /\ AnswerInv'
    BY <1>2, <1>3, <1>6, <2>1 DEF IInv, StopInv, AnswerInv, Begun
  <2>6. GivesUpLate'
    <3>1. ASSUME NEW i \in 1 .. Len(tx)
          PROVE  /\ attempts'[i] <= tx[i].retries + 1
                 /\ i # messageIndex =>
                      attempts'[i] = attempts[i] /\ outcome'[i] = outcome[i]
      <4>1. CASE i = messageIndex
        BY <4>1, <1>3, <1>6, <1>7, <2>1
      <4>2. CASE i # messageIndex
        BY <4>2, <1>6 DEF IInv, GivesUpLate
      <4> QED
        BY <4>1, <4>2
    <3> QED
      BY <1>2, <2>1, <3>1 DEF IInv, GivesUpLate, Begun, Left
  <2> QED
    BY <1>8, <2>2, <2>3, <2>4, <2>5, <2>6 DEF IInv
<1>10. CASE ~(~Settles(tx[messageIndex], o) /\ Retries(retryCount))
  <2>1. /\ wpc' = "next" /\ UNCHANGED retryCount
        /\ transactionError' = ErrorAfter(o = "error")
        /\ messageIndex' = IF o = "error" /\ m_stopOnAnyTransactionFailure
                           THEN Len(tx) + 1 ELSE messageIndex + 1
    BY <1>1, <1>10 DEF MessageDone, StopsAtError
  <2>2. transactionError' = IF o = "error" THEN messageIndex
                            ELSE transactionError
    BY <2>1 DEF ErrorAfter
  <2>3. TypeOK'
    BY <1>2, <1>3, <1>5, <2>1, <2>2 DEF IInv, TypeOK, busVars
  <2>4. CountInv'
    BY <1>2, <1>3, <1>4, <1>6, <2>1 DEF IInv, CountInv, Begun
  <2>a. /\ transactionError \in 0 .. Len(tx)
        /\ \A i \in 1 .. Len(tx) : i > messageIndex => ~Begun(i)
        /\ transactionError # 0 => Left(transactionError)
                               /\ outcome[transactionError] = "error"
        /\ transactionError # 0 =>
             transactionError < messageIndex /\ ~m_stopOnAnyTransactionFailure
    BY <1>2, <1>3 DEF IInv, TypeOK, CountInv, ErrorInv, StopInv, Left
  <2>b. /\ attempts'[messageIndex] > 0
        /\ \A i \in 1 .. Len(tx) :
             i # messageIndex => (Begun(i)' <=> Begun(i))
    BY <1>3, <1>6 DEF Begun
  <2>5. ErrorInv'
    <3>1. transactionError' # 0 => /\ Left(transactionError)'
                                   /\ outcome'[transactionError'] = "error"
      <4>1. CASE o = "error"
        BY <4>1, <1>3, <1>6, <2>1, <2>2, <2>b DEF Left, Begun
      <4>2. CASE o # "error" /\ transactionError # 0
        <5>1. /\ transactionError' = transactionError
              /\ transactionError \in 1 .. Len(tx)
              /\ transactionError # messageIndex
          BY <4>2, <1>3, <2>2, <2>a
        <5>2. attempts'[transactionError] > 0
          BY <5>1, <4>2, <2>a, <2>b DEF Left, Begun
        <5> QED
          BY <5>1, <5>2, <4>2, <1>6, <2>1, <2>a DEF Left, Begun
      <4> QED
        BY <4>1, <4>2, <2>2
    <3>2. ASSUME NEW i \in 1 .. Len(tx), Left(i)', outcome'[i] = "error"
          PROVE  i <= transactionError'
      <4>1. CASE i = messageIndex
        BY <4>1, <3>2, <1>3, <1>6, <2>2
      <4>2. CASE i # messageIndex
        <5>1. Left(i) /\ outcome[i] = "error" /\ i < messageIndex
          BY <4>2, <3>2, <1>3, <1>6, <2>a, <2>b DEF Left
        <5>2. i <= transactionError
          BY <5>1 DEF IInv, ErrorInv
        <5> QED
          BY <5>1, <5>2, <1>3, <2>2
      <4> QED
        BY <4>1, <4>2
    <3> QED
      BY <3>1, <3>2, <1>2 DEF ErrorInv
  <2>6. StopInv'
    <3>1. \A i \in 1 .. Len(tx) : i < messageIndex => Begun(i)
      BY <2>a DEF IInv, StopInv
    <3>2. ASSUME transactionError' # 0, m_stopOnAnyTransactionFailure
          PROVE  /\ o = "error" /\ transactionError' = messageIndex
                 /\ messageIndex' = Len(tx) + 1
                 /\ \A i \in 1 .. Len(tx) : i > messageIndex => ~Begun(i)'
      BY <3>2, <1>3, <2>1, <2>2, <2>a, <2>b
    <3>3. ASSUME transactionError' = 0 \/ ~m_stopOnAnyTransactionFailure,
                 NEW i \in 1 .. Len(tx), i < messageIndex'
          PROVE  Begun(i)'
      <4>1. messageIndex' = messageIndex + 1
        BY <3>3, <1>3, <2>1, <2>2
      <4>2. i <= messageIndex
        BY <4>1, <3>3, <1>3
      <4>3. CASE i = messageIndex
        BY <4>3, <2>b DEF Begun
      <4>4. CASE i < messageIndex
        BY <4>4, <3>1, <1>3, <2>b
      <4> QED
        BY <4>2, <4>3, <4>4, <1>3
    <3> QED
      BY <3>2, <3>3, <1>2, <2>1 DEF StopInv
  <2>7. AnswerInv'
    BY <1>2, <2>1 DEF IInv, AnswerInv
  <2>8. o = "error" \/ (tx[messageIndex].type = "READ_COMPARE_EQUAL"
                         /\ o = "differ") => ~(retryCount > 0)
    BY <1>10 DEF Settles, Retries, Plain
  <2>9. GivesUpLate'
    <3>1. ASSUME NEW i \in 1 .. Len(tx)
          PROVE  /\ attempts'[i] <= tx[i].retries + 1
                 /\ Left(i)' /\ \/ outcome'[i] = "error"
                                \/ /\ tx[i].type = "READ_COMPARE_EQUAL"
                                   /\ outcome'[i] = "differ"
                      => attempts'[i] = tx[i].retries + 1
      <4>1. CASE i = messageIndex
        BY <4>1, <1>3, <1>6, <1>7, <2>8
      <4>2. CASE i # messageIndex
        <5>1. attempts'[i] = attempts[i] /\ outcome'[i] = outcome[i]
          BY <4>2, <1>6
        <5>2. Left(i)' => Left(i)
          BY <4>2, <2>b DEF Left
        <5> QED
          BY <5>1, <5>2 DEF IInv, GivesUpLate
      <4> QED
        BY <4>1, <4>2
    <3> QED
      BY <3>1, <1>2 DEF GivesUpLate
  <2> QED
    BY <1>8, <2>3, <2>4, <2>5, <2>6, <2>7, <2>9 DEF IInv
<1> QED
  BY <1>9, <1>10

LEMMA NextPreserves == IInv /\ [Next]_vars => IInv'
<1> SUFFICES ASSUME IInv, [Next]_vars PROVE IInv'
  OBVIOUS
<1>1. CASE UNCHANGED vars
  BY <1>1 DEF IInv, TypeOK, CountInv, ErrorInv, StopInv, AnswerInv, BusInv,
     GivesUpLate, LockFree, Begun, Left, vars, busVars, reqVars, workVars
<1> QED
  BY <1>1, StepReset, StepQuiet, StepMessageReturn, StepTakeRequest,
     StepStartMessage, StepAttempt DEF Next, ResetStep, WorkerStep

-----------------------------------------------------------------------------
(* The theorems.                                                           *)

\* The bookkeeping of indexes, retries, errors and answers in process and the
\* functions it calls is an inductive invariant.
THEOREM Invariance == Spec => []IInv
BY InitEstablishes, NextPreserves, PTL DEF Spec

\* No message is tried more than m_retryCount + 1 times, and none is given up
\* before that (performRead, performWrite, performCompareRead).
THEOREM RetriesAreUsed == Spec => []GivesUpLate
<1>1. IInv => GivesUpLate
  BY DEF IInv
<1> QED
  BY <1>1, Invariance, PTL

\* The error of an answered transaction is true of its messages
\* (processI2CTransaction).
THEOREM AnswersAreTrue == Spec => []AnswerIsTrue
<1>1. IInv => AnswerIsTrue
  <2> SUFFICES ASSUME IInv, wpc = "answered" PROVE AnswerIsTrue
    BY DEF AnswerIsTrue
  <2>1. /\ messageIndex = Len(tx) + 1 /\ Len(tx) \in Nat
        /\ DOMAIN tx = 1 .. Len(tx)
    BY TransactionsAreSeqs DEF IInv, TypeOK, AnswerInv
  <2>2. ASSUME transactionError = 0, NEW i \in 1 .. Len(tx)
        PROVE  Begun(i) /\ outcome[i] # "error"
    BY <2>1, <2>2 DEF IInv, StopInv, ErrorInv, Left
  <2>3. ASSUME transactionError # 0
        PROVE  /\ outcome[transactionError] = "error"
               /\ \A i \in 1 .. Len(tx) : i > transactionError =>
                    /\ outcome[i] # "error"
                    /\ m_stopOnAnyTransactionFailure <=> ~Begun(i)
    BY <2>1, <2>3 DEF IInv, TypeOK, StopInv, ErrorInv, CountInv, Left
  <2> QED
    BY <2>1, <2>2, <2>3 DEF AnswerIsTrue
<1> QED
  BY <1>1, Invariance, PTL

\* With m_shouldPrint no attempt falls between closeBus and openBus of
\* reSetupI2CBus, and m_setupSuccess tells what it will find.
THEOREM ResetsAreAtomic == Spec => AttemptsSeeSettledBus
<1>1. IInv /\ [Next]_vars =>
        [m_shouldPrint /\ wpc = "attempt" /\ attempts' # attempts =>
           (open <=> m_setupSuccess)]_vars
  <2> SUFFICES ASSUME IInv, Next, m_shouldPrint, wpc = "attempt",
                      attempts' # attempts
               PROVE  open <=> m_setupSuccess
    BY DEF vars, workVars
  <2>1. Attempt
    BY DEF Next, ResetClose, ResetStep, ResetFlag, ResetOpen, Process,
       ProcessMore, ProcessReturn, Drop, WorkerStep, StartMessage, Answer,
       MessageReturn, workVars
  <2> QED
    BY <2>1 DEF IInv, BusInv, Attempt, MayUseBus
<1> QED
  BY <1>1, Invariance, PTL DEF Spec, AttemptsSeeSettledBus

-----------------------------------------------------------------------------
(* I2C_Interface keeps the promise of Exchange: the last attempt at a      *)
(* message is Perform, and every other attempt, the start of a message and *)
(* all of reSetupI2CBus are stutters.                                      *)

\* A sequence that goes on for one element is an Append.
LEMMA OneMore ==
  ASSUME NEW S, NEW n \in Nat, NEW f \in [1 .. n -> S],
         NEW g \in [1 .. n + 1 -> S], \A i \in 1 .. n : g[i] = f[i]
  PROVE  g = Append(f, g[n + 1])
<1>1. f \in Seq(S) /\ Len(f) = n /\ g[n + 1] \in S
  OBVIOUS
<1>2. /\ Append(f, g[n + 1]) \in Seq(S)
      /\ Len(Append(f, g[n + 1])) = n + 1
  BY <1>1
<1>3. DOMAIN Append(f, g[n + 1]) = 1 .. n + 1
  BY <1>2
<1>4. ASSUME NEW i \in 1 .. n + 1
      PROVE  Append(f, g[n + 1])[i] = g[i]
  <2>1. CASE i \in 1 .. n
    BY <1>1, <2>1
  <2>2. CASE i = n + 1
    BY <1>1, <2>2
  <2> QED BY <2>1, <2>2
<1>5. Append(f, g[n + 1]) = [i \in 1 .. n + 1 |-> Append(f, g[n + 1])[i]]
  BY <1>2, <1>3
<1> QED BY <1>3, <1>4, <1>5

\* Nothing done, nothing in the log.
LEMMA NoResults == Done = 0 => Results = <<>>
<1> SUFFICES ASSUME Done = 0 PROVE Results = <<>>
  OBVIOUS
<1>1. Results = [i \in 1 .. 0 |->
                   IF outcome[i] = "error" THEN "failed" ELSE "ok"]
  BY DEF Results
<1> QED BY <1>1

\* The results are those of the messages up to Done.
LEMMA ResultsAre ==
  ASSUME IInv
  PROVE  /\ Len(tx) \in Nat /\ Done \in 0 .. Len(tx)
         /\ Results \in [1 .. Done -> {"ok", "failed"}]
         /\ Results \in Seq({"ok", "failed"}) /\ Len(Results) = Done
         /\ \A i \in 1 .. Done : Results[i] = IF outcome[i] = "error"
                                            THEN "failed" ELSE "ok"
<1>1. Len(tx) \in Nat /\ messageIndex \in 1 .. Len(tx) + 1
      /\ transactionError \in 0 .. Len(tx)
  BY TransactionsAreSeqs DEF IInv, TypeOK
<1>2. Done \in 0 .. Len(tx)
  BY <1>1 DEF Done
<1>3. Results \in [1 .. Done -> {"ok", "failed"}]
  BY DEF Results
<1>4. Results \in Seq({"ok", "failed"}) /\ Len(Results) = Done
  BY <1>2, <1>3
<1> QED BY <1>1, <1>2, <1>3, <1>4 DEF Results

\* All steps but the worker's own leave what the client sees.
LEMMA ResetsStutter ==
  ASSUME ResetClose \/ ResetStep \/ ProcessReturn \/ UNCHANGED vars, IInv
  PROVE  UNCHANGED Promise!vars
<1>1. UNCHANGED <<answer, tx, m_stopOnAnyTransactionFailure, messageIndex,
                  outcome, transactionError>>
  BY DEF ResetClose, ResetStep, ResetFlag, ResetOpen, ProcessReturn, vars,
         reqVars, workVars
<1>2. wpc' = wpc \/ (wpc # "answered" /\ wpc' # "answered")
  BY DEF ResetClose, ResetStep, ResetFlag, ResetOpen, ProcessReturn, vars,
         workVars
<1>3. Results' = Results
  BY <1>1 DEF Results, Done
<1> QED BY <1>1, <1>2, <1>3 DEF Promise!vars

LEMMA TakeAccepts ==
  ASSUME IInv, Process \/ ProcessMore
  PROVE  Promise!Accept
<1>1. /\ TakeRequest /\ wpc \in {"idle", "more"} /\ wpc' = "next"
      /\ answer # "pending" /\ answer' = "pending"
  BY DEF IInv, AnswerInv, Process, ProcessMore, TakeRequest
<1>2. /\ messageIndex = 1 /\ transactionError = 0
      /\ messageIndex' = 1 /\ transactionError' = 0
  BY <1>1 DEF IInv, AnswerInv, TakeRequest
<1>3. Done = 0 /\ Done' = 0
  BY <1>2 DEF Done
<1>4. Results = <<>>
  BY <1>3, NoResults
<1>5. Results' = <<>>
  <2>1. Results' = [i \in 1 .. 0 |->
                      IF outcome'[i] = "error" THEN "failed" ELSE "ok"]
    BY <1>3 DEF Results
  <2> QED BY <2>1
<1>6. Len(tx)' \in Nat /\ m_stopOnAnyTransactionFailure' \in BOOLEAN
  <2>1. PICK t \in Transactions : tx' = t
    BY <1>1 DEF TakeRequest
  <2> QED BY <1>1, <2>1, TransactionsAreSeqs DEF TakeRequest
<1> QED BY <1>1, <1>4, <1>5, <1>6 DEF Promise!Accept

LEMMA DropRefuses ==
  ASSUME IInv, Drop
  PROVE  Promise!Refuse
<1>1. /\ wpc = "idle" /\ answer # "pending" /\ answer' = "dropped"
      /\ messageIndex = 1 /\ transactionError = 0
      /\ UNCHANGED <<tx, m_stopOnAnyTransactionFailure, wpc, messageIndex,
                     outcome, transactionError>>
  BY DEF IInv, AnswerInv, Drop, workVars
<1>2. Results = <<>>
  BY <1>1, NoResults DEF Done
<1>3. Results' = Results
  BY <1>1 DEF Results, Done
<1> QED BY <1>1, <1>2, <1>3 DEF Promise!Refuse

LEMMA StartStutters ==
  ASSUME IInv, StartMessage
  PROVE  UNCHANGED Promise!vars
<1>1. /\ wpc # "answered" /\ wpc' # "answered"
      /\ UNCHANGED <<answer, tx, m_stopOnAnyTransactionFailure, messageIndex,
                     outcome, transactionError>>
  BY DEF StartMessage, reqVars
<1>2. Results' = Results
  BY <1>1 DEF Results, Done
<1> QED BY <1>1, <1>2 DEF Promise!vars

\* A retry changes the outcome of a message that is not in the log yet; the
\* last attempt puts it there.
LEMMA AttemptPerforms ==
  ASSUME IInv, Attempt
  PROVE  \/ \E result \in {"ok", "failed"} : Promise!Perform(result)
         \/ UNCHANGED Promise!vars
<1>1. PICK o \in Outcomes(tx[messageIndex]) :
        /\ outcome' = [outcome EXCEPT ![messageIndex] = o]
        /\ IF ~Settles(tx[messageIndex], o) /\ Retries(retryCount)
           THEN UNCHANGED <<wpc, messageIndex, transactionError>>
           ELSE MessageDone(o)
  BY DEF Attempt
<1>2. /\ wpc = "attempt" /\ answer = "pending"
      /\ UNCHANGED <<tx, m_stopOnAnyTransactionFailure, answer>>
      /\ Len(tx) \in Nat /\ messageIndex \in 1 .. Len(tx)
      /\ ~(transactionError # 0 /\ m_stopOnAnyTransactionFailure)
  BY TransactionsAreSeqs
     DEF Attempt, reqVars, IInv, TypeOK, AnswerInv, StopInv
<1>3. Done = messageIndex - 1
  BY <1>2 DEF Done
<1>4. /\ outcome'[messageIndex] = o
      /\ \A i \in 1 .. Done : outcome'[i] = outcome[i]
  BY <1>1, <1>2, <1>3 DEF IInv, TypeOK
<1>5. CASE ~Settles(tx[messageIndex], o) /\ Retries(retryCount)
  <2>1. UNCHANGED <<wpc, messageIndex, transactionError>>
    BY <1>1, <1>5
  <2>2. Done' = Done
    BY <1>2, <2>1 DEF Done
  <2>3. Results' = Results
    BY <1>4, <2>2 DEF Results
  <2> QED BY <1>2, <2>1, <2>3 DEF Promise!vars
<1>6. CASE ~(~Settles(tx[messageIndex], o) /\ Retries(retryCount))
  <2>1. /\ wpc' = "next"
        /\ transactionError' = IF o = "error" THEN messageIndex
                               ELSE transactionError
        /\ messageIndex' = IF o = "error" /\ m_stopOnAnyTransactionFailure
                           THEN Len(tx) + 1 ELSE messageIndex + 1
    BY <1>1, <1>6 DEF MessageDone, ErrorAfter, StopsAtError
  <2>2. Done' = Done + 1
    BY <1>2, <1>3, <2>1 DEF Done
  <2>3. /\ Results \in [1 .. Done -> {"ok", "failed"}]
        /\ Results' \in [1 .. Done + 1 -> {"ok", "failed"}]
        /\ \A i \in 1 .. Done : Results'[i] = Results[i]
    BY <1>2, <1>3, <1>4, <2>2 DEF Results
  <2>4. PICK r \in {"ok", "failed"} : r = Results'[Done + 1]
    BY <1>2, <1>3, <2>3
  <2>5. Results' = Append(Results, r)
    <3>1. Done \in Nat
      BY <1>2, <1>3
    <3> QED BY <2>3, <2>4, <3>1, OneMore
  <2>6. ~Promise!Complete
    <3>1. Len(Results) = Done /\ Done # Len(tx)
      BY <1>2, <1>3, ResultsAre
    <3>2. ASSUME m_stopOnAnyTransactionFailure, Results # <<>>,
                 Results[Len(Results)] = "failed"
          PROVE  FALSE
      <4>1. Done \in 1 .. Len(tx) /\ transactionError = 0
        BY <1>2, <1>3, <3>2, NoResults
      <4>2. outcome[Done] = "error"
        BY <3>1, <3>2, <4>1, ResultsAre
      <4>3. Left(Done)
        BY <1>3, <4>1, <4>2 DEF IInv, CountInv, Left
      <4> QED BY <4>1, <4>2, <4>3 DEF IInv, ErrorInv
    <3> QED BY <3>1, <3>2 DEF Promise!Complete
  <2> QED BY <1>2, <2>1, <2>5, <2>6 DEF Promise!Perform
<1> QED BY <1>5, <1>6

\* The error that was kept along the way is the one a look back would find.
LEMMA AnswerReplies ==
  ASSUME IInv, Answer
  PROVE  Promise!Reply
<1>1. /\ wpc = "next" /\ answer = "pending" /\ wpc' = "answered"
      /\ answer' = "answered"
      /\ UNCHANGED <<tx, m_stopOnAnyTransactionFailure, messageIndex, outcome,
                     transactionError>>
  BY DEF Answer, IInv, AnswerInv
<1>2. /\ Len(tx) \in Nat /\ messageIndex = Len(tx) + 1
      /\ transactionError \in 0 .. Len(tx)
  BY TransactionsAreSeqs DEF Answer, IInv, TypeOK
<1>3. Results' = Results
  BY <1>1 DEF Results, Done
<1>4. transactionError <= Done
  BY <1>2 DEF Done
<1>5. transactionError # 0 =>
        Results[transactionError] = "failed"
  BY <1>2, <1>4, ResultsAre DEF IInv, ErrorInv
<1>6. Promise!Complete
  <2>1. CASE transactionError # 0 /\ m_stopOnAnyTransactionFailure
    <3>1. Len(Results) = transactionError
      BY <2>1, ResultsAre DEF Done
    <3>2. Results # <<>>
      BY <1>2, <2>1, <3>1
    <3> QED BY <1>5, <2>1, <3>1, <3>2 DEF Promise!Complete
  <2>2. CASE ~(transactionError # 0 /\ m_stopOnAnyTransactionFailure)
    <3>1. Len(Results) = Len(tx)
      BY <1>2, <2>2, ResultsAre DEF Done
    <3> QED BY <3>1 DEF Promise!Complete
  <2> QED BY <2>1, <2>2
<1>7. Promise!IsLastFailure(transactionError)
  <2>1. ASSUME NEW j \in transactionError + 1 .. Len(Results)
        PROVE  Results[j] = "ok"
    <3>1. j \in 1 .. Done /\ j \in 1 .. Len(tx) /\ j > transactionError
      BY <1>2, <2>1, ResultsAre
    <3>2. outcome[j] # "error"
      <4>1. ASSUME outcome[j] = "error" PROVE Left(j)
        BY <1>1, <3>1, <4>1 DEF IInv, CountInv, Left
      <4>2. Left(j) /\ outcome[j] = "error" => j <= transactionError
        BY <3>1 DEF IInv, ErrorInv
      <4> QED BY <1>2, <3>1, <4>1, <4>2
    <3> QED BY <3>1, <3>2, ResultsAre
  <2> QED BY <1>2, <1>4, <1>5, <2>1, ResultsAre DEF Promise!IsLastFailure
<1> QED BY <1>1, <1>3, <1>6, <1>7 DEF Promise!Reply, Promise!IsLastFailure

LEMMA ReturnForgets ==
  ASSUME IInv, MessageReturn
  PROVE  Promise!Forget
<1>1. /\ wpc = "answered" /\ wpc' = "more" /\ answer' = answer
      /\ tx' = <<>> /\ messageIndex' = 1 /\ transactionError' = 0
      /\ m_stopOnAnyTransactionFailure' = TRUE
  BY DEF MessageReturn
<1>2. answer = "answered"
  BY <1>1 DEF IInv, AnswerInv
<1>3. Results' = <<>>
  <2>1. Results' = [i \in 1 .. 0 |->
                      IF outcome'[i] = "error" THEN "failed" ELSE "ok"]
    BY <1>1 DEF Results, Done
  <2> QED BY <2>1
<1> QED BY <1>1, <1>2, <1>3 DEF Promise!Forget

\* The whole of process, with its loops, retries and the concurrent resets,
\* implements the exchange of a request and its answer.
THEOREM ImplementsExchange == Spec => KeepsPromise
<1>1. Init => Promise!Init
  <2> SUFFICES ASSUME Init PROVE Promise!Init
    OBVIOUS
  <2>1. Done = 0 /\ Len(tx) = 0
    BY DEF Init, Done
  <2> QED BY <2>1, NoResults DEF Init, Promise!Init
<1>2. IInv /\ [Next]_vars => [Promise!Next]_(Promise!vars)
  BY ResetsStutter, TakeAccepts, DropRefuses, StartStutters, AttemptPerforms,
     AnswerReplies, ReturnForgets DEF Next, WorkerStep, Promise!Next
<1> QED BY <1>1, <1>2, Invariance, PTL DEF Spec, KeepsPromise, Promise!Spec

-----------------------------------------------------------------------------
(* Why a request is answered, as far as it is a matter of single steps.    *)

\* What the worker has still to do, in the order of its importance: messages,
\* the start of the one at hand, its retries.
MessagesLeft == Len(tx) + 1 - messageIndex
StartsLeft == IF wpc = "next" THEN 1 ELSE 0

Descends ==
  \/ MessagesLeft' < MessagesLeft
  \/ MessagesLeft' = MessagesLeft /\ StartsLeft' < StartsLeft
  \/ /\ MessagesLeft' = MessagesLeft /\ StartsLeft' = StartsLeft
     /\ retryCount' < retryCount

\* While a request is pending, a step of the worker answers it or leaves less
\* to do, nobody else's leaves more, and a bus that is being reset, all the
\* worker waits for, has no more than MaxResets calls of it to come.
THEOREM WorkDescends ==
  Spec => [][answer = "pending" =>
               /\ MessagesLeft \in Nat /\ retryCount \in Nat
               /\ WorkerStep => answer' = "answered" \/ Descends
               /\ ~WorkerStep => UNCHANGED <<answer, MessagesLeft, StartsLeft,
                                             retryCount>>
               /\ resets' \in resets .. MaxResets]_vars
<1>1. ASSUME IInv, answer = "pending"
      PROVE  /\ wpc \in {"next", "attempt"} /\ Len(tx) \in Nat
             /\ messageIndex \in 1 .. Len(tx) + 1
             /\ wpc = "attempt" => messageIndex \in 1 .. Len(tx)
             /\ MessagesLeft \in Nat /\ retryCount \in Nat
             /\ resets \in 0 .. MaxResets
  <2>1. /\ wpc \in {"next", "attempt"} /\ Len(tx) \in Nat
        /\ messageIndex \in 1 .. Len(tx) + 1
        /\ wpc = "attempt" => messageIndex \in 1 .. Len(tx)
        /\ retryCount \in Nat /\ resets \in 0 .. MaxResets
    BY <1>1, TransactionsAreSeqs DEF IInv, TypeOK, AnswerInv
  <2> QED BY <2>1 DEF MessagesLeft
<1>2. ASSUME IInv, answer = "pending", WorkerStep
      PROVE  answer' = "answered" \/ Descends
  <2>1. CASE StartMessage
    BY <1>1, <1>2, <2>1 DEF StartMessage, reqVars, Descends, MessagesLeft,
                            StartsLeft
  <2>2. CASE Attempt
    <3>1. PICK o : IF ~Settles(tx[messageIndex], o) /\ Retries(retryCount)
                   THEN /\ retryCount' = retryCount - 1
                        /\ UNCHANGED <<wpc, messageIndex, transactionError>>
                   ELSE MessageDone(o)
      BY <2>2 DEF Attempt
    <3>2. wpc = "attempt" /\ Len(tx)' = Len(tx)
      BY <2>2 DEF Attempt, reqVars
    <3>3. CASE MessageDone(o)
      <4>1. messageIndex' \in messageIndex + 1 .. Len(tx) + 1
        BY <1>1, <1>2, <3>2, <3>3 DEF MessageDone
      <4> QED BY <1>1, <1>2, <3>2, <4>1 DEF Descends, MessagesLeft
    <3>4. CASE ~MessageDone(o)
      BY <1>1, <1>2, <3>1, <3>2, <3>4 DEF Descends, MessagesLeft, StartsLeft
    <3> QED BY <3>3, <3>4
  <2>3. CASE Answer \/ MessageReturn
    BY <1>1, <1>2, <2>3 DEF Answer, MessageReturn
  <2> QED BY <1>2, <2>1, <2>2, <2>3 DEF WorkerStep
<1>3. ASSUME IInv, answer = "pending", [Next]_vars, ~WorkerStep
      PROVE  UNCHANGED <<answer, MessagesLeft, StartsLeft, retryCount>>
  <2>1. UNCHANGED <<reqVars, workVars>>
    BY <1>1, <1>3 DEF Next, ResetClose, ResetStep, ResetFlag, ResetOpen, Process,
       ProcessMore, ProcessReturn, Drop, vars
  <2> QED BY <2>1 DEF reqVars, workVars, MessagesLeft, StartsLeft
<1>4. ASSUME IInv, answer = "pending", [Next]_vars
      PROVE  resets' \in resets .. MaxResets
  <2>1. resets' = resets \/ (resets' = resets + 1 /\ resets < MaxResets)
    BY <1>4 DEF Next, ResetClose, ResetStep, ResetFlag, ResetOpen, Process,
       ProcessMore, ProcessReturn, Drop, TakeRequest, WorkerStep, StartMessage,
       Attempt, Answer, MessageReturn, vars, busVars
  <2> QED BY <1>1, <1>4, <2>1, BoundsAssumption
<1> QED BY <1>1, <1>2, <1>3, <1>4, Invariance, PTL DEF Spec
=============================================================================
