------------------------------ MODULE PWMProofs ------------------------------
(***************************************************************************)
(* What PWM's members promise of the kernel's state, for all periods, duty *)
(* cycles and percentages, whatever the kernel refuses and whenever the    *)
(* process dies.  In every lemma about a step, <1>11 to <1>16 are the      *)
(* conjuncts of IInv after it.                                             *)
(***************************************************************************)
EXTENDS PWM, TLAPS

LEMMA WriteType ==
  ASSUME TypeOK, NEW value \in Nat,
         NEW file \in {"period", "duty_cycle", "enable"}, NEW ok \in BOOLEAN,
         updatePWMParams(value, file, ok)
  PROVE  /\ exported' = exported /\ enabled' \in BOOLEAN
         /\ hwPeriod' \in Nat /\ hwDuty' \in Nat
         /\ ok => exported
         /\ ~ok => enabled' = enabled
         /\ ~ok => hwPeriod' = hwPeriod
         /\ file # "enable" => enabled' = enabled
         /\ file = "enable" /\ ok => enabled' = (value = 1)
         /\ file # "period" => hwPeriod' = hwPeriod
         /\ file = "period" /\ ok => hwPeriod' = value
  BY DEF updatePWMParams, TypeOK, Numbers, Flags

LEMMA ToggleType ==
  ASSUME TypeOK, NEW to \in BOOLEAN, NEW file, NEW ok \in BOOLEAN,
         Toggle(to, file, ok)
  PROVE  /\ exported' \in BOOLEAN
         /\ enabled' = enabled /\ hwPeriod' = hwPeriod /\ hwDuty' = hwDuty
         /\ ok => exported' = to
         /\ ~ok /\ "lag" \notin faults => exported' = exported
  BY DEF Toggle, TypeOK, Flags, fileVars

LEMMA Initial == Init => IInv
<1> SUFFICES ASSUME Init PROVE IInv
  OBVIOUS
<1>1. Numbers
  BY DEF Init, Numbers
<1>2. Flags
  BY DEF Init, Flags
<1>3. Places
  BY DEF Init, Places, Calls, Stages, SetupStages
<1>4. RunningIsReal /\ SetupIsReal /\ SetupReady /\ Busy
  BY DEF Init, RunningIsReal, SetupIsReal, SetupReady, Busy, SetupStages
<1> QED
  BY <1>1, <1>2, <1>3, <1>4 DEF IInv, TypeOK

LEMMA StepSetup ==
  ASSUME IInv, UNCHANGED faults, NEW p \in Nat, NEW d \in Nat, Setup(p, d)
  PROVE  IInv'
<1>11. Numbers'
  BY DEF IInv, TypeOK, Numbers, Setup, StopsFirst, AfterStop, flagVars,
     fileVars
<1>12. Flags'
  BY DEF IInv, TypeOK, Flags, Setup, StopsFirst, AfterStop, flagVars,
     fileVars
<1>13. Places'
  BY DEF IInv, TypeOK, Flags, Places, Calls, Stages, SetupStages, Setup,
     StopsFirst, AfterStop, flagVars, fileVars
<1>14. RunningIsReal'
  BY DEF IInv, TypeOK, Flags, RunningIsReal, Setup, StopsFirst, AfterStop,
     flagVars, fileVars
<1>15. SetupIsReal' /\ SetupReady'
  BY DEF IInv, TypeOK, Flags, SetupIsReal, SetupReady, Busy, Setup,
     StopsFirst, AfterStop, flagVars, fileVars
<1>16. Busy'
  BY DEF IInv, TypeOK, Flags, Busy, SetupStages, Setup, StopsFirst,
     AfterStop, flagVars, fileVars
<1> QED
  BY <1>11, <1>12, <1>13, <1>14, <1>15, <1>16 DEF IInv, TypeOK

LEMMA StepSetupStop ==
  ASSUME IInv, UNCHANGED faults, NEW ok \in BOOLEAN, SetupStop(ok)
  PROVE  IInv'
<1>1. updatePWMParams(0, "enable", ok) /\ TypeOK
  BY DEF IInv, SetupStop
<1>2. /\ exported' = exported /\ enabled' \in BOOLEAN
      /\ hwPeriod' = hwPeriod /\ hwPeriod' \in Nat /\ hwDuty' \in Nat
      /\ ~ok => enabled' = enabled
  BY <1>1, WriteType
<1>11. Numbers'
  BY <1>2 DEF IInv, TypeOK, Numbers, SetupStop, RunningAfterStop,
     SetupAfterFailure, AfterStop, Goto, shadowVars
<1>12. Flags'
  BY <1>2 DEF IInv, TypeOK, Flags, SetupStop, RunningAfterStop,
     SetupAfterFailure, AfterStop, Goto, shadowVars
<1>13. Places'
  BY <1>2 DEF IInv, TypeOK, Flags, Places, Calls, Stages, SetupStages,
     SetupStop, RunningAfterStop, SetupAfterFailure, AfterStop, Goto,
     shadowVars
<1>14. RunningIsReal'
  <2>1. m_isPWMRunning' => ~ok
    BY DEF SetupStop, RunningAfterStop
  <2>2. RunningIsReal /\ m_isPWMRunning
    BY DEF IInv, Busy, SetupStop
  <2> QED
    BY <1>2, <2>1, <2>2 DEF RunningIsReal
<1>15. SetupIsReal' /\ SetupReady'
  BY <1>2 DEF IInv, TypeOK, Flags, SetupIsReal, SetupReady, Busy, SetupStop,
     RunningAfterStop, SetupAfterFailure, AfterStop, Goto, shadowVars
<1>16. Busy'
  BY <1>2 DEF IInv, TypeOK, Flags, Busy, SetupStages, SetupStop,
     RunningAfterStop, SetupAfterFailure, AfterStop, Goto, shadowVars
<1> QED
  BY <1>11, <1>12, <1>13, <1>14, <1>15, <1>16 DEF IInv, TypeOK

LEMMA StepSetupStep ==
  ASSUME IInv, UNCHANGED faults, NEW ok \in BOOLEAN, SetupStep(ok)
  PROVE  IInv'
<1>1. TypeOK /\ pc \in SetupStages
  BY DEF IInv, SetupStep
<1>2. /\ exported' \in BOOLEAN /\ enabled' = enabled
      /\ hwPeriod' \in Nat /\ hwDuty' \in Nat
  BY <1>1, WriteType, ToggleType
     DEF SetupStep, SetupWrite, Export, TypeOK, Numbers, Flags
<1>3. /\ pc = "period" /\ ok => hwPeriod' = m_nSecPeriod
      /\ pc = "duty" => hwPeriod' = hwPeriod /\ exported' = exported
      /\ pc = "duty" /\ ok => exported
  BY <1>1, WriteType DEF SetupStep, SetupWrite, TypeOK, Numbers
<1>4. /\ pc # "duty" => NextStage[pc] \in SetupStages
      /\ pc # "duty" /\ NextStage[pc] = "duty" => pc = "period"
  BY <1>1 DEF NextStage, SetupStages
<1>11. Numbers'
  BY <1>1, <1>2, <1>3, <1>4 DEF IInv, TypeOK, Numbers, SetupStep,
     SetupAfterFailure, Goto, Return, shadowVars
<1>12. Flags'
  BY <1>1, <1>2, <1>3, <1>4 DEF IInv, TypeOK, Flags, SetupStep,
     SetupAfterFailure, Goto, Return, shadowVars
<1>13. Places'
  BY <1>1, <1>2, <1>3, <1>4 DEF IInv, TypeOK, Flags, Places, Calls, Stages,
     SetupStages, SetupStep, SetupAfterFailure, Goto, Return,
     shadowVars
<1>14. RunningIsReal'
  BY <1>1, <1>2, <1>3, <1>4 DEF IInv, TypeOK, Flags, RunningIsReal, SetupStep,
     SetupAfterFailure, Goto, Return, shadowVars
<1>15. SetupIsReal' /\ SetupReady'
  BY <1>1, <1>2, <1>3, <1>4 DEF IInv, TypeOK, Flags, SetupIsReal, SetupReady,
     Busy, SetupStep, SetupAfterFailure, Goto, Return, shadowVars
<1>16. Busy'
  BY <1>1, <1>2, <1>3, <1>4 DEF IInv, TypeOK, Flags, Busy, SetupStages,
     SetupStep, SetupAfterFailure, Goto, Return, shadowVars
<1> QED
  BY <1>11, <1>12, <1>13, <1>14, <1>15, <1>16 DEF IInv, TypeOK

LEMMA StepSetupUnExport ==
  ASSUME IInv, UNCHANGED faults, NEW ok \in BOOLEAN, SetupUnExport(ok)
  PROVE  IInv'
<1>1. Toggle(FALSE, "unexport", ok) /\ TypeOK
  BY DEF IInv, SetupUnExport, UnExport
<1>2. /\ exported' \in BOOLEAN /\ (exported' => exported)
      /\ enabled' = enabled /\ hwPeriod' = hwPeriod /\ hwDuty' = hwDuty
      /\ ok => exported' = FALSE
      /\ ~ok /\ "lag" \notin faults => exported' = exported
  BY <1>1, ToggleType DEF Toggle, TypeOK, Flags
<1>11. Numbers'
  BY <1>2 DEF IInv, TypeOK, Numbers, SetupUnExport, Return, shadowVars,
     flagVars
<1>12. Flags'
  BY <1>2 DEF IInv, TypeOK, Flags, SetupUnExport, Return, shadowVars,
     flagVars
<1>13. Places'
  BY <1>2 DEF IInv, TypeOK, Flags, Places, Calls, Stages, SetupStages,
     SetupUnExport, Return, shadowVars, flagVars
<1>14. RunningIsReal'
  BY <1>2 DEF IInv, TypeOK, Flags, RunningIsReal, SetupUnExport, Return,
     shadowVars, flagVars
<1>15. SetupIsReal' /\ SetupReady'
  BY <1>2 DEF IInv, TypeOK, Flags, SetupIsReal, SetupReady, Busy,
     SetupUnExport, Return, shadowVars, flagVars
<1>16. Busy'
  BY <1>2 DEF IInv, TypeOK, Flags, Busy, SetupStages, SetupUnExport, Return,
     shadowVars, flagVars
<1> QED
  BY <1>11, <1>12, <1>13, <1>14, <1>15, <1>16 DEF IInv, TypeOK

LEMMA StepDestroyUnExport ==
  ASSUME IInv, UNCHANGED faults, NEW ok \in BOOLEAN, DestroyUnExport(ok)
  PROVE  IInv'
<1>1. Toggle(FALSE, "unexport", ok) /\ TypeOK
  BY DEF IInv, DestroyUnExport, UnExport
<1>2. /\ exported' \in BOOLEAN /\ (exported' => exported)
      /\ enabled' = enabled /\ hwPeriod' = hwPeriod /\ hwDuty' = hwDuty
      /\ ok => exported' = FALSE
      /\ ~ok /\ "lag" \notin faults => exported' = exported
  BY <1>1, ToggleType DEF Toggle, TypeOK, Flags
<1>11. Numbers'
  BY <1>2 DEF IInv, TypeOK, Numbers, DestroyUnExport, Return, shadowVars,
     flagVars
<1>12. Flags'
  BY <1>2 DEF IInv, TypeOK, Flags, DestroyUnExport, Return, shadowVars,
     flagVars
<1>13. Places'
  BY <1>2 DEF IInv, TypeOK, Flags, Places, Calls, Stages, SetupStages,
     DestroyUnExport, Return, shadowVars, flagVars
<1>14. RunningIsReal'
  BY <1>2 DEF IInv, TypeOK, Flags, RunningIsReal, DestroyUnExport, Return,
     shadowVars, flagVars
<1>15. SetupIsReal' /\ SetupReady'
  BY <1>2 DEF IInv, TypeOK, Flags, SetupIsReal, SetupReady, Busy,
     DestroyUnExport, Return, shadowVars, flagVars
<1>16. Busy'
  BY <1>2 DEF IInv, TypeOK, Flags, Busy, SetupStages, DestroyUnExport,
     Return, shadowVars, flagVars
<1> QED
  BY <1>11, <1>12, <1>13, <1>14, <1>15, <1>16 DEF IInv, TypeOK

LEMMA StepDestroy ==
  ASSUME IInv, UNCHANGED faults, Destroy
  PROVE  IInv'
<1>11. Numbers'
  BY DEF IInv, TypeOK, Numbers, Destroy, StopsFirst, Return, shadowVars,
     fileVars
<1>12. Flags'
  BY DEF IInv, TypeOK, Flags, Destroy, StopsFirst, Return, shadowVars,
     fileVars
<1>13. Places'
  BY DEF IInv, TypeOK, Flags, Places, Calls, Stages, SetupStages, Destroy,
     StopsFirst, Return, shadowVars, fileVars
<1>14. RunningIsReal'
  BY DEF IInv, TypeOK, Flags, RunningIsReal, Destroy, StopsFirst, Return,
     shadowVars, fileVars
<1>15. SetupIsReal' /\ SetupReady'
  BY DEF IInv, TypeOK, Flags, SetupIsReal, SetupReady, Busy, Destroy,
     StopsFirst, Return, shadowVars, fileVars
<1>16. Busy'
  BY DEF IInv, TypeOK, Flags, Busy, SetupStages, Destroy, StopsFirst,
     Return, shadowVars, fileVars
<1> QED
  BY <1>11, <1>12, <1>13, <1>14, <1>15, <1>16 DEF IInv, TypeOK

LEMMA StepDestroyStop ==
  ASSUME IInv, UNCHANGED faults, NEW ok \in BOOLEAN, DestroyStop(ok)
  PROVE  IInv'
<1>1. updatePWMParams(0, "enable", ok) /\ TypeOK
  BY DEF IInv, DestroyStop
<1>2. /\ exported' = exported /\ enabled' \in BOOLEAN
      /\ hwPeriod' = hwPeriod /\ hwPeriod' \in Nat /\ hwDuty' \in Nat
      /\ ~ok => enabled' = enabled
  BY <1>1, WriteType
<1>11. Numbers'
  BY <1>2 DEF IInv, TypeOK, Numbers, DestroyStop, RunningAfterStop, Goto,
     shadowVars
<1>12. Flags'
  BY <1>2 DEF IInv, TypeOK, Flags, DestroyStop, RunningAfterStop, Goto,
     shadowVars
<1>13. Places'
  BY <1>2 DEF IInv, TypeOK, Flags, Places, Calls, Stages, SetupStages,
     DestroyStop, RunningAfterStop, Goto, shadowVars
<1>14. RunningIsReal'
  <2>1. m_isPWMRunning' => ~ok
    BY DEF DestroyStop, RunningAfterStop
  <2>2. RunningIsReal /\ m_isPWMRunning
    BY DEF IInv, Busy, DestroyStop
  <2> QED
    BY <1>2, <2>1, <2>2 DEF RunningIsReal
<1>15. SetupIsReal' /\ SetupReady'
  BY <1>2 DEF IInv, TypeOK, Flags, SetupIsReal, SetupReady, Busy,
     DestroyStop, RunningAfterStop, Goto, shadowVars
<1>16. Busy'
  BY <1>2 DEF IInv, TypeOK, Flags, Busy, SetupStages, DestroyStop,
     RunningAfterStop, Goto, shadowVars
<1> QED
  BY <1>11, <1>12, <1>13, <1>14, <1>15, <1>16 DEF IInv, TypeOK

LEMMA StepStart ==
  ASSUME IInv, UNCHANGED faults, NEW ok \in BOOLEAN, Start(ok)
  PROVE  IInv'
<1>1. /\ exported' = exported /\ enabled' \in BOOLEAN
      /\ hwPeriod' = hwPeriod /\ hwPeriod' \in Nat /\ hwDuty' \in Nat
      /\ m_isPWMRunning' \in BOOLEAN /\ (m_isPWMRunning' => enabled')
  <2>1. CASE m_isSetupComplete
    <3>1. updatePWMParams(1, "enable", ok) /\ TypeOK
      BY <2>1 DEF IInv, Start
    <3> QED
      BY <2>1, <3>1, WriteType DEF IInv, TypeOK, Flags, RunningIsReal,
         Start, RunningAfterStart
  <2>2. CASE ~(m_isSetupComplete)
    BY <2>2 DEF IInv, TypeOK, Numbers, Flags, RunningIsReal, Start, fileVars
  <2> QED
    BY <2>1, <2>2
<1>11. Numbers'
  BY <1>1 DEF IInv, TypeOK, Numbers, Start, Return, shadowVars
<1>12. Flags'
  BY <1>1 DEF IInv, TypeOK, Flags, Start, Return, shadowVars
<1>13. Places'
  BY <1>1 DEF IInv, TypeOK, Flags, Places, Calls, Stages, SetupStages,
     Start, Return, shadowVars
<1>14. RunningIsReal'
  BY <1>1 DEF IInv, TypeOK, Flags, RunningIsReal, Start, Return, shadowVars
<1>15. SetupIsReal' /\ SetupReady'
  BY <1>1 DEF IInv, TypeOK, Flags, SetupIsReal, SetupReady, Busy, Start,
     Return, shadowVars
<1>16. Busy'
  BY <1>1 DEF IInv, TypeOK, Flags, Busy, SetupStages, Start, Return,
     shadowVars
<1> QED
  BY <1>11, <1>12, <1>13, <1>14, <1>15, <1>16 DEF IInv, TypeOK

LEMMA StepStop ==
  ASSUME IInv, UNCHANGED faults, NEW ok \in BOOLEAN, Stop(ok)
  PROVE  IInv'
<1>1. /\ exported' = exported /\ enabled' \in BOOLEAN
      /\ hwPeriod' = hwPeriod /\ hwPeriod' \in Nat /\ hwDuty' \in Nat
      /\ m_isPWMRunning' \in BOOLEAN /\ (m_isPWMRunning' => enabled')
  <2>1. CASE m_isSetupComplete /\ m_isPWMRunning
    <3>1. updatePWMParams(0, "enable", ok) /\ TypeOK
      BY <2>1 DEF IInv, Stop
    <3> QED
      BY <2>1, <3>1, WriteType DEF IInv, TypeOK, Flags, RunningIsReal,
         Stop, RunningAfterStop
  <2>2. CASE ~(m_isSetupComplete /\ m_isPWMRunning)
    BY <2>2 DEF IInv, TypeOK, Numbers, Flags, RunningIsReal, Stop, fileVars
  <2> QED
    BY <2>1, <2>2
<1>11. Numbers'
  BY <1>1 DEF IInv, TypeOK, Numbers, Stop, Return, shadowVars
<1>12. Flags'
  BY <1>1 DEF IInv, TypeOK, Flags, Stop, Return, shadowVars
<1>13. Places'
  BY <1>1 DEF IInv, TypeOK, Flags, Places, Calls, Stages, SetupStages, Stop,
     Return, shadowVars
<1>14. RunningIsReal'
  BY <1>1 DEF IInv, TypeOK, Flags, RunningIsReal, Stop, Return, shadowVars
<1>15. SetupIsReal' /\ SetupReady'
  BY <1>1 DEF IInv, TypeOK, Flags, SetupIsReal, SetupReady, Busy, Stop,
     Return, shadowVars
<1>16. Busy'
  BY <1>1 DEF IInv, TypeOK, Flags, Busy, SetupStages, Stop, Return,
     shadowVars
<1> QED
  BY <1>11, <1>12, <1>13, <1>14, <1>15, <1>16 DEF IInv, TypeOK

LEMMA StepNewDuty ==
  ASSUME IInv, UNCHANGED faults, NEW nSec \in Nat, NEW ok \in BOOLEAN,
         NewDuty(nSec, ok), m_percentDutyCycle' \in Nat
  PROVE  IInv'
<1>1. updatePWMParams(nSec, "duty_cycle", ok) /\ TypeOK
  BY DEF IInv, NewDuty, DutyWritten
<1>2. /\ exported' = exported /\ enabled' = enabled
      /\ hwPeriod' = hwPeriod /\ hwPeriod' \in Nat /\ hwDuty' \in Nat
  BY <1>1, WriteType DEF TypeOK, Numbers
<1>11. Numbers'
  BY <1>2 DEF IInv, TypeOK, Numbers, NewDuty, Return, flagVars
<1>12. Flags'
  BY <1>2 DEF IInv, TypeOK, Flags, NewDuty, Return, flagVars
<1>13. Places'
  BY <1>2 DEF IInv, TypeOK, Flags, Places, Calls, Stages, SetupStages,
     NewDuty, Return, flagVars
<1>14. RunningIsReal'
  BY <1>2 DEF IInv, TypeOK, Flags, RunningIsReal, NewDuty, Return, flagVars
<1>15. SetupIsReal' /\ SetupReady'
  BY <1>2 DEF IInv, TypeOK, Flags, SetupIsReal, SetupReady, Busy, NewDuty,
     Return, flagVars
<1>16. Busy'
  BY <1>2 DEF IInv, TypeOK, Flags, Busy, SetupStages, NewDuty, Return,
     flagVars
<1> QED
  BY <1>11, <1>12, <1>13, <1>14, <1>15, <1>16 DEF IInv, TypeOK

LEMMA StepCrash ==
  ASSUME IInv, UNCHANGED faults, Crash
  PROVE  IInv'
<1>11. Numbers'
  BY DEF IInv, TypeOK, Numbers, Crash, Constructed, fileVars
<1>12. Flags'
  BY DEF IInv, TypeOK, Flags, Crash, Constructed, fileVars
<1>13. Places'
  BY DEF IInv, TypeOK, Flags, Places, Calls, Stages, SetupStages, Crash,
     Constructed, fileVars
<1>14. RunningIsReal'
  BY DEF IInv, TypeOK, Flags, RunningIsReal, Crash, Constructed, fileVars
<1>15. SetupIsReal' /\ SetupReady'
  BY DEF IInv, TypeOK, Flags, SetupIsReal, SetupReady, Busy, Crash,
     Constructed, fileVars
<1>16. Busy'
  BY DEF IInv, TypeOK, Flags, Busy, SetupStages, Crash, Constructed,
     fileVars
<1> QED
  BY <1>11, <1>12, <1>13, <1>14, <1>15, <1>16 DEF IInv, TypeOK

LEMMA Stuttering ==
  ASSUME IInv, UNCHANGED vars
  PROVE  IInv'
<1>11. Numbers'
  BY DEF IInv, TypeOK, Numbers, vars, shadowVars, flagVars, callVars,
     fileVars
<1>12. Flags'
  BY DEF IInv, TypeOK, Flags, vars, shadowVars, flagVars, callVars, fileVars
<1>13. Places'
  BY DEF IInv, TypeOK, Flags, Places, Calls, Stages, SetupStages, vars,
     shadowVars, flagVars, callVars, fileVars
<1>14. RunningIsReal'
  BY DEF IInv, TypeOK, Flags, RunningIsReal, vars, shadowVars, flagVars,
     callVars, fileVars
<1>15. SetupIsReal' /\ SetupReady'
  BY DEF IInv, TypeOK, Flags, SetupIsReal, SetupReady, Busy, vars,
     shadowVars, flagVars, callVars, fileVars
<1>16. Busy'
  BY DEF IInv, TypeOK, Flags, Busy, SetupStages, vars, shadowVars, flagVars,
     callVars, fileVars
<1> QED
  BY <1>11, <1>12, <1>13, <1>14, <1>15, <1>16 DEF IInv, TypeOK

\* The members never run ahead of the kernel, between the writes of a call
\* either: the invariant every step preserves.
LEMMA Inductive == IInv /\ [Next]_vars => IInv'
<1> SUFFICES ASSUME IInv, [Next]_vars PROVE IInv'
  OBVIOUS
<1> USE ArgumentAssumption
<1>1. ASSUME NEW p \in Periods, NEW d \in Duties, Setup(p, d),
             UNCHANGED faults
      PROVE  IInv'
  <2>1. p \in Nat /\ d \in Nat
    OBVIOUS
  <2> QED
  BY <1>1, <2>1, StepSetup
<1>2. ASSUME NEW d \in Duties, NEW ok \in BOOLEAN, updateDutyCycle(d, ok),
             UNCHANGED faults
      PROVE  IInv'
  <2>1. d \in Nat /\ m_nSecPeriod \in Nat /\ m_nSecPeriod > 0
  BY <1>2 DEF IInv, TypeOK, Numbers, updateDutyCycle
  <2>2. m_percentDutyCycle' \in Nat
  BY <1>2, <2>1 DEF updateDutyCycle
  <2> QED
  BY <1>2, <2>1, <2>2, StepNewDuty DEF updateDutyCycle
<1>3. ASSUME NEW p \in Percents, NEW ok \in BOOLEAN, changeDutyCycle(p, ok),
             UNCHANGED faults
      PROVE  IInv'
  <2>1. /\ (m_nSecPeriod * p) \div 100 \in Nat
        /\ m_percentDutyCycle' \in Nat
  BY <1>3 DEF IInv, TypeOK, Numbers, changeDutyCycle
  <2> QED
  BY <1>3, <2>1, StepNewDuty DEF changeDutyCycle
<1> QED
  BY <1>1, <1>2, <1>3, StepSetupStop, StepSetupStep, StepSetupUnExport,
     StepDestroy, StepDestroyStop, StepDestroyUnExport, StepStart, StepStop,
     StepCrash, Stuttering DEF Next, Call

\* IInv holds throughout: the members never run ahead of what start, stop,
\* setup and destroy have written.
THEOREM Invariance == Spec => []IInv
  BY Initial, Inductive, PTL DEF Spec

\* m_isPWMRunning is never true of a channel that is not enabled.
THEOREM NeverAhead == Spec => []RunningIsReal
<1>1. IInv => RunningIsReal
  BY DEF IInv
<1> QED
  BY <1>1, Invariance, PTL

\* An object that takes itself for set up has a channel with its period.
THEOREM SetupMeansReady == Spec => []SetupIsReal
<1>1. IInv => SetupIsReal
  BY DEF IInv
<1> QED
  BY <1>1, Invariance, PTL

-----------------------------------------------------------------------------
(* The duty cycle, whatever goes wrong.                                    *)

\* Only a write to "duty_cycle" that is taken changes the channel's.
LEMMA WriteDuty ==
  ASSUME NEW value, NEW file, NEW ok \in BOOLEAN,
         updatePWMParams(value, file, ok)
  PROVE  /\ file # "duty_cycle" \/ ~ok => hwDuty' = hwDuty
         /\ file = "duty_cycle" /\ ok => hwDuty' = value
BY DEF updatePWMParams

\* Between the calls that set the duty cycle nothing changes it.
LEMMA DutyStep == IInv /\ DutyIsReal /\ [Next]_vars => DutyIsReal'
<1> SUFFICES ASSUME IInv, DutyIsReal, [Next]_vars, dutyTaken'
             PROVE  hwDuty' = m_nSecDutyCycle'
  BY DEF DutyIsReal
<1>1. CASE UNCHANGED vars
  BY <1>1 DEF DutyIsReal, vars, shadowVars, fileVars
<1>2. ASSUME NEW ok \in BOOLEAN,
             \/ SetupStop(ok) \/ SetupUnExport(ok) \/ DestroyStop(ok)
             \/ DestroyUnExport(ok) \/ Start(ok) \/ Stop(ok)
      PROVE  hwDuty' = m_nSecDutyCycle'
  <2>1. UNCHANGED shadowVars
    BY <1>2 DEF SetupStop, SetupUnExport, DestroyStop, DestroyUnExport, Start,
       Stop
  <2>2. hwDuty' = hwDuty
    BY <1>2, WriteDuty DEF SetupStop, SetupUnExport, DestroyStop,
       DestroyUnExport, Start, Stop, UnExport, Toggle, fileVars
  <2> QED BY <2>1, <2>2 DEF DutyIsReal, shadowVars
<1>3. ASSUME NEW ok \in BOOLEAN, SetupStep(ok)
      PROVE  hwDuty' = m_nSecDutyCycle'
  <2>1. ok /\ pc = "duty" /\ m_nSecDutyCycle' = m_nSecDutyCycle
    BY <1>3 DEF SetupStep
  <2> QED BY <1>3, <2>1, WriteDuty DEF SetupStep, SetupWrite
<1>4. ASSUME NEW nSec, NEW ok \in BOOLEAN, NewDuty(nSec, ok)
      PROVE  hwDuty' = m_nSecDutyCycle'
  BY <1>4, WriteDuty DEF NewDuty, DutyWritten
<1>5. CASE Destroy
  BY <1>5 DEF Destroy, DutyIsReal, shadowVars, fileVars
<1>6. ~Crash /\ \A p \in Periods, d \in Duties : ~Setup(p, d)
  BY DEF Crash, Constructed, Setup
<1> QED BY <1>1, <1>2, <1>3, <1>4, <1>5, <1>6
        DEF Next, Call, updateDutyCycle, changeDutyCycle

-----------------------------------------------------------------------------
(* What PWM promises of a kernel that takes what it can of the writes to   *)
(* "enable", to a process that lives: EnableTaken.                         *)

\* Such a write to an exported channel succeeds if it is possible.
LEMMA WriteTaken ==
  ASSUME NEW value, NEW ok \in BOOLEAN, updatePWMParams(value, "enable", ok),
         EnableTaken, exported, Admissible("enable", value)
  PROVE  ok
BY DEF updatePWMParams, EnableTaken

LEMMA WriteDisables ==
  ASSUME updatePWMParams(0, "enable", TRUE)
  PROVE  ~enabled'
<1>1. enabled' = (0 = 1)
  BY Zenon DEF updatePWMParams
<1>2. 0 # 1
  OBVIOUS
<1> QED BY <1>1, <1>2, Zenon

\* The steps of setup: it never gets past its stop with the object running.
LEMMA SetupQuiet ==
  ASSUME IInv, QuietInv, EnableTaken, NEW ok \in BOOLEAN,
         SetupStop(ok) \/ SetupStep(ok) \/ SetupUnExport(ok)
  PROVE  QuietInv'
<1>1. TypeOK /\ Busy /\ (m_isPWMRunning => exported)
  BY DEF IInv, QuietInv
<1>2. CASE SetupStop(ok)
  <2>1. updatePWMParams(0, "enable", ok) /\ m_isPWMRunning
    BY <1>1, <1>2 DEF SetupStop, Busy
  <2>2. ok
    BY <1>1, <2>1, WriteTaken DEF Admissible
  <2>3. ~m_isPWMRunning' /\ ~enabled'
    BY <1>2, <2>1, <2>2, WriteDisables DEF SetupStop, RunningAfterStop
  <2> QED BY <2>3 DEF QuietInv
<1>3. CASE SetupStep(ok)
  <2>1. ~m_isPWMRunning /\ ~enabled
    BY <1>3 DEF SetupStep, QuietInv
  <2>2. enabled' = enabled /\ m_isPWMRunning' = m_isPWMRunning
    BY <1>1, <1>3, WriteType, ToggleType
       DEF SetupStep, SetupWrite, Export, TypeOK, Numbers, Flags
  <2> QED BY <2>1, <2>2 DEF QuietInv
<1>4. CASE SetupUnExport(ok)
  <2>1. ~m_isPWMRunning /\ ~enabled
    BY <1>4 DEF SetupUnExport, QuietInv
  <2>2. enabled' = enabled /\ m_isPWMRunning' = m_isPWMRunning
    BY <1>1, <1>4, ToggleType DEF SetupUnExport, UnExport, flagVars
  <2> QED BY <2>1, <2>2 DEF QuietInv
<1> QED BY <1>2, <1>3, <1>4

\* The steps of destroy: the stop before the UnExport succeeds.
LEMMA DestroyQuiet ==
  ASSUME IInv, QuietInv, EnableTaken, NEW ok \in BOOLEAN,
         Destroy \/ DestroyStop(ok) \/ DestroyUnExport(ok)
  PROVE  QuietInv'
<1>1. TypeOK /\ Busy /\ (m_isPWMRunning => exported /\ m_isSetupComplete)
  BY DEF IInv, QuietInv
<1>2. CASE Destroy
  BY <1>1, <1>2 DEF Destroy, StopsFirst, Return, QuietInv, Busy, shadowVars,
                    fileVars, SetupStages
<1>3. CASE DestroyStop(ok)
  <2>1. updatePWMParams(0, "enable", ok) /\ m_isPWMRunning
    BY <1>1, <1>3 DEF DestroyStop, Busy
  <2>2. ok
    BY <1>1, <2>1, WriteTaken DEF Admissible
  <2>3. ~m_isPWMRunning' /\ ~enabled'
    BY <1>3, <2>1, <2>2, WriteDisables DEF DestroyStop, RunningAfterStop
  <2> QED BY <2>3 DEF QuietInv
<1>4. CASE DestroyUnExport(ok)
  <2>1. ~m_isPWMRunning /\ ~enabled
    BY <1>4 DEF DestroyUnExport, QuietInv
  <2>2. enabled' = enabled /\ m_isPWMRunning' = m_isPWMRunning
    BY <1>1, <1>4, ToggleType DEF DestroyUnExport, UnExport
  <2> QED BY <2>1, <2>2 DEF QuietInv
<1> QED BY <1>2, <1>3, <1>4

LEMMA SwitchQuiet ==
  ASSUME IInv, QuietInv, EnableTaken, NEW ok \in BOOLEAN,
         Start(ok) \/ Stop(ok)
  PROVE  QuietInv'
<1>1. /\ TypeOK /\ pc = "idle"
      /\ enabled => m_isPWMRunning /\ hwPeriod > 0
      /\ m_isPWMRunning => m_isSetupComplete /\ exported
  BY DEF Start, Stop, IInv, QuietInv
<1>2. pc' = "idle" /\ m_isSetupComplete' = m_isSetupComplete
  BY DEF Start, Stop, Return
<1>3. /\ exported' = exported
      /\ enabled' => m_isPWMRunning' /\ hwPeriod' > 0
      /\ m_isPWMRunning' => m_isSetupComplete /\ exported
  <2>1. CASE Start(ok) /\ m_isSetupComplete
    <3>1. updatePWMParams(1, "enable", ok) /\ m_isPWMRunning' = ok
      BY <2>1 DEF Start, RunningAfterStart
    <3>2. /\ exported' = exported /\ hwPeriod' = hwPeriod
          /\ ~ok => enabled' = enabled
          /\ ok => exported
      BY <1>1, <3>1, WriteType
    <3>3. enabled => ok
      BY <1>1, <3>1, WriteTaken DEF Admissible
    <3>4. ok => hwPeriod > 0
      BY <3>1 DEF updatePWMParams, Admissible
    <3> QED BY <1>1, <2>1, <3>1, <3>2, <3>3, <3>4
  <2>2. CASE Stop(ok) /\ m_isSetupComplete /\ m_isPWMRunning
    <3>1. updatePWMParams(0, "enable", ok) /\ m_isPWMRunning' = ~ok
      BY <2>2 DEF Stop, RunningAfterStop
    <3>2. ok
      BY <1>1, <2>2, <3>1, WriteTaken DEF Admissible
    <3>3. exported' = exported /\ ~enabled'
      BY <1>1, <3>1, <3>2, WriteDisables, WriteType
    <3> QED BY <3>1, <3>2, <3>3
  <2>3. CASE UNCHANGED <<m_isPWMRunning, exported, fileVars>>
    BY <1>1, <2>3 DEF fileVars
  <2> QED BY <2>1, <2>2, <2>3 DEF Start, Stop
<1> QED BY <1>1, <1>2, <1>3 DEF QuietInv, SetupStages

LEMMA DutyQuiet ==
  ASSUME IInv, QuietInv, EnableTaken, NEW nSec \in Nat, NEW ok \in BOOLEAN,
         NewDuty(nSec, ok)
  PROVE  QuietInv'
<1>1. TypeOK /\ updatePWMParams(nSec, "duty_cycle", ok)
  BY DEF NewDuty, DutyWritten, IInv
<1>2. enabled' = enabled /\ hwPeriod' = hwPeriod /\ exported' = exported
  BY <1>1, WriteType
<1>3. pc' = "idle" /\ UNCHANGED <<m_isSetupComplete, m_isPWMRunning>>
  BY DEF NewDuty, Return, flagVars
<1> QED BY <1>2, <1>3 DEF QuietInv, SetupStages

\* A share of a period is a number.
LEMMA ShareOfPeriod ==
  ASSUME NEW period \in Nat, NEW percent \in Nat
  PROVE  (period * percent) \div 100 \in Nat
<1>1. period * percent \in Nat
  OBVIOUS
<1> QED BY <1>1

\* With EnableTaken no step leaves a channel enabled behind its object's back.
LEMMA QuietStep == IInv /\ QuietInv /\ [Next]_vars => QuietInv'
<1> SUFFICES ASSUME IInv, QuietInv, [Next]_vars, EnableTaken'
             PROVE  QuietInv'
  BY DEF QuietInv
<1> USE ArgumentAssumption
<1>1. CASE UNCHANGED vars
  BY <1>1 DEF QuietInv, EnableTaken, vars, shadowVars, flagVars, callVars,
              fileVars
<1>2. CASE Next
  <2>1. EnableTaken /\ Call
    BY <1>2 DEF Next, Crash, EnableTaken
  <2>2. ASSUME NEW p \in Periods, NEW d \in Duties, Setup(p, d)
        PROVE  QuietInv'
    BY <2>1, <2>2 DEF IInv, Busy, QuietInv, Setup, StopsFirst, AfterStop,
       flagVars, fileVars, SetupStages
  <2>3. ASSUME NEW d \in Duties, NEW ok \in BOOLEAN, updateDutyCycle(d, ok)
        PROVE  QuietInv'
    <3>1. d \in Nat /\ NewDuty(d, ok)
      BY <2>3 DEF updateDutyCycle
    <3> QED BY <2>1, <3>1, DutyQuiet
  <2>4. ASSUME NEW p \in Percents, NEW ok \in BOOLEAN, changeDutyCycle(p, ok)
        PROVE  QuietInv'
    <3>1. p \in Nat /\ m_nSecPeriod \in Nat
      BY DEF IInv, TypeOK, Numbers
    <3> QED BY <2>1, <2>4, <3>1, ShareOfPeriod, DutyQuiet DEF changeDutyCycle
  <2> QED BY <2>1, <2>2, <2>3, <2>4, SetupQuiet, DestroyQuiet, SwitchQuiet
          DEF Call
<1> QED BY <1>1, <1>2

-----------------------------------------------------------------------------
(* The theorems.                                                           *)

\* What getDutyCycleInNSec() returns is the channel's duty cycle if the call
\* that last set it returned true, whatever the kernel has refused.
THEOREM DutyIsTrue == Spec => []DutyIsReal
<1>1. Init => DutyIsReal
  BY DEF Init, DutyIsReal
<1> QED BY <1>1, DutyStep, Invariance, PTL DEF Spec

\* If the kernel takes what it can of the writes to "enable" and the process
\* lives, no call gets past its stop with the channel running.
THEOREM Quiet == Spec => []QuietInv
<1>1. Init => QuietInv
  BY DEF Init, QuietInv, SetupStages
<1> QED BY <1>1, QuietStep, Invariance, PTL DEF Spec

\* Under the condition of Quiet no channel is enabled behind its object's back.
THEOREM NothingRunsUnknown == Spec => []EnabledIsKnown
<1>1. QuietInv => EnabledIsKnown
  BY DEF QuietInv, EnabledIsKnown
<1> QED BY <1>1, Quiet, PTL

\* Under the condition of Quiet a destroy() that returns true leaves a quiet,
\* unexported channel.
THEOREM DestroyedMeansQuiet == Spec => DestroyQuiesces
<1>1. IInv /\ QuietInv /\ [Next]_vars =>
        [EnableTaken /\ call = "destroy" /\ pc' = "idle" /\ returned'
           => ~enabled' /\ ~exported']_vars
  <2> SUFFICES ASSUME IInv, QuietInv, Next, EnableTaken, call = "destroy",
                      pc' = "idle", returned'
               PROVE  ~enabled' /\ ~exported'
    BY DEF vars, callVars
  <2>1. pc # "idle"
    BY DEF IInv, Busy
  <2>2. PICK ok \in BOOLEAN : DestroyUnExport(ok)
    BY <2>1 DEF Next, Call, Crash, EnableTaken, Setup, SetupStop, SetupStep,
       SetupUnExport, Destroy, DestroyStop, Goto, Start, Stop,
       updateDutyCycle, changeDutyCycle, NewDuty
  <2>3. ok /\ Toggle(FALSE, "unexport", ok) /\ TypeOK /\ ~enabled
    BY <2>2 DEF DestroyUnExport, Return, UnExport, IInv, QuietInv
  <2> QED BY <2>3, ToggleType
<1> QED BY <1>1, Invariance, Quiet, PTL DEF Spec, DestroyQuiesces

\* A setup() that returns false leaves nothing behind, also after a crash and
\* whatever was refused, if UnExport's write is taken and seen in time.
THEOREM FailureCleansUp == Spec => FailedSetupCleansUp
<1>1. IInv /\ [Next]_vars =>
        [faults \cap {"unexport", "lag"} = {}
         /\ call = "setup" /\ pc' = "idle" /\ ~returned'
           => ~exported' /\ ~m_isSetupComplete']_vars
  <2> SUFFICES ASSUME IInv, Next, faults \cap {"unexport", "lag"} = {},
                      call = "setup", pc' = "idle", ~returned'
               PROVE  ~exported' /\ ~m_isSetupComplete'
    BY DEF vars, callVars
  <2>1. pc # "idle"
    BY DEF IInv, Busy
  <2>2. PICK ok \in BOOLEAN : SetupUnExport(ok)
    <3>1. \A ok \in BOOLEAN : ~SetupStop(ok)
      BY DEF SetupStop, Goto, AfterStop
    <3>2. \A ok \in BOOLEAN : ~SetupStep(ok)
      BY DEF SetupStep, Goto, Return, NextStage, SetupStages
    <3> QED BY <2>1, <3>1, <3>2 DEF Next, Call, Crash, Constructed, Setup,
         Destroy, DestroyStop, DestroyUnExport, Start, Stop, updateDutyCycle,
         changeDutyCycle, NewDuty
  <2>3. Toggle(FALSE, "unexport", ok) /\ TypeOK /\ ~m_isSetupComplete
    BY <2>2 DEF SetupUnExport, UnExport, IInv, Busy
  <2> QED BY <2>2, <2>3 DEF SetupUnExport, flagVars, Toggle, TypeOK, Flags
<1> QED BY <1>1, Invariance, PTL DEF Spec, FailedSetupCleansUp

-----------------------------------------------------------------------------
(* With EnableTaken PWM implements Channel: each write is one of the       *)
(* channel's actions, or changes nothing.                                  *)

\* A write is an action of the channel, if that to "period" is at rest.
LEMMA WriteDrives ==
  ASSUME TypeOK, NEW value \in Nat,
         NEW file \in {"period", "duty_cycle", "enable"}, NEW ok \in BOOLEAN,
         updatePWMParams(value, file, ok),
         file = "period" => ~enabled, file = "enable" => value \in {0, 1}
  PROVE  [Output!Next]_(Output!vars)
<1>1. CASE ~ok
  BY <1>1 DEF updatePWMParams, Output!vars
<1>2. CASE ok
  <2>1. exported /\ Admissible(file, value) /\ exported' = exported
    BY <1>2 DEF updatePWMParams
  <2>2. /\ file # "period" => hwPeriod' = hwPeriod
        /\ file # "duty_cycle" => hwDuty' = hwDuty
        /\ file # "enable" => enabled' = enabled
    BY DEF updatePWMParams
  <2>3. CASE file = "period"
    <3>1. hwPeriod' = value /\ hwDuty <= value
      BY <1>2, <2>1, <2>3 DEF updatePWMParams, Admissible, TypeOK, Numbers
    <3> QED BY <2>1, <2>2, <2>3, <3>1 DEF Output!SetPeriod, Output!Next
  <2>4. CASE file = "duty_cycle"
    <3>1. hwDuty' = value /\ value <= hwPeriod
      BY <1>2, <2>1, <2>4 DEF updatePWMParams, Admissible
    <3> QED BY <2>1, <2>2, <2>4, <3>1 DEF Output!SetDuty, Output!Next
  <2>5. CASE file = "enable" /\ value = 1
    <3>1. enabled' = (value = 1) /\ hwPeriod > 0
      BY <1>2, <2>1, <2>5 DEF updatePWMParams, Admissible
    <3>2. enabled' = TRUE
      BY <2>5, <3>1
    <3> QED BY <2>1, <2>2, <2>5, <3>1, <3>2
            DEF Output!SwitchOn, Output!Next
  <2>6. CASE file = "enable" /\ value = 0
    <3>1. enabled' = (value = 1) /\ value # 1
      BY <1>2, <2>6 DEF updatePWMParams
    <3>2. enabled' = FALSE
      BY <3>1, Zenon
    <3> QED BY <2>1, <2>2, <2>6, <3>2 DEF Output!SwitchOff, Output!Next
  <2> QED BY <2>3, <2>4, <2>5, <2>6
<1> QED BY <1>1, <1>2

\* At rest, Export and UnExport are as well.
LEMMA ToggleDrives ==
  ASSUME TypeOK, ~enabled, NEW to \in BOOLEAN, NEW file, NEW ok \in BOOLEAN,
         Toggle(to, file, ok)
  PROVE  [Output!Next]_(Output!vars)
<1>1. exported' \in {exported, to} /\ UNCHANGED <<enabled, hwPeriod, hwDuty>>
  BY DEF Toggle, fileVars
<1>2. CASE exported' = exported
  BY <1>1, <1>2 DEF Output!vars
<1>3. CASE exported' # exported /\ to
  BY <1>1, <1>3 DEF TypeOK, Flags, Output!Appear, Output!Next
<1>4. CASE exported' # exported /\ ~to
  BY <1>1, <1>4 DEF TypeOK, Flags, Output!Vanish, Output!Next
<1> QED BY <1>2, <1>3, <1>4

\* The writes of setup and destroy: QuietInv has those but the stop at rest.
LEMMA StagesDrive ==
  ASSUME IInv, QuietInv, EnableTaken, NEW ok \in BOOLEAN,
         \/ SetupStop(ok) \/ SetupStep(ok) \/ SetupUnExport(ok)
         \/ DestroyStop(ok) \/ DestroyUnExport(ok)
  PROVE  [Output!Next]_(Output!vars)
<1>1. TypeOK /\ m_nSecPeriod \in Nat /\ m_nSecDutyCycle \in Nat
  BY DEF IInv, TypeOK, Numbers
<1>2. CASE SetupStop(ok) \/ DestroyStop(ok)
  <2>1. updatePWMParams(0, "enable", ok)
    BY <1>2 DEF SetupStop, DestroyStop
  <2> QED BY <1>1, <2>1, WriteDrives
<1>3. CASE SetupStep(ok)
  <2>1. ~enabled /\ SetupWrite(ok)
    BY <1>3 DEF SetupStep, QuietInv
  <2> QED BY <1>1, <2>1, WriteDrives, ToggleDrives DEF SetupWrite, Export
<1>4. CASE SetupUnExport(ok) \/ DestroyUnExport(ok)
  <2>1. ~enabled /\ Toggle(FALSE, "unexport", ok)
    BY <1>4 DEF SetupUnExport, DestroyUnExport, UnExport, QuietInv
  <2> QED BY <1>1, <2>1, ToggleDrives
<1> QED BY <1>2, <1>3, <1>4

\* The calls that are one write or none.
LEMMA CallsDrive ==
  ASSUME IInv, QuietInv, EnableTaken, Call
  PROVE  [Output!Next]_(Output!vars)
<1> USE ArgumentAssumption
<1>1. TypeOK /\ m_nSecPeriod \in Nat
  BY DEF IInv, TypeOK, Numbers
<1>2. ASSUME NEW p \in Periods, NEW d \in Duties, Setup(p, d) \/ Destroy
      PROVE  [Output!Next]_(Output!vars)
  BY <1>2 DEF Setup, Destroy, fileVars, Output!vars
<1>3. ASSUME NEW ok \in BOOLEAN, Start(ok) \/ Stop(ok)
      PROVE  [Output!Next]_(Output!vars)
  <2>1. \/ updatePWMParams(1, "enable", ok)
        \/ updatePWMParams(0, "enable", ok)
        \/ UNCHANGED <<exported, fileVars>>
    BY <1>3 DEF Start, Stop
  <2> QED BY <1>1, <2>1, WriteDrives DEF fileVars, Output!vars
<1>4. ASSUME NEW nSec \in Nat, NEW ok \in BOOLEAN, NewDuty(nSec, ok)
      PROVE  [Output!Next]_(Output!vars)
  BY <1>1, <1>4, WriteDrives DEF NewDuty, DutyWritten
<1>5. ASSUME NEW d \in Duties, NEW ok \in BOOLEAN, updateDutyCycle(d, ok)
      PROVE  [Output!Next]_(Output!vars)
  <2>1. d \in Nat /\ NewDuty(d, ok)
    BY <1>5 DEF updateDutyCycle
  <2> QED BY <1>4, <2>1
<1>6. ASSUME NEW p \in Percents, NEW ok \in BOOLEAN, changeDutyCycle(p, ok)
      PROVE  [Output!Next]_(Output!vars)
  <2>1. (m_nSecPeriod * p) \div 100 \in Nat
    BY <1>1, ShareOfPeriod
  <2> QED BY <1>4, <1>6, <2>1 DEF changeDutyCycle
<1>7. CASE Destroy
  BY <1>7 DEF Destroy, fileVars, Output!vars
<1> QED BY <1>2, <1>3, <1>5, <1>6, <1>7, StagesDrive DEF Call

\* What every step of PWM is to the channel.
LEMMA StepsDrive ==
  IInv /\ QuietInv /\ [Next]_vars =>
    (EnableTaken => [Output!Next]_(Output!vars))
<1> SUFFICES ASSUME IInv, QuietInv, [Next]_vars, EnableTaken
             PROVE  [Output!Next]_(Output!vars)
  OBVIOUS
<1>1. CASE UNCHANGED vars
  BY <1>1 DEF vars, fileVars, Output!vars
<1>2. CASE Next
  <2>1. Call
    BY <1>2 DEF Next, Crash, EnableTaken
  <2> QED BY <2>1, CallsDrive
<1> QED BY <1>1, <1>2

\* If the kernel takes what it can of the writes to "enable" and the process
\* lives, no sequence of calls glitches the output.
THEOREM NoGlitch == Spec => GlitchFree
<1>1. IInv /\ QuietInv /\ [Next]_vars =>
        [EnableTaken => [Output!Next]_(Output!vars)]_vars
  BY StepsDrive
<1> QED BY <1>1, Invariance, Quiet, PTL DEF Spec, GlitchFree

\* Under the same condition, the object's calls drive the channel as Channel
\* specifies.
THEOREM ImplementsChannel == Spec => (EnableTaken => Output!Spec)
<1>1. Init => Output!Init
  BY DEF Init, Output!Init
<1>2. EnableTaken /\ [Next]_vars => EnableTaken'
  BY DEF Next, vars, EnableTaken
<1> QED BY <1>1, <1>2, StepsDrive, Invariance, Quiet, PTL
        DEF Spec, Output!Spec
=============================================================================
