-------------------------------- MODULE PWM --------------------------------
(***************************************************************************)
(* apra::PWM: one object that drives one channel of a PWM chip through the *)
(* files of /sys/class/pwm.  A call of the object is a sequence of writes  *)
(* to these files, any of which may fail; the object's members shadow what *)
(* the kernel holds.  One step of the model is one write, so that the      *)
(* process may die between two of them and leave the channel as it is.     *)
(***************************************************************************)
EXTENDS Naturals

CONSTANTS
  Periods,    \* the periods clients ask for
  Duties,     \* the duty cycles clients ask for, in nanoseconds
  Percents,   \* the duty cycles clients ask for, in percent
  FaultSets   \* what may go wrong in a behaviour, as sets of AllFaults

\* The kernel may refuse a write it could carry out to one of the files, the
\* channel's directory may appear or vanish too late, the process may die and
\* be started again, and clients may ask for more than the period.
AllFaults == {"enable", "period", "duty_cycle", "export", "unexport", "lag",
              "crash", "beyond"}

ASSUME ArgumentAssumption ==
  /\ Periods \subseteq Nat /\ Duties \subseteq Nat /\ Percents \subseteq Nat
  /\ FaultSets \subseteq SUBSET AllFaults

VARIABLES
  m_nSecPeriod, m_nSecDutyCycle, m_percentDutyCycle,
  m_isSetupComplete, m_isPWMRunning,
  call,       \* the member function that is running, or "none"
  pc,         \* the write it makes next, or "idle"
  returned,   \* what the last call returned
  exported,   \* the kernel: does the channel's directory exist?
  enabled,    \* the kernel: the file "enable"
  hwPeriod,   \* the kernel: the file "period"
  hwDuty,     \* the kernel: the file "duty_cycle"
  dutyTaken,  \* history: has the call that last set this object's duty
              \* cycle returned true?
  faults      \* what may go wrong in this behaviour

shadowVars == <<m_nSecPeriod, m_nSecDutyCycle, m_percentDutyCycle, dutyTaken>>
flagVars   == <<m_isSetupComplete, m_isPWMRunning>>
callVars   == <<call, pc, returned>>
fileVars   == <<enabled, hwPeriod, hwDuty>>
vars == <<shadowVars, flagVars, callVars, exported, fileVars, faults>>

\* start, stop and the two changes of the duty cycle are one write each.
Calls == {"none", "setup", "destroy"}
SetupStages == {"zeroDuty", "zeroPeriod", "export", "period", "duty"}
Stages == SetupStages \cup {"idle", "disable", "unexport"}

Numbers == /\ m_nSecPeriod \in Nat /\ m_nSecDutyCycle \in Nat
           /\ m_percentDutyCycle \in Nat
           /\ hwPeriod \in Nat /\ hwDuty \in Nat
Flags == /\ m_isSetupComplete \in BOOLEAN /\ m_isPWMRunning \in BOOLEAN
         /\ exported \in BOOLEAN /\ enabled \in BOOLEAN
         /\ dutyTaken \in BOOLEAN
Places == call \in Calls /\ pc \in Stages /\ returned \in BOOLEAN
TypeOK == Numbers /\ Flags /\ Places

\* m_percentDutyCycle is the one member no constructor initialises: it holds
\* whatever was in that memory.
Constructed ==
  /\ m_nSecPeriod' = 0 /\ m_nSecDutyCycle' = 0
  /\ m_percentDutyCycle' \in {0, 1, 50, 100}
  /\ m_isSetupComplete' = FALSE /\ m_isPWMRunning' = FALSE
  /\ call' = "none" /\ pc' = "idle" /\ returned' = TRUE
  /\ dutyTaken' = FALSE

Init ==
  /\ m_nSecPeriod = 0 /\ m_nSecDutyCycle = 0
  /\ m_percentDutyCycle \in {0, 1, 50, 100}
  /\ m_isSetupComplete = FALSE /\ m_isPWMRunning = FALSE
  /\ call = "none" /\ pc = "idle" /\ returned = TRUE
  /\ exported = FALSE /\ enabled = FALSE /\ hwPeriod = 0 /\ hwDuty = 0
  /\ dutyTaken = FALSE /\ faults \in FaultSets

-----------------------------------------------------------------------------
(* The kernel.  A channel that is not exported keeps its settings.         *)

\* What the kernel cannot carry out: the duty cycle never exceeds the period,
\* and a channel without a period cannot be enabled.
Admissible(file, value) ==
  /\ file = "period" => value >= hwDuty
  /\ file = "duty_cycle" => value <= hwPeriod
  /\ file = "enable" => value = 0 \/ hwPeriod > 0

\* updatePWMParams(value, file) returns ok.
updatePWMParams(value, file, ok) ==
  LET possible == exported /\ Admissible(file, value)
  IN  /\ ok => possible
      /\ possible /\ file \notin faults => ok
      /\ enabled' = IF ok /\ file = "enable" THEN value = 1 ELSE enabled
      /\ hwPeriod' = IF ok /\ file = "period" THEN value ELSE hwPeriod
      /\ hwDuty' = IF ok /\ file = "duty_cycle" THEN value ELSE hwDuty
      /\ UNCHANGED exported

\* Export and UnExport write the pin number to file and then look whether the
\* channel's directory is there; exporting it twice is refused, and so is
\* unexporting it twice.
Toggle(to, file, ok) ==
  LET possible == exported # to
  IN  /\ UNCHANGED fileVars
      /\ ok => possible
      /\ exported' \in IF ok THEN {to}
                       ELSE IF "lag" \in faults THEN {exported, to}
                       ELSE {exported}
      /\ possible /\ faults \cap {file, "lag"} = {} => ok

Export(ok) == Toggle(TRUE, "export", ok)

UnExport(ok) == Toggle(FALSE, "unexport", ok)

-----------------------------------------------------------------------------
(* The calls.  One of them runs at a time, and pc names its next write.    *)

Goto(stage) == pc' = stage /\ UNCHANGED <<call, returned>>

Return(value) == pc' = "idle" /\ call' = "none" /\ returned' = value

\* What start and stop make of m_isPWMRunning.
BugRunningAnyway(ok) == TRUE
BugNotRunning(ok) == FALSE
RunningAfterStart(ok) == ok

RunningAfterStop(ok) == ~ok

\* setup and destroy stop a running channel first.
BugNoStop == FALSE
StopsFirst == m_isPWMRunning /\ m_isSetupComplete

\* Where setup goes on with a channel that is not, or no longer, running.
AfterStop == IF m_isSetupComplete THEN "zeroDuty" ELSE "export"

\* setup(nSecPeriod, nSecDutyCycle): throws, and changes nothing, if the duty
\* cycle is the longer.  A stop() that has nothing to do returns true, which
\* setup takes for a failure, as it does any success of stop().
Setup(nSecPeriod, nSecDutyCycle) ==
  /\ pc = "idle" /\ nSecDutyCycle <= nSecPeriod
  /\ m_nSecPeriod' = nSecPeriod /\ m_nSecDutyCycle' = nSecDutyCycle
  /\ dutyTaken' = FALSE
  /\ call' = "setup"
  /\ pc' = IF StopsFirst THEN "disable"
           ELSE IF m_isPWMRunning THEN "unexport" ELSE AfterStop
  /\ UNCHANGED <<m_percentDutyCycle, flagVars, returned, exported, fileVars>>

\* m_isSetupComplete when a setup has failed.
BugKeepSetup == m_isSetupComplete
SetupAfterFailure == FALSE

\* didFail = stop(), in setup.
SetupStop(ok) ==
  /\ call = "setup" /\ pc = "disable"
  /\ updatePWMParams(0, "enable", ok)
  /\ m_isPWMRunning' = RunningAfterStop(ok)
  /\ m_isSetupComplete' = IF ok THEN SetupAfterFailure ELSE m_isSetupComplete
  /\ Goto(IF ok THEN "unexport" ELSE AfterStop)
  /\ UNCHANGED shadowVars

\* The writes of setup, in order.
BugSkipPeriod == [zeroDuty |-> "zeroPeriod", zeroPeriod |-> "duty",
                  export |-> "duty", period |-> "duty", duty |-> "idle"]
NextStage == [zeroDuty |-> "zeroPeriod", zeroPeriod |-> "period",
              export |-> "period", period |-> "duty", duty |-> "idle"]

SetupWrite(ok) ==
  \/ pc = "zeroDuty" /\ updatePWMParams(0, "duty_cycle", ok)
  \/ pc = "zeroPeriod" /\ updatePWMParams(0, "period", ok)
  \/ pc = "export" /\ Export(ok)
  \/ pc = "period" /\ updatePWMParams(m_nSecPeriod, "period", ok)
  \/ pc = "duty" /\ updatePWMParams(m_nSecDutyCycle, "duty_cycle", ok)

SetupStep(ok) ==
  /\ call = "setup" /\ pc \in SetupStages
  /\ SetupWrite(ok)
  /\ m_isSetupComplete' = IF ok THEN m_isSetupComplete \/ pc = "duty"
                          ELSE SetupAfterFailure
  /\ IF ok /\ pc = "duty" THEN Return(TRUE)
     ELSE Goto(IF ok THEN NextStage[pc] ELSE "unexport")
  /\ dutyTaken' = (ok /\ pc = "duty")
  /\ UNCHANGED <<m_nSecPeriod, m_nSecDutyCycle, m_percentDutyCycle,
                 m_isPWMRunning>>

\* The end of a setup that has failed.
SetupUnExport(ok) ==
  /\ call = "setup" /\ pc = "unexport"
  /\ UnExport(ok)
  /\ Return(FALSE)
  /\ UNCHANGED <<shadowVars, flagVars>>

\* destroy(), which is also the destructor.  When nothing is set up, its
\* stop() has nothing to do, returns true, and m_isPWMRunning is reset.
Destroy ==
  /\ pc = "idle"
  /\ IF m_isSetupComplete
     THEN /\ call' = "destroy" /\ UNCHANGED <<m_isPWMRunning, returned>>
          /\ pc' = IF StopsFirst THEN "disable" ELSE "unexport"
     ELSE m_isPWMRunning' = FALSE /\ Return(TRUE)
  /\ UNCHANGED <<shadowVars, m_isSetupComplete, exported, fileVars>>

DestroyStop(ok) ==
  /\ call = "destroy" /\ pc = "disable"
  /\ updatePWMParams(0, "enable", ok)
  /\ m_isPWMRunning' = RunningAfterStop(ok)
  /\ Goto("unexport")
  /\ UNCHANGED <<shadowVars, m_isSetupComplete>>

\* What UnExport returns replaces what stop() returned.
DestroyUnExport(ok) ==
  /\ call = "destroy" /\ pc = "unexport"
  /\ UnExport(ok)
  /\ m_isSetupComplete' = ~ok
  /\ Return(ok)
  /\ UNCHANGED <<shadowVars, m_isPWMRunning>>

\* start() and stop() return true when they have nothing to do.
Start(ok) ==
  /\ pc = "idle"
  /\ IF m_isSetupComplete
     THEN /\ updatePWMParams(1, "enable", ok)
          /\ m_isPWMRunning' = RunningAfterStart(ok)
     ELSE ok /\ UNCHANGED <<m_isPWMRunning, exported, fileVars>>
  /\ Return(ok)
  /\ UNCHANGED <<shadowVars, m_isSetupComplete>>

Stop(ok) ==
  /\ pc = "idle"
  /\ IF m_isSetupComplete /\ m_isPWMRunning
     THEN /\ updatePWMParams(0, "enable", ok)
          /\ m_isPWMRunning' = RunningAfterStop(ok)
     ELSE ok /\ UNCHANGED <<m_isPWMRunning, exported, fileVars>>
  /\ Return(ok)
  /\ UNCHANGED <<shadowVars, m_isSetupComplete>>

\* The two calls that set the duty cycle keep the new value whether or not
\* the kernel takes it.
BugWriteOldDuty(nSec) == m_nSecDutyCycle
DutyWritten(nSec) == nSec

NewDuty(nSec, ok) ==
  /\ pc = "idle"
  /\ m_nSecDutyCycle' = nSec
  /\ updatePWMParams(DutyWritten(nSec), "duty_cycle", ok)
  /\ dutyTaken' = ok
  /\ Return(ok)
  /\ UNCHANGED <<m_nSecPeriod, flagVars>>

\* An integer division: 0 below the period, 100 at the period.  With no
\* period it kills the process (Crash).
updateDutyCycle(nSecDutyCycle, ok) ==
  /\ m_nSecPeriod > 0
  /\ nSecDutyCycle <= m_nSecPeriod \/ "beyond" \in faults
  /\ m_percentDutyCycle' = (nSecDutyCycle \div m_nSecPeriod) * 100
  /\ NewDuty(nSecDutyCycle, ok)

changeDutyCycle(percent, ok) ==
  /\ percent <= 100 \/ "beyond" \in faults
  /\ NewDuty((m_nSecPeriod * percent) \div 100, ok)
  /\ UNCHANGED m_percentDutyCycle

\* The process dies; a new one makes a new object for the same channel.
Crash ==
  /\ "crash" \in faults
  /\ Constructed
  /\ UNCHANGED <<exported, fileVars>>

Call ==
  \/ \E p \in Periods, d \in Duties : Setup(p, d)
  \/ \E ok \in BOOLEAN : SetupStop(ok) \/ SetupStep(ok) \/ SetupUnExport(ok)
  \/ Destroy
  \/ \E ok \in BOOLEAN : DestroyStop(ok) \/ DestroyUnExport(ok)
  \/ \E ok \in BOOLEAN : Start(ok) \/ Stop(ok)
  \/ \E d \in Duties, ok \in BOOLEAN : updateDutyCycle(d, ok)
  \/ \E p \in Percents, ok \in BOOLEAN : changeDutyCycle(p, ok)

Next == (Call \/ Crash) /\ UNCHANGED faults

Spec == Init /\ [][Next]_vars

-----------------------------------------------------------------------------
(* Properties.                                                             *)

\* Whatever the kernel refuses and whenever the process dies, an object that
\* takes itself for running has an enabled channel: no path through start,
\* stop, setup and destroy leaves m_isPWMRunning ahead of the kernel.
RunningIsReal == m_isPWMRunning => enabled

\* An object that takes itself for set up drives an exported channel whose
\* period is m_nSecPeriod, although setup assigns the member before it writes
\* five files one of which may fail.
SetupIsReal ==
  m_isSetupComplete /\ call # "setup" =>
    /\ exported => hwPeriod = m_nSecPeriod
    /\ "lag" \notin faults => exported

\* What the two above need between the writes of setup.
SetupReady ==
  call = "setup" /\ pc = "duty" => (exported => hwPeriod = m_nSecPeriod)

Busy ==
  /\ pc = "idle" <=> call = "none"
  /\ pc = "disable" => /\ call \in {"setup", "destroy"}
                       /\ m_isSetupComplete /\ m_isPWMRunning
  /\ pc = "unexport" => (call = "setup" /\ ~m_isSetupComplete)
                     \/ (call = "destroy" /\ m_isSetupComplete)
  /\ pc \in SetupStages => call = "setup"

\* The four together are inductive.
IInv == TypeOK /\ RunningIsReal /\ SetupIsReal /\ SetupReady /\ Busy

\* What getDutyCycleInNSec() returns is the channel's duty cycle, whatever the
\* kernel has refused and clients have asked for, if the call that last set it
\* returned true: setup, updateDutyCycle and changeDutyCycle assign the member
\* before a write that may fail.
DutyIsReal == dutyTaken => hwDuty = m_nSecDutyCycle

\* A kernel that takes what it can of the writes to "enable", and a process
\* that lives.  The other files may refuse writes, and directories be late.
EnableTaken == faults \cap {"enable", "crash"} = {}

\* Then a channel that is enabled is known to be, so that setup and destroy
\* will stop it.
EnabledIsKnown == EnableTaken /\ enabled => m_isPWMRunning

\* Under the same condition a destroy() that returns true leaves the channel
\* disabled and unexported, whatever calls went before.
DestroyQuiesces ==
  [][EnableTaken /\ call = "destroy" /\ pc' = "idle" /\ returned'
       => ~enabled' /\ ~exported']_vars

Output == INSTANCE Channel WITH present <- exported, running <- enabled,
                                period <- hwPeriod, duty <- hwDuty

\* Under the same condition no sequence of calls glitches the output: the
\* channel is exported and unexported ("Disable before unexport",
\* test_pwm.cpp), and its period zeroed and set, only at rest; of a running
\* output nothing but the duty cycle changes.
GlitchFree == [][EnableTaken => [Output!Next]_(Output!vars)]_vars

\* A setup() that returns false leaves nothing behind: the channel is not
\* exported and the object not set up, also when it met a channel that an
\* earlier process had left exported and whatever writes were refused, unless
\* the one to "unexport" was or the directory was late.
FailedSetupCleansUp ==
  [][faults \cap {"unexport", "lag"} = {}
     /\ call = "setup" /\ pc' = "idle" /\ ~returned'
       => ~exported' /\ ~m_isSetupComplete']_vars

\* What makes those of the properties inductive that need EnableTaken: no call
\* is between its stop and its UnExport with the object still running.
QuietInv ==
  EnableTaken =>
    /\ enabled => m_isPWMRunning /\ hwPeriod > 0
    /\ m_isPWMRunning => m_isSetupComplete /\ exported
    /\ pc \in SetupStages \cup {"unexport"} => ~m_isPWMRunning
=============================================================================
