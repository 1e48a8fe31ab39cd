------------------------------- MODULE Channel -------------------------------
(***************************************************************************)
(* How a PWM channel may be driven without a glitch at its output: it      *)
(* appears and vanishes at rest, its period is set at rest, it is switched *)
(* on only with a period, and of an output that runs only the duty cycle   *)
(* changes, within the period.                                             *)
(***************************************************************************)
EXTENDS Naturals

VARIABLES
  present,   \* the channel is exported
  running,
  period,
  duty

vars == <<present, running, period, duty>>

Init == ~present /\ ~running /\ period = 0 /\ duty = 0

Appear == /\ ~present /\ ~running
          /\ present' = TRUE
          /\ UNCHANGED <<running, period, duty>>

Vanish == /\ present /\ ~running
          /\ present' = FALSE
          /\ UNCHANGED <<running, period, duty>>

SetPeriod == /\ present /\ ~running
             /\ period' \in Nat /\ duty <= period'
             /\ UNCHANGED <<present, running, duty>>

SetDuty == /\ present
           /\ duty' \in Nat /\ duty' <= period
           /\ UNCHANGED <<present, running, period>>

SwitchOn == /\ present /\ period > 0
            /\ running' = TRUE
            /\ UNCHANGED <<present, period, duty>>

SwitchOff == /\ present
             /\ running' = FALSE
             /\ UNCHANGED <<present, period, duty>>

Next == Appear \/ Vanish \/ SetPeriod \/ SetDuty \/ SwitchOn \/ SwitchOff

Spec == Init /\ [][Next]_vars
=============================================================================
