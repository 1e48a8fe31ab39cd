-------------------------------- MODULE MCPWM -------------------------------
(* The instances of PWM that TLC checks. *)
EXTENDS PWM

\* Two periods; duty cycles of nothing, half and all of one of them.
TwoPeriods == {2, 4}
SomeDuties == {0, 1, 2, 4}
SomePercents == {50, 100, 150}

\* Everything, and all that the properties allow to go wrong: whatever can
\* happen with fewer faults can happen with more.
LargestFaults == {AllFaults, AllFaults \ {"enable", "crash"},
                  AllFaults \ {"unexport", "lag"}}
=============================================================================
