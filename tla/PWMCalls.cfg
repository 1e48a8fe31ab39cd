SPECIFICATION Spec
CONSTANTS
  Periods <- TwoPeriods
  Duties <- SomeDuties
  Percents <- SomePercents
  FaultSets <- LargestFaults
INVARIANTS RunningIsReal SetupIsReal DutyIsReal EnabledIsKnown
PROPERTIES DestroyQuiesces GlitchFree FailedSetupCleansUp
