SPECIFICATION Spec
CONSTANTS
  MaxMessages = 2
  RetryCounts <- OnceOrTwice
  PrintModes = {TRUE, FALSE}
  MaxResets = 2
INVARIANTS GivesUpLate
PROPERTIES KeepsPromise AttemptsSeeSettledBus RequestAnswered
