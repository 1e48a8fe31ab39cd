SPECIFICATION Spec
CONSTANTS
  Handles = {1, 2, 3}
  IdleHandles <- NoHandle
  MaxIdles = 2
  MaxDepth = 6
INVARIANTS NestingBounded OncePerPeriod LateOnce
PROPERTIES EventsServed
