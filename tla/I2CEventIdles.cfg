SPECIFICATION Spec
CONSTANTS
  Handles = {1, 2}
  IdleHandles = {1}
  MaxIdles = 2
  MaxDepth = 6
INVARIANTS OncePerPeriod

