SPECIFICATION Spec
CONSTANTS
  ShortBits = 6
  LongBits = 12
  CounterBits = 3
  ByteBits = 1
  WordBytes = 4
  MaxDigits = 7
  MaxFormat = 8
  Scale = 8
  Reals <- EdgeReals
  Arrays <- ShortArrays
CHECK_DEADLOCK FALSE
INVARIANTS FixedPointExact BytesInOrder
PROPERTIES LoopsEnd
