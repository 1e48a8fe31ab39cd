----------------------------- MODULE Conversions -----------------------------
(***************************************************************************)
(* The conversions of apra::Utils and apra::RealHexParser, loop iteration  *)
(* by loop iteration: reals to fixed-point numbers and back, integers to   *)
(* bytes and back.  The widths of the integer types are parameters; a real *)
(* number is an integer number of the fractions 1 / 2^Scale, since all the *)
(* doubles in these loops are exact.                                       *)
(***************************************************************************)
EXTENDS Integers, Sequences

CONSTANTS
  ShortBits,    \* the bits of a uint16_t
  LongBits,     \* those of a uint32_t
  CounterBits,  \* those of a uint8_t loop counter
  ByteBits,     \* 8, those of a byte
  WordBytes,    \* 8, the bytes of a uint64_t
  MaxDigits,    \* 17, what RealHexParser's constructor accepts
  MaxFormat,    \* 30: with a longer format convertFromUFormat's shift is
                \* undefined, and nothing checks it
  Scale,        \* the binary digits of the reals
  Reals(_),     \* the reals to convert, in a type of so many bits
  Arrays        \* the byte arrays to combine

ASSUME WidthsAssumption ==
  /\ {ShortBits, LongBits, CounterBits, ByteBits} \subseteq Nat
  /\ {MaxDigits, MaxFormat, Scale} \subseteq Nat
  /\ WordBytes \in Nat \ {0}
  /\ ShortBits <= LongBits
  /\ MaxDigits <= Scale /\ 6 <= MaxFormat /\ MaxFormat <= Scale

VARIABLES
  call,    \* the function that runs, and its arguments
  i,       \* its loop counter
  value,   \* what is left of the real, or fractionValue
  result,
  first    \* history: the call whose result call converts back, if any

vars == <<call, i, value, result, first>>

One == 2 ^ Scale
Shift(k) == 2 ^ (ByteBits * k)  \* what moves a number up by k bytes
Byte == 0 .. Shift(1) - 1
Words == 0 .. Shift(WordBytes) - 1

\* A real is in the range of the type it is converted to.
ASSUME InputsAssumption ==
  /\ \A bits \in {ShortBits, LongBits} : Reals(bits) \subseteq 0 .. 2 ^ bits * One - 1
  /\ Arrays \subseteq Seq(Byte)

Call(fn, bits, digits, arg) ==
  [fn |-> fn, bits |-> bits, digits |-> digits, arg |-> arg]
NoCall == Call("none", 0, 0, 0)

Digits == 0 .. MaxDigits   \* of a RealHexParser
Formats == 0 .. MaxFormat

convertToUFormat(x, format) == Call("to", ShortBits, format, x)
convertToU12p4(x) == convertToUFormat(x, 4)
convertTo10p6(x) == convertToUFormat(x, 6)
toHex(x, m_readDigits) == Call("to", LongBits, m_readDigits, x)

convertFromUFormat(h, format) == Call("from", ShortBits, format, h)
convertFrom12p4(h) == convertFromUFormat(h, 4)
convertFrom10p6(h) == convertFromUFormat(h, 6)
toReal(h, m_readDigits) == Call("from", LongBits, m_readDigits, h)

\* At most eight bytes are extracted.
Clipped(n) == IF n > WordBytes THEN WordBytes ELSE n
extractBytes(x, n) == Call("extract", 0, Clipped(n), x)
combineBytes(bytes) == Call("combine", 0, Len(bytes), bytes)
extractTo8Bytes(x) == Call("split", 0, WordBytes, x)
mergefrom8Bytes(bytes) == Call("merge", 0, WordBytes, bytes)

\* The calls of a run.
Calls ==
  (UNION {{convertToU12p4(x), convertTo10p6(x)} : x \in Reals(ShortBits)})
  \cup {convertToUFormat(x, f) : x \in Reals(ShortBits), f \in Formats}
  \cup {toHex(x, d) : x \in Reals(LongBits), d \in Digits}
  \cup (UNION {{convertFrom12p4(h), convertFrom10p6(h)} :
                 h \in 0 .. 2 ^ ShortBits - 1})
  \cup {convertFromUFormat(h, f) : h \in 0 .. 2 ^ ShortBits - 1, f \in Formats}
  \cup {toReal(h, d) : h \in 0 .. 2 ^ LongBits - 1, d \in Digits}
  \cup {extractBytes(x, n) : x \in Words, n \in 0 .. WordBytes + 2}
  \cup {combineBytes(b) : b \in Arrays} \cup {extractTo8Bytes(x) : x \in Words}

\* fractionValue is a uint16_t in toReal as well.
Fraction(h, d) == (h % 2 ^ d) % 2 ^ ShortBits

\* The variables at the beginning of a call.
FirstValue(c) == CASE c.fn = "to" -> c.arg % One
                   [] c.fn = "from" -> Fraction(c.arg, c.digits)
                   [] OTHER -> 0
FirstResult(c) == CASE c.fn = "to" -> c.arg \div One
                    [] c.fn = "from" -> (c.arg \div 2 ^ c.digits) * One
                    [] c.fn \in {"extract", "split"} -> <<>>
                    [] OTHER -> 0

Init ==
  /\ call \in Calls
  /\ i = 0 /\ value = FirstValue(call) /\ result = FirstResult(call)
  /\ first = NoCall

-----------------------------------------------------------------------------
(* One iteration of each loop.                                             *)

In(fn) == call.fn = fn /\ i < call.digits
Done == i >= call.digits
Counted == i' = i + 1 /\ UNCHANGED <<call, first>>

\* A digit of the fraction moves to the result, which may overflow.
ToDigit ==
  /\ In("to")
  /\ LET bit == (2 * value) \div One
     IN  /\ value' = IF bit = 1 THEN 2 * value - One ELSE 2 * value
         /\ result' = (2 * result + bit) % 2 ^ call.bits
  /\ Counted

\* The weight of a digit of the fraction: 1 / twos.
BugTwosFromOne(n) == One \div 2 ^ n
Weight(n) == One \div 2 ^ (n + 1)

FromDigit ==
  /\ In("from")
  /\ LET bit == (value \div 2 ^ (call.digits - 1 - i)) % 2
     IN  result' = result + bit * Weight(i)
  /\ Counted
  /\ UNCHANGED value

ExtractByte ==
  /\ In("extract")
  /\ result' = Append(result,
                 (call.arg \div Shift(call.digits - 1 - i)) % Shift(1))
  /\ Counted
  /\ UNCHANGED value

\* A new byte pushes the others up, the first ones out of the word.
BugLittleEndian(r, b) == r + b * Shift(i)
PushedUp(r, b) == ((r * Shift(1)) % Shift(WordBytes)) + b

\* combineBytes's counter, which wraps.
BugNarrowCounter(n) == (n + 1) % 2 ^ (CounterBits - 1)
Incremented(n) == (n + 1) % 2 ^ CounterBits

CombineByte ==
  /\ In("combine")
  /\ result' = PushedUp(result, call.arg[i + 1])
  /\ i' = Incremented(i)
  /\ UNCHANGED <<call, first, value>>

SplitByte ==
  /\ In("split")
  /\ result' = Append(result, (call.arg \div Shift(i)) % Shift(1))
  /\ Counted
  /\ UNCHANGED value

MergeByte ==
  /\ In("merge")
  /\ result' = result + call.arg[i + 1] * Shift(i)
  /\ Counted
  /\ UNCHANGED value

\* The program converts what it got back again.
ConvertedBack(c, r) ==
  CASE c.fn = "to" -> Call("from", c.bits, c.digits, r)
    [] c.fn = "extract" -> combineBytes(r)
    [] OTHER -> mergefrom8Bytes(r)

ConvertBack ==
  /\ Done /\ first = NoCall /\ call.fn \in {"to", "extract", "split"}
  /\ first' = call
  /\ call' = ConvertedBack(call, result)
  /\ i' = 0 /\ value' = FirstValue(call') /\ result' = FirstResult(call')

Iteration == \/ ToDigit \/ FromDigit \/ ExtractByte \/ CombineByte
             \/ SplitByte \/ MergeByte

Next == Iteration \/ ConvertBack

\* A loop that can go on does.
Spec == Init /\ [][Next]_vars /\ WF_vars(Iteration)

-----------------------------------------------------------------------------
(* Properties.                                                             *)

\* The number that a fixed-point result stands for is the real, rounded down,
\* modulo the width of the type; a number in fixed point is converted to the
\* real it stands for, except that toReal loses the top digit of a fraction
\* that is longer than a uint16_t, which the constructor allows; and a real
\* that fits comes back rounded down to its last digit.
FixedPointExact ==
  LET h == call.arg
      d == call.digits
      lost == (h % 2 ^ d) - Fraction(h, d)
  IN  /\ Done /\ call.fn = "to" =>
           result = ((h * 2 ^ d) \div One) % 2 ^ call.bits
      /\ Done /\ call.fn = "from" =>
           /\ result * 2 ^ d = (h - lost) * One
           /\ lost = 0 \/ (d > ShortBits /\ call.bits > ShortBits)
           /\ first.fn = "to" /\ lost = 0 /\ first.arg * 2 ^ d < One * 2 ^ call.bits =>
                result <= first.arg /\ (first.arg - result) * 2 ^ d < One

\* The bytes that combineBytes combines are the digits of its result, the
\* first one the highest, and all but the last eight are lost; both pairs of
\* functions restore what was taken apart, as far as it was.
BytesInOrder ==
  Done =>
    /\ call.fn = "combine" =>
         LET n == Clipped(Len(call.arg))
         IN  /\ result < Shift(n)
             /\ \A k \in 0 .. n - 1 :
                  (result \div Shift(k)) % Shift(1) = call.arg[Len(call.arg) - k]
    /\ first.fn = "extract" => result = first.arg % Shift(first.digits)
    /\ first.fn = "split" => result = first.arg

\* Every loop ends, except combineBytes's of an array that its 8-bit counter
\* cannot count.
LoopsEnd == (call.fn = "combine" => Len(call.arg) < 2 ^ CounterBits) ~> Done
=============================================================================
