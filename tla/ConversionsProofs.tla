-------------------------- MODULE ConversionsProofs --------------------------
(***************************************************************************)
(* Theorems about Conversions: what the loops of the fixed-point and of    *)
(* the byte conversions compute, for any widths of the types and any       *)
(* number of digits.                                                       *)
(***************************************************************************)
EXTENDS Conversions, TLAPS, FiniteSetTheorems

-----------------------------------------------------------------------------
(* Powers of two, which the provers know nothing of, as numbers of sets.   *)

\* A power of two is a positive number.
LEMMA PowerType ==
  ASSUME NEW n \in Nat
  PROVE  2 ^ n \in Nat /\ 2 ^ n > 0
<1>1. IsFiniteSet(1 .. n) /\ Cardinality(1 .. n) = n
  BY FS_Interval
<1>2. IsFiniteSet(SUBSET (1 .. n)) /\ Cardinality(SUBSET (1 .. n)) = 2 ^ n
  BY <1>1, FS_SUBSET
<1>3. 2 ^ n \in Nat
  BY <1>2, FS_CardinalityType
<1>4. SUBSET (1 .. n) # {}
  BY {} \in SUBSET (1 .. n)
<1>5. 2 ^ n # 0
  BY <1>2, <1>4, FS_EmptySet
<1> QED BY <1>3, <1>5

\* Adding exponents multiplies.
LEMMA PowerSum ==
  ASSUME NEW a \in Nat, NEW b \in Nat
  PROVE  2 ^ (a + b) = 2 ^ a * 2 ^ b
<1> DEFINE A == 1 .. a
           B == (a + 1) .. (a + b)
           C == 1 .. (a + b)
           f == [S \in SUBSET C |-> <<S \cap A, S \cap B>>]
<1>1. /\ IsFiniteSet(A) /\ Cardinality(A) = a
      /\ IsFiniteSet(B) /\ Cardinality(B) = b
      /\ IsFiniteSet(C) /\ Cardinality(C) = a + b
  <2>1. /\ IsFiniteSet(A)
        /\ Cardinality(A) = IF 1 > a THEN 0 ELSE a - 1 + 1
    BY FS_Interval
  <2>2. /\ IsFiniteSet(B)
        /\ Cardinality(B) = IF a + 1 > a + b THEN 0 ELSE a + b - (a + 1) + 1
    BY FS_Interval
  <2>3. /\ IsFiniteSet(C)
        /\ Cardinality(C) = IF 1 > a + b THEN 0 ELSE a + b - 1 + 1
    BY FS_Interval
  <2> QED BY <2>1, <2>2, <2>3
<1>2. /\ C = A \cup B
      /\ A \cap B = {}
  OBVIOUS
<1> HIDE DEF A, B, C
<1>3. f \in Bijection(SUBSET C, (SUBSET A) \X (SUBSET B))
  <2>1. f \in [SUBSET C -> (SUBSET A) \X (SUBSET B)]
    OBVIOUS
  <2>2. ASSUME NEW S \in SUBSET C, NEW T \in SUBSET C, f[S] = f[T]
        PROVE  S = T
    <3>1. S \cap A = T \cap A /\ S \cap B = T \cap B
      BY <2>2
    <3> QED BY <1>2, <3>1
  <2>3. ASSUME NEW t \in (SUBSET A) \X (SUBSET B)
        PROVE  \E S \in SUBSET C : f[S] = t
    <3>1. PICK X \in SUBSET A, Y \in SUBSET B : t = <<X, Y>>
      OBVIOUS
    <3>2. /\ X \cup Y \in SUBSET C
          /\ (X \cup Y) \cap A = X
          /\ (X \cup Y) \cap B = Y
      BY <1>2
    <3>3. f[X \cup Y] = t
      BY <3>1, <3>2
    <3> QED BY <3>2, <3>3
  <2> QED BY <2>1, <2>2, <2>3 DEF Bijection, Injection, Surjection, IsInjective
<1>4. Cardinality((SUBSET A) \X (SUBSET B)) = Cardinality(SUBSET C)
  <2>1. IsFiniteSet(SUBSET C)
    BY <1>1, FS_SUBSET
  <2>2. ExistsBijection(SUBSET C, (SUBSET A) \X (SUBSET B))
    BY <1>3 DEF ExistsBijection
  <2> QED BY <2>1, <2>2, FS_Bijection
<1>5. /\ Cardinality(SUBSET C) = 2 ^ (a + b)
      /\ IsFiniteSet(SUBSET A) /\ Cardinality(SUBSET A) = 2 ^ a
      /\ IsFiniteSet(SUBSET B) /\ Cardinality(SUBSET B) = 2 ^ b
  BY <1>1, FS_SUBSET
<1>6. Cardinality((SUBSET A) \X (SUBSET B)) =
        Cardinality(SUBSET A) * Cardinality(SUBSET B)
  BY <1>5, FS_Product
<1> QED BY <1>4, <1>5, <1>6

-----------------------------------------------------------------------------
(* Division by a number that is not a constant.                            *)

Positive == Nat \ {0}

\* A quotient and a remainder make up the number.
LEMMA Division ==
  ASSUME NEW x \in Nat, NEW m \in Positive
  PROVE  /\ x \div m \in Nat
         /\ x % m \in Nat /\ x % m < m
         /\ x = m * (x \div m) + (x % m)
BY DEF Positive

\* And there is only one such pair.
LEMMA DivisionUnique ==
  ASSUME NEW m \in Positive, NEW q \in Nat, NEW r \in Nat, r < m
  PROVE  (m * q + r) \div m = q /\ (m * q + r) % m = r
<1> DEFINE x == m * q + r
<1>1. x \in Nat
  BY DEF Positive
<1> HIDE DEF x
<1>2. PICK p \in Nat, s \in Nat :
        p = x \div m /\ s = x % m /\ s < m /\ x = m * p + s
  BY <1>1, Division
<1>3. m * q + r = m * p + s
  BY <1>2 DEF x
<1>4. ~ q < p
  <2>1. SUFFICES ASSUME q + 1 <= p PROVE FALSE
    BY <1>2
  <2>2. m * (q + 1) <= m * p
    BY <1>2, <2>1 DEF Positive
  <2> QED BY <1>2, <1>3, <2>2 DEF Positive
<1>5. ~ p < q
  <2>1. SUFFICES ASSUME p + 1 <= q PROVE FALSE
    BY <1>2
  <2>2. m * (p + 1) <= m * q
    BY <1>2, <2>1 DEF Positive
  <2> QED BY <1>2, <1>3, <2>2 DEF Positive
<1>6. p = q
  BY <1>2, <1>4, <1>5
<1>7. s = r
  BY <1>2, <1>3, <1>6 DEF Positive
<1> QED BY <1>2, <1>6, <1>7 DEF x

\* A number below the divisor is its own remainder.
LEMMA Small ==
  ASSUME NEW m \in Positive, NEW r \in Nat, r < m
  PROVE  r \div m = 0 /\ r % m = r
<1>1. m * 0 + r = r
  BY DEF Positive
<1> QED BY <1>1, DivisionUnique

\* A multiple of the divisor does not change the remainder.
LEMMA RemainderOfSum ==
  ASSUME NEW m \in Positive, NEW k \in Nat, NEW x \in Nat
  PROVE  (m * k + x) % m = x % m
<1>1. PICK p \in Nat, s \in Nat : s < m /\ s = x % m /\ x = m * p + s
  BY Division
<1>2. m * k + x = m * (k + p) + s
  BY <1>1 DEF Positive
<1> QED BY <1>1, <1>2, DivisionUnique

\* Dividing by a product is dividing twice.
LEMMA DivisionTwice ==
  ASSUME NEW x \in Nat, NEW a \in Positive, NEW b \in Positive
  PROVE  /\ x \div (a * b) = (x \div a) \div b
         /\ x % (a * b) = a * ((x \div a) % b) + (x % a)
<1>1. PICK q \in Nat, r \in Nat :
        q = x \div a /\ r = x % a /\ r < a /\ x = a * q + r
  BY Division
<1>2. PICK p \in Nat, s \in Nat :
        p = q \div b /\ s = q % b /\ s < b /\ q = b * p + s
  BY Division
<1>3. a * b \in Positive
  BY DEF Positive
<1>4. x = (a * b) * p + (a * s + r)
  <2>1. x = a * (b * p + s) + r
    BY <1>1, <1>2
  <2> QED BY <1>1, <1>2, <2>1 DEF Positive
<1>5. a * s + r \in Nat /\ a * s + r < a * b
  <2>1. a * (s + 1) <= a * b
    BY <1>2 DEF Positive
  <2> QED BY <1>1, <1>2, <2>1 DEF Positive
<1> QED BY <1>1, <1>2, <1>3, <1>4, <1>5, DivisionUnique

\* A common factor of number and divisor is one of the remainder.
LEMMA CommonFactor ==
  ASSUME NEW x \in Nat, NEW a \in Positive, NEW b \in Positive
  PROVE  (a * x) % (a * b) = a * (x % b)
<1>1. a * x \in Nat /\ a * x = a * x + 0
  BY DEF Positive
<1>2. (a * x) \div a = x /\ (a * x) % a = 0
  BY <1>1, DivisionUnique DEF Positive
<1>3. a * (x % b) \in Nat
  BY Division DEF Positive
<1>4. (a * x) % (a * b) = a * (((a * x) \div a) % b) + ((a * x) % a)
  BY <1>1, DivisionTwice
<1> QED BY <1>2, <1>3, <1>4

\* What a remainder keeps of the digits below its divisor.
LEMMA DigitOfRemainder ==
  ASSUME NEW x \in Nat, NEW a \in Positive, NEW b \in Positive,
         NEW c \in Positive
  PROVE  ((x % (a * (b * c))) \div a) % b = (x \div a) % b
<1>1. b * c \in Positive /\ a * (b * c) \in Positive
  BY DEF Positive
<1> DEFINE y == x \div a
<1>2. y \in Nat /\ x % a \in Nat /\ x % a < a
  BY Division
<1>3. x % (a * (b * c)) = a * (y % (b * c)) + (x % a)
  BY <1>1, DivisionTwice
<1> HIDE DEF y
<1>4. y % (b * c) \in Nat
  BY <1>1, <1>2, Division
<1>5. (x % (a * (b * c))) \div a = y % (b * c)
  BY <1>2, <1>3, <1>4, DivisionUnique
<1>6. y % (b * c) = b * ((y \div b) % c) + (y % b)
  BY <1>2, DivisionTwice
<1>7. /\ y \div b \in Nat /\ y % b \in Nat /\ y % b < b
      /\ (y \div b) % c \in Nat
  BY <1>2, Division
<1>8. (y % (b * c)) % b = y % b
  BY <1>6, <1>7, DivisionUnique
<1> QED BY <1>5, <1>8 DEF y

-----------------------------------------------------------------------------
(* The inductive invariant: what each loop has computed after i iterations.*)

\* The fractions of fixed-point numbers have so many digits.
Lengths == Digits \cup Formats

\* The calls c that the program makes, and makes of a result.
WellFormed(c) ==
  /\ c.fn \in {"to", "from"} =>
       /\ c.bits \in {ShortBits, LongBits} /\ c.digits \in Lengths
       /\ c.arg \in Nat
  /\ c.fn = "to" => c.arg < 2 ^ c.bits * One
  /\ c.fn = "from" => c.arg < 2 ^ c.bits
  /\ c.fn \in {"extract", "split"} =>
       /\ c.digits \in 0 .. WordBytes
       /\ c.arg \in Words
  /\ c.fn \in {"split", "merge"} => c.digits = WordBytes
  /\ c.fn \in {"combine", "merge"} =>
       /\ c.arg \in Seq(Byte)
       /\ c.digits = Len(c.arg)

FunctionNames == {"to", "from", "extract", "combine", "split", "merge"}

\* combineBytes's counter counts the array.
Countable(c) == Len(c.arg) < 2 ^ CounterBits

CounterInv(c, n) ==
  /\ n \in Nat
  /\ c.fn = "combine" => n < 2 ^ CounterBits
  /\ (c.fn = "combine" => Countable(c)) => n <= c.digits

\* The digits before the n-th are in the result r, the others in the value v.
ToInv(c, n, v, r) ==
  c.fn = "to" =>
    /\ v = (c.arg * 2 ^ n) % One
    /\ r = ((c.arg * 2 ^ n) \div One) % 2 ^ c.bits

\* The result is that of the first n digits of the fraction.
FromInv(c, n, v, r) ==
  c.fn = "from" =>
    /\ v = Fraction(c.arg, c.digits)
    /\ r \in Nat
    /\ r * 2 ^ n =
         ((c.arg \div 2 ^ c.digits) * 2 ^ n + (v \div 2 ^ (c.digits - n))) * One

\* The bytes of a number, the highest or the lowest first.
Highest(x, d, j) == (x \div Shift(d - j)) % Shift(1)
Lowest(x, j) == (x \div Shift(j - 1)) % Shift(1)

BytesInv(c, n, r) ==
  /\ c.fn \in {"extract", "split"} => r \in Seq(Byte) /\ Len(r) = n
  /\ c.fn = "extract" => \A j \in 1 .. n : r[j] = Highest(c.arg, c.digits, j)
  /\ c.fn = "split" => \A j \in 1 .. n : r[j] = Lowest(c.arg, j)

\* The last bytes combined are the digits of the result.
CombineInv(c, n, r) ==
  c.fn = "combine" /\ Countable(c) =>
    /\ r \in Nat
    /\ r < Shift(Clipped(n))
    /\ \A k \in 0 .. Clipped(n) - 1 :
         (r \div Shift(k)) % Shift(1) = c.arg[n - k]

\* What is converted back is the result of the first call f, and what came
\* back of it the part of its argument that the loop has read.
BackInv(f, c, n, r) ==
  /\ f.fn \in {"none", "to", "extract", "split"}
  /\ f.fn = "none" <=> f = NoCall
  /\ f.fn = "none" => c.fn # "merge"
  /\ WellFormed(f)
  /\ f.fn = "to" =>
       c = Call("from", f.bits, f.digits,
                ((f.arg * 2 ^ f.digits) \div One) % 2 ^ f.bits)
  /\ f.fn = "extract" =>
       /\ c.fn = "combine"
       /\ c.digits = f.digits
       /\ \A j \in 1 .. f.digits : c.arg[j] = Highest(f.arg, f.digits, j)
       /\ Countable(c) => r = (f.arg \div Shift(f.digits - n)) % Shift(n)
  /\ f.fn = "split" =>
       /\ c.fn = "merge"
       /\ \A j \in 1 .. WordBytes : c.arg[j] = Lowest(f.arg, j)
       /\ r = f.arg % Shift(n)

IInv ==
  /\ WellFormed(call) /\ call.fn \in FunctionNames
  /\ CounterInv(call, i)
  /\ ToInv(call, i, value, result)
  /\ FromInv(call, i, value, result)
  /\ BytesInv(call, i, result)
  /\ CombineInv(call, i, result)
  /\ BackInv(first, call, i, result)

-----------------------------------------------------------------------------
(* What one iteration of each loop does to the numbers.                    *)

\* The widths are natural numbers and what they bound is not empty.
LEMMA Widths ==
  /\ {ShortBits, LongBits, CounterBits, ByteBits} \subseteq Nat
  /\ {MaxDigits, MaxFormat, Scale} \subseteq Nat
  /\ WordBytes \in Nat \ {0} /\ MaxDigits <= Scale /\ MaxFormat <= Scale
  /\ \A n \in Nat : 2 ^ n \in Positive
  /\ One \in Positive
BY WidthsAssumption, PowerType DEF Positive, One

\* Shifting by so many bytes and so many more.
LEMMA Shifts ==
  ASSUME NEW m \in Nat, NEW n \in Nat
  PROVE  /\ Shift(m) \in Positive
         /\ Shift(m + n) = Shift(m) * Shift(n)
<1>1. ByteBits * m \in Nat /\ ByteBits * n \in Nat
  BY Widths
<1>2. ByteBits * (m + n) = ByteBits * m + ByteBits * n
  BY Widths
<1>3. 2 ^ (ByteBits * m + ByteBits * n) = 2 ^ (ByteBits * m) * 2 ^ (ByteBits * n)
  BY <1>1, PowerSum, Zenon
<1>4. 2 ^ (ByteBits * m) \in Positive
  BY <1>1, Widths, Zenon
<1> QED BY <1>2, <1>3, <1>4, Zenon DEF Shift

\* Doubling.
LEMMA Doubled ==
  ASSUME NEW n \in Nat
  PROVE  2 ^ n \in Nat /\ 2 ^ n > 0 /\ 2 ^ (n + 1) = 2 * 2 ^ n
<1>1. 2 ^ 1 = 2
  OBVIOUS
<1>2. 2 ^ (n + 1) = 2 ^ n * 2 ^ 1
  BY 1 \in Nat, PowerSum, Zenon
<1>3. 2 ^ n \in Nat /\ 2 ^ n > 0
  BY PowerType, Zenon
<1> QED BY <1>1, <1>2, <1>3

\* The digit that the loops of toHex and convertToUFormat move: of a number y
\* of fractions 1 / O, in a type that holds the numbers below M.
LEMMA DigitMoves ==
  ASSUME NEW O \in Positive, NEW M \in Positive, NEW y \in Nat,
         NEW v, v = y % O,
         NEW r, r = (y \div O) % M,
         NEW bit, bit = (2 * v) \div O
  PROVE  /\ (IF bit = 1 THEN 2 * v - O ELSE 2 * v) = (2 * y) % O
         /\ (2 * r + bit) % M = ((2 * y) \div O) % M
<1>1. PICK q \in Nat, w \in Nat :
        q = y \div O /\ w = v /\ w < O /\ y = O * q + w
  BY Division
<1>2. PICK b \in Nat, s \in Nat :
        b = bit /\ s = (2 * w) % O /\ s < O /\ 2 * w = O * b + s
  BY <1>1, Division
<1>3. b = 0 \/ b = 1
  <2>1. SUFFICES ASSUME b >= 2 PROVE FALSE
    BY <1>2
  <2>2. O * 2 <= O * b
    BY <2>1 DEF Positive
  <2> QED BY <1>1, <1>2, <2>2 DEF Positive
<1>4. (IF b = 1 THEN 2 * w - O ELSE 2 * w) = s
  <2>1. CASE b = 0
    BY <1>2, <2>1 DEF Positive
  <2>2. CASE b = 1
    BY <1>2, <2>2 DEF Positive
  <2> QED BY <1>3, <2>1, <2>2
<1>5. 2 * y = O * (2 * q + b) + s
  <2>1. PICK e \in Nat, f \in Nat : e = O * q /\ f = O * b
    BY DEF Positive
  <2>2. O * (2 * q + b) = 2 * e + f
    BY <2>1 DEF Positive
  <2>3. y = e + w /\ 2 * w = f + s
    BY <1>1, <1>2, <2>1
  <2> QED BY <2>2, <2>3
<1>6. (2 * y) \div O = 2 * q + b /\ (2 * y) % O = s
  BY <1>2, <1>5, DivisionUnique
<1>7. PICK p \in Nat, t \in Nat : q = M * p + t /\ t = r
  BY <1>1, Division
<1>8. 2 * q + b = M * (2 * p) + (2 * t + b)
  BY <1>7 DEF Positive
<1>9. (2 * q + b) % M = (2 * t + b) % M
  BY <1>8, RemainderOfSum
<1> QED BY <1>1, <1>2, <1>4, <1>6, <1>7, <1>9

\* The digit that the loops of toReal and convertFromUFormat add: H are the
\* digits of the fraction so far, G those with the next one, and w its weight.
LEMMA DigitAdds ==
  ASSUME NEW O \in Nat, NEW P \in Nat, NEW w \in Nat, w * (2 * P) = O,
         NEW Q \in Nat, NEW r \in Nat, NEW G \in Nat, NEW H, H = G \div 2,
         r * P = (Q * P + H) * O
  PROVE  /\ r + (G % 2) * w \in Nat
         /\ (r + (G % 2) * w) * (2 * P) = (Q * (2 * P) + G) * O
<1>1. PICK h \in Nat, b \in Nat : h = H /\ b = G % 2 /\ G = 2 * h + b
  BY 2 \in Positive, Division DEF Positive
<1>2. b * w \in Nat /\ r + b * w \in Nat
  OBVIOUS
<1>3. (r + b * w) * (2 * P) = 2 * (r * P) + b * (w * (2 * P))
  OBVIOUS
<1>4. 2 * ((Q * P + h) * O) + b * O = (Q * (2 * P) + G) * O
  BY <1>1
<1> QED BY <1>1, <1>2, <1>3, <1>4

\* The weight of a digit, and the digits of a fraction that stand before it.
LEMMA Weights ==
  ASSUME NEW d \in Nat, NEW n \in Nat, n < d, d <= Scale, NEW F \in Nat
  PROVE  /\ Weight(n) \in Nat /\ Weight(n) * (2 * 2 ^ n) = One
         /\ F \div 2 ^ (d - 1 - n) \in Nat
         /\ F \div 2 ^ (d - n) = (F \div 2 ^ (d - 1 - n)) \div 2
         /\ d - (n + 1) = d - 1 - n
<1>1. /\ d - 1 - n \in Nat /\ n + 1 \in Nat
      /\ d - n = (d - 1 - n) + 1 /\ d - (n + 1) = d - 1 - n
  OBVIOUS
<1>2. Scale - (n + 1) \in Nat /\ Scale = (n + 1) + (Scale - (n + 1))
  BY Widths
<1>3. PICK k \in Positive : k = 2 ^ (d - 1 - n)
  BY <1>1, Widths, Zenon
<1>4. 2 ^ (d - n) = 2 * k
  BY <1>1, <1>3, Doubled, Zenon
<1>5. F \div k \in Nat /\ F \div (k * 2) = (F \div k) \div 2
  BY 2 \in Positive, Division, DivisionTwice DEF Positive
<1>6. k * 2 = 2 * k
  BY DEF Positive
<1>7. PICK a \in Positive, c \in Positive :
        a = 2 ^ (n + 1) /\ c = 2 ^ (Scale - (n + 1))
  BY <1>1, <1>2, Widths, Zenon
<1>8. One = a * c
  BY <1>1, <1>2, <1>7, PowerSum, Zenon DEF One
<1>9. (a * c + 0) \div a = c
  BY DivisionUnique DEF Positive
<1>10. Weight(n) = c /\ c * a = One
  BY <1>7, <1>8, <1>9 DEF Weight, Positive
<1>11. a = 2 * 2 ^ n
  BY <1>7, Doubled, Zenon
<1> QED BY <1>1, <1>3, <1>4, <1>5, <1>6, <1>10, <1>11 DEF Positive

\* One more byte of a number, from above and from below.
LEMMA HighestStep ==
  ASSUME NEW x \in Nat, NEW d \in Nat, NEW n \in Nat, n < d
  PROVE  /\ (x \div Shift(d - n)) % Shift(n) < Shift(n)
         /\ (x \div Shift(d - (n + 1))) % Shift(n + 1) =
              Shift(1) * ((x \div Shift(d - n)) % Shift(n)) +
              Highest(x, d, n + 1)
<1>1. d - (n + 1) \in Nat /\ d - n = (d - (n + 1)) + 1
  OBVIOUS
<1>2. PICK a \in Positive, b \in Positive, c \in Positive :
        a = Shift(d - (n + 1)) /\ b = Shift(1) /\ c = Shift(n)
  BY <1>1, 1 \in Nat, Shifts, Zenon
<1>3. Shift(d - n) = a * b
  BY <1>1, <1>2, 1 \in Nat, Shifts, Zenon
<1>4. Shift(n + 1) = c * b
  BY <1>2, 1 \in Nat, Shifts, Zenon
<1>5. c * b = b * c
  BY DEF Positive
<1>6. /\ x \div a \in Nat
      /\ x \div (a * b) = (x \div a) \div b
  BY Division, DivisionTwice
<1>7. PICK y \in Nat : y = x \div a
  BY <1>6
<1>8. y % (b * c) = b * ((y \div b) % c) + (y % b)
  BY DivisionTwice
<1>9. y \div b \in Nat /\ (y \div b) % c < c
  BY Division
<1> QED BY <1>2, <1>3, <1>4, <1>5, <1>7, <1>8, <1>9, <1>6 DEF Highest

LEMMA LowestNext ==
  ASSUME NEW x, NEW n \in Nat
  PROVE  Lowest(x, n + 1) = (x \div Shift(n)) % Shift(1)
<1>1. n + 1 - 1 = n
  OBVIOUS
<1> QED BY <1>1 DEF Lowest

LEMMA LowestStep ==
  ASSUME NEW x \in Nat, NEW n \in Nat
  PROVE  x % Shift(n + 1) = (x % Shift(n)) + Lowest(x, n + 1) * Shift(n)
<1>1. PICK b \in Positive, c \in Positive : b = Shift(1) /\ c = Shift(n)
  BY 1 \in Nat, Shifts, Zenon
<1>2. Shift(n + 1) = c * b
  BY <1>1, 1 \in Nat, Shifts, Zenon
<1>3. PICK y \in Nat, r \in Nat : y = x \div c /\ r = x % c
  BY Division
<1>4. x % (c * b) = c * (y % b) + r
  BY <1>3, DivisionTwice
<1>5. PICK e \in Nat : e = y % b
  BY Division
<1>6. Lowest(x, n + 1) = e
  BY <1>1, <1>3, <1>5, LowestNext
<1>7. x % (c * b) = r + e * c
  BY <1>4, <1>5 DEF Positive
<1> QED BY <1>1, <1>2, <1>3, <1>6, <1>7, Zenon

\* A byte of a number is a byte.
LEMMA IsByte ==
  ASSUME NEW x \in Nat, NEW d \in Nat, NEW j \in 1 .. d
  PROVE  Highest(x, d, j) \in Byte /\ Lowest(x, j) \in Byte
<1>1. d - j \in Nat /\ j - 1 \in Nat
  OBVIOUS
<1>2. PICK a \in Positive, b \in Positive, c \in Positive :
        a = Shift(d - j) /\ b = Shift(1) /\ c = Shift(j - 1)
  BY <1>1, 1 \in Nat, Shifts, Zenon
<1>3. /\ x \div a \in Nat /\ x \div c \in Nat
      /\ (x \div a) % b \in 0 .. b - 1
      /\ (x \div c) % b \in 0 .. b - 1
  BY Division DEF Positive
<1> QED BY <1>2, <1>3 DEF Highest, Lowest, Byte

\* combineBytes's word keeps its lowest bytes and pushes them up.
LEMMA Pushing ==
  ASSUME NEW r \in Nat, NEW b \in Byte
  PROVE  /\ WordBytes - 1 \in Nat
         /\ PushedUp(r, b) \in Nat
         /\ PushedUp(r, b) = Shift(1) * (r % Shift(WordBytes - 1)) + b
         /\ PushedUp(r, b) \div Shift(1) = r % Shift(WordBytes - 1)
         /\ PushedUp(r, b) % Shift(1) = b
<1>1. WordBytes - 1 \in Nat /\ WordBytes = (WordBytes - 1) + 1
  BY Widths
<1>2. PICK s \in Positive, t \in Positive :
        s = Shift(1) /\ t = Shift(WordBytes - 1)
  BY <1>1, 1 \in Nat, Shifts, Zenon
<1>3. Shift(WordBytes) = t * s
  BY <1>1, <1>2, 1 \in Nat, Shifts, Zenon
<1>4. (s * r) % (s * t) = s * (r % t)
  BY CommonFactor
<1>5. t * s = s * t /\ r * s = s * r
  BY DEF Positive
<1>6. PushedUp(r, b) = s * (r % t) + b
  BY <1>2, <1>3, <1>4, <1>5 DEF PushedUp
<1>7. b \in Nat /\ b < s
  BY <1>2 DEF Byte, Positive
<1>8. r % t \in Nat
  BY Division
<1>9. /\ (s * (r % t) + b) \div s = r % t
      /\ (s * (r % t) + b) % s = b
  BY <1>7, <1>8, DivisionUnique
<1>10. s * (r % t) + b \in Nat
  BY <1>7, <1>8 DEF Positive
<1> QED BY <1>1, <1>2, <1>6, <1>9, <1>10

\* Shifting further makes no smaller.
LEMMA ShiftMonotone ==
  ASSUME NEW m \in Nat, NEW n \in Nat, m <= n
  PROVE  Shift(m) <= Shift(n)
<1>1. n - m \in Nat /\ n = m + (n - m)
  OBVIOUS
<1>2. PICK a \in Positive, b \in Positive :
        a = Shift(m) /\ b = Shift(n - m) /\ Shift(n) = a * b
  BY <1>1, Shifts, Zenon
<1>3. a <= a * b
  BY DEF Positive
<1> QED BY <1>2, <1>3

LEMMA ShiftZero ==
  Shift(0) = 1
<1>1. ByteBits * 0 = 0 /\ 2 ^ 0 = 1
  BY Widths
<1> QED BY <1>1, Zenon DEF Shift

\* What combineBytes's word holds after one more byte.
LEMMA CombineStep ==
  ASSUME NEW r \in Nat, NEW b \in Byte, NEW n \in Nat, r < Shift(Clipped(n))
  PROVE  /\ PushedUp(r, b) < Shift(Clipped(n + 1))
         /\ PushedUp(r, b) % Shift(1) = b
         /\ \A k \in 1 .. Clipped(n + 1) - 1 :
              /\ k - 1 \in 0 .. Clipped(n) - 1
              /\ (PushedUp(r, b) \div Shift(k)) % Shift(1) =
                   (r \div Shift(k - 1)) % Shift(1)
<1> DEFINE W == WordBytes
           p == PushedUp(r, b)
           q == r % Shift(WordBytes - 1)
<1>1. /\ W - 1 \in Nat /\ W \in Nat /\ p \in Nat
      /\ p = Shift(1) * q + b /\ p \div Shift(1) = q /\ p % Shift(1) = b
  BY Pushing, Widths
<1>2. /\ Clipped(n) = IF n > W THEN W ELSE n
      /\ Clipped(n + 1) = IF n + 1 > W THEN W ELSE n + 1
  BY DEF Clipped
<1>3. /\ Clipped(n) \in Nat /\ Clipped(n + 1) \in Nat /\ Clipped(n + 1) <= W
      /\ Clipped(n + 1) - 1 \in Nat /\ Clipped(n + 1) - 1 <= Clipped(n)
      /\ Clipped(n + 1) - 1 = W - 1 \/ Clipped(n + 1) - 1 = Clipped(n)
  BY <1>1, <1>2
<1>4. q \in Nat /\ q < Shift(W - 1) /\ q <= r
  <2>1. PICK t \in Positive : t = Shift(W - 1)
    BY <1>1, Shifts, Zenon
  <2>2. r % t \in Nat /\ r % t < t /\ r \div t \in Nat
        /\ r = t * (r \div t) + (r % t)
    BY Division
  <2>3. t * (r \div t) \in Nat
    BY <2>2 DEF Positive
  <2> QED BY <2>1, <2>2, <2>3
<1>5. q < Shift(Clipped(n + 1) - 1)
  <2>1. Shift(Clipped(n)) \in Nat
    BY <1>3, Shifts DEF Positive
  <2> QED BY <1>3, <1>4, <2>1
<1>6. p < Shift(Clipped(n + 1))
  <2>1. PICK s \in Positive, t \in Positive :
          s = Shift(1) /\ t = Shift(Clipped(n + 1) - 1)
    BY <1>3, 1 \in Nat, Shifts, Zenon
  <2>2. Clipped(n + 1) = (Clipped(n + 1) - 1) + 1
    BY <1>3
  <2>3. Shift(Clipped(n + 1)) = t * s
    BY <1>3, <2>1, <2>2, 1 \in Nat, Shifts, Zenon
  <2>4. b \in Nat /\ b < s
    BY <2>1 DEF Byte, Positive
  <2>5. s * (q + 1) <= s * t
    BY <1>4, <1>5, <2>1 DEF Positive
  <2>6. s * q + b < t * s
    BY <1>4, <2>4, <2>5 DEF Positive
  <2> QED BY <1>1, <2>1, <2>3, <2>6
<1>7. ASSUME NEW k \in 1 .. Clipped(n + 1) - 1
      PROVE  /\ k - 1 \in 0 .. Clipped(n) - 1
             /\ (p \div Shift(k)) % Shift(1) = (r \div Shift(k - 1)) % Shift(1)
  <2>1. /\ k - 1 \in Nat /\ k - 1 \in 0 .. Clipped(n) - 1
        /\ W - 1 - k \in Nat
        /\ k = 1 + (k - 1) /\ W - 1 = (k - 1) + (1 + (W - 1 - k))
    BY <1>1, <1>3
  <2>2. PICK s \in Positive, a \in Positive, c \in Positive :
          s = Shift(1) /\ a = Shift(k - 1) /\ c = Shift(W - 1 - k)
    BY <2>1, 1 \in Nat, Shifts, Zenon
  <2>3. Shift(k) = s * a
    BY <2>1, <2>2, 1 \in Nat, Shifts, Zenon
  <2>4. 1 + (W - 1 - k) \in Nat
    BY <2>1
  <2>5. Shift(W - 1) = a * (s * c)
    BY <2>1, <2>2, <2>4, 1 \in Nat, Shifts, Zenon
  <2>6. p \div (s * a) = (p \div s) \div a
    BY <1>1, DivisionTwice
  <2>7. ((r % (a * (s * c))) \div a) % s = (r \div a) % s
    BY DigitOfRemainder
  <2> QED BY <1>1, <2>1, <2>2, <2>3, <2>5, <2>6, <2>7
<1> QED BY <1>1, <1>6, <1>7

-----------------------------------------------------------------------------
(* The invariant holds at the beginning of every call and is kept by every *)
(* iteration.                                                              *)

\* A number below a product has a quotient below its other factor.
LEMMA QuotientBound ==
  ASSUME NEW x \in Nat, NEW m \in Positive, NEW k \in Nat, x < k * m
  PROVE  x \div m < k
<1>1. PICK q \in Nat, r \in Nat : q = x \div m /\ x = m * q + r
  BY Division
<1>2. SUFFICES ASSUME k <= q PROVE FALSE
  BY <1>1
<1>3. m * k <= m * q
  BY <1>1, <1>2 DEF Positive
<1> QED BY <1>1, <1>3 DEF Positive

\* What the fraction of a fixed-point number can be.
LEMMA FractionFacts ==
  ASSUME NEW h \in Nat, NEW d \in Nat
  PROVE  /\ Fraction(h, d) \in Nat
         /\ Fraction(h, d) < 2 ^ d
         /\ Fraction(h, d) <= h % 2 ^ d
         /\ h % 2 ^ d < 2 ^ ShortBits => Fraction(h, d) = h % 2 ^ d
<1> ShortBits \in Nat
  BY Widths
<1>1. PICK a \in Positive, b \in Positive : a = 2 ^ d /\ b = 2 ^ ShortBits
  BY Widths, Zenon
<1>2. h % a \in Nat /\ h % a < a
  BY Division
<1>3. /\ (h % a) % b \in Nat /\ (h % a) \div b \in Nat
      /\ h % a = b * ((h % a) \div b) + ((h % a) % b)
  BY <1>2, Division
<1>4. b * ((h % a) \div b) \in Nat
  BY <1>3 DEF Positive
<1>5. h % a < b => (h % a) % b = h % a
  BY <1>2, Small
<1> QED BY <1>1, <1>2, <1>3, <1>4, <1>5 DEF Fraction

LEMMA Started ==
  ASSUME NEW c, WellFormed(c), c.fn \in FunctionNames
  PROVE  /\ CounterInv(c, 0)
         /\ ToInv(c, 0, FirstValue(c), FirstResult(c))
         /\ FromInv(c, 0, FirstValue(c), FirstResult(c))
         /\ BytesInv(c, 0, FirstResult(c))
         /\ CombineInv(c, 0, FirstResult(c))
<1>1. CounterInv(c, 0)
  <2>1. 2 ^ CounterBits > 0
    BY PowerType, Widths
  <2>2. c.fn \in {"to", "from"} => c.digits \in Nat
    BY Widths DEF WellFormed, Lengths, Digits, Formats
  <2>3. c.fn \in {"extract", "split", "merge"} => c.digits \in Nat
    BY Widths DEF WellFormed
  <2>4. c.fn = "combine" => c.digits \in Nat
    BY DEF WellFormed
  <2> QED BY <2>1, <2>2, <2>3, <2>4 DEF CounterInv, FunctionNames
<1>2. ToInv(c, 0, FirstValue(c), FirstResult(c))
  <2>1. SUFFICES ASSUME c.fn = "to"
                 PROVE  /\ FirstValue(c) = (c.arg * 2 ^ 0) % One
                        /\ FirstResult(c) =
                             ((c.arg * 2 ^ 0) \div One) % 2 ^ c.bits
    BY DEF ToInv
  <2>2. /\ FirstValue(c) = c.arg % One
        /\ FirstResult(c) = c.arg \div One
    BY <2>1 DEF FirstValue, FirstResult
  <2>3. PICK x \in Nat : x = c.arg /\ x < 2 ^ c.bits * One /\ c.bits \in Nat
    BY <2>1, Widths DEF WellFormed
  <2>4. PICK M \in Positive : M = 2 ^ c.bits
    BY <2>3, Widths, Zenon
  <2>5. x \div One \in Nat /\ x \div One < M
    BY <2>3, <2>4, Widths, Division, QuotientBound DEF Positive
  <2>6. (x \div One) % M = x \div One
    BY <2>5, Small
  <2>7. 2 ^ 0 = 1 /\ x * 1 = x
    OBVIOUS
  <2> QED BY <2>2, <2>3, <2>4, <2>6, <2>7
<1>3. FromInv(c, 0, FirstValue(c), FirstResult(c))
  <2>1. SUFFICES
          ASSUME c.fn = "from"
          PROVE  /\ FirstValue(c) = Fraction(c.arg, c.digits)
                 /\ FirstResult(c) \in Nat
                 /\ FirstResult(c) * 2 ^ 0 =
                      ((c.arg \div 2 ^ c.digits) * 2 ^ 0 +
                       (FirstValue(c) \div 2 ^ (c.digits - 0))) * One
    BY DEF FromInv
  <2>2. /\ FirstValue(c) = Fraction(c.arg, c.digits)
        /\ FirstResult(c) = (c.arg \div 2 ^ c.digits) * One
    BY <2>1 DEF FirstValue, FirstResult
  <2>3. c.arg \in Nat /\ c.digits \in Nat /\ c.digits - 0 = c.digits
    BY <2>1, Widths DEF WellFormed, Lengths, Digits, Formats
  <2>4. PICK D \in Positive : D = 2 ^ c.digits
    BY <2>3, Widths, Zenon
  <2>5. Fraction(c.arg, c.digits) \div D = 0
    BY <2>3, <2>4, FractionFacts, Small
  <2>6. PICK q \in Nat : q = c.arg \div D
    BY <2>3, Division
  <2>7. q * One \in Nat /\ q * One * 1 = (q * 1 + 0) * One
    BY Widths DEF Positive
  <2>8. 2 ^ 0 = 1
    OBVIOUS
  <2> QED BY <2>2, <2>3, <2>4, <2>5, <2>6, <2>7, <2>8
<1>4. BytesInv(c, 0, FirstResult(c))
  <2>1. c.fn \in {"extract", "split"} => FirstResult(c) = <<>>
    BY DEF FirstResult
  <2>2. <<>> \in Seq(Byte) /\ Len(<<>>) = 0 /\ 1 .. 0 = {}
    OBVIOUS
  <2> QED BY <2>1, <2>2 DEF BytesInv
<1>5. CombineInv(c, 0, FirstResult(c))
  <2>1. c.fn = "combine" => FirstResult(c) = 0
    BY DEF FirstResult
  <2>2. Clipped(0) = 0
    BY Widths DEF Clipped
  <2> QED BY <2>1, <2>2, ShiftZero DEF CombineInv
<1> QED BY <1>1, <1>2, <1>3, <1>4, <1>5

LEMMA Initially ==
  Init => IInv
<1> SUFFICES ASSUME Init PROVE IInv
  OBVIOUS
<1>1. WellFormed(call) /\ call.fn \in FunctionNames \ {"merge"}
  <2>1. call \in Calls
    BY DEF Init
  <2>2. {4, 6} \subseteq Lengths
    BY Widths, WidthsAssumption DEF Lengths, Digits, Formats
  <2>3. ASSUME NEW b \in {ShortBits, LongBits}, NEW x \in Reals(b),
               NEW d \in Lengths, call = Call("to", b, d, x)
        PROVE  WellFormed(call) /\ call.fn = "to"
    <3>1. PICK M \in Nat : M = 2 ^ b * One
      BY Widths DEF Positive
    <3>2. x \in 0 .. M - 1
      BY <3>1, InputsAssumption
    <3> QED BY <2>3, <3>1, <3>2 DEF WellFormed, Call
  <2>4. ASSUME NEW b \in {ShortBits, LongBits}, NEW h \in 0 .. 2 ^ b - 1,
               NEW d \in Lengths, call = Call("from", b, d, h)
        PROVE  WellFormed(call) /\ call.fn = "from"
    <3>1. PICK M \in Nat : M = 2 ^ b
      BY Widths DEF Positive
    <3> QED BY <2>4, <3>1 DEF WellFormed, Call
  <2>5. ASSUME NEW x \in Words, NEW n \in 0 .. WordBytes + 2,
               call = Call("extract", 0, Clipped(n), x)
        PROVE  WellFormed(call) /\ call.fn = "extract"
    <3>1. Clipped(n) \in 0 .. WordBytes
      BY Widths DEF Clipped
    <3> QED BY <2>5, <3>1 DEF WellFormed, Call
  <2>6. ASSUME NEW b \in Arrays, call = Call("combine", 0, Len(b), b)
        PROVE  WellFormed(call) /\ call.fn = "combine"
    BY <2>6, InputsAssumption DEF WellFormed, Call
  <2>7. ASSUME NEW x \in Words, call = Call("split", 0, WordBytes, x)
        PROVE  WellFormed(call) /\ call.fn = "split"
    <3>1. WordBytes \in 0 .. WordBytes
      BY Widths
    <3> QED BY <2>7, <3>1 DEF WellFormed, Call
  <2>8. CASE \E b \in {ShortBits, LongBits}, d \in Lengths :
               \E x \in Reals(b) : call = Call("to", b, d, x)
    BY <2>3, <2>8 DEF FunctionNames
  <2>9. CASE \E b \in {ShortBits, LongBits}, d \in Lengths :
               \E h \in 0 .. 2 ^ b - 1 : call = Call("from", b, d, h)
    BY <2>4, <2>9 DEF FunctionNames
  <2>10. CASE call \in UNION {{convertToU12p4(x), convertTo10p6(x)} :
                                x \in Reals(ShortBits)}
    BY <2>2, <2>8, <2>10 DEF convertToU12p4, convertTo10p6, convertToUFormat
  <2>11. CASE call \in UNION {{convertFrom12p4(h), convertFrom10p6(h)} :
                                h \in 0 .. 2 ^ ShortBits - 1}
    BY <2>2, <2>9, <2>11
       DEF convertFrom12p4, convertFrom10p6, convertFromUFormat
  <2>12. CASE call \in {convertToUFormat(x, f) :
                            x \in Reals(ShortBits), f \in Formats}
                \cup {toHex(x, d) : x \in Reals(LongBits), d \in Digits}
    BY <2>8, <2>12 DEF convertToUFormat, toHex, Lengths
  <2>13. CASE call \in {convertFromUFormat(h, f) :
                            h \in 0 .. 2 ^ ShortBits - 1, f \in Formats}
                \cup {toReal(h, d) : h \in 0 .. 2 ^ LongBits - 1, d \in Digits}
    BY <2>9, <2>13 DEF convertFromUFormat, toReal, Lengths
  <2>14. CASE call \in {extractBytes(x, n) : x \in Words, n \in 0 .. WordBytes + 2}
                \cup {combineBytes(b) : b \in Arrays}
                \cup {extractTo8Bytes(x) : x \in Words}
    BY <2>5, <2>6, <2>7, <2>14
       DEF extractBytes, combineBytes, extractTo8Bytes, FunctionNames
  <2> QED BY <2>1, <2>10, <2>11, <2>12, <2>13, <2>14 DEF Calls
<1>2. BackInv(first, call, i, result)
  BY <1>1 DEF Init, BackInv, NoCall, Call, WellFormed, FunctionNames
<1> QED BY <1>1, <1>2, Started DEF Init, IInv, FunctionNames

\* The loops of a first call do not depend on what they convert back.
LEMMA FirstCallsBack ==
  ASSUME NEW f, NEW c, NEW n, NEW r, BackInv(f, c, n, r),
         c.fn \notin {"combine", "merge"}, NEW m, NEW s
  PROVE  BackInv(f, c, m, s)
BY DEF BackInv

\* An iteration of a loop that counts leaves its own invariant to show.
LEMMA CountedKeeps ==
  ASSUME IInv, NEW fn, In(fn), fn # "combine", Counted,
         ToInv(call, i + 1, value', result'),
         FromInv(call, i + 1, value', result'),
         BytesInv(call, i + 1, result'),
         BackInv(first, call, i + 1, result')
  PROVE  IInv'
<1>1. call' = call /\ first' = first /\ i' = i + 1 /\ call.fn # "combine"
  BY DEF Counted, In
<1>2. CounterInv(call, i + 1)
  <2>1. i \in Nat /\ i < call.digits
    BY DEF IInv, CounterInv, In
  <2>2. call.digits \in Nat
    BY <1>1, Widths DEF IInv, WellFormed, FunctionNames, Lengths, Digits, Formats
  <2> QED BY <1>1, <2>1, <2>2 DEF CounterInv
<1>3. CombineInv(call, i + 1, result')
  BY <1>1 DEF CombineInv
<1> QED BY <1>1, <1>2, <1>3 DEF IInv

LEMMA ToDigitKeeps ==
  IInv /\ ToDigit => IInv'
<1> SUFFICES ASSUME IInv, ToDigit PROVE IInv'
  OBVIOUS
<1>1. In("to") /\ Counted /\ call.fn = "to"
  BY DEF ToDigit, In
<1>2. PICK x \in Nat, k \in Nat :
        x = call.arg /\ k = 2 ^ i /\ 2 ^ (i + 1) = 2 * k /\ call.bits \in Nat
  BY <1>1, Doubled, Widths DEF IInv, WellFormed, CounterInv
<1>3. PICK M \in Positive : M = 2 ^ call.bits
  BY <1>2, Widths, Zenon
<1>4. PICK y \in Nat : y = x * k /\ x * (2 * k) = 2 * y
  OBVIOUS
<1>5. value = y % One /\ result = (y \div One) % M
  BY <1>1, <1>2, <1>3, <1>4 DEF IInv, ToInv
<1> DEFINE bit == (2 * value) \div One
<1>6. /\ (IF bit = 1 THEN 2 * value - One ELSE 2 * value) = (2 * y) % One
      /\ (2 * result + bit) % M = ((2 * y) \div One) % M
  <2>1. One \in Positive
    BY Widths
  <2> HIDE DEF bit
  <2>2. /\ (IF bit = 1 THEN 2 * value - One ELSE 2 * value) = (2 * y) % One
        /\ (2 * result + bit) % M = ((2 * y) \div One) % M
    BY <1>5, <2>1, DigitMoves DEF bit
  <2> QED BY <2>2
<1>7. value' = (2 * y) % One /\ result' = ((2 * y) \div One) % M
  BY <1>3, <1>6 DEF ToDigit
<1>8. ToInv(call, i + 1, value', result')
  BY <1>2, <1>3, <1>4, <1>7 DEF ToInv
<1>9. /\ FromInv(call, i + 1, value', result')
      /\ BytesInv(call, i + 1, result')
  BY <1>1 DEF FromInv, BytesInv
<1>10. BackInv(first, call, i + 1, result')
  BY <1>1, FirstCallsBack DEF IInv
<1> QED BY <1>1, <1>8, <1>9, <1>10, CountedKeeps

LEMMA FromDigitKeeps ==
  IInv /\ FromDigit => IInv'
<1> SUFFICES ASSUME IInv, FromDigit PROVE IInv'
  OBVIOUS
<1>1. In("from") /\ Counted /\ call.fn = "from" /\ value' = value
  BY DEF FromDigit, In
<1>2. /\ call.arg \in Nat /\ call.digits \in Nat /\ call.digits <= Scale
      /\ i \in Nat /\ i < call.digits
  BY <1>1, Widths DEF IInv, WellFormed, Lengths, Digits, Formats, CounterInv, In
<1>3. PICK F \in Nat : F = value /\ F = Fraction(call.arg, call.digits)
  BY <1>1, <1>2, FractionFacts DEF IInv, FromInv
<1>4. PICK Q \in Nat : Q = call.arg \div 2 ^ call.digits
  BY <1>2, Widths, Division
<1>5. PICK G \in Nat, w \in Nat :
        /\ G = F \div 2 ^ (call.digits - 1 - i)
        /\ F \div 2 ^ (call.digits - i) = G \div 2
        /\ w = Weight(i) /\ w * (2 * 2 ^ i) = One
        /\ call.digits - (i + 1) = call.digits - 1 - i
  <2>1. PICK d \in Nat, n \in Nat : d = call.digits /\ n = i /\ n < d /\ d <= Scale
    BY <1>2
  <2>2. /\ Weight(n) \in Nat /\ Weight(n) * (2 * 2 ^ n) = One
        /\ F \div 2 ^ (d - 1 - n) \in Nat
        /\ F \div 2 ^ (d - n) = (F \div 2 ^ (d - 1 - n)) \div 2
        /\ d - (n + 1) = d - 1 - n
    <3>1. n < d /\ d <= Scale
      BY <2>1
    <3> QED BY <3>1, Weights, Zenon
  <2> QED BY <2>1, <2>2, Zenon
<1>6. PICK P \in Nat : P = 2 ^ i /\ 2 ^ (i + 1) = 2 * P
  BY <1>2, Doubled
<1>7. PICK r \in Nat : r = result /\ r * P = (Q * P + (G \div 2)) * One
  BY <1>1, <1>3, <1>4, <1>5, <1>6 DEF IInv, FromInv
<1>8. /\ r + (G % 2) * w \in Nat
      /\ (r + (G % 2) * w) * (2 * P) = (Q * (2 * P) + G) * One
  <2>1. One \in Nat /\ w * (2 * P) = One
    BY <1>5, <1>6, Widths DEF Positive
  <2> QED BY <1>7, <2>1, DigitAdds
<1>9. result' = r + (G % 2) * w
  BY <1>3, <1>5, <1>7 DEF FromDigit
<1>10. FromInv(call, i + 1, value', result')
  BY <1>1, <1>3, <1>4, <1>5, <1>6, <1>8, <1>9 DEF FromInv
<1>11. /\ ToInv(call, i + 1, value', result')
       /\ BytesInv(call, i + 1, result')
  BY <1>1 DEF ToInv, BytesInv
<1>12. BackInv(first, call, i + 1, result')
  BY <1>1 DEF IInv, BackInv
<1> QED BY <1>1, <1>10, <1>11, <1>12, CountedKeeps

\* Appending the next byte.
LEMMA Appended ==
  ASSUME NEW q \in Seq(Byte), NEW b \in Byte
  PROVE  /\ Append(q, b) \in Seq(Byte)
         /\ Len(Append(q, b)) = Len(q) + 1
         /\ \A j \in 1 .. Len(q) : Append(q, b)[j] = q[j]
         /\ Append(q, b)[Len(q) + 1] = b
OBVIOUS

LEMMA ExtractByteKeeps ==
  IInv /\ ExtractByte => IInv'
<1> SUFFICES ASSUME IInv, ExtractByte PROVE IInv'
  OBVIOUS
<1>1. In("extract") /\ Counted /\ call.fn = "extract"
  BY DEF ExtractByte, In
<1>2. /\ call.arg \in Nat /\ call.digits \in Nat
      /\ i \in Nat /\ i < call.digits /\ i + 1 \in 1 .. call.digits
  <2>1. call.arg \in Nat /\ call.digits \in Nat
    BY <1>1, Widths DEF IInv, WellFormed, Words
  <2>2. i \in Nat /\ i < call.digits
    BY <1>1 DEF IInv, CounterInv, In
  <2> QED BY <2>1, <2>2
<1>3. PICK b \in Byte : b = Highest(call.arg, call.digits, i + 1)
  BY <1>2, IsByte
<1>4. result' = Append(result, b)
  <2>1. call.digits - 1 - i = call.digits - (i + 1)
    BY <1>2
  <2> QED BY <1>3, <2>1 DEF ExtractByte, Highest
<1>5. /\ result \in Seq(Byte) /\ Len(result) = i
      /\ \A j \in 1 .. i : result[j] = Highest(call.arg, call.digits, j)
  BY <1>1 DEF IInv, BytesInv
<1>6. /\ result' \in Seq(Byte) /\ Len(result') = i + 1
      /\ \A j \in 1 .. i + 1 : result'[j] = Highest(call.arg, call.digits, j)
  <2>1. \A j \in 1 .. i + 1 : j \in 1 .. i \/ j = i + 1
    BY <1>2
  <2> QED BY <1>3, <1>4, <1>5, <2>1, Appended
<1>7. /\ ToInv(call, i + 1, value', result')
      /\ FromInv(call, i + 1, value', result')
      /\ BytesInv(call, i + 1, result')
  BY <1>1, <1>6 DEF ToInv, FromInv, BytesInv
<1>8. BackInv(first, call, i + 1, result')
  BY <1>1, FirstCallsBack DEF IInv
<1> QED BY <1>1, <1>7, <1>8, CountedKeeps

LEMMA SplitByteKeeps ==
  IInv /\ SplitByte => IInv'
<1> SUFFICES ASSUME IInv, SplitByte PROVE IInv'
  OBVIOUS
<1>1. In("split") /\ Counted /\ call.fn = "split"
  BY DEF SplitByte, In
<1>2. call.arg \in Nat /\ i \in Nat /\ i + 1 \in 1 .. i + 1
  BY <1>1, Widths DEF IInv, WellFormed, Words, CounterInv
<1>3. PICK b \in Byte : b = Lowest(call.arg, i + 1)
  BY <1>2, i + 1 \in Nat, IsByte
<1>4. result' = Append(result, b)
  BY <1>2, <1>3, LowestNext DEF SplitByte
<1>5. /\ result \in Seq(Byte) /\ Len(result) = i
      /\ \A j \in 1 .. i : result[j] = Lowest(call.arg, j)
  BY <1>1 DEF IInv, BytesInv
<1>6. /\ result' \in Seq(Byte) /\ Len(result') = i + 1
      /\ \A j \in 1 .. i + 1 : result'[j] = Lowest(call.arg, j)
  <2>1. \A j \in 1 .. i + 1 : j \in 1 .. i \/ j = i + 1
    BY <1>2
  <2> QED BY <1>3, <1>4, <1>5, <2>1, Appended
<1>7. /\ ToInv(call, i + 1, value', result')
      /\ FromInv(call, i + 1, value', result')
      /\ BytesInv(call, i + 1, result')
  BY <1>1, <1>6 DEF ToInv, FromInv, BytesInv
<1>8. BackInv(first, call, i + 1, result')
  BY <1>1, FirstCallsBack DEF IInv
<1> QED BY <1>1, <1>7, <1>8, CountedKeeps

LEMMA CombineByteKeeps ==
  IInv /\ CombineByte => IInv'
<1> SUFFICES ASSUME IInv, CombineByte PROVE IInv'
  OBVIOUS
<1>1. /\ call.fn = "combine" /\ i < call.digits
      /\ call' = call /\ first' = first
      /\ result' = PushedUp(result, call.arg[i + 1])
      /\ i' = (i + 1) % 2 ^ CounterBits
  BY DEF CombineByte, In, Incremented
<1>2. /\ call.arg \in Seq(Byte) /\ call.digits = Len(call.arg)
      /\ i \in Nat /\ i < 2 ^ CounterBits
  BY <1>1 DEF IInv, WellFormed, CounterInv
<1>3. PICK b \in Byte : b = call.arg[i + 1]
  BY <1>1, <1>2
<1>4. PICK C \in Positive : C = 2 ^ CounterBits
  BY Widths
<1>5. i' \in Nat /\ i' < C
  BY <1>1, <1>2, <1>4, Division
<1>6. Countable(call) => i' = i + 1
  BY <1>1, <1>2, <1>4, Small DEF Countable
<1>7. CounterInv(call, i')
  BY <1>1, <1>2, <1>4, <1>5, <1>6 DEF CounterInv
<1>8. PICK n \in Nat : n = i + 1
  BY <1>2
<1>9. ASSUME Countable(call)
      PROVE  CombineInv(call, n, result')
  <2>1. SUFFICES /\ result' \in Nat
                 /\ result' < Shift(Clipped(n))
                 /\ \A k \in 0 .. Clipped(n) - 1 :
                      (result' \div Shift(k)) % Shift(1) = call.arg[n - k]
    BY Zenon DEF CombineInv
  <2>2. PICK r \in Nat :
          /\ r = result
          /\ r < Shift(Clipped(i))
          /\ \A k \in 0 .. Clipped(i) - 1 :
               (r \div Shift(k)) % Shift(1) = call.arg[i - k]
    BY <1>1, <1>9 DEF IInv, CombineInv
  <2>3. PICK p \in Nat : p = result' /\ p = PushedUp(r, b)
    BY <1>1, <1>3, <2>2, Pushing
  <2>4. /\ p < Shift(Clipped(n))
        /\ p % Shift(1) = b
        /\ \A k \in 1 .. Clipped(n) - 1 :
             /\ k - 1 \in 0 .. Clipped(i) - 1
             /\ (p \div Shift(k)) % Shift(1) = (r \div Shift(k - 1)) % Shift(1)
    BY <1>2, <1>8, <2>2, <2>3, CombineStep
  <2>5. ASSUME NEW k \in 0 .. Clipped(n) - 1
        PROVE  (p \div Shift(k)) % Shift(1) = call.arg[n - k]
    <3>1. CASE k = 0
      <4>1. p \div 1 = p /\ n - 0 = i + 1
        BY <1>8
      <4> QED BY <1>3, <2>4, <3>1, <4>1, ShiftZero
    <3>2. CASE k # 0
      <4>1. k \in 1 .. Clipped(n) - 1
        BY <3>2
      <4>2. (r \div Shift(k - 1)) % Shift(1) = call.arg[i - (k - 1)]
        BY <2>2, <2>4, <4>1
      <4>3. i - (k - 1) = n - k
        BY <1>2, <1>8
      <4> QED BY <2>4, <4>1, <4>2, <4>3
    <3> QED BY <3>1, <3>2
  <2> QED BY <2>3, <2>4, <2>5
<1>10. BackInv(first, call, i', result')
  <2>1. SUFFICES
          ASSUME first.fn = "extract", Countable(call)
          PROVE  result' =
                   (first.arg \div Shift(first.digits - i')) % Shift(i')
    BY <1>1 DEF IInv, BackInv
  <2>2. PICK x \in Nat, d \in Nat :
          /\ x = first.arg /\ d = first.digits
          /\ d <= WordBytes /\ i < d
          /\ call.arg[i + 1] = Highest(x, d, i + 1)
          /\ result = (x \div Shift(d - i)) % Shift(i)
    <3>1. first.arg \in Nat /\ first.digits \in 0 .. WordBytes
      BY <2>1 DEF IInv, BackInv, WellFormed, Words
    <3>2. call.digits = first.digits /\ i + 1 \in 1 .. first.digits
      <4>1. call.digits = first.digits
        BY <2>1, Zenon DEF IInv, BackInv
      <4>2. first.digits \in Nat
        BY <3>1, Widths
      <4>3. i \in Nat /\ i < first.digits
        BY <1>1, <1>2, <4>1
      <4> QED BY <4>1, <4>2, <4>3
    <3>3. /\ call.arg[i + 1] = Highest(first.arg, first.digits, i + 1)
          /\ result = (first.arg \div Shift(first.digits - i)) % Shift(i)
      BY <2>1, <3>2 DEF IInv, BackInv
    <3>4. first.digits \in Nat /\ first.digits <= WordBytes /\ i < first.digits
      BY <1>1, <1>2, <3>1, <3>2, Widths
    <3> QED BY <3>1, <3>3, <3>4
  <2> d - i \in Nat /\ WordBytes - 1 \in Nat /\ i <= WordBytes - 1
    <3>1. d - i \in Nat
      BY <1>2, <2>2
    <3>2. WordBytes \in Nat \ {0} /\ i < WordBytes
      BY <1>2, <2>2, Widths
    <3> QED BY <1>2, <3>1, <3>2
  <2>3. PICK e \in Positive, g \in Positive :
          e = Shift(d - i) /\ g = Shift(i) /\ g <= Shift(WordBytes - 1)
    BY <1>2, Shifts, ShiftMonotone
  <2>4. PICK r \in Nat : r = result /\ r < g /\ r = (x \div e) % g
    BY <2>2, <2>3, Division
  <2>5. PICK t \in Positive : t = Shift(WordBytes - 1)
    BY Shifts
  <2>6. r % t = r
    BY <2>3, <2>4, <2>5, Small DEF Positive
  <2>7. result' = Shift(1) * r + Highest(x, d, i + 1)
    BY <1>1, <1>3, <2>2, <2>4, <2>5, <2>6, Pushing
  <2>8. (x \div Shift(d - (i + 1))) % Shift(i + 1) =
          Shift(1) * ((x \div Shift(d - i)) % Shift(i)) + Highest(x, d, i + 1)
    <3>1. i \in Nat /\ i < d
      BY <1>2, <2>2
    <3> QED BY <3>1, HighestStep, Zenon
  <2>9. result' = (x \div Shift(d - (i + 1))) % Shift(i + 1)
    BY <2>3, <2>4, <2>7, <2>8, Zenon
  <2> QED BY <1>6, <2>1, <2>2, <2>9, Zenon
<1>11. /\ ToInv(call, i', value', result')
       /\ FromInv(call, i', value', result')
       /\ BytesInv(call, i', result')
  BY <1>1 DEF ToInv, FromInv, BytesInv
<1>12. CombineInv(call, i', result')
  <2>1. CASE Countable(call)
    BY <1>6, <1>9, <1>8, <2>1, Zenon
  <2>2. CASE ~ Countable(call)
    BY <2>2 DEF CombineInv
  <2> QED BY <2>1, <2>2
<1> QED BY <1>1, <1>7, <1>10, <1>11, <1>12 DEF IInv

LEMMA MergeByteKeeps ==
  IInv /\ MergeByte => IInv'
<1> SUFFICES ASSUME IInv, MergeByte PROVE IInv'
  OBVIOUS
<1>1. In("merge") /\ Counted /\ call.fn = "merge" /\ i < call.digits
  BY DEF MergeByte, In
<1>2. first.fn = "split"
  BY <1>1 DEF IInv, BackInv, Call
<1>3. i \in Nat /\ i + 1 \in 1 .. WordBytes
  BY <1>1, Widths DEF IInv, CounterInv, WellFormed
<1>4. PICK x \in Nat : /\ x = first.arg
                       /\ call.arg[i + 1] = Lowest(x, i + 1)
                       /\ result = x % Shift(i)
  BY <1>2, <1>3 DEF IInv, BackInv, WellFormed, Words
<1>5. result' = x % Shift(i + 1)
  BY <1>3, <1>4, LowestStep DEF MergeByte
<1>6. BackInv(first, call, i + 1, result')
  <2>1. BackInv(first, call, i, result)
    BY DEF IInv
  <2>2. result' = first.arg % Shift(i + 1)
    BY <1>4, <1>5
  <2> QED BY <1>2, <2>1, <2>2 DEF BackInv
<1>7. /\ ToInv(call, i + 1, value', result')
      /\ FromInv(call, i + 1, value', result')
      /\ BytesInv(call, i + 1, result')
  BY <1>1 DEF ToInv, FromInv, BytesInv
<1> QED BY <1>1, <1>6, <1>7, CountedKeeps

\* What the program converts back is a call of its own.
LEMMA ConvertBackKeeps ==
  IInv /\ ConvertBack => IInv'
<1> SUFFICES ASSUME IInv, ConvertBack PROVE IInv'
  OBVIOUS
<1> DEFINE c == ConvertedBack(call, result)
<1>1. /\ call.fn \in {"to", "extract", "split"}
      /\ first' = call /\ call' = c
      /\ i' = 0 /\ value' = FirstValue(c) /\ result' = FirstResult(c)
  BY DEF ConvertBack
<1>2. WellFormed(call) /\ call.digits \in Nat /\ i = call.digits
  <2>1. WellFormed(call) /\ call.digits \in Nat
    BY <1>1, Widths DEF IInv, WellFormed, Lengths, Digits, Formats
  <2>2. i \in Nat /\ i <= call.digits /\ i >= call.digits
    BY <1>1 DEF IInv, CounterInv, ConvertBack, Done
  <2> QED BY <2>1, <2>2
<1>3. ASSUME call.fn = "to"
      PROVE  /\ c = Call("from", call.bits, call.digits,
                      ((call.arg * 2 ^ call.digits) \div One) % 2 ^ call.bits)
             /\ WellFormed(c) /\ c.fn = "from"
  <2>1. c = Call("from", call.bits, call.digits, result)
    BY <1>3 DEF ConvertedBack
  <2>2. result = ((call.arg * 2 ^ call.digits) \div One) % 2 ^ call.bits
    BY <1>2, <1>3 DEF IInv, ToInv
  <2>3. PICK x \in Nat : x = call.arg * 2 ^ call.digits
    BY <1>2, <1>3, PowerType DEF WellFormed
  <2>4. call.bits \in {ShortBits, LongBits} /\ call.digits \in Lengths
    BY <1>2, <1>3 DEF WellFormed
  <2>5. PICK M \in Positive : M = 2 ^ call.bits
    BY <2>4, Widths
  <2>6. (x \div One) % M \in Nat /\ (x \div One) % M < M
    BY Widths, Division
  <2>7. result \in Nat /\ result < 2 ^ call.bits
    BY <2>2, <2>3, <2>5, <2>6
  <2> QED BY <2>1, <2>2, <2>4, <2>7 DEF WellFormed, Call
<1>4. ASSUME call.fn = "extract"
      PROVE  /\ c = Call("combine", 0, call.digits, result)
             /\ \A j \in 1 .. call.digits :
                  result[j] = Highest(call.arg, call.digits, j)
             /\ WellFormed(c) /\ c.fn = "combine"
  <2>1. /\ result \in Seq(Byte) /\ Len(result) = call.digits
        /\ \A j \in 1 .. call.digits :
             result[j] = Highest(call.arg, call.digits, j)
    BY <1>2, <1>4 DEF IInv, BytesInv
  <2>2. c = Call("combine", 0, call.digits, result)
    BY <1>4, <2>1 DEF ConvertedBack, combineBytes
  <2> QED BY <2>1, <2>2 DEF WellFormed, Call
<1>5. ASSUME call.fn = "split"
      PROVE  /\ c = Call("merge", 0, WordBytes, result)
             /\ \A j \in 1 .. WordBytes : result[j] = Lowest(call.arg, j)
             /\ WellFormed(c) /\ c.fn = "merge"
  <2>1. /\ result \in Seq(Byte) /\ Len(result) = WordBytes
        /\ \A j \in 1 .. WordBytes : result[j] = Lowest(call.arg, j)
    BY <1>2, <1>5 DEF IInv, BytesInv, WellFormed
  <2>2. c = Call("merge", 0, WordBytes, result)
    BY <1>5 DEF ConvertedBack, mergefrom8Bytes
  <2> QED BY <2>1, <2>2 DEF WellFormed, Call
<1>6. WellFormed(c) /\ c.fn \in FunctionNames
  BY <1>1, <1>3, <1>4, <1>5 DEF FunctionNames
<1>7. BackInv(call, c, 0, FirstResult(c))
  <2>1. call # NoCall /\ call.fn # "none"
    BY <1>1 DEF NoCall, Call
  <2>2. ASSUME NEW x \in Nat, NEW k \in Nat
        PROVE  /\ 0 = (x \div Shift(k)) % Shift(0)
               /\ 0 = x % Shift(0)
    <3>1. PICK s \in Positive : s = Shift(k)
      BY Shifts
    <3>2. x \div s \in Nat
      BY Division
    <3>3. (x \div s) % 1 = 0 /\ x % 1 = 0
      BY <3>2
    <3> QED BY <3>1, <3>3, ShiftZero
  <2>3. CASE call.fn = "to"
    BY <1>2, <1>3, <2>1, <2>3 DEF BackInv
  <2>4. CASE call.fn = "extract"
    <3>1. FirstResult(c) = 0
      BY <1>4, <2>4 DEF FirstResult
    <3>2. call.arg \in Nat /\ call.digits - 0 \in Nat
      BY <1>2, <2>4, Widths DEF WellFormed, Words
    <3>3. FirstResult(c) = (call.arg \div Shift(call.digits - 0)) % Shift(0)
      BY <2>2, <3>1, <3>2
    <3>4. c.digits = call.digits /\ c.arg = result
      BY <1>4, <2>4 DEF Call
    <3> QED BY <1>2, <1>4, <2>1, <2>4, <3>3, <3>4 DEF BackInv
  <2>5. CASE call.fn = "split"
    <3>1. FirstResult(c) = 0
      BY <1>5, <2>5 DEF FirstResult
    <3>2. call.arg \in Nat
      BY <1>2, <2>5, Widths DEF WellFormed, Words
    <3>3. FirstResult(c) = call.arg % Shift(0)
      BY <2>2, <3>1, <3>2
    <3>4. c.arg = result
      BY <1>5, <2>5 DEF Call
    <3> QED BY <1>2, <1>5, <2>1, <2>5, <3>3, <3>4 DEF BackInv
  <2> QED BY <1>1, <2>3, <2>4, <2>5
<1> HIDE DEF c
<1> QED BY <1>1, <1>6, <1>7, Started DEF IInv

\* Where the loops of the conversions stand is an inductive invariant: after
\* so many iterations, the result is that of the digits or bytes read so far.
THEOREM LoopInvariance ==
  Spec => []IInv
<1>1. ASSUME IInv, [Next]_vars
      PROVE  IInv'
  <2>1. CASE UNCHANGED vars
    BY <1>1, <2>1 DEF IInv, vars
  <2> QED
    BY <1>1, <2>1, ToDigitKeeps, FromDigitKeeps, ExtractByteKeeps,
       CombineByteKeeps, SplitByteKeeps, MergeByteKeeps, ConvertBackKeeps
    DEF Next, Iteration
<1> QED BY <1>1, Initially, PTL DEF Spec

-----------------------------------------------------------------------------
(* What the conversions compute.                                           *)

\* A loop that is done has read every digit or byte.
LEMMA AllRead ==
  ASSUME IInv, Done
  PROVE  /\ call.fn = "combine" => Countable(call)
         /\ call.digits \in Nat /\ i = call.digits
<1>1. call.digits \in Nat
  BY Widths DEF IInv, WellFormed, FunctionNames, Lengths, Digits, Formats
<1>2. call.fn = "combine" => Countable(call)
  <2>1. SUFFICES ASSUME call.fn = "combine" PROVE Countable(call)
    OBVIOUS
  <2>2. PICK C \in Positive : C = 2 ^ CounterBits
    BY Widths
  <2>3. i \in Nat /\ i < C /\ call.digits = Len(call.arg) /\ call.digits <= i
    BY <2>1, <2>2 DEF IInv, CounterInv, WellFormed, Done
  <2> QED BY <1>1, <2>2, <2>3 DEF Countable
<1>3. i \in Nat /\ i <= call.digits /\ i >= call.digits
  BY <1>2 DEF IInv, CounterInv, Done
<1> QED BY <1>1, <1>2, <1>3

LEMMA PowerMonotone ==
  ASSUME NEW m \in Nat, NEW n \in Nat, m <= n
  PROVE  2 ^ m <= 2 ^ n
<1>1. n - m \in Nat /\ n = m + (n - m)
  OBVIOUS
<1>2. PICK a \in Positive, b \in Positive : a = 2 ^ m /\ b = 2 ^ (n - m)
  BY <1>1, Widths, Zenon
<1>3. 2 ^ n = a * b
  BY <1>1, <1>2, PowerSum, Zenon
<1>4. a <= a * b
  BY DEF Positive
<1> QED BY <1>2, <1>3, <1>4

\* The fixed-point number that comes out stands for the real rounded down, and
\* the real that comes back is what it stands for.
LEMMA RoundedDown ==
  ASSUME NEW x \in Nat, NEW P \in Positive, NEW O \in Positive, NEW r \in Nat,
         r * P = ((x * P) \div O) * O
  PROVE  r <= x /\ (x - r) * P < O
<1>1. PICK y \in Nat, q \in Nat, s \in Nat :
        y = x * P /\ q = y \div O /\ s < O /\ y = O * q + s
  <2>1. x * P \in Nat
    BY DEF Positive
  <2> QED BY <2>1, Division
<1>2. PICK e \in Nat : e = O * q /\ e = q * O
  BY DEF Positive
<1>3. r * P = e /\ e <= x * P /\ x * P - e < O
  BY <1>1, <1>2 DEF Positive
<1>4. r <= x
  <2>1. SUFFICES ASSUME x + 1 <= r PROVE FALSE
    OBVIOUS
  <2>2. (x + 1) * P <= r * P
    BY <2>1 DEF Positive
  <2> QED BY <1>3, <2>2 DEF Positive
<1>5. (x - r) * P = x * P - r * P
  BY DEF Positive
<1> QED BY <1>3, <1>4, <1>5

\* Every fixed-point conversion is exact, for any widths of the integers, any
\* number of digits and any real: what toHex, convertToUFormat and their kind
\* return stands for the real rounded down, modulo the width; what toReal and
\* its kind return is what the number stands for, but for the lost digits of a
\* long fraction; and there and back, a real that fits is rounded down.
THEOREM FixedPoint ==
  Spec => []FixedPointExact
<1>1. ASSUME IInv PROVE FixedPointExact
  <2> DEFINE h == call.arg
             d == call.digits
             lost == (h % 2 ^ d) - Fraction(h, d)
  <2>1. ASSUME Done, call.fn = "to"
        PROVE  result = ((h * 2 ^ d) \div One) % 2 ^ call.bits
    BY <1>1, <2>1, AllRead DEF IInv, ToInv
  <2>2. ASSUME Done, call.fn = "from"
        PROVE  /\ result * 2 ^ d = (h - lost) * One
               /\ lost = 0 \/ (d > ShortBits /\ call.bits > ShortBits)
               /\ first.fn = "to" /\ lost = 0
                    /\ first.arg * 2 ^ d < One * 2 ^ call.bits =>
                    result <= first.arg /\ (first.arg - result) * 2 ^ d < One
    <3>1. PICK n \in Nat, x \in Nat, P \in Positive :
            /\ n = d /\ i = n /\ x = h /\ P = 2 ^ n
            /\ call.bits \in {ShortBits, LongBits}
            /\ x < 2 ^ call.bits
      <4>1. d \in Nat /\ i = d
        BY <1>1, <2>2, AllRead
      <4>2. h \in Nat /\ call.bits \in {ShortBits, LongBits} /\ h < 2 ^ call.bits
        BY <1>1, <2>2 DEF IInv, WellFormed
      <4> QED BY <4>1, <4>2, Widths
    <3>2. PICK F \in Nat, Q \in Nat, R \in Nat :
            /\ F = Fraction(x, n) /\ Q = x \div P /\ R = x % P
            /\ x = P * Q + R /\ R < P /\ F <= R
            /\ R < 2 ^ ShortBits => F = R
      <4>1. /\ Fraction(x, n) \in Nat
            /\ Fraction(x, n) <= x % 2 ^ n
            /\ x % 2 ^ n < 2 ^ ShortBits => Fraction(x, n) = x % 2 ^ n
        BY FractionFacts, Zenon
      <4>2. /\ x \div P \in Nat /\ x % P \in Nat /\ x % P < P
            /\ x = P * (x \div P) + (x % P)
        BY Division
      <4> QED BY <3>1, <4>1, <4>2
    <3>3. PICK r \in Nat : r = result /\ r * P = (Q * P + F) * One
      <4>1. result * 2 ^ n = (Q * 2 ^ n + (F \div 2 ^ (n - n))) * One
        BY <1>1, <2>2, <3>1, <3>2 DEF IInv, FromInv
      <4>2. n - n = 0 /\ 2 ^ 0 = 1 /\ F \div 1 = F
        OBVIOUS
      <4>3. result \in Nat
        BY <1>1, <2>2 DEF IInv, FromInv
      <4> QED BY <3>1, <4>1, <4>2, <4>3
    <3>4. lost = R - F
      BY <3>1, <3>2
    <3>5. x - (R - F) = Q * P + F
      BY <3>2 DEF Positive
    <3>6. lost = 0 \/ (d > ShortBits /\ call.bits > ShortBits)
      <4>1. SUFFICES ASSUME n <= ShortBits \/ call.bits <= ShortBits
                     PROVE  R < 2 ^ ShortBits
        <5>1. ShortBits \in Nat /\ call.bits \in Nat /\ d = n
          BY <3>1, Widths
        <5> QED BY <3>2, <3>4, <5>1
      <4>2. PICK S \in Positive : S = 2 ^ ShortBits
        BY Widths
      <4>3. CASE n <= ShortBits
        <5>1. ShortBits \in Nat /\ 2 ^ n <= 2 ^ ShortBits
          BY <3>1, <4>3, PowerMonotone, Widths, Zenon
        <5>2. P <= S
          BY <3>1, <4>2, <5>1, Zenon
        <5> QED BY <3>2, <4>2, <5>2 DEF Positive
      <4>4. CASE call.bits <= ShortBits
        <5>1. PICK b \in Nat, B \in Positive :
                b = call.bits /\ B = 2 ^ b /\ b <= ShortBits
          BY <3>1, <4>4, Widths
        <5>2. B <= S
          BY <4>2, <5>1, PowerMonotone, Widths
        <5>3. PICK e \in Nat : e = P * Q
          BY <3>2 DEF Positive
        <5>4. x = e + R /\ x < B
          BY <3>1, <3>2, <5>1, <5>3
        <5> QED BY <4>2, <5>2, <5>4 DEF Positive
      <4> QED BY <4>1, <4>3, <4>4
    <3>7. ASSUME first.fn = "to", lost = 0,
                 first.arg * 2 ^ d < One * 2 ^ call.bits
          PROVE  result <= first.arg /\ (first.arg - result) * 2 ^ d < One
      <4>1. PICK y \in Nat, M \in Positive :
              /\ y = first.arg /\ M = 2 ^ call.bits
              /\ x = ((y * P) \div One) % M
        <5>1. /\ call.bits = first.bits /\ call.digits = first.digits
              /\ call.arg = ((first.arg * 2 ^ first.digits) \div One)
                              % 2 ^ first.bits
          BY <1>1, <3>7 DEF IInv, BackInv, Call
        <5>2. first.arg \in Nat
          BY <1>1, <3>7 DEF IInv, BackInv, WellFormed
        <5> QED BY <3>1, <5>1, <5>2, Widths
      <4>2. PICK z \in Nat : z = y * P /\ z < M * One
        <5>1. y * P \in Nat /\ One * M = M * One
          BY Widths DEF Positive
        <5> QED BY <3>1, <3>7, <4>1, <5>1
      <4>3. z \div One \in Nat /\ z \div One < M
        BY <4>2, Division, QuotientBound, Widths DEF Positive
      <4>4. x = (y * P) \div One
        BY <4>1, <4>2, <4>3, Small
      <4>5. r * P = x * One
        BY <3>3, <3>4, <3>5, <3>7
      <4>6. r <= y /\ (y - r) * P < One
        BY <4>4, <4>5, RoundedDown, Widths
      <4> QED BY <3>1, <3>3, <4>1, <4>6
    <3> QED BY <3>1, <3>3, <3>4, <3>5, <3>6, <3>7
  <2> QED BY <2>1, <2>2, Zenon DEF FixedPointExact
<1> QED BY <1>1, LoopInvariance, PTL

\* The bytes come out in order and come back whole, for any size of a byte and
\* of a word: combineBytes's result has the last bytes of any array that it
\* counts as its digits, the first one the highest; combineBytes after
\* extractBytes restores as many bytes as were extracted, and mergefrom8Bytes
\* after extractTo8Bytes all of them.
THEOREM Bytes ==
  Spec => []BytesInOrder
<1>1. ASSUME IInv, Done
      PROVE  /\ call.fn = "combine" =>
                  LET n == Clipped(Len(call.arg))
                  IN  /\ result < Shift(n)
                      /\ \A k \in 0 .. n - 1 :
                           (result \div Shift(k)) % Shift(1) =
                             call.arg[Len(call.arg) - k]
             /\ first.fn = "extract" =>
                  result = first.arg % Shift(first.digits)
             /\ first.fn = "split" => result = first.arg
  <2>1. /\ call.digits \in Nat /\ i = call.digits
        /\ call.fn = "combine" => Countable(call) /\ i = Len(call.arg)
    BY <1>1, AllRead DEF IInv, WellFormed
  <2>2. ASSUME first.fn = "extract"
        PROVE  result = first.arg % Shift(first.digits)
    <3>1. PICK x \in Nat, d \in Nat :
            /\ x = first.arg /\ d = first.digits /\ i = d
            /\ result = (x \div Shift(d - d)) % Shift(d)
      <4>1. call.fn = "combine" /\ call.digits = first.digits
        BY <1>1, <2>2, Zenon DEF IInv, BackInv
      <4>2. first.arg \in Nat
        BY <1>1, <2>2 DEF IInv, BackInv, WellFormed, Words
      <4>3. result = (first.arg \div Shift(first.digits - i)) % Shift(i)
        BY <1>1, <2>1, <2>2, <4>1, Zenon DEF IInv, BackInv
      <4> QED BY <2>1, <4>1, <4>2, <4>3
    <3>2. d - d = 0 /\ x \div 1 = x
      OBVIOUS
    <3> QED BY <3>1, <3>2, ShiftZero
  <2>3. ASSUME first.fn = "split"
        PROVE  result = first.arg
    <3>1. call.fn = "merge" /\ result = first.arg % Shift(i)
      BY <1>1, <2>3, Zenon DEF IInv, BackInv
    <3>2. i = WordBytes /\ first.arg \in Words
      <4>1. call.digits = WordBytes
        BY <1>1, <3>1 DEF IInv, WellFormed
      <4>2. first.arg \in Words
        BY <1>1, <2>3 DEF IInv, BackInv, WellFormed
      <4> QED BY <2>1, <4>1, <4>2
    <3>3. PICK S \in Positive : S = Shift(WordBytes)
      BY Shifts, Widths
    <3>4. first.arg \in Nat /\ first.arg < S
      BY <3>2, <3>3 DEF Words, Positive
    <3> QED BY <3>1, <3>2, <3>3, <3>4, Small
  <2>4. ASSUME call.fn = "combine"
        PROVE  /\ result < Shift(Clipped(Len(call.arg)))
               /\ \A k \in 0 .. Clipped(Len(call.arg)) - 1 :
                    (result \div Shift(k)) % Shift(1) =
                      call.arg[Len(call.arg) - k]
    BY <1>1, <2>1, <2>4 DEF IInv, CombineInv
  <2> QED BY <2>2, <2>3, <2>4
<1> QED BY <1>1, LoopInvariance, PTL DEF BytesInOrder

-----------------------------------------------------------------------------
(* Why the loops end, as far as it is a matter of single steps: that a     *)
(* loop which can go on does is fairness, and left to the model checker.   *)

\* Does this loop's counter count what it has to?
Counts == call.fn = "combine" => Countable(call)

IterationsLeft == call.digits - i

\* Every iteration of a loop that counts leaves fewer to do, and Done is when
\* none is left.
THEOREM LoopsDescend ==
  Spec => [][/\ Counts /\ Iteration => IterationsLeft' < IterationsLeft
             /\ Counts => IterationsLeft \in Nat /\ (Done <=> IterationsLeft = 0)
            ]_vars
<1>1. ASSUME IInv, Counts
      PROVE  /\ call.digits \in Nat /\ i \in 0 .. call.digits
             /\ IterationsLeft \in Nat /\ (Done <=> IterationsLeft = 0)
  <2>1. call.digits \in Nat
    BY <1>1, Widths DEF IInv, WellFormed, FunctionNames, Lengths, Digits, Formats
  <2>2. i \in Nat /\ i <= call.digits
    BY <1>1 DEF IInv, CounterInv, Counts
  <2> QED BY <2>1, <2>2 DEF IterationsLeft, Done
<1>2. ASSUME IInv, Counts, Iteration
      PROVE  IterationsLeft' < IterationsLeft
  <2>1. call' = call /\ i < call.digits
    BY <1>2 DEF Iteration, ToDigit, FromDigit, ExtractByte, CombineByte,
                SplitByte, MergeByte, In, Counted
  <2>2. i' = i + 1
    <3>1. CASE CombineByte
      <4>1. PICK C \in Positive : C = 2 ^ CounterBits
        BY Widths
      <4>2. i + 1 \in Nat /\ i + 1 < C /\ i' = (i + 1) % C
        <5>1. call.fn = "combine" /\ call.digits = Len(call.arg)
          BY <1>2, <3>1 DEF CombineByte, In, IInv, WellFormed
        <5>2. i \in Nat /\ call.digits \in Nat /\ call.digits < C
          BY <1>1, <1>2, <4>1, <5>1 DEF Counts, Countable
        <5>3. i' = (i + 1) % 2 ^ CounterBits
          BY <3>1 DEF CombineByte, Incremented
        <5>4. i' = (i + 1) % C
          BY <4>1, <5>3, Zenon
        <5>5. i + 1 \in Nat /\ i + 1 < C
          BY <2>1, <5>2 DEF Positive
        <5> QED BY <5>4, <5>5
      <4> QED BY <4>2, Small
    <3>2. CASE ~CombineByte
      BY <1>2, <3>2 DEF Iteration, ToDigit, FromDigit, ExtractByte, SplitByte,
                        MergeByte, Counted
    <3> QED BY <3>1, <3>2
  <2> QED BY <1>1, <1>2, <2>1, <2>2 DEF IterationsLeft
<1> QED BY <1>1, <1>2, LoopInvariance, PTL DEF Spec

\* combineBytes never gets to the end of an array that its counter cannot
\* count: LoopsEnd excepts nothing that would end after all.
THEOREM WideArraysNeverEnd ==
  Spec => [](~Counts => ~Done)
<1>1. IInv => (~Counts => ~Done)
  BY AllRead DEF Counts
<1> QED BY <1>1, LoopInvariance, PTL
=============================================================================
