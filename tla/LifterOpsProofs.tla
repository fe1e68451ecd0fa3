--------------------------- MODULE LifterOpsProofs ---------------------------
(***************************************************************************)
(* Words of every width: their bits, and what the operators of VtilWords   *)
(* make of them.  With these facts, what the VTIL of the handlers computes *)
(* is compared with the x86 instructions, for every width.                 *)
(***************************************************************************)
EXTENDS LifterOps, FiniteSetTheorems, WellFoundedInduction, TLAPS

\* A set of naturals with 0 and the successor of each of its members has all:
\* otherwise the least of those it lacks would have a predecessor it lacks.
LEMMA SetInduction ==
    ASSUME NEW S, 0 \in S, \A n \in Nat : n \in S => n + 1 \in S
    PROVE  \A n \in Nat : n \in S
<1> DEFINE T == Nat \ S
<1>1. IsWellFoundedOn(OpToRel(<, Nat), Nat)
  BY NatLessThanWellFounded
<1>2. SUFFICES ASSUME T # {} PROVE FALSE
  OBVIOUS
<1>3. PICK x \in T : \A y \in T : ~(<<y, x>> \in OpToRel(<, Nat))
  <2>1. T \subseteq Nat
    OBVIOUS
  <2> HIDE DEF T
  <2> QED BY <1>1, <1>2, <2>1, WFMin
<1>4. x - 1 \in T
  BY <1>2
<1>5. <<x - 1, x>> \in OpToRel(<, Nat)
  BY <1>4 DEF OpToRel
<1> QED BY <1>3, <1>4, <1>5

-----------------------------------------------------------------------------
\* Powers of two.  A set of bits below n + 1 has bit n or has not: the sets of
\* one kind are as many as those of the other.
LEMMA Doubled ==
    ASSUME NEW n \in Nat
    PROVE  /\ IsFiniteSet(SUBSET (0..(n - 1)))
           /\ Cardinality(SUBSET (0..n)) = 2 * Cardinality(SUBSET (0..(n - 1)))
<1> DEFINE S == SUBSET (0..(n - 1))
           T == {t \in SUBSET (0..n) : n \in t}
<1>1. IsFiniteSet(S)
  <2>1. IsFiniteSet(0..(n - 1))
    <3>1. 0 \in Int /\ n - 1 \in Int
      OBVIOUS
    <3> QED BY <3>1, FS_Interval
  <2> QED BY <2>1, FS_SUBSET
<1>2. SUBSET (0..n) = S \cup T /\ S \cap T = {}
  <2>1. \A t \in SUBSET (0..n) : t \in S \/ t \in T
    OBVIOUS
  <2>2. \A t \in S : t \in SUBSET (0..n) /\ n \notin t
    OBVIOUS
  <2> QED BY <2>1, <2>2
<1>3. ExistsBijection(S, T)
  <2> DEFINE f == [t \in S |-> t \cup {n}]
  <2>1. f \in [S -> T]
    OBVIOUS
  <2>2. \A t, u \in S : f[t] = f[u] => t = u
    <3> TAKE t \in S, u \in S
    <3>1. n \notin t /\ n \notin u
      OBVIOUS
    <3> QED BY <3>1
  <2>3. \A t \in T : \E u \in S : f[u] = t
    <3> TAKE t \in T
    <3>1. t \ {n} \in S
      OBVIOUS
    <3>2. f[t \ {n}] = t
      BY <3>1
    <3> QED BY <3>1, <3>2
  <2> HIDE DEF f, S, T
  <2>4. f \in Bijection(S, T)
    BY <2>1, <2>2, <2>3 DEF Bijection, Injection, Surjection, IsInjective
  <2> QED BY <2>4 DEF ExistsBijection
<1> HIDE DEF S, T
<1>4. IsFiniteSet(T) /\ Cardinality(T) = Cardinality(S)
  BY <1>1, <1>3, FS_Bijection
<1>5. Cardinality(S \cup T) = Cardinality(S) + Cardinality(T) - Cardinality(S \cap T)
  BY <1>1, <1>4, FS_Union
<1>6. Cardinality(S \cap T) = 0 /\ Cardinality(S) \in Nat
  BY <1>1, <1>2, FS_EmptySet, FS_CardinalityType
<1>7. Cardinality(SUBSET (0..n)) = 2 * Cardinality(S)
  <2>1. PICK c \in Nat : c = Cardinality(S)
    BY <1>6
  <2>2. Cardinality(SUBSET (0..n)) = c + c - 0
    BY <1>2, <1>4, <1>5, <1>6, <2>1
  <2> QED BY <2>1, <2>2
<1> QED BY <1>1, <1>7 DEF S

LEMMA Pow2Zero == Pow2[0] = 1
<1>1. SUBSET (0..(0 - 1)) = {{}}
  OBVIOUS
<1> QED BY <1>1, FS_Singleton DEF Pow2

LEMMA Pow2Step ==
    /\ Pow2[0] = 1
    /\ \A n \in Nat : Pow2[n] \in Nat \ {0} /\ Pow2[n + 1] = 2 * Pow2[n]
<1>1. \A n \in Nat : Pow2[n] \in Nat /\ Pow2[n + 1] = 2 * Pow2[n]
  <2> TAKE n \in Nat
  <2>1. Pow2[n] = Cardinality(SUBSET (0..(n - 1))) /\ Pow2[n] \in Nat
    BY Doubled, FS_CardinalityType DEF Pow2
  <2>2. Pow2[n + 1] = Cardinality(SUBSET (0..n))
    <3>1. n + 1 \in Nat /\ (n + 1) - 1 = n
      OBVIOUS
    <3> QED BY <3>1 DEF Pow2
  <2> QED BY <2>1, <2>2, Doubled
<1> DEFINE S == {n \in Nat : Pow2[n] # 0}
<1>2. \A n \in Nat : n \in S
  <2>1. 0 \in S
    BY Pow2Zero
  <2>2. \A n \in Nat : n \in S => n + 1 \in S
    BY <1>1
  <2> HIDE DEF S
  <2> QED BY <2>1, <2>2, SetInduction
<1> QED BY <1>1, <1>2, Pow2Zero

LEMMA Pow2Sum == \A a, b \in Nat : Pow2[a + b] = Pow2[a] * Pow2[b]
<1> SUFFICES ASSUME NEW a \in Nat PROVE \A b \in Nat : Pow2[a + b] = Pow2[a] * Pow2[b]
  OBVIOUS
<1> DEFINE S == {b \in Nat : Pow2[a + b] = Pow2[a] * Pow2[b]}
<1>1. 0 \in S
  BY Pow2Step
<1>2. ASSUME NEW b \in Nat, b \in S PROVE b + 1 \in S
  <2>1. PICK p \in Nat, q \in Nat : p = Pow2[a] /\ q = Pow2[b]
    BY Pow2Step
  <2>2. Pow2[b + 1] = 2 * q
    BY <2>1, Pow2Step
  <2>3. Pow2[(a + b) + 1] = 2 * (p * q)
    BY <1>2, <2>1, Pow2Step
  <2>4. a + (b + 1) = (a + b) + 1
    OBVIOUS
  <2>5. p * (2 * q) = 2 * (p * q)
    BY <2>1
  <2> QED BY <2>1, <2>2, <2>3, <2>4, <2>5
<1> HIDE DEF S
<1>3. \A b \in Nat : b \in S
  BY <1>1, <1>2, SetInduction
<1> QED BY <1>3 DEF S

\* A smaller power divides a larger one.
LEMMA Pow2Divides ==
    ASSUME NEW a \in Nat, NEW b \in Nat, a <= b
    PROVE  b - a \in Nat /\ Pow2[b] = Pow2[a] * Pow2[b - a] /\ Pow2[a] <= Pow2[b]
<1>1. b - a \in Nat /\ a + (b - a) = b
  OBVIOUS
<1>2. Pow2[b] = Pow2[a] * Pow2[b - a]
  BY <1>1, Pow2Sum
<1>3. PICK p \in Nat \ {0}, q \in Nat \ {0} : p = Pow2[a] /\ q = Pow2[b - a]
  BY <1>1, Pow2Step
<1>4. p * q >= p
  BY <1>3
<1> QED BY <1>1, <1>2, <1>3, <1>4

LEMMA Pow2Above == \A n \in Nat : n < Pow2[n]
<1> DEFINE S == {n \in Nat : n < Pow2[n]}
<1>1. 0 \in S
  BY Pow2Step
<1>2. \A n \in Nat : n \in S => n + 1 \in S
  BY Pow2Step
<1> HIDE DEF S
<1>3. \A n \in Nat : n \in S
  BY <1>1, <1>2, SetInduction
<1> QED BY <1>3 DEF S

-----------------------------------------------------------------------------
\* Division.
LEMMA DivMod ==
    ASSUME NEW x \in Int, NEW m \in Nat \ {0}
    PROVE  /\ x \div m \in Int /\ x % m \in 0..(m - 1) /\ x % m \in Nat
           /\ x = m * (x \div m) + (x % m)
           /\ x \in Nat => x \div m \in Nat
<1>1. x \div m \in Int /\ x % m \in 0..(m - 1) /\ x = m * (x \div m) + (x % m)
  OBVIOUS
<1>2. PICK q \in Int, r \in 0..(m - 1) : q = x \div m /\ r = x % m /\ x = m * q + r
  BY <1>1
<1>3. ASSUME x \in Nat, q < 0 PROVE FALSE
  <2>1. PICK k \in Nat : q = -1 - k
    <3>1. -1 - q \in Nat
      BY <1>3
    <3> QED BY <3>1
  <2>2. m * q = -m - m * k
    BY <2>1
  <2>3. PICK t \in Nat : t = m * k
    OBVIOUS
  <2> QED BY <1>2, <1>3, <2>2, <2>3
<1> QED BY <1>1, <1>2, <1>3

LEMMA DivModIs ==
    ASSUME NEW m \in Nat \ {0}, NEW q \in Int, NEW r \in 0..(m - 1), NEW x, x = m * q + r
    PROVE  x \div m = q /\ x % m = r
OBVIOUS

\* What differs by a multiple of m is the same modulo m.
LEMMA SameMod ==
    ASSUME NEW m \in Nat \ {0}, NEW x \in Int, NEW y \in Int, NEW k \in Int, x = y + m * k
    PROVE  x % m = y % m
<1>1. PICK q \in Int, r \in 0..(m - 1) : y = m * q + r /\ r = y % m
  BY DivMod
<1>2. PICK t \in Int : t = q + k
  OBVIOUS
<1>3. x = m * t + r
  <2>1. m * (q + k) = m * q + m * k
    BY <1>1
  <2> QED BY <1>1, <1>2, <2>1
<1>4. \A z : z = m * t + r => z % m = r
  <2> HIDE <1>1, <1>2
  <2> QED BY DivModIs
<1> QED BY <1>1, <1>3, <1>4

LEMMA ModMod ==
    ASSUME NEW s \in Nat \ {0}, NEW k \in Nat \ {0}, NEW x \in Int
    PROVE  s * k \in Nat \ {0} /\ (x % (s * k)) % s = x % s
<1>1. PICK m \in Nat \ {0} : m = s * k
  <2>1. s * k \in Nat \ {0}
    OBVIOUS
  <2> QED BY <2>1
<1>2. PICK q \in Int, r \in 0..(m - 1) : x = m * q + r /\ r = x % m
  BY DivMod
<1>3. x = r + s * (k * q)
  <2>1. m * q = s * (k * q)
    BY <1>1
  <2> QED BY <1>2, <2>1
<1>4. PICK t \in Int : t = k * q
  OBVIOUS
<1>5. x = r + s * t
  BY <1>3, <1>4
<1>6. x % s = r % s
  <2>1. r \in Int
    BY <1>1, <1>2
  <2> QED BY <1>5, <2>1, SameMod
<1> QED BY <1>1, <1>2, <1>6

LEMMA ModOf == ASSUME NEW m \in Nat \ {0}, NEW x \in 0..(m - 1) PROVE x % m = x /\ x \div m = 0
OBVIOUS

\* Sums and products, modulo m, of what the operands are modulo m.
LEMMA ModSum ==
    ASSUME NEW m \in Nat \ {0}, NEW x \in Int, NEW y \in Int
    PROVE  /\ (x + y) % m = ((x % m) + (y % m)) % m
           /\ (x - y) % m = ((x % m) - (y % m)) % m
           /\ (x * y) % m = ((x % m) * (y % m)) % m
<1>1. PICK a \in Nat, b \in Nat, j \in Int, k \in Int :
         a = x % m /\ b = y % m /\ x = a + m * j /\ y = b + m * k
  <2>1. x = m * (x \div m) + (x % m) /\ y = m * (y \div m) + (y % m)
    BY DivMod
  <2>2. x \div m \in Int /\ y \div m \in Int /\ x % m \in Nat /\ y % m \in Nat
    BY DivMod
  <2>3. PICK a \in Nat, b \in Nat, j \in Int, k \in Int :
           a = x % m /\ b = y % m /\ j = x \div m /\ k = y \div m
    BY <2>2
  <2>4. x = a + m * j /\ y = b + m * k
    BY <2>1, <2>3
  <2> QED BY <2>3, <2>4
<1>2. x + y = (a + b) + m * (j + k)
  BY <1>1
<1>3. x - y = (a - b) + m * (j - k)
  BY <1>1
<1>4. x * y = a * b + m * (a * k + b * j + m * (j * k))
  <2>1. (a + m * j) * (b + m * k) = a * b + m * (a * k + b * j + m * (j * k))
    BY <1>1
  <2> QED BY <1>1, <2>1
<1>5. PICK t \in Int, u \in Int, v \in Int :
         t = a * k + b * j + m * (j * k) /\ u = a * b /\ v = x * y
  OBVIOUS
<1>6. (x * y) % m = (a * b) % m
  <2>1. v = u + m * t
    BY <1>4, <1>5
  <2>2. v % m = u % m
    BY <2>1, SameMod
  <2> QED BY <1>5, <2>2
<1>7. (x + y) % m = (a + b) % m
  <2>1. PICK c \in Int, d \in Int, e \in Int : c = x + y /\ d = a + b /\ e = j + k
    OBVIOUS
  <2>2. c = d + m * e
    BY <1>2, <2>1
  <2>3. c % m = d % m
    BY <2>2, SameMod
  <2> QED BY <2>1, <2>3
<1>8. (x - y) % m = (a - b) % m
  <2>1. PICK c \in Int, d \in Int, e \in Int : c = x - y /\ d = a - b /\ e = j - k
    OBVIOUS
  <2>2. c = d + m * e
    BY <1>3, <2>1
  <2>3. c % m = d % m
    BY <2>2, SameMod
  <2> QED BY <2>1, <2>3
<1>9. x % m = a /\ y % m = b
  BY <1>1
<1> QED
  <2> DEFINE Plus(c, d) == (c + d) % m
             Minus(c, d) == (c - d) % m
             Times(c, d) == (c * d) % m
  <2>1. Plus(x, y) = Plus(a, b) /\ Minus(x, y) = Minus(a, b) /\ Times(x, y) = Times(a, b)
    BY <1>6, <1>7, <1>8
  <2> HIDE DEF Plus, Minus, Times
  <2>2. /\ Plus(x, y) = Plus(x % m, y % m) /\ Minus(x, y) = Minus(x % m, y % m)
        /\ Times(x, y) = Times(x % m, y % m)
    BY <1>9, <2>1, Zenon
  <2> QED BY <2>2 DEF Plus, Minus, Times

LEMMA DivDiv ==
    ASSUME NEW a \in Nat \ {0}, NEW b \in Nat \ {0}, NEW x \in Nat
    PROVE  (x \div a) \div b = x \div (a * b)
<1>1. PICK q \in Nat, r \in 0..(a - 1) : x = a * q + r /\ q = x \div a
  BY DivMod
<1>2. PICK u \in Nat, v \in 0..(b - 1) : q = b * u + v /\ u = q \div b
  BY DivMod
<1>3. PICK c \in Nat \ {0} : c = a * b
  <2>1. a * b \in Nat \ {0}
    OBVIOUS
  <2> QED BY <2>1
<1>4. x = c * u + (a * v + r)
  <2>1. a * (b * u + v) = c * u + a * v
    BY <1>3
  <2> QED BY <1>1, <1>2, <2>1
<1>5. a * v + r \in 0..(c - 1)
  <2>1. a * v <= a * (b - 1)
    BY <1>2
  <2>2. a * (b - 1) = c - a
    BY <1>3
  <2>3. PICK t \in Nat : t = a * v
    BY <1>2
  <2>4. t <= c - a
    BY <2>1, <2>2, <2>3
  <2> QED BY <1>1, <1>3, <2>3, <2>4
<1>6. x \div c = u
  <2>1. PICK t \in 0..(c - 1) : t = a * v + r
    BY <1>5
  <2>2. x = c * u + t
    BY <1>4, <2>1
  <2> QED BY <2>2, DivModIs
<1> QED BY <1>1, <1>2, <1>3, <1>6

-----------------------------------------------------------------------------
\* Bits.  The bit p of x.
BitOf(x, p) == (x \div Pow2[p]) % 2

LEMMA BitOfType ==
    ASSUME NEW x \in Int, NEW p \in Nat
    PROVE  x \div Pow2[p] \in Int /\ BitOf(x, p) \in {0, 1}
<1>1. PICK m \in Nat \ {0} : m = Pow2[p]
  BY Pow2Step
<1>2. PICK q \in Int : q = x \div m
  BY DivMod
<1>3. q % 2 \in {0, 1}
  OBVIOUS
<1> QED BY <1>1, <1>2, <1>3 DEF BitOf

\* A multiple of 2^s does not change the bits below s,
LEMMA BitLow ==
    ASSUME NEW s \in Nat, NEW p \in Nat, p < s, NEW a \in Int, NEW b \in Int
    PROVE  BitOf(a + Pow2[s] * b, p) = BitOf(a, p)
<1>1. PICK t \in Nat : s = p + (t + 1)
  <2>1. s - p - 1 \in Nat /\ s = p + ((s - p - 1) + 1)
    OBVIOUS
  <2> QED BY <2>1
<1>2. PICK m \in Nat \ {0}, n \in Nat \ {0} : m = Pow2[p] /\ n = Pow2[t]
  BY Pow2Step
<1>3. Pow2[s] = m * (2 * n)
  <2>1. Pow2[t + 1] = 2 * n
    BY <1>2, Pow2Step
  <2> QED BY <1>1, <1>2, <2>1, Pow2Sum
<1>4. PICK q \in Int, r \in 0..(m - 1) : a = m * q + r /\ q = a \div m
  BY DivMod
<1>5. PICK u \in Int : u = n * b
  OBVIOUS
<1>6. PICK v \in Int : v = q + 2 * u
  OBVIOUS
<1>7. PICK o \in Nat \ {0} : o = Pow2[s]
  BY Pow2Step
<1>8. (a + Pow2[s] * b) \div m = v
  <2>1. o * b = m * (2 * u)
    <3>1. (m * (2 * n)) * b = m * (2 * (n * b))
      OBVIOUS
    <3> QED BY <1>3, <1>5, <1>7, <3>1
  <2>2. m * v = m * q + m * (2 * u)
    <3>1. m * (q + 2 * u) = m * q + m * (2 * u)
      OBVIOUS
    <3> QED BY <1>6, <3>1
  <2>3. PICK z \in Int : z = a + o * b
    OBVIOUS
  <2>4. z = m * v + r
    <3>1. PICK c \in Int, d \in Int : c = m * q /\ d = m * (2 * u)
      OBVIOUS
    <3>2. a = c + r /\ o * b = d /\ m * v = c + d
      BY <1>4, <2>1, <2>2, <3>1
    <3> QED BY <2>3, <3>2
  <2>5. z \div m = v
    BY <2>4, DivModIs
  <2> QED BY <1>7, <2>3, <2>5
<1>9. v % 2 = q % 2
  BY <1>6, SameMod
<1> QED BY <1>2, <1>4, <1>8, <1>9 DEF BitOf

LEMMA SameLowBits ==
    ASSUME NEW s \in Nat, NEW p \in Nat, p < s, NEW a \in Int, NEW y \in Int,
           \E b \in Int : y = a + Pow2[s] * b
    PROVE  BitOf(y, p) = BitOf(a, p)
<1>1. PICK b \in Int : y = a + Pow2[s] * b
  OBVIOUS
<1>2. BitOf(a + Pow2[s] * b, p) = BitOf(a, p)
  BY BitLow
<1> QED BY <1>1, <1>2

\* and is all there is to the bits from s on.
LEMMA BitHigh ==
    ASSUME NEW s \in Nat, NEW p \in Nat, s <= p, NEW a \in 0..(Pow2[s] - 1), NEW b \in Nat
    PROVE  BitOf(a + Pow2[s] * b, p) = BitOf(b, p - s)
<1>1. PICK m \in Nat \ {0} : m = Pow2[s]
  BY Pow2Step
<1>2. p - s \in Nat
  OBVIOUS
<1>3. PICK n \in Nat \ {0} : n = Pow2[p - s]
  BY <1>2, Pow2Step
<1>4. Pow2[p] = m * n
  BY <1>1, <1>3, Pow2Divides
<1>5. PICK x \in Nat : x = m * b + a
  BY <1>1
<1>6. x \div m = b
  BY <1>1, <1>5, DivModIs
<1>7. x \div (m * n) = b \div n
  BY <1>6, DivDiv
<1>8. a + Pow2[s] * b = x
  BY <1>1, <1>5
<1> QED BY <1>3, <1>4, <1>7, <1>8 DEF BitOf

\* The bits of 0, and the bit that a power of two is.
LEMMA BitOfZero == \A p \in Nat : BitOf(0, p) = 0
<1> TAKE p \in Nat
<1>1. PICK m \in Nat \ {0} : m = Pow2[p]
  BY Pow2Step
<1>2. 0 \div m = 0
  BY ModOf
<1> QED BY <1>1, <1>2 DEF BitOf

LEMMA BitsAre ==
    ASSUME NEW x, NEW w
    PROVE  Bits(x, w) = {p \in 0..(w - 1) : BitOf(x, p) = 1}
BY DEF Bits, BitOf

\* A number below 2^(w + 1) and its bits: those below w, and bit w.
LEMMA BitsSplit ==
    ASSUME NEW w \in Nat, NEW y \in 0..(Pow2[w] - 1), NEW b \in {0, 1}
    PROVE  /\ y + Pow2[w] * b \in 0..(Pow2[w + 1] - 1)
           /\ Bits(y + Pow2[w] * b, w + 1) = Bits(y, w) \cup {p \in {w} : b = 1}
<1>1. PICK m \in Nat \ {0} : m = Pow2[w] /\ Pow2[w + 1] = 2 * m
  BY Pow2Step
<1>2. y + m * b \in 0..(2 * m - 1)
  BY <1>1
<1>3. ASSUME NEW p \in 0..(w - 1) PROVE BitOf(y + m * b, p) = BitOf(y, p)
  <2>1. p \in Nat /\ p < w /\ y \in Int /\ b \in Int
    BY <1>1
  <2> QED BY <1>1, <2>1, BitLow
<1>4. BitOf(y + m * b, w) = b
  <2>1. BitOf(y + m * b, w) = BitOf(b, w - w)
    <3>1. b \in Nat /\ w <= w
      OBVIOUS
    <3> QED BY <1>1, <3>1, BitHigh
  <2>2. w - w = 0 /\ b \div 1 = b /\ b % 2 = b
    OBVIOUS
  <2> QED BY <2>1, <2>2, Pow2Step DEF BitOf
<1>5. \A p \in 0..(w + 1 - 1) : p = w \/ p \in 0..(w - 1)
  OBVIOUS
<1>6. 0..(w - 1) \subseteq 0..(w + 1 - 1) /\ w \in 0..(w + 1 - 1) /\ w \notin 0..(w - 1)
  OBVIOUS
<1>7. Bits(y + m * b, w + 1) = Bits(y, w) \cup {p \in {w} : b = 1}
  <2>1. /\ Bits(y + m * b, w + 1) = {p \in 0..(w + 1 - 1) : BitOf(y + m * b, p) = 1}
        /\ Bits(y, w) = {p \in 0..(w - 1) : BitOf(y, p) = 1}
    BY BitsAre
  <2> QED BY <1>3, <1>4, <1>5, <1>6, <2>1, Zenon
<1> QED BY <1>1, <1>2, <1>7

\* Every set of bits below w is that of exactly one word of w bits.
LEMMA BitsExist ==
    \A w \in Nat : \A T \in SUBSET (0..(w - 1)) : \E x \in 0..(Pow2[w] - 1) : Bits(x, w) = T
<1> DEFINE Is(w) == \A T \in SUBSET (0..(w - 1)) : \E x \in 0..(Pow2[w] - 1) : Bits(x, w) = T
           S == {w \in Nat : Is(w)}
<1>1. 0 \in S
  <2>1. 0 \in 0..(Pow2[0] - 1) /\ 0..(0 - 1) = {}
    BY Pow2Step
  <2>2. Bits(0, 0) = {}
    BY <2>1 DEF Bits
  <2> QED BY <2>1, <2>2
<1>2. ASSUME NEW w \in Nat, w \in S PROVE w + 1 \in S
  <2> SUFFICES ASSUME NEW T \in SUBSET (0..(w + 1 - 1))
               PROVE  \E x \in 0..(Pow2[w + 1] - 1) : Bits(x, w + 1) = T
    BY <1>2
  <2>1. T \ {w} \in SUBSET (0..(w - 1))
    OBVIOUS
  <2>2. PICK y \in 0..(Pow2[w] - 1) : Bits(y, w) = T \ {w}
    BY <1>2, <2>1
  <2>3. PICK b \in {0, 1} : b = 1 <=> w \in T
    OBVIOUS
  <2>4. T = (T \ {w}) \cup {p \in {w} : b = 1}
    BY <2>3
  <2>5. /\ y + Pow2[w] * b \in 0..(Pow2[w + 1] - 1)
        /\ Bits(y + Pow2[w] * b, w + 1) = Bits(y, w) \cup {p \in {w} : b = 1}
    BY <2>2, BitsSplit
  <2> QED BY <2>2, <2>4, <2>5, Zenon
<1> HIDE DEF S
<1>3. \A w \in Nat : w \in S
  BY <1>1, <1>2, SetInduction
<1> QED BY <1>3 DEF S

LEMMA BitsUnique ==
    \A w \in Nat : \A x, y \in 0..(Pow2[w] - 1) : Bits(x, w) = Bits(y, w) => x = y
<1> DEFINE S == {w \in Nat : \A x, y \in 0..(Pow2[w] - 1) : Bits(x, w) = Bits(y, w) => x = y}
<1>1. 0 \in S
  BY Pow2Step
<1>2. ASSUME NEW w \in Nat, w \in S PROVE w + 1 \in S
  <2>1. PICK m \in Nat \ {0} : m = Pow2[w] /\ Pow2[w + 1] = 2 * m
    BY Pow2Step
  <2>2. ASSUME NEW x \in 0..(2 * m - 1)
        PROVE  \E y \in 0..(m - 1), b \in {0, 1} : x = y + m * b
    <3>1. CASE x < m
      BY <3>1
    <3>2. CASE x >= m
      <4>1. x - m \in 0..(m - 1) /\ x = (x - m) + m * 1
        BY <3>2
      <4> QED BY <4>1
    <3> QED BY <3>1, <3>2
  <2>3. SUFFICES ASSUME NEW x \in 0..(2 * m - 1), NEW y \in 0..(2 * m - 1),
                        Bits(x, w + 1) = Bits(y, w + 1)
                 PROVE  x = y
    BY <2>1
  <2>4. PICK x0 \in 0..(m - 1), b \in {0, 1} : x = x0 + m * b
    BY <2>2
  <2>5. PICK y0 \in 0..(m - 1), c \in {0, 1} : y = y0 + m * c
    BY <2>2
  <2>6. /\ Bits(x, w + 1) = Bits(x0, w) \cup {p \in {w} : b = 1}
        /\ Bits(y, w + 1) = Bits(y0, w) \cup {p \in {w} : c = 1}
    <3>1. x = x0 + Pow2[w] * b /\ y = y0 + Pow2[w] * c
      BY <2>1, <2>4, <2>5
    <3>2. x0 \in 0..(Pow2[w] - 1) /\ y0 \in 0..(Pow2[w] - 1)
      BY <2>1
    <3>3. Bits(x0 + Pow2[w] * b, w + 1) = Bits(x0, w) \cup {p \in {w} : b = 1}
      BY <3>2, BitsSplit
    <3>4. Bits(y0 + Pow2[w] * c, w + 1) = Bits(y0, w) \cup {p \in {w} : c = 1}
      BY <3>2, BitsSplit
    <3> QED BY <3>1, <3>3, <3>4
  <2>7. w \notin Bits(x0, w) /\ w \notin Bits(y0, w)
    BY DEF Bits
  <2>8. Bits(x0, w) = Bits(y0, w) /\ (b = 1 <=> c = 1)
    <3>1. Bits(x0, w) = Bits(x, w + 1) \ {w} /\ (b = 1 <=> w \in Bits(x, w + 1))
      BY <2>6, <2>7
    <3>2. Bits(y0, w) = Bits(y, w + 1) \ {w} /\ (c = 1 <=> w \in Bits(y, w + 1))
      BY <2>6, <2>7
    <3> QED BY <2>3, <3>1, <3>2
  <2>9. x0 = y0
    BY <1>2, <2>1, <2>8
  <2>10. b = c
    BY <2>8
  <2> QED BY <2>4, <2>5, <2>9, <2>10
<1> HIDE DEF S
<1>3. \A w \in Nat : w \in S
  BY <1>1, <1>2, SetInduction
<1> QED BY <1>3 DEF S

LEMMA FromBitsFacts ==
    ASSUME NEW w \in Nat, NEW T \in SUBSET (0..(w - 1))
    PROVE  FromBits(T, w) \in 0..(Pow2[w] - 1) /\ Bits(FromBits(T, w), w) = T
BY BitsExist DEF FromBits

LEMMA FromBitsIs ==
    ASSUME NEW w \in Nat, NEW x \in 0..(Pow2[w] - 1)
    PROVE  FromBits(Bits(x, w), w) = x
<1>1. Bits(x, w) \in SUBSET (0..(w - 1))
  BY DEF Bits
<1> QED BY <1>1, FromBitsFacts, BitsUnique

-----------------------------------------------------------------------------
\* The bitwise operators: words again, with the bits their names say.
LEMMA BitwiseFacts ==
    ASSUME NEW w \in Nat, NEW x, NEW y
    PROVE  /\ BitAnd(x, y, w) \in 0..(Pow2[w] - 1)
           /\ Bits(BitAnd(x, y, w), w) = Bits(x, w) \cap Bits(y, w)
           /\ BitOr(x, y, w) \in 0..(Pow2[w] - 1)
           /\ Bits(BitOr(x, y, w), w) = Bits(x, w) \cup Bits(y, w)
           /\ BitXor(x, y, w) \in 0..(Pow2[w] - 1)
           /\ Bits(BitXor(x, y, w), w) = {p \in Bits(x, w) \cup Bits(y, w) :
                                             p \notin Bits(x, w) \cap Bits(y, w)}
<1>1. Bits(x, w) \subseteq 0..(w - 1) /\ Bits(y, w) \subseteq 0..(w - 1)
  BY DEF Bits
<1>2. /\ Bits(x, w) \cap Bits(y, w) \in SUBSET (0..(w - 1))
      /\ Bits(x, w) \cup Bits(y, w) \in SUBSET (0..(w - 1))
      /\ {p \in Bits(x, w) \cup Bits(y, w) : p \notin Bits(x, w) \cap Bits(y, w)}
            \in SUBSET (0..(w - 1))
  BY <1>1
<1> QED BY <1>2, FromBitsFacts DEF BitAnd, BitOr, BitXor

\* The complement has the other bits.
LEMMA BitNotFacts ==
    ASSUME NEW w \in Nat, NEW x \in 0..(Pow2[w] - 1)
    PROVE  BitNot(x, w) \in 0..(Pow2[w] - 1) /\ Bits(BitNot(x, w), w) = (0..(w - 1)) \ Bits(x, w)
<1>1. PICK o \in Nat \ {0} : o = Pow2[w]
  BY Pow2Step
<1>2. BitNot(x, w) = o - 1 - x /\ x \in 0..(o - 1)
  BY <1>1 DEF BitNot
<1>3. ASSUME NEW p \in 0..(w - 1) PROVE BitOf(o - 1 - x, p) = 1 - BitOf(x, p)
  <2>1. PICK t \in Nat : w = p + (t + 1)
    <3>1. w - p - 1 \in Nat /\ w = p + ((w - p - 1) + 1)
      OBVIOUS
    <3> QED BY <3>1
  <2>2. PICK m \in Nat \ {0}, n \in Nat \ {0} : m = Pow2[p] /\ n = Pow2[t]
    <3>1. p \in Nat
      OBVIOUS
    <3> QED BY <3>1, Pow2Step
  <2>3. o = m * (2 * n)
    <3>1. Pow2[t + 1] = 2 * n
      BY <2>2, Pow2Step
    <3> QED BY <1>1, <2>1, <2>2, <3>1, Pow2Sum
  <2>4. PICK q \in Int, r \in 0..(m - 1) : x = m * q + r /\ q = x \div m
    <3>1. x \in Int
      BY <1>2
    <3>2. x \div m \in Int /\ x % m \in 0..(m - 1) /\ x = m * (x \div m) + (x % m)
      BY <3>1, DivMod
    <3> QED BY <3>2
  <2>5. PICK v \in Int : v = 2 * n - 1 - q
    OBVIOUS
  <2>6. o - 1 - x = m * v + (m - 1 - r)
    <3>1. m * (2 * n - 1 - q) = m * (2 * n) - m - m * q
      OBVIOUS
    <3>2. PICK c \in Int, d \in Int, e \in Int : c = m * (2 * n) /\ d = m * q /\ e = m * v
      OBVIOUS
    <3>3. e = c - m - d
      BY <2>5, <3>1, <3>2
    <3>4. o = c /\ x = d + r
      BY <2>3, <2>4, <3>2
    <3> QED BY <3>2, <3>3, <3>4
  <2>7. (o - 1 - x) \div m = v
    <3>1. m - 1 - r \in 0..(m - 1)
      OBVIOUS
    <3>2. PICK z \in Int : z = o - 1 - x
      BY <1>2
    <3>3. PICK c \in 0..(m - 1) : c = m - 1 - r
      BY <3>1
    <3>4. z = m * v + c
      BY <2>6, <3>2, <3>3
    <3>5. z \div m = v
      BY <3>4, DivModIs
    <3> QED BY <3>2, <3>5
  <2>8. v % 2 = 1 - (q % 2)
    <3>1. PICK k \in Int, c \in {0, 1} : q = 2 * k + c /\ c = q % 2
      <4>1. q \div 2 \in Int /\ q % 2 \in {0, 1} /\ q = 2 * (q \div 2) + (q % 2)
        OBVIOUS
      <4> QED BY <4>1
    <3>2. v = 2 * (n - 1 - k) + (1 - c)
      BY <2>5, <3>1
    <3>3. v % 2 = 1 - c
      <4>1. PICK d \in Int, e \in 0..1 : d = n - 1 - k /\ e = 1 - c
        OBVIOUS
      <4>2. v = 2 * d + e
        BY <3>2, <4>1
      <4>3. v % 2 = e
        BY <4>2
      <4> QED BY <4>1, <4>3
    <3> QED BY <3>1, <3>3
  <2> QED BY <2>2, <2>4, <2>7, <2>8 DEF BitOf
<1>4. \A p \in 0..(w - 1) : BitOf(x, p) \in {0, 1}
  BY <1>2, BitOfType
<1>5. \A p \in 0..(w - 1) : BitOf(o - 1 - x, p) = 1 <=> BitOf(x, p) # 1
  BY <1>3, <1>4
<1>6. Bits(o - 1 - x, w) = (0..(w - 1)) \ Bits(x, w)
  BY <1>5, BitsAre
<1>7. o - 1 - x \in 0..(o - 1)
  BY <1>2
<1> QED BY <1>1, <1>2, <1>6, <1>7

\* The top bit tells the words from half the range on.
LEMMA TopBit ==
    ASSUME NEW w \in Nat \ {0}, NEW x \in 0..(Pow2[w] - 1)
    PROVE  w - 1 \in Bits(x, w) <=> x >= Pow2[w - 1]
<1>1. w - 1 \in Nat /\ (w - 1) + 1 = w /\ w - 1 \in 0..(w - 1)
  OBVIOUS
<1>2. PICK h \in Nat \ {0} : h = Pow2[w - 1] /\ Pow2[w] = 2 * h
  BY <1>1, Pow2Step
<1>3. CASE x >= h
  <2>1. x \in h..(2 * h - 1)
    BY <1>2, <1>3
  <2>2. x \div h = 1
    BY <2>1
  <2>3. BitOf(x, w - 1) = 1
    BY <1>2, <2>2 DEF BitOf
  <2> QED BY <1>1, <1>2, <1>3, <2>3, BitsAre
<1>4. CASE x < h
  <2>1. x \in 0..(h - 1)
    BY <1>2, <1>4
  <2>2. x \div h = 0
    BY <2>1, ModOf
  <2>3. BitOf(x, w - 1) = 0
    BY <1>2, <2>2 DEF BitOf
  <2> QED BY <1>1, <1>2, <1>4, <2>3, BitsAre
<1> QED BY <1>2, <1>3, <1>4

\* Cutting a number to s bits keeps the bits below s and no others.
LEMMA BitsOfCut ==
    ASSUME NEW s \in Nat, NEW w \in Nat, s <= w, NEW x \in Int
    PROVE  /\ x % Pow2[s] \in 0..(Pow2[s] - 1)
           /\ Bits(x % Pow2[s], s) = Bits(x, w) \cap (0..(s - 1))
<1>1. PICK o \in Nat \ {0} : o = Pow2[s]
  BY Pow2Step
<1>2. PICK q \in Int, r \in 0..(o - 1) : x = r + o * q /\ r = x % o
  <2>1. PICK q \in Int, r \in 0..(o - 1) : q = x \div o /\ r = x % o
    BY DivMod
  <2>2. x = o * q + r
    BY <2>1, DivMod
  <2>3. x = r + o * q
    BY <2>2
  <2> QED BY <2>1, <2>3
<1>3. ASSUME NEW p \in 0..(s - 1) PROVE BitOf(x, p) = BitOf(r, p)
  <2>1. p \in Nat /\ p < s /\ r \in Int
    BY <1>1
  <2>2. BitOf(r + Pow2[s] * q, p) = BitOf(r, p)
    BY <2>1, BitLow
  <2> QED BY <1>1, <1>2, <2>2
<1>4. 0..(s - 1) \subseteq 0..(w - 1)
  OBVIOUS
<1>5. /\ Bits(r, s) = {p \in 0..(s - 1) : BitOf(r, p) = 1}
      /\ Bits(x, w) = {p \in 0..(w - 1) : BitOf(x, p) = 1}
  BY BitsAre
<1>6. Bits(r, s) = Bits(x, w) \cap (0..(s - 1))
  BY <1>3, <1>4, <1>5
<1> QED BY <1>1, <1>2, <1>6

\* Words that have no bit in common, those of one all from bit n on and those
\* of the other all below it, combine to their sum.
LEMMA OrDisjoint ==
    ASSUME NEW n \in Nat, NEW w \in Nat, NEW q \in Nat, NEW r \in 0..(Pow2[n] - 1),
           Pow2[n] * q + r \in 0..(Pow2[w] - 1)
    PROVE  /\ BitOr(Pow2[n] * q, r, w) = Pow2[n] * q + r
           /\ BitOr(r, Pow2[n] * q, w) = Pow2[n] * q + r
<1>1. PICK o \in Nat \ {0} : o = Pow2[n]
  BY Pow2Step
<1>2. PICK u \in Nat : u = o * q
  OBVIOUS
<1>3. r \in Nat /\ 0 \in 0..(o - 1) /\ u = 0 + o * q /\ u + r = r + o * q /\ r = r + o * 0
  BY <1>1, <1>2
<1>4. ASSUME NEW p \in 0..(w - 1)
      PROVE  BitOf(u + r, p) = 1 <=> BitOf(u, p) = 1 \/ BitOf(r, p) = 1
  <2>1. CASE p < n
    <3>1. BitOf(u, p) = BitOf(0, p) /\ BitOf(u + r, p) = BitOf(r, p)
      <4>1. p \in Nat /\ 0 \in Int /\ r \in Int /\ q \in Int
        BY <1>3
      <4>2. (\E b \in Int : u = 0 + Pow2[n] * b) /\ (\E b \in Int : u + r = r + Pow2[n] * b)
        BY <1>1, <1>3, <4>1
      <4> QED BY <1>3, <2>1, <4>1, <4>2, SameLowBits
    <3> QED BY <3>1, BitOfZero
  <2>2. CASE n <= p
    <3>1. p \in Nat /\ p - n \in Nat /\ 0 \in Nat
      BY <2>2
    <3>2. BitOf(u, p) = BitOf(q, p - n)
      BY <1>1, <1>3, <2>2, <3>1, BitHigh
    <3>3. BitOf(u + r, p) = BitOf(q, p - n)
      BY <1>1, <1>3, <2>2, <3>1, BitHigh
    <3>4. BitOf(r, p) = BitOf(0, p - n)
      BY <1>1, <1>3, <2>2, <3>1, BitHigh
    <3>5. BitOf(0, p - n) = 0
      BY <3>1, BitOfZero
    <3> QED BY <3>2, <3>3, <3>4, <3>5
  <2> QED BY <2>1, <2>2
<1>5. Bits(u + r, w) = Bits(u, w) \cup Bits(r, w)
  BY <1>4, BitsAre
<1>6. u + r \in 0..(Pow2[w] - 1)
  BY <1>1, <1>2
<1>7. FromBits(Bits(u + r, w), w) = u + r
  BY <1>6, FromBitsIs
<1>8. BitOr(u, r, w) = u + r /\ BitOr(r, u, w) = u + r
  <2>1. Bits(r, w) \cup Bits(u, w) = Bits(u, w) \cup Bits(r, w)
    OBVIOUS
  <2> QED BY <1>5, <1>7, <2>1 DEF BitOr
<1> QED BY <1>1, <1>2, <1>8

-----------------------------------------------------------------------------
\* Double-width shifts.  Two parts of a word, brought together with or.
LEMMA Joined ==
    ASSUME NEW k \in Nat, NEW w \in Nat, k <= w, NEW z \in Nat, NEW q \in 0..(Pow2[k] - 1)
    PROVE  /\ BitOr((z * Pow2[k]) % Pow2[w], q, w) = (z * Pow2[k] + q) % Pow2[w]
           /\ BitOr(q, (z * Pow2[k]) % Pow2[w], w) = (z * Pow2[k] + q) % Pow2[w]
<1>1. PICK a \in Nat \ {0}, o \in Nat \ {0} : a = Pow2[k] /\ o = Pow2[w]
  BY Pow2Step
<1>2. PICK m \in Nat \ {0} : o = a * m
  <2>1. w - k \in Nat
    OBVIOUS
  <2> QED BY <1>1, <2>1, Pow2Divides, Pow2Step
<1>3. PICK j \in Nat, t \in 0..(m - 1) : z = m * j + t
  <2>1. z \in Int
    OBVIOUS
  <2>2. z = m * (z \div m) + (z % m) /\ z \div m \in Nat /\ z % m \in 0..(m - 1)
    BY <2>1, DivMod
  <2> QED BY <2>2
<1>4. PICK u \in Nat : u = a * t
  OBVIOUS
<1>5. u + q \in 0..(o - 1) /\ u \in 0..(o - 1)
  <2>1. PICK d \in Nat : t + 1 + d = m
    <3>1. m - t - 1 \in Nat
      OBVIOUS
    <3> QED BY <3>1
  <2>2. a * m = a * t + a + a * d
    BY <2>1
  <2>3. PICK e \in Nat : e = a * d
    OBVIOUS
  <2> QED BY <1>1, <1>2, <1>4, <2>2, <2>3
<1>6. PICK v \in Int : v = z * a
  OBVIOUS
<1>7. v = o * j + u
  <2>1. (m * j + t) * a = (a * m) * j + a * t
    OBVIOUS
  <2> QED BY <1>2, <1>3, <1>4, <1>6, <2>1
<1>8. v % o = u
  <2>1. u \in 0..(o - 1) /\ j \in Int
    BY <1>5
  <2> QED BY <1>7, <2>1, DivModIs
<1>9. (v + q) % o = u + q
  <2>1. PICK c \in 0..(o - 1), d \in Int : c = u + q /\ d = v + q
    BY <1>1, <1>5
  <2>2. d = o * j + c
    <3>1. PICK e \in Int : e = o * j
      OBVIOUS
    <3>2. v = e + u
      BY <1>7, <3>1
    <3>3. d = e + c
      BY <2>1, <3>2
    <3> QED BY <3>1, <3>3
  <2>3. d % o = c
    <3>1. j \in Int
      OBVIOUS
    <3> QED BY <2>2, <3>1, DivModIs
  <2> QED BY <2>1, <2>3
<1>10. BitOr(u, q, w) = u + q /\ BitOr(q, u, w) = u + q
  <2>1. u = Pow2[k] * t /\ Pow2[k] * t + q \in 0..(Pow2[w] - 1) /\ t \in Nat
    BY <1>1, <1>4, <1>5
  <2> QED BY <2>1, OrDisjoint
<1> QED BY <1>1, <1>6, <1>8, <1>9, <1>10

\* What is left of a word shifted right by n has as many bits fewer.
LEMMA RightPart ==
    ASSUME NEW w \in Nat, NEW n \in 0..w, NEW y \in 0..(Pow2[w] - 1)
    PROVE  y \div Pow2[n] \in 0..(Pow2[w - n] - 1)
<1>1. n \in Nat /\ w - n \in Nat /\ n <= w
  OBVIOUS
<1>2. PICK a \in Nat \ {0}, b \in Nat \ {0} : a = Pow2[n] /\ b = Pow2[w - n] /\ Pow2[w] = a * b
  <2>1. Pow2[n] \in Nat \ {0} /\ Pow2[w - n] \in Nat \ {0}
    BY <1>1, Pow2Step
  <2>2. Pow2[w] = Pow2[n] * Pow2[w - n]
    BY <1>1, Pow2Divides
  <2> QED BY <2>1, <2>2
<1>3. PICK o \in Nat \ {0} : o = a * b
  <2>1. a * b \in Nat \ {0}
    OBVIOUS
  <2> QED BY <2>1
<1>4. y \in 0..(o - 1)
  BY <1>2, <1>3
<1>5. PICK q \in Nat, r \in 0..(a - 1) : y = a * q + r /\ q = y \div a
  <2>1. y \in Nat /\ y \in Int
    BY <1>4
  <2>2. y = a * (y \div a) + (y % a) /\ y \div a \in Nat /\ y % a \in 0..(a - 1)
    BY <2>1, DivMod
  <2> QED BY <2>2
<1>6. ASSUME q >= b PROVE FALSE
  <2>1. PICK d \in Nat : q = b + d
    <3>1. q - b \in Nat
      BY <1>6
    <3> QED BY <3>1
  <2>2. a * q = a * b + a * d
    BY <2>1
  <2>3. PICK e \in Nat : e = a * d
    OBVIOUS
  <2> QED BY <1>3, <1>4, <1>5, <2>2, <2>3
<1> QED BY <1>2, <1>5, <1>6

\* Shifted left by n, a word that another follows takes in the upper n bits of
\* that other one.
LEMMA ShiftedIn ==
    ASSUME NEW w \in Nat, NEW n \in 0..w, NEW x \in Nat, NEW y \in 0..(Pow2[w] - 1)
    PROVE  ((x * Pow2[w] + y) * Pow2[n]) \div Pow2[w] = x * Pow2[n] + (y \div Pow2[w - n])
<1>1. n \in Nat /\ w - n \in Nat /\ w - n <= w /\ w - (w - n) = n /\ w - n \in 0..w
  OBVIOUS
<1>2. PICK a \in Nat \ {0}, b \in Nat \ {0}, o \in Nat \ {0} :
         a = Pow2[n] /\ b = Pow2[w - n] /\ o = Pow2[w] /\ o = b * a
  <2>1. Pow2[w] = Pow2[w - n] * Pow2[w - (w - n)]
    BY <1>1, Pow2Divides
  <2>2. Pow2[n] \in Nat \ {0} /\ Pow2[w - n] \in Nat \ {0} /\ Pow2[w] \in Nat \ {0}
    BY <1>1, Pow2Step
  <2> QED BY <1>1, <2>1, <2>2
<1>3. PICK q \in Nat, r \in 0..(b - 1) : y = b * q + r /\ q = y \div b
  <2>1. y \in Nat /\ y \in Int
    BY <1>2
  <2>2. y = b * (y \div b) + (y % b) /\ y \div b \in Nat /\ y % b \in 0..(b - 1)
    BY <2>1, DivMod
  <2> QED BY <2>2
<1>4. PICK s \in 0..(o - 1) : s = r * a
  <2>1. PICK d \in Nat : r + 1 + d = b
    <3>1. b - r - 1 \in Nat
      OBVIOUS
    <3> QED BY <3>1
  <2>2. b * a = r * a + a + d * a
    BY <2>1
  <2>3. PICK e \in Nat, f \in Nat : e = d * a /\ f = r * a
    OBVIOUS
  <2> QED BY <1>2, <2>2, <2>3
<1>5. PICK z \in Int, v \in Int : z = (x * o + y) * a /\ v = x * a + q
  BY <1>2
<1>6. z = o * v + s
  <2>1. (x * (b * a) + (b * q + r)) * a = (b * a) * (x * a + q) + r * a
    OBVIOUS
  <2> QED BY <1>2, <1>3, <1>4, <1>5, <2>1
<1>7. z \div o = v
  BY <1>6, DivModIs
<1> QED BY <1>2, <1>3, <1>5, <1>7

\* Shifted right by n, the lower word takes in the lower n bits of the upper.
LEMMA ShiftedOut ==
    ASSUME NEW w \in Nat, NEW n \in 0..w, NEW x \in 0..(Pow2[w] - 1), NEW y \in Nat
    PROVE  (y * Pow2[w] + x) \div Pow2[n] = y * Pow2[w - n] + (x \div Pow2[n])
<1>1. n \in Nat /\ w - n \in Nat /\ n <= w
  OBVIOUS
<1>2. PICK a \in Nat \ {0}, b \in Nat \ {0}, o \in Nat \ {0} :
         a = Pow2[n] /\ b = Pow2[w - n] /\ o = Pow2[w] /\ o = a * b
  <2>1. Pow2[w] = Pow2[n] * Pow2[w - n]
    BY <1>1, Pow2Divides
  <2>2. Pow2[n] \in Nat \ {0} /\ Pow2[w - n] \in Nat \ {0} /\ Pow2[w] \in Nat \ {0}
    BY <1>1, Pow2Step
  <2> QED BY <2>1, <2>2
<1>3. PICK q \in Nat, r \in 0..(a - 1) : x = a * q + r /\ q = x \div a
  <2>1. x \in Nat /\ x \in Int
    BY <1>2
  <2>2. x = a * (x \div a) + (x % a) /\ x \div a \in Nat /\ x % a \in 0..(a - 1)
    BY <2>1, DivMod
  <2> QED BY <2>2
<1>4. PICK z \in Int, v \in Int : z = y * o + x /\ v = y * b + q
  BY <1>2
<1>5. z = a * v + r
  <2>1. y * (a * b) + (a * q + r) = a * (y * b + q) + r
    OBVIOUS
  <2> QED BY <1>2, <1>3, <1>4, <2>1
<1>6. z \div a = v
  BY <1>5, DivModIs
<1> QED BY <1>2, <1>3, <1>4, <1>6

-----------------------------------------------------------------------------
\* A sum of two words, cut to the width: it wrapped exactly when it reached
\* the modulus, and then by the modulus once.
LEMMA CutSum ==
    ASSUME NEW h \in Nat \ {0}, NEW a \in Word(h), NEW b \in Word(h)
    PROVE  Cut(a + b, h) = IF a + b >= 2 * h THEN a + b - 2 * h ELSE a + b
<1>. DEFINE m == 2 * h
<1>1. m \in Nat \ {0} /\ a \in 0..(m - 1) /\ b \in 0..(m - 1)
  BY DEF Word
<1>2. \A x \in 0..(m - 1) : x % m = x
  BY <1>1
<1>3. \A x \in m..(2 * m - 1) : x % m = x - m
  BY <1>1
<1>4. QED
  BY <1>1, <1>2, <1>3 DEF Cut

\* The tests lifter_add uses, as numbers.
LEMMA SignTest ==
    ASSUME NEW x \in W
    PROVE  TestZ("tl", x) = Bit(x >= Half)
BY HalfAssumption DEF TestZ, Test, Holds, Signed, Bit, W, Word

\* OF, from the signs of the operands and of the result.
LEMMA OverflowBySigns ==
    ASSUME NEW a \in W, NEW b \in W, NEW r \in W
    PROVE  Overflow(a, b, r) =
              Bit((a >= Half <=> b >= Half) /\ ~(a >= Half <=> r >= Half))
BY SignTest DEF Overflow, SameSign, OtherSign, Test, Holds, Bit

\* The four flags and the word that lifter_add leaves are those of an x86 add.
LEMMA AddStep ==
    ASSUME NEW a \in W, NEW b \in W
    PROVE  LET r == Sum(a, b)  f == AddFlags(a, b, r)
               exact == Signed(a, Half) + Signed(b, Half)
           IN /\ f.CF = 1 <=> a + b >= 2 * Half
              /\ f.OF = 1 <=> exact < -Half \/ exact >= Half
              /\ f.ZF = 1 <=> (a + b) % (2 * Half) = 0
              /\ f.SF = 1 <=> r >= Half
              /\ r = (a + b) % (2 * Half)
<1>. DEFINE r == Sum(a, b)
            f == AddFlags(a, b, r)
            exact == Signed(a, Half) + Signed(b, Half)
<1>. USE HalfAssumption
<1>1. r = IF a + b >= 2 * Half THEN a + b - 2 * Half ELSE a + b
  BY CutSum DEF Sum, W
<1>2. r \in W
  BY <1>1 DEF W, Word
<1>3. r = (a + b) % (2 * Half)
  BY DEF Sum, Cut
<1>4. f.CF = 1 <=> a + b >= 2 * Half
  <2>1. f.CF = Bit(r < a)
    BY DEF AddFlags, Test, Holds
  <2>2. r < a <=> a + b >= 2 * Half
    BY <1>1 DEF W, Word
  <2>3. QED
    BY <2>1, <2>2 DEF Bit
<1>5. f.OF = 1 <=> exact < -Half \/ exact >= Half
  <2>1. f.OF = Bit((a >= Half <=> b >= Half) /\ ~(a >= Half <=> r >= Half))
    BY <1>2, OverflowBySigns DEF AddFlags
  <2>2. (a >= Half <=> b >= Half) /\ ~(a >= Half <=> r >= Half)
           <=> exact < -Half \/ exact >= Half
    BY <1>1 DEF Signed, W, Word
  <2>3. QED
    BY <2>1, <2>2 DEF Bit
<1>6. f.ZF = 1 <=> r = 0
  BY <1>2 DEF AddFlags, TestZ, Test, Holds, Bit
<1>7. f.SF = 1 <=> r >= Half
  BY <1>2, SignTest DEF AddFlags, Bit
<1>8. QED
  BY <1>3, <1>4, <1>5, <1>6, <1>7

-----------------------------------------------------------------------------
\* The stack the handler pops from holds words and is not written.
AddInv == popped \in [1..3 -> W] /\ AddMatchesX86

LEMMA AddInit == Init => AddInv
BY DEF Init, AddInv, AddMatchesX86

LEMMA AddNext == AddInv /\ [Next]_vars => AddInv'
<1>. SUFFICES ASSUME AddInv, [Next]_vars PROVE AddInv'
  OBVIOUS
<1>1. CASE LifterAdd
  <2>. DEFINE a == popped[2]
              b == popped[1]
  <2>1. a \in W /\ b \in W
    BY DEF AddInv
  <2>2. /\ popped' = popped
        /\ pushed' = <<Sum(a, b)>>
        /\ flags' = AddFlags(a, b, Sum(a, b))
    BY <1>1 DEF LifterAdd, Run, Push
  <2>3. pushed'[1] = Sum(a, b)
    BY <2>2
  <2>4. AddMatchesX86'
    BY <2>1, <2>2, <2>3, AddStep DEF AddMatchesX86
  <2>5. QED
    BY <2>2, <2>4 DEF AddInv
<1>2. CASE Next /\ ~LifterAdd
  <2>1. op' # "add" /\ popped' = popped
    BY <1>2 DEF Next, LifterAnd, LifterOr, LifterNand, LifterNor, LifterImul, LifterShl,
                LifterShr, LifterShld, LifterShrd, Shift, DoubleShift, Run
  <2>2. QED
    BY <2>1 DEF AddInv, AddMatchesX86
<1>3. CASE UNCHANGED vars
  BY <1>3 DEF vars, AddInv, AddMatchesX86
<1>4. QED
  BY <1>1, <1>2, <1>3

\* For words of every width, lifter_add leaves the sum and the flags that an
\* x86 add of the two words popped would set.
THEOREM AddTheorem == Spec => []AddMatchesX86
<1>1. AddInv => AddMatchesX86
  BY DEF AddInv
<1>2. QED
  BY AddInit, AddNext, <1>1, PTL DEF Spec

-----------------------------------------------------------------------------
\* The words of the VM are those of Width bits.
LEMMA WordIs ==
    /\ W = 0..(Pow2[Width] - 1) /\ Width - 1 \in Nat
    /\ Pow2[Width] = 2 * Half /\ Half = Pow2[Width - 1]
<1>1. Width - 1 \in Nat /\ (Width - 1) + 1 = Width /\ Half = Pow2[Width - 1]
  BY WidthAssumption
<1>2. Pow2[Width] = 2 * Half
  BY <1>1, Pow2Step
<1> QED BY <1>1, <1>2 DEF W, Word

\* The stack the handlers pop from is not written; memory holds a word.
StateIsWords == popped \in [1..3 -> W] /\ mem \in W

LEMMA WordsNext == StateIsWords /\ [Next]_vars => StateIsWords'
<1> SUFFICES ASSUME StateIsWords, [Next]_vars PROVE StateIsWords'
  OBVIOUS
<1>1. CASE LifterAnd \/ LifterOr
  <2>1. mem' \in 0..(Pow2[Width] - 1)
    <3>1. Width \in Nat
      BY WidthAssumption
    <3> QED BY <1>1, <3>1, BitwiseFacts DEF LifterAnd, LifterOr, InMemory
  <2>2. popped' = popped
    BY <1>1 DEF LifterAnd, LifterOr, Run
  <2> QED BY <2>1, <2>2, WordIs DEF StateIsWords
<1>2. CASE Next /\ ~(LifterAnd \/ LifterOr)
  <2>1. popped' = popped /\ mem' = mem
    BY <1>2 DEF Next, LifterAdd, LifterNand, LifterNor, LifterImul, LifterShl, LifterShr,
                LifterShld, LifterShrd, Shift, DoubleShift, Negated, Push, Run
  <2> QED BY <2>1 DEF StateIsWords
<1>3. CASE UNCHANGED vars
  BY <1>3 DEF vars, StateIsWords
<1> QED BY <1>1, <1>2, <1>3

LEMMA WordsInvariant == Spec => []StateIsWords
<1>1. Init => StateIsWords
  BY DEF Init, StateIsWords
<1> QED BY <1>1, WordsNext, PTL DEF Spec

-----------------------------------------------------------------------------
\* The counts of lifter_shld and lifter_shrd fit in a temporary of CountWidth
\* bits: neither the count nor Width minus the count is cut.
LEMMA CountsFit ==
    ASSUME NEW n \in 0..(Width - 1)
    PROVE  Count(n) = n /\ Rest(n) = Width - n
<1>1. PICK m \in Nat \ {0} : m = Pow2[CountWidth] /\ Width < m
  <2>1. CountWidth - 1 \in Nat /\ (CountWidth - 1) + 1 = CountWidth
    BY WidthAssumption
  <2>2. PICK c \in Nat \ {0} : c = Pow2[CountWidth - 1] /\ Pow2[CountWidth] = 2 * c
    BY <2>1, Pow2Step
  <2>3. c >= Width /\ Width \in Nat
    BY <2>2, WidthAssumption
  <2> QED BY <2>2, <2>3
<1>2. Width \in Nat /\ n \in 0..(m - 1) /\ Width - n \in 0..(m - 1)
  BY <1>1, WidthAssumption
<1>3. n % m = n
  BY <1>2, ModOf
<1>4. (Width - n) % m = Width - n
  <2>1. PICK r \in 0..(m - 1) : r = Width - n
    BY <1>2
  <2>2. r % m = r
    BY ModOf
  <2> QED BY <2>1, <2>2
<1> QED BY <1>1, <1>3, <1>4 DEF Count, Rest

\* The word of the two shifts is that of the double-width shift.
LEMMA DoubleShiftWord ==
    ASSUME NEW n \in 0..(Width - 1), NEW x \in W, NEW y \in W
    PROVE  /\ BitOr(ShiftLeft(x, n, Width), ShiftRight(y, Width - n, Width), Width)
                 = (((x * Pow2[Width] + y) * Pow2[n]) \div Pow2[Width]) % Pow2[Width]
           /\ BitOr(ShiftRight(x, n, Width), ShiftLeft(y, Width - n, Width), Width)
                 = ((y * Pow2[Width] + x) \div Pow2[n]) % Pow2[Width]
<1> DEFINE w == Width
           k == w - n
<1>1. /\ w \in Nat /\ n \in Nat /\ n \in 0..w /\ n <= w /\ n < w
      /\ k \in Nat /\ k <= w /\ k \in 0..w /\ w - k = n
  BY WidthAssumption
<1>2. x \in 0..(Pow2[w] - 1) /\ y \in 0..(Pow2[w] - 1) /\ x \in Nat /\ y \in Nat
  BY WordIs, WidthAssumption
<1>3. PICK o \in Nat \ {0}, b \in Nat \ {0} : o = Pow2[w] /\ b = Pow2[k]
  BY <1>1, Pow2Step
<1> HIDE DEF w, k
<1>4. ShiftLeft(x, n, w) = (x * Pow2[n]) % Pow2[w] /\ ShiftRight(x, n, w) = x \div Pow2[n]
  BY <1>1 DEF ShiftLeft, ShiftRight
<1>5. ShiftRight(y, k, w) = y \div Pow2[k]
  <2>1. CASE n = 0
    <3>1. y \in 0..(o - 1) /\ k = w
      BY <1>1, <1>2, <1>3, <2>1
    <3>2. y \div o = 0
      BY <3>1, ModOf
    <3> QED BY <1>1, <1>3, <3>1, <3>2 DEF ShiftRight
  <2>2. CASE n # 0
    BY <1>1, <2>2 DEF ShiftRight
  <2> QED BY <2>1, <2>2
<1>6. ShiftLeft(y, k, w) = (y * Pow2[k]) % Pow2[w]
  <2>1. CASE n = 0
    <3>1. k = w
      BY <1>1, <2>1
    <3>2. (y * o) % o = 0
      <4>1. PICK z \in Int, j \in Int, r \in 0..(o - 1) : z = y * o /\ j = y /\ r = 0
        BY <1>2
      <4>2. z = o * j + r
        BY <4>1
      <4>3. z % o = r
        BY <4>2, DivModIs
      <4> QED BY <4>1, <4>3
    <3> QED BY <1>1, <1>3, <3>1, <3>2 DEF ShiftLeft
  <2>2. CASE n # 0
    BY <1>1, <2>2 DEF ShiftLeft
  <2> QED BY <2>1, <2>2
<1>7. BitOr(ShiftLeft(x, n, w), ShiftRight(y, k, w), w)
         = (((x * Pow2[w] + y) * Pow2[n]) \div Pow2[w]) % Pow2[w]
  <2>1. y \div Pow2[k] \in 0..(Pow2[n] - 1)
    BY <1>1, <1>2, RightPart
  <2>2. BitOr((x * Pow2[n]) % Pow2[w], y \div Pow2[k], w)
           = (x * Pow2[n] + (y \div Pow2[k])) % Pow2[w]
    BY <1>1, <1>2, <2>1, Joined
  <2>3. ((x * Pow2[w] + y) * Pow2[n]) \div Pow2[w] = x * Pow2[n] + (y \div Pow2[w - n])
    BY <1>1, <1>2, ShiftedIn
  <2> QED BY <1>4, <1>5, <2>2, <2>3 DEF k
<1>8. BitOr(ShiftRight(x, n, w), ShiftLeft(y, k, w), w)
         = ((y * Pow2[w] + x) \div Pow2[n]) % Pow2[w]
  <2>1. x \div Pow2[n] \in 0..(Pow2[k] - 1)
    BY <1>1, <1>2, RightPart DEF k
  <2>2. BitOr(x \div Pow2[n], (y * Pow2[k]) % Pow2[w], w)
           = (y * Pow2[k] + (x \div Pow2[n])) % Pow2[w]
    BY <1>1, <1>2, <2>1, Joined
  <2>3. (y * Pow2[w] + x) \div Pow2[n] = y * Pow2[w - n] + (x \div Pow2[n])
    BY <1>1, <1>2, ShiftedOut
  <2> QED BY <1>4, <1>6, <2>2, <2>3 DEF k
<1> QED BY <1>7, <1>8 DEF w, k

\* The tests of the result, as the flags that are set from them.
LEMMA WordTests ==
    ASSUME NEW x \in W
    PROVE  TestZ("te", x) = Bit(x = 0) /\ TestZ("tl", x) = Bit(x >= Half)
BY SignTest DEF TestZ, Test, Holds

LEMMA DoubleShiftStep ==
    ASSUME StateIsWords, LifterShld \/ LifterShrd
    PROVE  DoubleShiftMatchesX86'
<1> SUFFICES ASSUME popped'[3] < Width
             PROVE  DoubleShiftMatchesX86'
  BY DEF DoubleShiftMatchesX86
<1> DEFINE n == popped[3]
           x == popped[1]
           y == popped[2]
<1>1. x \in W /\ y \in W /\ n \in W
  BY DEF StateIsWords
<1>2. popped' = popped /\ n \in 0..(Width - 1)
  <2>1. popped' = popped
    BY DEF LifterShld, LifterShrd, DoubleShift, Run
  <2> QED BY <1>1, <2>1, HalfAssumption, WidthAssumption DEF W, Word
<1>3. Count(n) = n /\ Rest(n) = Width - n
  BY <1>2, CountsFit
<1>4. PICK word :
         /\ pushed' = <<word>>
         /\ flags'.ZF = TestZ("te", word) /\ flags'.SF = TestZ("tl", word)
         /\ \/ /\ op' = "shld"
               /\ word = BitOr(ShiftLeft(x, n, Width), ShiftRight(y, Width - n, Width), Width)
            \/ /\ op' = "shrd"
               /\ word = BitOr(ShiftRight(x, n, Width), ShiftLeft(y, Width - n, Width), Width)
  <2> HIDE DEF n, x, y
  <2>1. CASE LifterShld
    <3> DEFINE word == BitOr(ShiftLeft(x, n, Width), ShiftRight(y, Width - n, Width), Width)
    <3>1. /\ op' = "shld" /\ pushed' = <<word>>
          /\ flags'.ZF = TestZ("te", word) /\ flags'.SF = TestZ("tl", word)
      BY <1>3, <2>1 DEF LifterShld, DoubleShift, Run, Push, n, x, y
    <3> QED BY <3>1
  <2>2. CASE LifterShrd
    <3> DEFINE word == BitOr(ShiftRight(x, n, Width), ShiftLeft(y, Width - n, Width), Width)
    <3>1. /\ op' = "shrd" /\ pushed' = <<word>>
          /\ flags'.ZF = TestZ("te", word) /\ flags'.SF = TestZ("tl", word)
      BY <1>3, <2>2 DEF LifterShrd, DoubleShift, Run, Push, n, x, y
    <3> QED BY <3>1
  <2> QED BY <2>1, <2>2
<1>5. word \in W
  <2>1. Width \in Nat
    BY WidthAssumption
  <2> QED BY <1>4, <2>1, BitwiseFacts, WordIs
<1>6. word = (IF op' = "shld" THEN ((x * Pow2[Width] + y) * Pow2[n]) \div Pow2[Width]
              ELSE (y * Pow2[Width] + x) \div Pow2[n]) % Pow2[Width]
  BY <1>1, <1>2, <1>4, DoubleShiftWord
<1>7. (flags'.ZF = 1 <=> word = 0) /\ (flags'.SF = 1 <=> word >= Half)
  BY <1>4, <1>5, WordTests DEF Bit
<1> HIDE DEF n, x, y
<1> QED BY <1>2, <1>4, <1>6, <1>7 DEF DoubleShiftMatchesX86, n, x, y

\* For words of every width and every count below it, lifter_shld and
\* lifter_shrd leave the word of the double-width shift, and its ZF and SF.
THEOREM DoubleShiftTheorem == Spec => []DoubleShiftMatchesX86
<1>1. Init => DoubleShiftMatchesX86
  BY DEF Init, DoubleShiftMatchesX86
<1>2. StateIsWords /\ DoubleShiftMatchesX86 /\ [Next]_vars => DoubleShiftMatchesX86'
  <2> SUFFICES ASSUME StateIsWords, DoubleShiftMatchesX86, [Next]_vars
               PROVE  DoubleShiftMatchesX86'
    OBVIOUS
  <2>1. CASE LifterShld \/ LifterShrd
    BY <2>1, DoubleShiftStep
  <2>2. CASE Next /\ ~(LifterShld \/ LifterShrd)
    <3>1. op' \notin {"shld", "shrd"}
      BY <2>2 DEF Next, LifterAdd, LifterAnd, LifterOr, LifterNand, LifterNor, LifterImul,
                  LifterShl, LifterShr, Shift, Run
    <3> QED BY <3>1 DEF DoubleShiftMatchesX86
  <2>3. CASE UNCHANGED vars
    BY <2>3 DEF vars, DoubleShiftMatchesX86
  <2> QED BY <2>1, <2>2, <2>3
<1> QED BY <1>1, <1>2, WordsInvariant, PTL DEF Spec

-----------------------------------------------------------------------------
\* lifter_and and lifter_or write the word of the bits to memory, and flags
\* that are this word's.
LEMMA InMemoryStep ==
    ASSUME StateIsWords, LifterAnd \/ LifterOr
    PROVE  /\ op' = "_and" => Bits(mem', Width) = Bits(mem, Width) \cap Bits(popped[2], Width)
           /\ op' = "_or" => Bits(mem', Width) = Bits(mem, Width) \cup Bits(popped[2], Width)
           /\ op' \in {"_and", "_or"}
           /\ flags' = [CF |-> 0, OF |-> 0, ZF |-> Bit(mem' = 0), SF |-> Bit(mem' >= Half)]
<1>1. Width \in Nat
  BY WidthAssumption
<1>2. /\ \/ op' = "_and" /\ mem' = BitAnd(mem, popped[2], Width)
         \/ op' = "_or" /\ mem' = BitOr(mem, popped[2], Width)
      /\ flags' = LogicFlags(mem', mem')
  BY DEF LifterAnd, LifterOr, InMemory, Run
<1>3. mem' \in W
  BY <1>1, <1>2, BitwiseFacts, WordIs
<1>4. flags' = [CF |-> 0, OF |-> 0, ZF |-> Bit(mem' = 0), SF |-> Bit(mem' >= Half)]
  BY <1>2, <1>3, WordTests DEF LogicFlags
<1> QED BY <1>1, <1>2, <1>4, BitwiseFacts

\* lifter_nand and lifter_nor set SF to the top bit of what they compute.
LEMMA NegatedStep ==
    ASSUME StateIsWords, LifterNand \/ LifterNor
    PROVE  LET sign == Width - 1
               x == sign \in Bits(popped[2], Width)
               y == sign \in Bits(popped[1], Width)
           IN /\ op' = "nand" => (flags'.SF = 1 <=> ~(x /\ y))
              /\ op' = "nor" => (flags'.SF = 1 <=> ~(x \/ y))
              /\ op' \in {"nand", "nor"}
<1> DEFINE sign == Width - 1
           x == popped[2]
           y == popped[1]
<1>1. Width \in Nat /\ Width \in Nat \ {0} /\ sign \in 0..(Width - 1)
  BY WidthAssumption
<1>2. x \in 0..(Pow2[Width] - 1) /\ y \in 0..(Pow2[Width] - 1)
  BY WordIs DEF StateIsWords
<1>3. PICK result :
         /\ flags'.SF = TestZ("tl", result)
         /\ \/ op' = "nand" /\ result = NandOf(x, y)
            \/ op' = "nor" /\ result = NorOf(x, y)
  <2> HIDE DEF x, y
  <2>1. CASE LifterNand
    BY <2>1 DEF LifterNand, Negated, LogicFlags, Run, x, y
  <2>2. CASE LifterNor
    BY <2>2 DEF LifterNor, Negated, LogicFlags, Run, x, y
  <2> QED BY <2>1, <2>2
<1> HIDE DEF x, y
<1>4. result \in 0..(Pow2[Width] - 1)
  BY <1>1, <1>3, BitwiseFacts DEF NandOf, NorOf
<1>5. flags'.SF = 1 <=> result >= Half
  BY <1>3, <1>4, WordIs, WordTests DEF Bit
<1>6. result >= Half <=> sign \in Bits(result, Width)
  BY <1>1, <1>4, TopBit, WordIs
<1>7. /\ Bits(BitNot(x, Width), Width) = (0..(Width - 1)) \ Bits(x, Width)
      /\ Bits(BitNot(y, Width), Width) = (0..(Width - 1)) \ Bits(y, Width)
  BY <1>1, <1>2, BitNotFacts
<1>8. CASE op' = "nand" /\ result = NandOf(x, y)
  <2>1. Bits(result, Width) = Bits(BitNot(x, Width), Width) \cup Bits(BitNot(y, Width), Width)
    BY <1>1, <1>8, BitwiseFacts DEF NandOf
  <2>2. flags'.SF = 1 <=> ~(sign \in Bits(x, Width) /\ sign \in Bits(y, Width))
    BY <1>1, <1>5, <1>6, <1>7, <2>1
  <2> QED BY <1>8, <2>2 DEF x, y
<1>9. CASE op' = "nor" /\ result = NorOf(x, y)
  <2>1. Bits(result, Width) = Bits(BitNot(x, Width), Width) \cap Bits(BitNot(y, Width), Width)
    BY <1>1, <1>9, BitwiseFacts DEF NorOf
  <2>2. flags'.SF = 1 <=> ~(sign \in Bits(x, Width) \/ sign \in Bits(y, Width))
    BY <1>1, <1>5, <1>6, <1>7, <2>1
  <2> QED BY <1>9, <2>2 DEF x, y
<1> QED BY <1>3, <1>8, <1>9

\* For words of every width, each bit of what lifter_and and lifter_or store
\* is that of the x86 instruction, as are the flags, and lifter_nand and
\* lifter_nor set SF to the top bit.
THEOREM BitwiseTheorem == Spec => BitwiseMatchesX86
<1> DEFINE x(p) == p \in Bits(popped[2], Width)
           Of(p, word) == IF op' \in {"_and", "nand"} THEN x(p) /\ p \in Bits(word, Width)
                          ELSE x(p) \/ p \in Bits(word, Width)
           sign == Width - 1
           Step == /\ op' \in {"_and", "_or"} =>
                       /\ \A p \in 0..sign : p \in Bits(mem', Width) <=> Of(p, mem)
                       /\ flags' = [CF |-> 0, OF |-> 0, ZF |-> Bit(mem' = 0),
                                    SF |-> Bit(mem' >= Half)]
                   /\ op' \in {"nand", "nor"} => (flags'.SF = 1 <=> ~Of(sign, popped[1]))
<1>1. StateIsWords /\ Next => Step
  <2> SUFFICES ASSUME StateIsWords, Next PROVE Step
    OBVIOUS
  <2>1. CASE LifterAnd \/ LifterOr
    BY <2>1, InMemoryStep
  <2>2. CASE LifterNand \/ LifterNor
    BY <2>2, NegatedStep
  <2>3. CASE ~(LifterAnd \/ LifterOr \/ LifterNand \/ LifterNor)
    <3>1. op' \notin {"_and", "_or", "nand", "nor"}
      BY <2>3 DEF Next, LifterAdd, LifterImul, LifterShl, LifterShr, LifterShld, LifterShrd,
                  Shift, DoubleShift, Run
    <3> QED BY <3>1
  <2> QED BY <2>1, <2>2, <2>3
<1>2. StateIsWords /\ [Next]_vars => [Step]_vars
  BY <1>1
<1> QED BY <1>2, WordsInvariant, PTL DEF Spec, BitwiseMatchesX86
=============================================================================
