-------------------------- MODULE CompiledOpsProofs --------------------------
(***************************************************************************)
(* The x86 code of an instruction, for registers and words of every width  *)
(* and every choice of views: where the compiler keeps the instruction,    *)
(* the low bits of what it computes are what VTIL computes from the low    *)
(* bits, and nothing else changes.                                         *)
(***************************************************************************)
EXTENDS CompiledOps, FiniteSetTheorems, TLAPS

\* The lemmas about words that LifterOpsProofs has.
Words == INSTANCE LifterOpsProofs WITH
    Width <- 1, Half <- 1, CountWidth <- 1,
    popped <- gp, mem <- mem, flags <- control, pushed <- last, pushf <- last, op <- last

\* They are about the operators of VtilWords, which VtilMachine has as well.
LEMMA SamePowers == Words!Pow2 = Pow2 /\ Vtil!Pow2 = Pow2
BY DEF Words!Pow2, Vtil!Pow2, Pow2, Words!Cardinality, Vtil!Cardinality, Cardinality

LEMMA SameBits ==
    ASSUME NEW x, NEW w
    PROVE  /\ Words!Bits(x, w) = Bits(x, w) /\ Vtil!Bits(x, w) = Bits(x, w)
           /\ Words!FromBits(x, w) = FromBits(x, w) /\ Vtil!FromBits(x, w) = FromBits(x, w)
<1>1. Words!Bits(x, w) = Bits(x, w) /\ Vtil!Bits(x, w) = Bits(x, w)
  BY SamePowers DEF Words!Bits, Vtil!Bits, Bits
<1>2. Words!FromBits(x, w) = FromBits(x, w) /\ Vtil!FromBits(x, w) = FromBits(x, w)
  BY DEF Words!FromBits, Vtil!FromBits, FromBits, Words!Bits, Vtil!Bits, Bits,
         Words!Pow2, Vtil!Pow2, Pow2, Words!Cardinality, Vtil!Cardinality, Cardinality
<1> QED BY <1>1, <1>2

LEMMA SameOperators ==
    ASSUME NEW x, NEW y, NEW w
    PROVE  /\ Words!BitAnd(x, y, w) = BitAnd(x, y, w) /\ Vtil!BitAnd(x, y, w) = BitAnd(x, y, w)
           /\ Words!BitOr(x, y, w) = BitOr(x, y, w) /\ Vtil!BitOr(x, y, w) = BitOr(x, y, w)
           /\ Words!BitXor(x, y, w) = BitXor(x, y, w) /\ Vtil!BitXor(x, y, w) = BitXor(x, y, w)
           /\ Words!BitNot(x, w) = BitNot(x, w) /\ Vtil!BitNot(x, w) = BitNot(x, w)
           /\ Vtil!ShiftLeft(x, y, w) = ShiftLeft(x, y, w)
           /\ Vtil!ShiftRight(x, y, w) = ShiftRight(x, y, w)
<1>1. Words!BitAnd(x, y, w) = BitAnd(x, y, w) /\ Vtil!BitAnd(x, y, w) = BitAnd(x, y, w)
  BY SameBits DEF Words!BitAnd, Vtil!BitAnd, BitAnd
<1>2. Words!BitOr(x, y, w) = BitOr(x, y, w) /\ Vtil!BitOr(x, y, w) = BitOr(x, y, w)
  BY SameBits DEF Words!BitOr, Vtil!BitOr, BitOr
<1>3. Words!BitXor(x, y, w) = BitXor(x, y, w) /\ Vtil!BitXor(x, y, w) = BitXor(x, y, w)
  BY SameBits DEF Words!BitXor, Vtil!BitXor, BitXor
<1>4. Words!BitNot(x, w) = BitNot(x, w) /\ Vtil!BitNot(x, w) = BitNot(x, w)
  BY SamePowers DEF Words!BitNot, Vtil!BitNot, BitNot
<1>5. /\ Vtil!ShiftLeft(x, y, w) = ShiftLeft(x, y, w)
      /\ Vtil!ShiftRight(x, y, w) = ShiftRight(x, y, w)
  BY SamePowers DEF Vtil!ShiftLeft, ShiftLeft, Vtil!ShiftRight, ShiftRight
<1> QED BY <1>1, <1>2, <1>3, <1>4, <1>5

\* and they hold of all words, so that those of one bit will do as an instance.
LEMMA WordsApply == Words!HalfAssumption /\ Words!WidthAssumption
<1>1. SUBSET (0..(0 - 1)) = {{}} /\ 1 - 1 = 0
  OBVIOUS
<1>2. Pow2[0] = 1
  BY <1>1, FS_Singleton DEF Pow2
<1>3. Pow2[1 - 1] = 1
  BY <1>1, <1>2
<1> QED BY <1>3, SamePowers DEF Words!HalfAssumption, Words!WidthAssumption

LEMMA Powers ==
    /\ Pow2[0] = 1
    /\ \A n \in Nat : Pow2[n] \in Nat \ {0} /\ Pow2[n + 1] = 2 * Pow2[n]
    /\ \A n \in Nat : n < Pow2[n]
BY SamePowers, WordsApply, Words!Pow2Step, Words!Pow2Above

LEMMA PowerDivides ==
    ASSUME NEW a \in Nat, NEW b \in Nat, a <= b
    PROVE  b - a \in Nat /\ Pow2[b] = Pow2[a] * Pow2[b - a] /\ Pow2[a] <= Pow2[b]
BY SamePowers, WordsApply, Words!Pow2Divides

LEMMA BitwiseOps ==
    ASSUME NEW w \in Nat, NEW x, NEW y
    PROVE  /\ BitAnd(x, y, w) \in 0..(Pow2[w] - 1)
           /\ Bits(BitAnd(x, y, w), w) = Bits(x, w) \cap Bits(y, w)
           /\ BitOr(x, y, w) \in 0..(Pow2[w] - 1)
           /\ Bits(BitOr(x, y, w), w) = Bits(x, w) \cup Bits(y, w)
           /\ BitXor(x, y, w) \in 0..(Pow2[w] - 1)
           /\ Bits(BitXor(x, y, w), w) = {p \in Bits(x, w) \cup Bits(y, w) :
                                             p \notin Bits(x, w) \cap Bits(y, w)}
BY SamePowers, SameBits, SameOperators, WordsApply, Words!BitwiseFacts

LEMMA Complement ==
    ASSUME NEW w \in Nat, NEW x \in 0..(Pow2[w] - 1)
    PROVE  BitNot(x, w) \in 0..(Pow2[w] - 1) /\ Bits(BitNot(x, w), w) = (0..(w - 1)) \ Bits(x, w)
<1>1. x \in 0..(Words!Pow2[w] - 1)
  BY SamePowers
<1>2. /\ Words!BitNot(x, w) \in 0..(Words!Pow2[w] - 1)
      /\ Words!Bits(Words!BitNot(x, w), w) = (0..(w - 1)) \ Words!Bits(x, w)
  BY <1>1, WordsApply, Words!BitNotFacts
<1> QED BY <1>2, SamePowers, SameBits, SameOperators

LEMMA CutBits ==
    ASSUME NEW s \in Nat, NEW w \in Nat, s <= w, NEW x \in Int
    PROVE  /\ x % Pow2[s] \in 0..(Pow2[s] - 1)
           /\ Bits(x % Pow2[s], s) = Bits(x, w) \cap (0..(s - 1))
<1>1. /\ x % Words!Pow2[s] \in 0..(Words!Pow2[s] - 1)
      /\ Words!Bits(x % Words!Pow2[s], s) = Words!Bits(x, w) \cap (0..(s - 1))
  BY WordsApply, Words!BitsOfCut
<1> QED BY <1>1, SamePowers, SameBits

LEMMA OneWord ==
    ASSUME NEW w \in Nat, NEW x \in 0..(Pow2[w] - 1), NEW y \in 0..(Pow2[w] - 1),
           Bits(x, w) = Bits(y, w)
    PROVE  x = y
BY SamePowers, SameBits, WordsApply, Words!BitsUnique

-----------------------------------------------------------------------------
\* The low s bits of what is computed with w bits are what is computed from the
\* low s bits of the operands.
LEMMA CutCut ==
    ASSUME NEW s \in Nat, NEW w \in Nat, s <= w, NEW x \in Int
    PROVE  /\ (x % Pow2[w]) % Pow2[s] = x % Pow2[s] /\ x % Pow2[w] \in 0..(Pow2[w] - 1)
           /\ x % Pow2[s] \in 0..(Pow2[s] - 1) /\ (x % Pow2[s]) % Pow2[s] = x % Pow2[s]
<1>1. w - s \in Nat /\ Pow2[w] = Pow2[s] * Pow2[w - s]
  BY PowerDivides
<1>2. PICK m \in Nat \ {0}, k \in Nat \ {0} : m = Pow2[s] /\ k = Pow2[w - s]
  BY <1>1, Powers
<1>3. m * k \in Nat \ {0} /\ (x % (m * k)) % m = x % m
  BY WordsApply, Words!ModMod
<1>4. PICK c \in 0..(m - 1) : c = x % m
  BY <1>2
<1>5. c % m = c
  BY <1>4
<1>6. x % (m * k) \in 0..(m * k - 1)
  <2>1. PICK d \in Nat \ {0} : d = m * k
    BY <1>3
  <2> QED BY <2>1
<1> QED BY <1>1, <1>2, <1>3, <1>4, <1>5, <1>6

LEMMA CutArithmetic ==
    ASSUME NEW s \in Nat, NEW x \in Int, NEW y \in Int
    PROVE  /\ (x + y) % Pow2[s] = ((x % Pow2[s]) + (y % Pow2[s])) % Pow2[s]
           /\ (x - y) % Pow2[s] = ((x % Pow2[s]) - (y % Pow2[s])) % Pow2[s]
           /\ (x * y) % Pow2[s] = ((x % Pow2[s]) * (y % Pow2[s])) % Pow2[s]
<1>1. PICK m \in Nat \ {0} : m = Pow2[s]
  BY Powers
<1>2. /\ (x + y) % m = ((x % m) + (y % m)) % m
      /\ (x - y) % m = ((x % m) - (y % m)) % m
      /\ (x * y) % m = ((x % m) * (y % m)) % m
  BY WordsApply, Words!ModSum
<1> QED BY <1>1, <1>2

LEMMA CutBitwise ==
    ASSUME NEW s \in Nat, NEW w \in Nat, s <= w, NEW x \in Int, NEW y \in Int
    PROVE  /\ BitAnd(x, y, w) % Pow2[s] = BitAnd(x % Pow2[s], y % Pow2[s], s)
           /\ BitOr(x, y, w) % Pow2[s] = BitOr(x % Pow2[s], y % Pow2[s], s)
           /\ BitXor(x, y, w) % Pow2[s] = BitXor(x % Pow2[s], y % Pow2[s], s)
<1> DEFINE low == 0..(s - 1)
           X == x % Pow2[s]
           Y == y % Pow2[s]
<1>1. Bits(X, s) = Bits(x, w) \cap low /\ Bits(Y, s) = Bits(y, w) \cap low
  BY CutBits
<1> HIDE DEF X, Y
<1>2. BitAnd(x, y, w) % Pow2[s] = BitAnd(X, Y, s)
  <2>1. PICK a \in 0..(Pow2[w] - 1) :
           a = BitAnd(x, y, w) /\ Bits(a, w) = Bits(x, w) \cap Bits(y, w)
    BY BitwiseOps
  <2>2. a % Pow2[s] \in 0..(Pow2[s] - 1) /\ Bits(a % Pow2[s], s) = Bits(a, w) \cap low
    <3>1. a \in Int
      BY Powers
    <3> QED BY <3>1, CutBits
  <2>3. /\ BitAnd(X, Y, s) \in 0..(Pow2[s] - 1)
        /\ Bits(BitAnd(X, Y, s), s) = Bits(X, s) \cap Bits(Y, s)
    BY BitwiseOps
  <2>4. Bits(a % Pow2[s], s) = Bits(BitAnd(X, Y, s), s)
    BY <1>1, <2>1, <2>2, <2>3
  <2> QED BY <2>1, <2>2, <2>3, <2>4, OneWord
<1>3. BitOr(x, y, w) % Pow2[s] = BitOr(X, Y, s)
  <2>1. PICK a \in 0..(Pow2[w] - 1) :
           a = BitOr(x, y, w) /\ Bits(a, w) = Bits(x, w) \cup Bits(y, w)
    BY BitwiseOps
  <2>2. a % Pow2[s] \in 0..(Pow2[s] - 1) /\ Bits(a % Pow2[s], s) = Bits(a, w) \cap low
    <3>1. a \in Int
      BY Powers
    <3> QED BY <3>1, CutBits
  <2>3. /\ BitOr(X, Y, s) \in 0..(Pow2[s] - 1)
        /\ Bits(BitOr(X, Y, s), s) = Bits(X, s) \cup Bits(Y, s)
    BY BitwiseOps
  <2>4. Bits(a % Pow2[s], s) = Bits(BitOr(X, Y, s), s)
    BY <1>1, <2>1, <2>2, <2>3
  <2> QED BY <2>1, <2>2, <2>3, <2>4, OneWord
<1>4. BitXor(x, y, w) % Pow2[s] = BitXor(X, Y, s)
  <2>1. PICK a \in 0..(Pow2[w] - 1) :
           /\ a = BitXor(x, y, w)
           /\ Bits(a, w) = {p \in Bits(x, w) \cup Bits(y, w) : p \notin Bits(x, w) \cap Bits(y, w)}
    BY BitwiseOps
  <2>2. a % Pow2[s] \in 0..(Pow2[s] - 1) /\ Bits(a % Pow2[s], s) = Bits(a, w) \cap low
    <3>1. a \in Int
      BY Powers
    <3> QED BY <3>1, CutBits
  <2>3. /\ BitXor(X, Y, s) \in 0..(Pow2[s] - 1)
        /\ Bits(BitXor(X, Y, s), s)
              = {p \in Bits(X, s) \cup Bits(Y, s) : p \notin Bits(X, s) \cap Bits(Y, s)}
    BY BitwiseOps
  <2>4. Bits(a % Pow2[s], s) = Bits(BitXor(X, Y, s), s)
    BY <1>1, <2>1, <2>2, <2>3
  <2> QED BY <2>1, <2>2, <2>3, <2>4, OneWord
<1> QED BY <1>2, <1>3, <1>4 DEF X, Y

LEMMA CutNot ==
    ASSUME NEW s \in Nat, NEW w \in Nat, s <= w, NEW x \in 0..(Pow2[w] - 1)
    PROVE  BitNot(x, w) % Pow2[s] = BitNot(x % Pow2[s], s)
<1> DEFINE low == 0..(s - 1)
<1>1. x \in Int
  BY Powers
<1>2. PICK c \in 0..(Pow2[s] - 1) : c = x % Pow2[s] /\ Bits(c, s) = Bits(x, w) \cap low
  BY <1>1, CutBits
<1>3. PICK a \in 0..(Pow2[w] - 1) : a = BitNot(x, w) /\ Bits(a, w) = (0..(w - 1)) \ Bits(x, w)
  BY Complement
<1>4. a % Pow2[s] \in 0..(Pow2[s] - 1) /\ Bits(a % Pow2[s], s) = Bits(a, w) \cap low
  <2>1. a \in Int
    BY Powers
  <2> QED BY <2>1, CutBits
<1>5. BitNot(c, s) \in 0..(Pow2[s] - 1) /\ Bits(BitNot(c, s), s) = low \ Bits(c, s)
  BY Complement
<1>6. low \subseteq 0..(w - 1)
  OBVIOUS
<1>7. Bits(a % Pow2[s], s) = Bits(BitNot(c, s), s)
  BY <1>2, <1>3, <1>4, <1>5, <1>6
<1> QED BY <1>2, <1>3, <1>4, <1>5, <1>7, OneWord

LEMMA CutNegation ==
    ASSUME NEW s \in Nat, NEW w \in Nat, s <= w, NEW x \in Int
    PROVE  (Pow2[w] - x) % Pow2[s] = (0 - (x % Pow2[s])) % Pow2[s]
<1>1. w - s \in Nat /\ Pow2[w] = Pow2[s] * Pow2[w - s]
  BY PowerDivides
<1>2. PICK m \in Nat \ {0}, k \in Nat \ {0} : m = Pow2[s] /\ k = Pow2[w - s]
  BY <1>1, Powers
<1>3. PICK q \in Int, r \in 0..(m - 1) : q = x \div m /\ r = x % m /\ x = m * q + r
  OBVIOUS
<1>4. PICK a \in Int, b \in Int, t \in Int : a = m * k - x /\ b = 0 - r /\ t = k - q
  OBVIOUS
<1>5. a = b + m * t
  <2>1. m * (k - q) = m * k - m * q
    OBVIOUS
  <2>2. PICK c \in Int, d \in Int : c = m * k /\ d = m * q
    OBVIOUS
  <2>3. m * t = c - d
    BY <1>4, <2>1, <2>2
  <2> QED BY <1>3, <1>4, <2>2, <2>3
<1>6. a % m = b % m
  BY <1>5, WordsApply, Words!SameMod
<1> QED BY <1>1, <1>2, <1>3, <1>4, <1>6

\* An immediate is sign-extended: its low bits are its own.
LEMMA ImmediateFacts ==
    ASSUME NEW o \in Int, NEW s \in 1..Full
    PROVE  Immediate(o, s) \in Reg /\ Immediate(o, s) % Pow2[s] = o % Pow2[s]
<1>1. Full \in Nat /\ s \in Nat /\ s <= Full /\ s - 1 \in Nat
  BY SizeAssumption
<1>2. PICK m \in Nat \ {0}, h \in Nat \ {0} : m = Pow2[s] /\ h = Pow2[s - 1] /\ m = 2 * h
  <2>1. (s - 1) + 1 = s
    OBVIOUS
  <2> QED BY <1>1, <2>1, Powers
<1>3. PICK c \in 0..(m - 1) : c = o % m
  OBVIOUS
<1>4. PICK v \in Int : v = Signed(c, h)
  BY <1>2 DEF Signed
<1>5. v % m = c
  <2>1. CASE c >= h
    <3>1. v = m * (-1) + c
      BY <1>2, <1>4, <2>1 DEF Signed
    <3> QED BY <3>1
  <2>2. CASE c < h
    <3>1. v = c
      BY <1>4, <2>2 DEF Signed
    <3> QED BY <3>1
  <2> QED BY <2>1, <2>2
<1>6. Immediate(o, s) = v % Pow2[Full]
  BY <1>2, <1>3, <1>4 DEF Immediate, Wrap
<1>7. (v % Pow2[Full]) % Pow2[s] = v % Pow2[s] /\ v % Pow2[Full] \in 0..(Pow2[Full] - 1)
  BY <1>1, CutCut
<1> QED BY <1>2, <1>3, <1>5, <1>6, <1>7 DEF Reg

-----------------------------------------------------------------------------
\* The state the code of an instruction starts in.
StartTyped ==
    gp \in [Gp -> Reg] /\ control \in [{"cr0", "dr7"} -> Reg] /\ mem \in [Addresses -> Reg]
CodeInv == last = Start => StartTyped

LEMMA CodeInit == Init => CodeInv
<1>1. EntryControl \in [{"cr0", "dr7"} -> Reg] /\ MemWords \subseteq Reg
  BY SizeAssumption DEF Reg
<1> QED BY <1>1, EntryAssumption DEF Init, CodeInv, StartTyped

\* It runs once.
LEMMA BinaryEnds ==
    ASSUME NEW ins, ins # "start", NEW Value(_, _), Binary(ins, Value)
    PROVE  last' # Start
BY DEF Binary, Emit, Start

LEMMA StepEnds ==
    ASSUME Next
    PROVE  last' # Start
<1>1. CASE Sub \/ Add \/ Imul \/ Bshl \/ Bshr
  BY <1>1, BinaryEnds DEF Sub, Add, Imul, Bshl, Bshr
<1>2. CASE Band \/ Bor \/ Bxor \/ Bnot \/ Neg \/ Brol \/ Bror
  BY <1>2, BinaryEnds DEF Band, Bor, Bxor, Bnot, Neg, Brol, Bror
<1>3. CASE Mov \/ Ldd \/ Str \/ Ifs
  BY <1>3 DEF Mov, Ldd, Str, Ifs, Emit, Start
<1>4. CASE MapConditional
  BY <1>4 DEF MapConditional, Opposite, Emit, Start
<1>5. CASE Vpin \/ Abort
  BY <1>5 DEF Vpin, Pins, Abort, Aborted, Start
<1> QED BY <1>1, <1>2, <1>3, <1>4, <1>5 DEF Next

LEMMA CodeNext == CodeInv /\ [Next]_vars => CodeInv'
<1> QED BY StepEnds DEF CodeInv, StartTyped, vars

-----------------------------------------------------------------------------
\* The views that are the low bits of an x86 register.
Plain == {r \in Registers \ Control : Low(r)}

LEMMA OwnRegister ==
    /\ \A r \in Plain : r \in Registers /\ r \notin Control
    /\ \A r \in Registers \ Control : GetReg(r) \in Gp
BY DEF Plain, Gp

-----------------------------------------------------------------------------
\* The registers of VTIL, in those of x86.
LEMMA RegisterFacts ==
    ASSUME StartTyped
    PROVE  /\ \A r \in Plain : /\ gp[GetReg(r)] \in Reg /\ gp[GetReg(r)] \in Int
                               /\ VtilRegisters[r] = gp[GetReg(r)] % Pow2[Size[r]]
                               /\ Size[r] = Full => VtilRegisters[r] = gp[GetReg(r)]
           /\ \A c \in Control : VtilRegisters[c] = control[LocalId[c]] /\ control[LocalId[c]] \in Reg
<1>1. \A r \in Plain : gp[GetReg(r)] \in Reg /\ gp[GetReg(r)] \in Int
  <2>1. \A r \in Plain : gp[GetReg(r)] \in Reg
    BY OwnRegister DEF StartTyped
  <2>2. Reg \subseteq Int
    BY Powers, SizeAssumption DEF Reg
  <2> QED BY <2>1, <2>2
<1>2. \A r \in Plain : VtilRegisters[r] = gp[GetReg(r)] % Pow2[Size[r]]
  <2> SUFFICES ASSUME NEW r \in Plain PROVE VtilRegisters[r] = gp[GetReg(r)] % Pow2[Size[r]]
    OBVIOUS
  <2>1. r \in Registers /\ r \notin Control /\ Low(r)
    BY DEF Plain
  <2> QED BY <2>1 DEF VtilRegisters
<1>3. \A x \in Reg : x % Pow2[Full] = x
  <2>1. PICK m \in Nat \ {0} : m = Pow2[Full]
    BY Powers, SizeAssumption
  <2>2. \A x \in 0..(m - 1) : x % m = x
    OBVIOUS
  <2> QED BY <2>1, <2>2 DEF Reg
<1>4. \A c \in Control : LocalId[c] \in {"cr0", "dr7"} /\ VtilRegisters[c] = control[LocalId[c]]
  <2> SUFFICES ASSUME NEW c \in Control
               PROVE  LocalId[c] \in {"cr0", "dr7"} /\ VtilRegisters[c] = control[LocalId[c]]
    OBVIOUS
  <2>1. c \in Registers /\ LocalId[c] \in {"cr0", "dr7"}
    BY SizeAssumption
  <2> QED BY <2>1 DEF VtilRegisters
<1> QED BY <1>1, <1>2, <1>3, <1>4 DEF StartTyped

LEMMA SizeFacts ==
    ASSUME NEW r \in Registers
    PROVE  /\ Size[r] \in 1..Full /\ Size[r] \in Nat /\ Size[r] <= Full /\ Full \in Nat
           /\ Pow2[Size[r]] \in Nat \ {0} /\ Pow2[Full] \in Nat \ {0}
BY SizeAssumption, Powers

\* An operand as the code has it and as VTIL reads it.
LEMMA OperandFacts ==
    ASSUME StartTyped, NEW i \in Instr, NEW o \in Registers \cup Int,
           o \in Registers => o \in Plain /\ Size[o] >= Size[i.dst]
    PROVE  /\ Operand(i, o) \in Reg /\ Operand(i, o) \in Int
           /\ Vtil!Value(o, Size[i.dst]) = Operand(i, o) % Pow2[Size[i.dst]]
<1>1. i.dst \in Registers
  BY InstrAssumption
<1>2. Reg \subseteq Int
  BY SizeFacts, <1>1 DEF Reg
<1>3. CASE o \in Registers
  <2>1. Operand(i, o) = gp[GetReg(o)]
    BY <1>3 DEF Operand
  <2>2. Vtil!Value(o, Size[i.dst]) = (gp[GetReg(o)] % Pow2[Size[o]]) % Pow2[Size[i.dst]]
    BY <1>3, RegisterFacts, SamePowers DEF Vtil!Value, Vtil!Registers, Registers
  <2>3. /\ Size[i.dst] \in Nat /\ Size[o] \in Nat /\ Size[i.dst] <= Size[o]
        /\ gp[GetReg(o)] \in Int /\ gp[GetReg(o)] \in Reg
    BY <1>1, <1>3, SizeFacts, RegisterFacts
  <2>4. (gp[GetReg(o)] % Pow2[Size[o]]) % Pow2[Size[i.dst]] = gp[GetReg(o)] % Pow2[Size[i.dst]]
    BY <2>3, CutCut
  <2> QED BY <2>1, <2>2, <2>3, <2>4
<1>4. CASE o \notin Registers
  <2>1. o \in Int /\ Operand(i, o) = Immediate(o, Size[i.dst])
    BY <1>4 DEF Operand
  <2>2. Vtil!Value(o, Size[i.dst]) = o % Pow2[Size[i.dst]]
    BY <1>4, SamePowers DEF Vtil!Value, Vtil!Registers, Registers
  <2> QED BY <1>1, <1>2, <2>1, <2>2, SizeFacts, ImmediateFacts
<1> QED BY <1>3, <1>4

\* The view that an instruction writes shares no bits with another.
LEMMA WrittenAlone ==
    ASSUME NEW r \in Registers, Alone(r), NEW word,
           VtilRegisters' = [q \in Registers |-> IF q = r THEN word ELSE VtilRegisters[q]]
    PROVE  VtilRegisters' = [q \in Vtil!Registers |->
                                IF q = r THEN word
                                ELSE IF Vtil!Overlap(q, r) THEN Vtil!Overwritten(q, r, word)
                                ELSE VtilRegisters[q]]
<1>1. \A q \in Registers : q # r => ~Vtil!Overlap(q, r)
  BY DEF Alone
<1>2. Vtil!Registers = Registers
  BY DEF Vtil!Registers, Registers
<1> HIDE DEF VtilRegisters
<1> QED BY <1>1, <1>2

\* A write to a register whose low bits are those of VTIL's result.
LEMMA SetStep ==
    ASSUME StartTyped, NEW i \in Instr, i.dst \in Plain, Alone(i.dst), NEW value, NEW result,
           Write(i, value), UNCHANGED <<control, mem>>,
           value % Pow2[Size[i.dst]] = result % Pow2[Size[i.dst]]
    PROVE  Vtil!Set(i, result)
<1> DEFINE word == result % Pow2[Size[i.dst]]
<1>1. VtilRegisters' = [r \in Registers |->
                          CASE r \in Control -> control[LocalId[r]]
                            [] r \notin Control /\ Low(r) -> gp'[GetReg(r)] % Pow2[Size[r]]
                            [] OTHER -> (gp'[GetReg(r)] \div Pow2[Offset[r]]) % Pow2[Size[r]]]
  BY DEF VtilRegisters
<1>2. \A r \in Registers : r # i.dst => VtilRegisters'[r] = VtilRegisters[r]
  <2> SUFFICES ASSUME NEW r \in Registers, r # i.dst PROVE VtilRegisters'[r] = VtilRegisters[r]
    OBVIOUS
  <2>1. GetReg(r) # GetReg(i.dst)
    BY DEF Alone
  <2>2. gp'[GetReg(r)] = gp[GetReg(r)] \/ r \in Control
    <3>1. r \in Control \/ GetReg(r) \in DOMAIN gp
      BY OwnRegister DEF StartTyped
    <3> QED BY <2>1, <3>1 DEF Write
  <2>3. CASE r \in Control
    BY <1>1, <2>3 DEF VtilRegisters
  <2>4. CASE r \notin Control /\ Low(r)
    BY <1>1, <2>2, <2>4 DEF VtilRegisters
  <2>5. CASE r \notin Control /\ ~Low(r)
    BY <1>1, <2>2, <2>5 DEF VtilRegisters
  <2> QED BY <2>3, <2>4, <2>5
<1>3. i.dst \in Registers /\ i.dst \notin Control /\ Low(i.dst) /\ GetReg(i.dst) \in DOMAIN gp
  BY OwnRegister DEF StartTyped, Plain
<1>4. VtilRegisters'[i.dst] = word
  <2>1. gp'[GetReg(i.dst)] = value
    BY <1>3 DEF Write
  <2> QED BY <1>1, <1>3, <2>1
<1>5. VtilRegisters' = [q \in Registers |-> IF q = i.dst THEN word ELSE VtilRegisters[q]]
  <2>1. VtilRegisters' = [q \in Registers |-> VtilRegisters'[q]]
    BY <1>1
  <2> HIDE DEF word
  <2> QED BY <1>2, <1>4, <2>1
<1>6. VtilRegisters' = [q \in Vtil!Registers |->
                           IF q = i.dst THEN word
                           ELSE IF Vtil!Overlap(q, i.dst) THEN Vtil!Overwritten(q, i.dst, word)
                           ELSE VtilRegisters[q]]
  <2> HIDE DEF word
  <2> QED BY <1>3, <1>5, WrittenAlone
<1> QED BY <1>6, SamePowers DEF Vtil!Set

-----------------------------------------------------------------------------
\* What Compiles and Kept say of the operands.
Dyadic == {"sub", "add", "imul", "band", "bor", "bxor"}
Monadic == {"bnot", "neg"}
Shifting == {"bshl", "bshr"}

LEMMA KeptFacts ==
    ASSUME NEW i \in Instr, Kept(i), Compiles(i), i.ins \in Dyadic \cup Monadic \cup Shifting
    PROVE  /\ i.dst \in Plain /\ i.dst \in Registers /\ Alone(i.dst)
           /\ i.ins \in Dyadic => (i.src \in Registers => i.src \in Plain /\ Size[i.src] >= Size[i.dst])
           /\ i.ins = "bshl" => i.src \in 0..(Size[i.dst] - 1)
           /\ i.ins = "bshr" => Size[i.dst] = Full /\ i.src \in 0..(Full - 1)
<1>1. Asked(i) = {i.dst, i.src, i.res} \cap Registers
  BY DEF Asked, ToControl, FromControl, Dyadic, Monadic, Shifting
<1>2. i.dst \in Plain /\ i.dst \in Registers /\ Alone(i.dst)
  BY <1>1, InstrAssumption DEF Compiles, Kept, Plain, Dyadic, Monadic, Shifting
<1>3. i.src \in Registers => i.src \in Plain
  BY <1>1 DEF Compiles, Kept, Plain
<1>4. i.ins \in Dyadic => (i.src \in Registers => Size[i.src] >= Size[i.dst])
  BY DEF Kept, Dyadic, Opposite
<1>5. /\ i.ins = "bshl" => i.src \in 0..(Size[i.dst] - 1)
      /\ i.ins = "bshr" => Size[i.dst] = Full /\ i.src \in 0..(Full - 1)
  BY DEF Kept
<1> QED BY <1>2, <1>3, <1>4, <1>5

LEMMA ComputeStep ==
    ASSUME StartTyped, NEW i \in Instr, last' = i, i.dst \in Plain, Alone(i.dst), NEW value, Write(i, value),
           UNCHANGED <<control, mem>>,
           i.ins \in Dyadic \cup Monadic \cup Shifting \cup {"mov"},
           value % Pow2[Size[i.dst]]
              = Vtil!Result(i, VtilRegisters[i.dst], Vtil!Value(i.src, Size[i.dst]), Size[i.dst])
                   % Pow2[Size[i.dst]]
    PROVE  Vtil!Step(i)
<1>1. Vtil!Set(i, Vtil!Result(i, VtilRegisters[i.dst], Vtil!Value(i.src, Size[i.dst]), Size[i.dst]))
  BY SetStep
<1>2. i.ins \notin Vtil!Tests \cup Vtil!Pins \cup {"ldd", "str", "ifs"}
  BY DEF Dyadic, Monadic, Shifting, Vtil!Tests, Vtil!Pins
<1> QED BY <1>1, <1>2 DEF Vtil!Step, Vtil!Compute

\* Two operands, each as wide as the result.
LEMMA DyadicStep ==
    ASSUME StartTyped, NEW i \in Instr, last' = i, Kept(i), Compiles(i),
           UNCHANGED <<control, mem>>,
           LET x == gp[GetReg(i.dst)]  y == Operand(i, i.src) IN
             \/ i.ins = "sub" /\ Write(i, Wrap(x - y))
             \/ i.ins = "add" /\ Write(i, Wrap(x + y))
             \/ i.ins = "imul" /\ Write(i, Wrap(x * y))
             \/ i.ins = "band" /\ Write(i, BitAnd(x, y, Full))
             \/ i.ins = "bor" /\ Write(i, BitOr(x, y, Full))
             \/ i.ins = "bxor" /\ Write(i, BitXor(x, y, Full))
    PROVE  Vtil!Step(i)
<1> DEFINE s == Size[i.dst]
           X == gp[GetReg(i.dst)]
           Y == Operand(i, i.src)
           low == X % Pow2[s]
           low2 == Y % Pow2[s]
<1>1. i.ins \in Dyadic
  BY DEF Dyadic
<1>2. /\ i.dst \in Plain /\ i.dst \in Registers /\ Alone(i.dst)
      /\ i.src \in Registers => i.src \in Plain /\ Size[i.src] >= s
  BY <1>1, KeptFacts
<1>3. s \in Nat /\ Full \in Nat /\ s <= Full
  BY <1>2, SizeFacts
<1>4. X \in Int /\ VtilRegisters[i.dst] = low
  BY <1>2, RegisterFacts, OwnRegister
<1>5. Y \in Int /\ Vtil!Value(i.src, s) = low2
  <2>1. i.src \in Registers \cup Int
    BY InstrAssumption
  <2> QED BY <1>2, <2>1, OperandFacts
<1> HIDE DEF X, Y
<1>6. ASSUME NEW value, Write(i, value), value % Pow2[s] = Vtil!Result(i, low, low2, s) % Pow2[s]
      PROVE  Vtil!Step(i)
  BY <1>1, <1>2, <1>4, <1>5, <1>6, ComputeStep
<1>7. CASE i.ins \in {"sub", "add", "imul"}
  <2>1. PICK value \in Int :
           /\ Write(i, Wrap(value))
           /\ \/ i.ins = "sub" /\ value = X - Y
              \/ i.ins = "add" /\ value = X + Y
              \/ i.ins = "imul" /\ value = X * Y
    BY <1>4, <1>5, <1>7 DEF X, Y
  <2>2. Wrap(value) % Pow2[s] = value % Pow2[s]
    BY <1>3, CutCut DEF Wrap
  <2>3. /\ i.ins = "sub" => Vtil!Result(i, low, low2, s) = low - low2
        /\ i.ins = "add" => Vtil!Result(i, low, low2, s) = low + low2
        /\ i.ins = "imul" => Vtil!Result(i, low, low2, s) = low * low2
    BY DEF Vtil!Result
  <2>4. value % Pow2[s] = Vtil!Result(i, low, low2, s) % Pow2[s]
    <3>1. /\ (X + Y) % Pow2[s] = (low + low2) % Pow2[s]
          /\ (X - Y) % Pow2[s] = (low - low2) % Pow2[s]
          /\ (X * Y) % Pow2[s] = (low * low2) % Pow2[s]
      BY <1>3, <1>4, <1>5, CutArithmetic
    <3> HIDE DEF low, low2, s
    <3>2. CASE i.ins = "sub"
      BY <2>1, <2>3, <3>1, <3>2
    <3>3. CASE i.ins = "add"
      BY <2>1, <2>3, <3>1, <3>3
    <3>4. CASE i.ins = "imul"
      BY <2>1, <2>3, <3>1, <3>4
    <3> QED BY <1>7, <3>2, <3>3, <3>4
  <2> QED BY <1>6, <2>1, <2>2, <2>4
<1>8. CASE i.ins \in {"band", "bor", "bxor"}
  <2>1. PICK value :
           /\ Write(i, value)
           /\ \/ i.ins = "band" /\ value = BitAnd(X, Y, Full)
              \/ i.ins = "bor" /\ value = BitOr(X, Y, Full)
              \/ i.ins = "bxor" /\ value = BitXor(X, Y, Full)
    BY <1>8 DEF X, Y
  <2>2. \/ i.ins = "band" /\ Vtil!Result(i, low, low2, s) = BitAnd(low, low2, s)
        \/ i.ins = "bor" /\ Vtil!Result(i, low, low2, s) = BitOr(low, low2, s)
        \/ i.ins = "bxor" /\ Vtil!Result(i, low, low2, s) = BitXor(low, low2, s)
    BY <1>8, SameOperators DEF Vtil!Result
  <2>3. value % Pow2[s] = Vtil!Result(i, low, low2, s)
    <3>1. /\ BitAnd(X, Y, Full) % Pow2[s] = BitAnd(low, low2, s)
          /\ BitOr(X, Y, Full) % Pow2[s] = BitOr(low, low2, s)
          /\ BitXor(X, Y, Full) % Pow2[s] = BitXor(low, low2, s)
      <4>1. s \in Nat /\ Full \in Nat /\ s <= Full /\ X \in Int /\ Y \in Int
        BY <1>3, <1>4, <1>5
      <4>2. low = X % Pow2[s] /\ low2 = Y % Pow2[s]
        BY <1>5
      <4> HIDE DEF low, low2, s
      <4> QED BY <4>1, <4>2, CutBitwise
    <3> HIDE DEF low, low2, s
    <3> QED BY <2>1, <2>2, <3>1
  <2>4. value \in Int
    <3>1. value \in 0..(Pow2[Full] - 1)
      BY <1>3, <2>1, BitwiseOps
    <3> QED BY <1>3, <3>1, Powers
  <2>5. value % Pow2[s] = (value % Pow2[s]) % Pow2[s]
    BY <1>3, <2>4, CutCut
  <2> QED BY <1>6, <2>1, <2>3, <2>5
<1> QED BY <1>1, <1>7, <1>8 DEF Dyadic

LEMMA MonadicStep ==
    ASSUME StartTyped, NEW i \in Instr, last' = i, Kept(i), Compiles(i),
           UNCHANGED <<control, mem>>,
           \/ i.ins = "bnot" /\ Write(i, ComplementOf(gp[GetReg(i.dst)]))
           \/ i.ins = "neg" /\ Write(i, NegationOf(gp[GetReg(i.dst)]))
    PROVE  Vtil!Step(i)
<1> DEFINE s == Size[i.dst]
           X == gp[GetReg(i.dst)]
           low == X % Pow2[s]
           y == Vtil!Value(i.src, s)
<1>1. i.ins \in Monadic /\ i.dst \in Plain /\ i.dst \in Registers /\ Alone(i.dst)
  BY KeptFacts DEF Monadic
<1>2. s \in Nat /\ Full \in Nat /\ s <= Full
  BY <1>1, SizeFacts
<1>3. X \in Int /\ X \in 0..(Pow2[Full] - 1) /\ VtilRegisters[i.dst] = low
  BY <1>1, RegisterFacts, OwnRegister DEF Reg
<1> HIDE DEF X, y
<1>4. ASSUME NEW value, Write(i, value), value % Pow2[s] = Vtil!Result(i, low, y, s) % Pow2[s]
      PROVE  Vtil!Step(i)
  BY <1>1, <1>3, <1>4, ComputeStep DEF y
<1>5. CASE i.ins = "bnot"
  <2>1. Write(i, BitNot(X, Full)) /\ Vtil!Result(i, low, y, s) = BitNot(low, s)
    BY <1>5, SameOperators DEF ComplementOf, Vtil!Result, X
  <2>2. BitNot(X, Full) % Pow2[s] = BitNot(low, s)
    BY <1>2, <1>3, CutNot
  <2>3. BitNot(X, Full) \in Int
    <3>1. BitNot(X, Full) \in 0..(Pow2[Full] - 1)
      BY <1>2, <1>3, Complement
    <3> QED BY <1>2, <3>1, Powers
  <2>4. BitNot(X, Full) % Pow2[s] = (BitNot(X, Full) % Pow2[s]) % Pow2[s]
    BY <1>2, <2>3, CutCut
  <2> QED BY <1>4, <2>1, <2>2, <2>4
<1>6. CASE i.ins = "neg"
  <2>1. PICK value \in Int : value = Pow2[Full] - X
    BY <1>2, <1>3, Powers
  <2>2. Write(i, Wrap(value)) /\ Vtil!Result(i, low, y, s) = 0 - low
    BY <1>6, <2>1 DEF NegationOf, Vtil!Result, X
  <2>3. Wrap(value) % Pow2[s] = value % Pow2[s]
    BY <1>2, CutCut DEF Wrap
  <2>4. value % Pow2[s] = (0 - low) % Pow2[s]
    BY <1>2, <1>3, <2>1, CutNegation
  <2> QED BY <1>4, <2>2, <2>3, <2>4
<1> QED BY <1>5, <1>6

\* A shift by an immediate: to the left below the width of the result, to the
\* right of a whole register.
LEMMA CountFacts ==
    ASSUME NEW n \in Nat, NEW s \in 1..Full, n < s
    PROVE  Immediate(n, s) = n /\ ShiftCount(Immediate(n, s)) = n /\ n % Pow2[s] = n
<1>1. Full \in Nat /\ s \in Nat /\ s - 1 \in Nat /\ (s - 1) + 1 = s
  BY SizeAssumption
<1>2. PICK m \in Nat \ {0}, h \in Nat \ {0}, o \in Nat \ {0} :
         /\ m = Pow2[s] /\ h = Pow2[s - 1] /\ o = Pow2[Full]
         /\ m = 2 * h /\ s - 1 < h /\ m <= o
  <2>1. Pow2[s] <= Pow2[Full]
    BY <1>1, PowerDivides
  <2>2. Pow2[s] = 2 * Pow2[s - 1] /\ s - 1 < Pow2[s - 1]
    BY <1>1, Powers
  <2>3. Pow2[s] \in Nat \ {0} /\ Pow2[s - 1] \in Nat \ {0} /\ Pow2[Full] \in Nat \ {0}
    BY <1>1, Powers
  <2> QED BY <2>1, <2>2, <2>3
<1>3. n < h /\ n \in 0..(m - 1) /\ n \in 0..(o - 1) /\ n \in 0..(Full - 1)
  BY <1>1, <1>2
<1>4. n % m = n /\ n % o = n /\ n % Full = n
  <2>1. \A k \in Nat \ {0} : \A x \in 0..(k - 1) : x % k = x
    OBVIOUS
  <2> QED BY <1>1, <1>3, <2>1
<1>5. Signed(n, h) = n
  BY <1>2, <1>3 DEF Signed
<1> QED BY <1>2, <1>4, <1>5 DEF Immediate, Wrap, ShiftCount

LEMMA ShiftStep ==
    ASSUME StartTyped, NEW i \in Instr, last' = i, Kept(i), Compiles(i),
           UNCHANGED <<control, mem>>,
           LET x == gp[GetReg(i.dst)]  n == ShiftCount(Operand(i, i.src)) IN
             \/ i.ins = "bshl" /\ Write(i, ShiftLeft(x, n, Full))
             \/ i.ins = "bshr" /\ Write(i, ShiftRight(x, n, Full))
    PROVE  Vtil!Step(i)
<1> DEFINE s == Size[i.dst]
           n == i.src
           X == gp[GetReg(i.dst)]
           low == X % Pow2[s]
<1>1. i.ins \in Shifting /\ i.dst \in Plain /\ i.dst \in Registers /\ Alone(i.dst)
  BY KeptFacts DEF Shifting
<1>2. s \in Nat /\ s \in 1..Full /\ Full \in Nat /\ s <= Full
  BY <1>1, SizeFacts
<1>3. n \in Nat /\ n < s /\ n < Full /\ n \notin Registers
  <2>1. n \in 0..(s - 1)
    BY <1>1, KeptFacts DEF Shifting
  <2> QED BY <1>2, <2>1, InstrAssumption
<1>4. ShiftCount(Operand(i, i.src)) = n /\ n % Pow2[s] = n
  BY <1>2, <1>3, CountFacts DEF Operand
<1>5. Vtil!Value(i.src, s) = n
  BY <1>3, <1>4, SamePowers DEF Vtil!Value, Vtil!Registers, Registers
<1>6. X \in Int /\ X \in Reg /\ VtilRegisters[i.dst] = low
  BY <1>1, RegisterFacts, OwnRegister
<1>7. low \in Int /\ low % Pow2[s] = low
  <2>1. low \in 0..(Pow2[s] - 1) /\ low % Pow2[s] = low
    BY <1>2, <1>6, CutCut
  <2>2. Pow2[s] \in Nat \ {0}
    BY <1>2, Powers
  <2> HIDE DEF low
  <2> QED BY <2>1, <2>2
<1>8. ASSUME NEW value, Write(i, value), value % Pow2[s] = Vtil!Result(i, low, n, s) % Pow2[s]
      PROVE  Vtil!Step(i)
  BY <1>1, <1>5, <1>6, <1>8, ComputeStep
<1>9. CASE i.ins = "bshl"
  <2>1. Write(i, ShiftLeft(X, n, Full)) /\ Vtil!Result(i, low, n, s) = ShiftLeft(low, n, s)
    BY <1>4, <1>9, SameOperators DEF Vtil!Result
  <2>2. PICK c \in Nat : c = Pow2[n]
    BY <1>3, Powers
  <2>3. PICK a \in Int, b \in Int : a = X * c /\ b = low * c
    <3> HIDE DEF low, X
    <3> QED BY <1>6, <1>7
  <2>4. ShiftLeft(X, n, Full) = a % Pow2[Full] /\ ShiftLeft(low, n, s) = b % Pow2[s]
    <3>1. ~ (n >= Full) /\ ~ (n >= s)
      BY <1>2, <1>3
    <3>2. \A x, w : ~ (n >= w) => ShiftLeft(x, n, w) = (x * Pow2[n]) % Pow2[w]
      BY DEF ShiftLeft
    <3>3. X * Pow2[n] = a /\ low * Pow2[n] = b
      BY <2>2, <2>3
    <3> HIDE DEF low, X
    <3> QED BY <3>1, <3>2, <3>3
  <2>5. (a % Pow2[Full]) % Pow2[s] = a % Pow2[s] /\ (b % Pow2[s]) % Pow2[s] = b % Pow2[s]
    BY <1>2, CutCut
  <2>6. a % Pow2[s] = b % Pow2[s]
    <3>1. low % Pow2[s] = low
      BY <1>7
    <3> HIDE DEF low, s, X
    <3>2. (X * c) % Pow2[s] = ((X % Pow2[s]) * (c % Pow2[s])) % Pow2[s]
      BY <1>2, <1>6, CutArithmetic
    <3>3. (low * c) % Pow2[s] = ((low % Pow2[s]) * (c % Pow2[s])) % Pow2[s]
      BY <1>2, <1>7, CutArithmetic
    <3>4. (X * c) % Pow2[s] = (low * (c % Pow2[s])) % Pow2[s]
      BY <3>2 DEF low
    <3> QED BY <2>3, <3>1, <3>3, <3>4
  <2> QED BY <1>8, <2>1, <2>4, <2>5, <2>6
<1>10. CASE i.ins = "bshr"
  <2>1. s = Full
    BY <1>1, <1>10, KeptFacts
  <2>2. low = X
    BY <1>1, <1>6, <2>1, RegisterFacts, OwnRegister
  <2>3. Write(i, ShiftRight(X, n, Full)) /\ Vtil!Result(i, low, n, s) = ShiftRight(X, n, Full)
    BY <1>4, <1>10, <2>1, <2>2, SameOperators DEF Vtil!Result
  <2> QED BY <1>8, <2>3
<1> QED BY <1>1, <1>9, <1>10 DEF Shifting

-----------------------------------------------------------------------------
\* mov between registers, or from an immediate.
LEMMA MovStep ==
    ASSUME StartTyped, NEW i \in Instr, last' = i, i.ins = "mov", Kept(i), Compiles(i),
           ~ToControl(i), ~FromControl(i), Write(i, Operand(i, i.src)), UNCHANGED <<control, mem>>
    PROVE  Vtil!Step(i)
<1>1. Asked(i) = {i.dst, i.src, i.res} \cap Registers
  BY DEF Asked
<1>2. i.dst \in Plain /\ i.dst \in Registers /\ Alone(i.dst) /\ i.src \in Registers \cup Int
  BY <1>1, InstrAssumption DEF Compiles, Kept, Plain
<1>3. i.src \in Registers => i.src \in Plain /\ Size[i.src] >= Size[i.dst]
  <2>1. i.src \in Registers => i.src \in Plain
    BY <1>1 DEF Compiles, Kept, Plain
  <2>2. i.src \in Registers => Size[i.src] >= Size[i.dst]
    BY DEF Kept, Opposite
  <2> QED BY <2>1, <2>2
<1>4. PICK y \in Int : y = Operand(i, i.src) /\ Vtil!Value(i.src, Size[i.dst]) = y % Pow2[Size[i.dst]]
  BY <1>2, <1>3, OperandFacts
<1>5. (y % Pow2[Size[i.dst]]) % Pow2[Size[i.dst]] = y % Pow2[Size[i.dst]]
  BY <1>2, SizeFacts, CutCut
<1>6. Vtil!Result(i, VtilRegisters[i.dst], Vtil!Value(i.src, Size[i.dst]), Size[i.dst])
         = Vtil!Value(i.src, Size[i.dst])
  BY DEF Vtil!Result
<1> QED BY <1>2, <1>4, <1>5, <1>6, ComputeStep

\* A control register that mov reads.
LEMMA MovFromStep ==
    ASSUME StartTyped, NEW i \in Instr, last' = i, Kept(i), Compiles(i), FromControl(i),
           Write(i, control[LocalId[i.src]]), UNCHANGED <<control, mem>>
    PROVE  Vtil!Step(i)
<1>1. i.ins = "mov" /\ i.src \in Registers /\ LocalId[i.src] # "none" /\ ~ToControl(i)
  BY DEF FromControl
<1>2. i.src \in Control
  BY <1>1 DEF Kept, Clear
<1>3. i.dst \in Plain /\ i.dst \in Registers /\ Alone(i.dst)
  BY <1>1, InstrAssumption DEF Compiles, Asked, Kept, Plain
<1>4. PICK y \in Int : y = control[LocalId[i.src]] /\ y = VtilRegisters[i.src]
  <2>1. VtilRegisters[i.src] = control[LocalId[i.src]] /\ control[LocalId[i.src]] \in Reg
    BY <1>2, RegisterFacts
  <2>2. Reg \subseteq Int
    BY <1>3, SizeFacts DEF Reg
  <2> QED BY <2>1, <2>2
<1>5. Vtil!Value(i.src, Size[i.dst]) = y % Pow2[Size[i.dst]]
  BY <1>1, <1>4, SamePowers DEF Vtil!Value, Vtil!Registers, Registers
<1>6. (y % Pow2[Size[i.dst]]) % Pow2[Size[i.dst]] = y % Pow2[Size[i.dst]]
  BY <1>3, SizeFacts, CutCut
<1>7. Vtil!Result(i, VtilRegisters[i.dst], Vtil!Value(i.src, Size[i.dst]), Size[i.dst])
         = Vtil!Value(i.src, Size[i.dst])
  BY <1>1 DEF Vtil!Result
<1> QED BY <1>1, <1>3, <1>4, <1>5, <1>6, <1>7, ComputeStep

\* A control register that mov writes: it takes a whole register.
LEMMA MovToStep ==
    ASSUME StartTyped, NEW i \in Instr, last' = i, Kept(i), Compiles(i), ToControl(i),
           control' = [control EXCEPT ![LocalId[i.dst]] = Operand(i, i.src)], UNCHANGED <<gp, mem>>
    PROVE  Vtil!Step(i)
<1>1. i.ins = "mov" /\ i.src \in Registers /\ i.dst \in Registers /\ LocalId[i.dst] \in {"cr0", "dr7"}
  BY InstrAssumption DEF ToControl
<1>2. i.dst \in Control /\ Alone(i.dst)
  BY <1>1 DEF Kept, Clear
<1>3. i.src \in Plain
  <2>1. Asked(i) = {i.src}
    BY DEF Asked, FromControl
  <2>2. i.src \notin Control
    BY <2>1 DEF Compiles
  <2>3. Low(i.src)
    BY <1>1 DEF Kept
  <2> QED BY <1>1, <2>2, <2>3 DEF Plain
<1>4. Size[i.dst] = Full /\ Size[i.src] = Full /\ Full \in Nat
  <2>1. Size[i.src] >= Size[i.dst]
    BY <1>1 DEF Kept, Opposite
  <2>2. Size[i.dst] = Full
    BY <1>2, SizeAssumption
  <2> QED BY <1>1, <2>1, <2>2, SizeFacts
<1>5. PICK y \in Reg : y = Operand(i, i.src) /\ y = VtilRegisters[i.src]
  <2>1. Operand(i, i.src) = gp[GetReg(i.src)]
    BY <1>1 DEF Operand
  <2> QED BY <1>3, <1>4, <2>1, RegisterFacts
<1>6. y % Pow2[Full] = y /\ (y % Pow2[Full]) % Pow2[Full] = y
  <2>1. PICK m \in Nat \ {0} : m = Pow2[Full]
    BY <1>4, Powers
  <2>2. \A x \in 0..(m - 1) : x % m = x
    OBVIOUS
  <2> QED BY <2>1, <2>2 DEF Reg
<1>7. VtilRegisters' = [q \in Registers |-> IF q = i.dst THEN y ELSE VtilRegisters[q]]
  <2>1. VtilRegisters' = [r \in Registers |->
                            CASE r \in Control -> control'[LocalId[r]]
                              [] r \notin Control /\ Low(r) -> gp[GetReg(r)] % Pow2[Size[r]]
                              [] OTHER -> (gp[GetReg(r)] \div Pow2[Offset[r]]) % Pow2[Size[r]]]
    BY DEF VtilRegisters
  <2>2. \A c \in Control : c # i.dst => control'[LocalId[c]] = control[LocalId[c]]
    <3>1. \A c \in Control : c # i.dst => LocalId[c] # LocalId[i.dst] /\ LocalId[c] \in {"cr0", "dr7"}
      BY <1>2, SizeAssumption
    <3> QED BY <3>1 DEF StartTyped
  <2>3. control'[LocalId[i.dst]] = y
    BY <1>1, <1>5 DEF StartTyped
  <2>4. \A r \in Registers : VtilRegisters'[r] = IF r = i.dst THEN y ELSE VtilRegisters[r]
    <3> SUFFICES ASSUME NEW r \in Registers
                 PROVE  VtilRegisters'[r] = IF r = i.dst THEN y ELSE VtilRegisters[r]
      OBVIOUS
    <3>1. CASE r \in Control
      BY <2>1, <2>2, <2>3, <3>1 DEF VtilRegisters
    <3>2. CASE r \notin Control /\ Low(r)
      BY <1>2, <2>1, <3>2 DEF VtilRegisters
    <3>3. CASE r \notin Control /\ ~Low(r)
      BY <1>2, <2>1, <3>3 DEF VtilRegisters
    <3> QED BY <3>1, <3>2, <3>3
  <2>5. VtilRegisters' = [r \in Registers |-> VtilRegisters'[r]]
    BY <2>1
  <2> QED BY <2>4, <2>5
<1>8. Vtil!Value(i.src, Size[i.dst]) = y
  BY <1>1, <1>4, <1>5, <1>6, SamePowers DEF Vtil!Value, Vtil!Registers, Registers
<1>9. Vtil!Result(i, VtilRegisters[i.dst], Vtil!Value(i.src, Size[i.dst]), Size[i.dst]) = y
  BY <1>1, <1>8 DEF Vtil!Result
<1>10. Vtil!Set(i, y)
  BY <1>1, <1>2, <1>4, <1>6, <1>7, WrittenAlone, SamePowers DEF Vtil!Set
<1> QED BY <1>1, <1>9, <1>10 DEF Vtil!Step, Vtil!Compute, Vtil!Tests, Vtil!Pins

\* The address ldd and str use is VTIL's, when the base is a whole register.
LEMMA AddressFacts ==
    ASSUME StartTyped, NEW r \in Plain, Size[r] = Full, NEW offset
    PROVE  Vtil!Address(r, offset) = Wrap(gp[GetReg(r)] + offset)
<1>1. VtilRegisters[r] = gp[GetReg(r)]
  BY OwnRegister, RegisterFacts
<1> QED BY <1>1, SamePowers DEF Vtil!Address, Wrap

LEMMA LddStep ==
    ASSUME StartTyped, NEW i \in Instr, last' = i, i.ins = "ldd", Kept(i), Compiles(i),
           Wrap(gp[GetReg(i.src)] + i.res) \in Addresses,
           Write(i, mem[Wrap(gp[GetReg(i.src)] + i.res)]), UNCHANGED <<control, mem>>
    PROVE  Vtil!Step(i)
<1>1. i.src \in Registers /\ i.dst \in Registers
  BY InstrAssumption
<1>2. Asked(i) = {i.dst, i.src, i.res} \cap Registers
  BY DEF Asked, ToControl, FromControl
<1>3. i.dst \in Plain /\ i.src \in Plain /\ Alone(i.dst)
  BY <1>1, <1>2 DEF Compiles, Kept, Plain
<1>4. Size[i.src] = Full
  BY <1>1 DEF Kept, Wide
<1>5. Vtil!Address(i.src, i.res) = Wrap(gp[GetReg(i.src)] + i.res)
  BY <1>3, <1>4, AddressFacts
<1>6. Write(i, mem[Vtil!Address(i.src, i.res)])
  BY <1>5
<1>7. Vtil!Set(i, mem[Vtil!Address(i.src, i.res)])
  BY <1>3, <1>6, SetStep
<1> QED BY <1>5, <1>7 DEF Vtil!Step, Vtil!Load

LEMMA StrStep ==
    ASSUME StartTyped, NEW i \in Instr, last' = i, i.ins = "str", Kept(i), Compiles(i),
           LET address == Wrap(gp[GetReg(i.dst)] + i.res) IN
             /\ address \in Addresses
             /\ mem' = [mem EXCEPT ![address] =
                           Stored(@, IF i.src \in Registers THEN gp[GetReg(i.src)]
                                     ELSE Immediate(i.src, i.bits), StoredBits(i))],
           UNCHANGED <<gp, control>>
    PROVE  Vtil!Step(i)
<1> DEFINE s == IF i.src \in Registers THEN Size[i.src] ELSE i.bits
           address == Wrap(gp[GetReg(i.dst)] + i.res)
           old == mem[address]
           value == IF i.src \in Registers THEN gp[GetReg(i.src)] ELSE Immediate(i.src, i.bits)
           new == old - (old % Pow2[s]) + (value % Pow2[s])
<1>1. i.dst \in Registers /\ i.src \in Registers \cup Int
  BY InstrAssumption
<1>2. Asked(i) = {i.dst, i.src, i.res} \cap Registers
  BY DEF Asked, ToControl, FromControl
<1>3. i.dst \in Plain /\ (i.src \in Registers => i.src \in Plain)
  BY <1>1, <1>2 DEF Compiles, Kept, Plain
<1>4. Size[i.dst] = Full
  BY <1>1 DEF Kept, Wide
<1>5. Vtil!Address(i.dst, i.res) = address /\ address \in Addresses
  BY <1>3, <1>4, AddressFacts
<1>6. value % Pow2[s] = Vtil!Value(i.src, s)
  <2>1. CASE i.src \in Registers
    <3>1. gp[GetReg(i.src)] \in Int
      BY <1>3, <2>1, RegisterFacts
    <3>2. Vtil!Value(i.src, s) = (gp[GetReg(i.src)] % Pow2[s]) % Pow2[s]
      BY <1>3, <2>1, RegisterFacts, SamePowers DEF Vtil!Value, Vtil!Registers, Registers
    <3>3. (gp[GetReg(i.src)] % Pow2[s]) % Pow2[s] = gp[GetReg(i.src)] % Pow2[s]
      BY <2>1, <3>1, SizeFacts, CutCut
    <3> QED BY <2>1, <3>2, <3>3
  <2>2. CASE i.src \notin Registers
    <3>1. i.src \in Int /\ i.bits \in 1..Full
      BY <1>1, <2>2, InstrAssumption
    <3>2. Immediate(i.src, i.bits) % Pow2[i.bits] = i.src % Pow2[i.bits]
      BY <3>1, ImmediateFacts
    <3> QED BY <2>2, <3>2, SamePowers DEF Vtil!Value, Vtil!Registers, Registers
  <2> QED BY <2>1, <2>2
<1>7. new = Stored(old, value, StoredBits(i))
  BY DEF Stored, StoredBits
<1>8. mem' = [mem EXCEPT ![address] = new]
  <2>1. mem' = [mem EXCEPT ![address] = Stored(mem[address], value, StoredBits(i))]
    OBVIOUS
  <2> QED BY <1>7, <2>1
<1>9. mem' = [mem EXCEPT ![address] = old - (old % Pow2[s]) + Vtil!Value(i.src, s)]
  <2> HIDE DEF s, value
  <2> QED BY <1>6, <1>8
<1>10. VtilRegisters' = VtilRegisters
  BY DEF VtilRegisters
<1>11. Vtil!Store(i)
  <2>1. mem' = [mem EXCEPT ![address] = mem[address] - (mem[address] % Vtil!Pow2[s]) + Vtil!Value(i.src, s)]
    BY <1>9, SamePowers
  <2>2. (IF i.src \in Vtil!Registers THEN Size[i.src] ELSE i.bits) = s
    BY DEF Vtil!Registers, Registers
  <2> HIDE DEF s, address
  <2> QED BY <1>5, <1>10, <2>1, <2>2 DEF Vtil!Store
<1> QED BY <1>11 DEF Vtil!Step

LEMMA IfsStep ==
    ASSUME StartTyped, NEW i \in Instr, last' = i, i.ins = "ifs", Kept(i), Compiles(i),
           gp' = IF Cleared(i)[GetReg(i.src)] # 0
                 THEN [gp EXCEPT ![GetReg(i.dst)] =
                          IF i.res \in Registers THEN Cleared(i)[GetReg(i.res)]
                          ELSE Operand(i, i.res)]
                 ELSE Cleared(i),
           UNCHANGED <<control, mem>>
    PROVE  Vtil!Step(i)
<1> DEFINE s == Size[i.dst]
<1>1. i.dst \in Registers /\ i.src \in Registers /\ i.res \in Registers \cup Int
  BY InstrAssumption DEF Compiles
<1>2. Asked(i) = {i.dst, i.src, i.res} \cap Registers
  BY DEF Asked, ToControl, FromControl
<1>3. i.dst \in Plain /\ i.src \in Plain /\ Alone(i.dst) /\ i.dst # i.src /\ i.dst # i.res
  BY <1>1, <1>2 DEF Compiles, Kept, Plain
<1>4. i.res \in Registers => i.res \in Plain /\ Size[i.res] >= s
  BY <1>1, <1>2 DEF Compiles, Kept, Plain
<1>5. Cleared(i)[GetReg(i.src)] = VtilRegisters[i.src]
  <2>1. Size[i.src] = Full
    BY <1>1 DEF Kept, Wide
  <2>2. VtilRegisters[i.src] = gp[GetReg(i.src)] /\ GetReg(i.src) \in DOMAIN gp
    BY <1>1, <1>3, <2>1, RegisterFacts, OwnRegister DEF StartTyped
  <2>3. GetReg(i.src) # GetReg(i.dst)
    BY <1>1, <1>3 DEF Alone
  <2> QED BY <2>2, <2>3 DEF Cleared
<1>6. (IF i.res \in Registers THEN Cleared(i)[GetReg(i.res)] ELSE Operand(i, i.res)) = Operand(i, i.res)
  <2>1. CASE i.res \in Registers
    <3>1. GetReg(i.res) \in DOMAIN gp /\ GetReg(i.res) # GetReg(i.dst)
      BY <1>3, <1>4, <2>1, OwnRegister DEF StartTyped, Alone
    <3> QED BY <2>1, <3>1 DEF Cleared, Operand
  <2> QED BY <2>1
<1>7. PICK y \in Int : y = Operand(i, i.res) /\ Vtil!Value(i.res, s) = y % Pow2[s]
  BY <1>1, <1>4, OperandFacts
<1>8. (y % Pow2[s]) % Pow2[s] = y % Pow2[s]
  BY <1>1, <1>7, SizeFacts, CutCut
<1> DEFINE result == IF VtilRegisters[i.src] # 0 THEN Vtil!Value(i.res, s) ELSE 0
           value == IF VtilRegisters[i.src] # 0 THEN y ELSE 0
<1>9. value % Pow2[s] = result % Pow2[s]
  BY <1>7, <1>8
<1>10. Write(i, value)
  BY <1>5, <1>6, <1>7 DEF Cleared, Write
<1>11. Vtil!Set(i, result)
  <2> HIDE DEF result, value
  <2> QED BY <1>3, <1>9, <1>10, SetStep
<1> QED BY <1>11 DEF Vtil!Step, Vtil!Select

-----------------------------------------------------------------------------
\* For registers and words of every width and every choice of views: the code
\* of an instruction that is kept takes the step of this instruction on the low
\* bits, and leaves every other register, memory, CR0 and DR7 as they are.
THEOREM ComputesTheorem == Spec => ComputesVtil
<1>1. CodeInv /\ Next => (last' # Aborted /\ Kept(last') => Vtil!Step(last'))
  <2> SUFFICES ASSUME CodeInv, Next, last' # Aborted, Kept(last') PROVE Vtil!Step(last')
    OBVIOUS
  <2>1. StartTyped
    BY DEF CodeInv, Next
  <2>2. CASE Sub \/ Add \/ Imul \/ Band \/ Bor \/ Bxor
    BY <2>1, <2>2, DyadicStep DEF Sub, Add, Imul, Band, Bor, Bxor, Binary, Emit
  <2>3. CASE Bnot \/ Neg
    BY <2>1, <2>3, MonadicStep DEF Bnot, Neg, Binary, Emit
  <2>4. CASE Bshl \/ Bshr
    BY <2>1, <2>4, ShiftStep DEF Bshl, Bshr, Binary, Emit
  <2>5. CASE Brol \/ Bror
    BY <2>5 DEF Brol, Bror, Binary, Emit, Kept
  <2>6. CASE Mov
    BY <2>1, <2>6, MovStep, MovFromStep, MovToStep DEF Mov, Emit
  <2>7. CASE Ldd
    BY <2>1, <2>7, LddStep DEF Ldd, Emit
  <2>8. CASE Str
    BY <2>1, <2>8, StrStep DEF Str, Emit
  <2>9. CASE MapConditional
    BY <2>9 DEF MapConditional, Emit, Kept, Opposite
  <2>10. CASE Ifs
    BY <2>1, <2>10, IfsStep DEF Ifs, Emit
  <2>11. CASE Vpin
    BY <2>11 DEF Vpin, Pins, VtilRegisters, Vtil!Step, Vtil!Pin, Vtil!Pins
  <2>12. CASE Abort
    BY <2>12 DEF Abort
  <2> QED BY <2>2, <2>3, <2>4, <2>5, <2>6, <2>7, <2>8, <2>9, <2>10, <2>11, <2>12 DEF Next
<1>2. CodeInv /\ [Next]_vars => [last' # Aborted /\ Kept(last') => Vtil!Step(last')]_vars
  BY <1>1
<1> QED BY <1>2, CodeInit, CodeNext, PTL DEF Spec, ComputesVtil
=============================================================================
