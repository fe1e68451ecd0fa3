----------------------------- MODULE LifterOps -----------------------------
(***************************************************************************)
(* The arithmetic handlers of src/src/lifters.cpp: what the VTIL that      *)
(* lifter_add, lifter_nand, lifter_shld and the others append makes of the *)
(* VM stack, of memory and of the flags, for words of any width.           *)
(*                                                                         *)
(* A behaviour runs the VTIL of one handler.  The VM stack is given by the *)
(* words the handler may pop, the top first, and by those it pushes.       *)
(***************************************************************************)
EXTENDS VtilWords, Sequences

CONSTANTS
    Width,      \* instr.stack_size, in bits
    Half,       \* 2^(Width - 1), the first negative word
    CountWidth  \* bits of the temporaries for shift counts, 8 in the code

ASSUME HalfAssumption == Half \in Nat \ {0}
\* As in the code, a shift count below Width never sets the count's top bit.
ASSUME WidthAssumption ==
    /\ Width \in Nat \ {0} /\ Half = Pow2[Width - 1]
    /\ CountWidth \in 1..Width /\ Pow2[CountWidth - 1] >= Width

VARIABLES
    popped,  \* the words on the VM stack, top first
    mem,     \* the word at the address that is on top of the VM stack
    flags,   \* FLAG_CF, FLAG_ZF, FLAG_SF, FLAG_OF
    pushed,  \* the words pushed, the last pushed last
    pushf,   \* the flags were pushed on top of them
    op       \* the handler that has run

vars == <<popped, mem, flags, pushed, pushf, op>>

W == Word(Half)
Flags == [CF : {0, 1}, ZF : {0, 1}, SF : {0, 1}, OF : {0, 1}]
TestZ(test, x) == Test(test, x, 0, Half)

\* Three words are on the stack; the flags are as an earlier handler left
\* them, all set or all clear.
Init ==
    /\ popped \in [1..3 -> W]
    /\ mem \in W
    /\ flags \in {f \in Flags : f.CF = f.ZF /\ f.ZF = f.SF /\ f.SF = f.OF}
    /\ pushed = <<>> /\ pushf = FALSE
    /\ op = "none"

Run(name) == op = "none" /\ op' = name /\ UNCHANGED popped
Push(results) == pushed' = results /\ pushf' = TRUE /\ UNCHANGED mem

-----------------------------------------------------------------------------
\* lifter_add: a is the second word popped, r the sum.
Sum(a, b) == Cut(a + b, Half)
SameSign(x, y) == Test("te", TestZ("tl", x), TestZ("tl", y), Half)
OtherSign(x, y) == Test("tne", TestZ("tl", x), TestZ("tl", y), Half)
OverflowAnySign(a, b, r) == OtherSign(a, r)
Overflow(a, b, r) == IF SameSign(a, b) = 1 THEN OtherSign(a, r) ELSE 0
AddFlags(a, b, r) ==
    [SF |-> TestZ("tl", r), ZF |-> TestZ("te", r), CF |-> Test("tul", r, a, Half),
     OF |-> Overflow(a, b, r)]
LifterAdd ==
    /\ Run("add")
    /\ LET b == popped[1]  a == popped[2]  r == Sum(a, b) IN
         Push(<<r>>) /\ flags' = AddFlags(a, b, r)

\* The flags of the bitwise handlers: CF and OF are cleared.
LogicFlags(zero, sign) ==
    [CF |-> 0, OF |-> 0, ZF |-> TestZ("te", zero), SF |-> TestZ("tl", sign)]

\* lifter_and, lifter_or: the word at the first address popped is combined in
\* place with the second word popped.
InMemory(result) ==
    /\ mem' = result
    /\ flags' = LogicFlags(result, result)
    /\ pushf' = TRUE /\ UNCHANGED pushed
LifterAnd == Run("_and") /\ InMemory(BitAnd(mem, popped[2], Width))
LifterOr == Run("_or") /\ InMemory(BitOr(mem, popped[2], Width))

\* lifter_nand, lifter_nor: tmp1 is popped first.  ZF is taken from tmp2, the
\* copy of ~tmp0 that was made before the other operand came in; only the
\* flags are pushed, and the result is gone with its temporary.
NandOf(x, y) == BitOr(BitNot(x, Width), BitNot(y, Width), Width)
NorKept(x, y) == BitAnd(BitNot(x, Width), y, Width)
NorOf(x, y) == BitAnd(BitNot(x, Width), BitNot(y, Width), Width)
Negated(result) ==
    /\ flags' = LogicFlags(BitNot(popped[2], Width), result)
    /\ pushf' = TRUE /\ UNCHANGED <<pushed, mem>>
LifterNand == Run("nand") /\ Negated(NandOf(popped[2], popped[1]))
LifterNor == Run("nor") /\ Negated(NorOf(popped[2], popped[1]))

\* lifter_imul: tmp0 is the low word already when imulhi takes it.  The flags
\* are set but not pushed.
Low(x, y) == Cut(Signed(x, Half) * Signed(y, Half), Half)
High(x, y) == Cut((Signed(x, Half) * Signed(y, Half)) \div (2 * Half), Half)
LifterImul ==
    /\ Run("imul")
    /\ LET low == Low(popped[1], popped[2])  high == High(popped[1], low) IN
         /\ pushed' = <<low, high>>
         /\ flags' = [flags EXCEPT !.CF = TestZ("tne", high), !.OF = TestZ("tne", high)]
    /\ UNCHANGED <<mem, pushf>>

-----------------------------------------------------------------------------
\* An 8-bit temporary takes the low bits of a word.
Count(x) == x % Pow2[CountWidth]

\* lifter_shl, lifter_shr: FLAG_SF is assigned twice and FLAG_ZF not at all;
\* CF is the top bit of the shift count.
CountTop(n) == Count(n) \div Pow2[CountWidth - 1]
ShiftFlags(n, result) ==
    [flags EXCEPT !.SF = TestZ("te", result),
                  !.CF = CountTop(n),
                  !.OF = Bit(TestZ("tl", result) # CountTop(n))]
Shift(name, Result(_, _, _)) ==
    /\ Run(name)
    /\ LET result == Result(popped[1], popped[2], Width) IN
         Push(<<result>>) /\ flags' = ShiftFlags(popped[2], result)
LifterShl == Shift("shl", ShiftLeft)
LifterShr == Shift("shr", ShiftRight)

\* lifter_shld, lifter_shrd: tmp0 is shifted by the count, the last word
\* popped, and the bits that tmp1 shifted the other way leaves are put in.
RestTight(n) == (Width - 1 - Count(n)) % Pow2[CountWidth]
Rest(n) == (Width - Count(n)) % Pow2[CountWidth]
DoubleShift(name, Keep(_, _, _), Fill(_, _, _)) ==
    /\ Run(name)
    /\ LET n == popped[3]
           result == BitOr(Keep(popped[1], Count(n), Width),
                           Fill(popped[2], Rest(n), Width), Width)
       IN /\ Push(<<result>>)
          /\ \E undefinedCF, undefinedOF \in {0, 1} :
                flags' = [ZF |-> TestZ("te", result), SF |-> TestZ("tl", result),
                          CF |-> undefinedCF, OF |-> undefinedOF]
LifterShld == DoubleShift("shld", ShiftLeft, ShiftRight)
LifterShrd == DoubleShift("shrd", ShiftRight, ShiftLeft)

Next ==
    \/ LifterAdd \/ LifterAnd \/ LifterOr \/ LifterNand \/ LifterNor \/ LifterImul
    \/ LifterShl \/ LifterShr \/ LifterShld \/ LifterShrd

Spec == Init /\ [][Next]_vars

-----------------------------------------------------------------------------
\* lifter_add: whatever the operands, the carry it derives from r < a and the
\* overflow it derives from three signs are those of the exact sums, as an x86
\* add would set them, and so are ZF and SF.
AddMatchesX86 ==
    op = "add" =>
        LET a == popped[2]  b == popped[1]
            exact == Signed(a, Half) + Signed(b, Half)
        IN /\ flags.CF = 1 <=> a + b >= 2 * Half
           /\ flags.OF = 1 <=> exact < -Half \/ exact >= Half
           /\ flags.ZF = 1 <=> (a + b) % (2 * Half) = 0
           /\ flags.SF = 1 <=> pushed[1] >= Half
           /\ pushed[1] = (a + b) % (2 * Half)

\* lifter_shld and lifter_shrd: for a count below the width, the two shifts
\* and the subtraction in 8 bits give the word of the double-width shift, and
\* ZF and SF are that word's.  CF is left undefined by the code (:245, :271) and
\* nothing is said of it.
DoubleShiftMatchesX86 ==
    /\ op \in {"shld", "shrd"} /\ popped[3] < Width =>
        LET n == popped[3]
            double == IF op = "shld"
                      THEN ((popped[1] * Pow2[Width] + popped[2]) * Pow2[n]) \div Pow2[Width]
                      ELSE (popped[2] * Pow2[Width] + popped[1]) \div Pow2[n]
            word == double % Pow2[Width]
        IN /\ pushed = <<word>>
           /\ flags.ZF = 1 <=> word = 0
           /\ flags.SF = 1 <=> word >= Half

\* The bitwise handlers: a bit of the word in memory depends on that bit of
\* the two operands as the name says and every flag is that word's, although
\* address and word are popped to temporaries of different size (:56-71,
\* :157-172).  Of nand and nor only SF is said to be right, the top bit of what
\* they compute (:119-156): their ZF tests a copy that was made before
\* (:127, :132, :153), and their result is pushed nowhere (see ResultIsPushed).
BitwiseMatchesX86 ==
    [][LET x(p) == p \in Bits(popped[2], Width)
           Of(p, word) == IF op' \in {"_and", "nand"} THEN x(p) /\ p \in Bits(word, Width)
                          ELSE x(p) \/ p \in Bits(word, Width)
           sign == Width - 1
       IN /\ op' \in {"_and", "_or"} =>
               /\ \A p \in 0..sign : p \in Bits(mem', Width) <=> Of(p, mem)
               /\ flags' = [CF |-> 0, OF |-> 0, ZF |-> Bit(mem' = 0), SF |-> Bit(mem' >= Half)]
          /\ op' \in {"nand", "nor"} => (flags'.SF = 1 <=> ~Of(sign, popped[1]))]_vars

-----------------------------------------------------------------------------
\* What the code does not keep: "[rsp] := flags, [rsp+8] := add_tmp_1",
\* "SF = r < 0" and "ZF = r == 0", as lifter_add says (lifters.cpp:33-36,
\* :51-54), for the other handlers that combine two words of the VM stack; a
\* product has two words.
ResultIsPushed ==
    /\ op \in {"nand", "nor", "shl", "shr"} =>
         /\ pushf /\ Len(pushed) = 1
         /\ flags.SF = 1 <=> pushed[1] >= Half
         /\ flags.ZF = 1 <=> pushed[1] = 0
    /\ op = "imul" =>
         /\ pushf
         /\ pushed = <<Low(popped[1], popped[2]), High(popped[1], popped[2])>>
=============================================================================
