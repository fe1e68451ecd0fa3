----------------------------- MODULE VtilWords -----------------------------
(***************************************************************************)
(* Words as VTIL computes with them.  A word of w bits is a natural number *)
(* below 2^w; h stands for 2^(w - 1), the first word that counts as        *)
(* negative, so that what does not look at single bits can be proved for   *)
(* every h.  VTIL-Core is not part of the repository: this is what         *)
(* src/src/lifters.cpp and src/src/vtil-compile.cpp rely on.               *)
(***************************************************************************)
EXTENDS Integers, FiniteSets

\* 2^n: how many sets of bits there are in a word of n bits.
Pow2 == [n \in Nat |-> Cardinality(SUBSET (0..(n - 1)))]

Word(h) == 0..(2 * h - 1)
Cut(x, h) == x % (2 * h)
Signed(x, h) == IF x >= h THEN x - 2 * h ELSE x
Bit(condition) == IF condition THEN 1 ELSE 0

\* The bits of a word, and the word of some bits.
Bits(x, w) == {p \in 0..(w - 1) : (x \div Pow2[p]) % 2 = 1}
FromBits(bits, w) == CHOOSE x \in 0..(Pow2[w] - 1) : Bits(x, w) = bits
BitNot(x, w) == Pow2[w] - 1 - x
BitAnd(x, y, w) == FromBits(Bits(x, w) \cap Bits(y, w), w)
BitOr(x, y, w) == FromBits(Bits(x, w) \cup Bits(y, w), w)
BitXor(x, y, w) == FromBits({p \in Bits(x, w) \cup Bits(y, w) :
                                p \notin Bits(x, w) \cap Bits(y, w)}, w)

\* Shifts.  All bits are gone when the count reaches the width.
ShiftLeft(x, n, w) == IF n >= w THEN 0 ELSE (x * Pow2[n]) % Pow2[w]
ShiftRight(x, n, w) == IF n >= w THEN 0 ELSE x \div Pow2[n]

\* The tests: tl, tle, tg and tge are signed, tul, tule, tug and tuge are not.
Holds(test, x, y, h) ==
    CASE test = "te"   -> x = y
      [] test = "tne"  -> x # y
      [] test = "tl"   -> Signed(x, h) < Signed(y, h)
      [] test = "tge"  -> Signed(x, h) >= Signed(y, h)
      [] test = "tle"  -> Signed(x, h) <= Signed(y, h)
      [] test = "tg"   -> Signed(x, h) > Signed(y, h)
      [] test = "tul"  -> x < y
      [] test = "tuge" -> x >= y
      [] test = "tule" -> x <= y
      [] test = "tug"  -> x > y
Test(test, x, y, h) == Bit(Holds(test, x, y, h))
=============================================================================
