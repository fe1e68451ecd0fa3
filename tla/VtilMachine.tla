---------------------------- MODULE VtilMachine ----------------------------
(***************************************************************************)
(* What the instructions of a VTIL block mean: the machine whose steps the *)
(* code made by src/src/vtil-compile.cpp has to take.  VTIL-Core is not    *)
(* part of the repository; the instructions are those handler_table has a  *)
(* handler for, except the branches (see VtilCompile).                     *)
(*                                                                         *)
(* An instruction names views of registers: Size bits of the register with *)
(* an id, from Offset on.  Who writes a view writes these bits and no      *)
(* others, and other views of the register see them.  A smaller operand is *)
(* extended with zeros, a larger one cut.                                  *)
(***************************************************************************)
EXTENDS VtilWords

CONSTANTS
    Id, Offset, Size,  \* the views of registers: of which, and which bits
    Full,       \* the bits of a machine word, 64 in the code
    Addresses,  \* the addresses of the words of memory that are used
    Instr       \* instructions: [ins, dst, src, res], src and res being a
                \* register or an immediate; res is the offset of ldd and
                \* str; an immediate that str stores has a number of bits

VARIABLES
    regs,  \* what each view reads
    mem,   \* the words of memory
    last   \* the instruction that ran last

vars == <<regs, mem, last>>

Registers == DOMAIN Size
Start == [ins |-> "start"]
Tests == {"te", "tne", "tl", "tge", "tle", "tg", "tul", "tuge", "tule", "tug"}
Pins == {"vpinr", "vpinw", "vpinrm", "vpinwm"}

Span(r) == Offset[r]..(Offset[r] + Size[r] - 1)
Overlap(q, r) == Id[q] = Id[r] /\ Span(q) \cap Span(r) # {}
BitAt(values, r, p) == (values[r] \div Pow2[p - Offset[r]]) % 2
Agree(values) ==
    \A q, r \in Registers : Id[q] = Id[r] =>
        \A p \in Span(q) \cap Span(r) : BitAt(values, q, p) = BitAt(values, r, p)

Init ==
    /\ regs \in {r \in [Registers -> 0..(Pow2[Full] - 1)] :
                    (\A x \in Registers : r[x] < Pow2[Size[x]]) /\ Agree(r)}
    /\ mem \in [Addresses -> 0..(Pow2[Full] - 1)]
    /\ last = Start

\* An operand at s bits.
Value(o, s) == (IF o \in Registers THEN regs[o] ELSE o) % Pow2[s]

Rotate(x, n, s) == BitOr((x * Pow2[n % s]) % Pow2[s], x \div Pow2[(s - (n % s)) % s], s)
Result(i, x, y, s) ==
    CASE i.ins = "mov"  -> y
      [] i.ins = "add"  -> x + y
      [] i.ins = "sub"  -> x - y
      [] i.ins = "imul" -> x * y
      [] i.ins = "band" -> BitAnd(x, y, s)
      [] i.ins = "bor"  -> BitOr(x, y, s)
      [] i.ins = "bxor" -> BitXor(x, y, s)
      [] i.ins = "bnot" -> BitNot(x, s)
      [] i.ins = "neg"  -> 0 - x
      [] i.ins = "bshl" -> ShiftLeft(x, y, s)
      [] i.ins = "bshr" -> ShiftRight(x, y, s)
      [] i.ins = "brol" -> Rotate(x, y, s)
      [] i.ins = "bror" -> Rotate(x, s - (y % s), s)

\* What view q reads when word is written to view r.
Overwritten(q, r, word) ==
    FromBits({p \in 0..(Size[q] - 1) :
                 LET at == p + Offset[q] - Offset[r] IN
                 IF at \in 0..(Size[r] - 1) THEN at \in Bits(word, Size[r])
                 ELSE p \in Bits(regs[q], Size[q])},
             Size[q])
Set(i, value) ==
    LET word == value % Pow2[Size[i.dst]] IN
    /\ regs' = [q \in Registers |->
                   IF q = i.dst THEN word
                   ELSE IF Overlap(q, i.dst) THEN Overwritten(q, i.dst, word) ELSE regs[q]]
    /\ UNCHANGED mem

\* dst := dst op src
Compute(i) ==
    LET s == Size[i.dst] IN
    /\ i.ins \notin Tests \cup Pins \cup {"ldd", "str", "ifs"}
    /\ Set(i, Result(i, regs[i.dst], Value(i.src, s), s))

\* dst := src test res, compared at the size of a register
Compare(i) ==
    LET s == IF i.src \in Registers THEN Size[i.src] ELSE Size[i.res] IN
    /\ i.ins \in Tests
    /\ Set(i, Test(i.ins, Value(i.src, s), Value(i.res, s), Pow2[s - 1]))

\* dst := src # 0 ? res : 0
Select(i) ==
    /\ i.ins = "ifs"
    /\ Set(i, IF regs[i.src] # 0 THEN Value(i.res, Size[i.dst]) ELSE 0)

Address(r, offset) == (regs[r] + offset) % Pow2[Full]
Load(i) ==
    /\ i.ins = "ldd" /\ Address(i.src, i.res) \in Addresses
    /\ Set(i, mem[Address(i.src, i.res)])

\* The bits of the word above the size of src are other bytes of memory.
Store(i) ==
    /\ i.ins = "str" /\ Address(i.dst, i.res) \in Addresses
    /\ LET s == IF i.src \in Registers THEN Size[i.src] ELSE i.bits IN
         mem' = [mem EXCEPT ![Address(i.dst, i.res)] = @ - (@ % Pow2[s]) + Value(i.src, s)]
    /\ UNCHANGED regs

\* A pin keeps a value alive for the optimizer.
Pin(i) == i.ins \in Pins /\ UNCHANGED <<regs, mem>>

Step(i) ==
    /\ last' = i
    /\ Compute(i) \/ Compare(i) \/ Select(i) \/ Load(i) \/ Store(i) \/ Pin(i)

Next == \E i \in Instr : Step(i)

Spec == Init /\ [][Next]_vars
=============================================================================
