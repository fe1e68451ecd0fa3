---------------------------- MODULE CompiledOps ----------------------------
(***************************************************************************)
(* The x86 code that the handlers of src/src/vtil-compile.cpp emit for the *)
(* instructions of a block: what one instruction's code does to the x86    *)
(* registers and to memory.                                                *)
(*                                                                         *)
(* reg_for_size gives every VTIL register, of whatever size, a register of *)
(* 64 bits (Full), so the code computes with more bits than VTIL does; and *)
(* get_reg looks at no bit selector, so two views of one VTIL register are *)
(* one x86 register as a whole, or two that know nothing of each other.    *)
(* VtilMachine says what VTIL computes.  The image base, which get_reg     *)
(* loads anew for each use, is an immediate here.                          *)
(***************************************************************************)
EXTENDS VtilWords, Sequences

CONSTANTS
    Id, Offset, Size,  \* the views of VTIL registers: of which, and which bits
    Physical,   \* the ids of x86 registers; the flags are one of them
    EntryGp,    \* what the x86 registers may hold at first
    LocalId,    \* "cr0" or "dr7" for those with its local_id, else "none"
    Control,    \* CR0 and DR7 themselves
    EntryControl,  \* what they hold at first
    Full,       \* bits of an x86 register, 64 in the code
    Byte,       \* bits a setcc writes, 8 in the code
    StoreSizes, \* bits a mov to memory may have: 8, 16, 32, 64
    Addresses,  \* the addresses of the words of memory that are used
    MemWords,   \* what memory may hold at first
    Instr       \* instructions: [ins, dst, src, res], str with bits

Registers == DOMAIN Size

ASSUME SizeAssumption ==
    /\ DOMAIN Id = Registers /\ DOMAIN Offset = Registers
    /\ Physical \cap Registers = {} /\ Control \subseteq Registers
    /\ LocalId \in [Registers -> {"none", "cr0", "dr7"}]
    /\ \A c \in Control : Id[c] \notin Physical /\ LocalId[c] # "none" /\ Size[c] = Full
    /\ \A c, d \in Control : LocalId[c] = LocalId[d] => c = d
    /\ EntryControl \in [{"cr0", "dr7"} -> 0..(Pow2[Full] - 1)]
    /\ Full \in Nat /\ Byte \in 1..Full
    /\ \E e \in 0..Full : Full = Pow2[e]
    /\ \A r \in Registers : Size[r] \in 1..Full /\ Offset[r] \in 0..(Full - Size[r])
    /\ StoreSizes \subseteq 1..Full
    /\ Addresses \cup MemWords \subseteq 0..(Pow2[Full] - 1)

\* What an instruction of VTIL is made of: its first operand is a register; the
\* others are registers or immediates, the offsets of ldd and str immediates.
ASSUME InstrAssumption ==
    /\ Registers \cap Int = {}
    /\ \A i \in Instr :
         /\ i.dst \in Registers /\ {i.src, i.res} \subseteq Registers \cup Int
         /\ i.ins = "ldd" => i.src \in Registers
         /\ i.ins \in {"ldd", "str"} => i.res \in Int
         /\ i.ins = "str" /\ i.src \in Int => i.bits \in 1..Full

VARIABLES
    gp,       \* the x86 registers
    control,  \* cr0 and dr7
    mem,      \* the words of memory
    last      \* the instruction whose code ran last

vars == <<gp, control, mem, last>>

Reg == 0..(Pow2[Full] - 1)
Wrap(x) == x % Pow2[Full]

\* routine_state::get_reg: one x86 register for a physical register, whichever
\* of its bits are selected, and one for each view of a virtual register.
GetReg(r) == IF Id[r] \in Physical THEN Id[r] ELSE r
Gp == {GetReg(r) : r \in Registers \ Control}

ASSUME EntryAssumption == EntryGp \subseteq [Gp -> Reg]

Start == [ins |-> "start"]
Init ==
    /\ gp \in EntryGp
    /\ control = EntryControl
    /\ mem \in [Addresses -> MemWords]
    /\ last = Start

\* An operand of the code for i: a register, or ival, an immediate as signed
\* number of s bits.
Immediate(o, s) == Wrap(Signed(o % Pow2[s], Pow2[s - 1]))
Operand(i, o) == IF o \in Registers THEN gp[GetReg(o)] ELSE Immediate(o, Size[i.dst])

\* mov knows the control registers by their local_id, which a temporary may
\* have as well; dr7 is looked for before cr0.
ToControl(i) ==
    /\ i.ins = "mov" /\ i.src \in Registers
    /\ LocalId[i.dst] = "dr7" \/ (LocalId[i.dst] = "cr0" /\ LocalId[i.src] # "dr7")
FromControl(i) ==
    i.ins = "mov" /\ i.src \in Registers /\ ~ToControl(i) /\ LocalId[i.src] # "none"
\* What the handler gives to get_reg.
Asked(i) ==
    CASE ToControl(i)   -> {i.src}
      [] FromControl(i) -> {i.dst}
      [] OTHER          -> {i.dst, i.src, i.res} \cap Registers
\* get_reg has no case for CR0 and DR7; ifs takes a register of its condition;
\* str knows four sizes.
StoredBits(i) == IF i.src \in Registers THEN Size[i.src] ELSE i.bits
Compiles(i) ==
    /\ Asked(i) \cap Control = {}
    /\ i.ins = "ifs" => i.src \in Registers
    /\ i.ins = "str" => StoredBits(i) \in StoreSizes

Emit(i) == Compiles(i) /\ last' = i
Write(i, value) == gp' = [gp EXCEPT ![GetReg(i.dst)] = value]

\* The handlers of instructions with a destination and at most one source.
Binary(ins, Value(_, _)) ==
    \E i \in Instr :
        /\ i.ins = ins /\ Emit(i)
        /\ Write(i, Value(gp[GetReg(i.dst)], Operand(i, i.src)))
        /\ UNCHANGED <<control, mem>>

-----------------------------------------------------------------------------
Mov ==
    \E i \in Instr :
        /\ i.ins = "mov" /\ Emit(i)
        /\ \/ /\ ToControl(i) /\ UNCHANGED gp
              /\ control' = [control EXCEPT ![LocalId[i.dst]] = Operand(i, i.src)]
           \/ FromControl(i) /\ Write(i, control[LocalId[i.src]]) /\ UNCHANGED control
           \/ /\ ~ToControl(i) /\ ~FromControl(i)
              /\ Write(i, Operand(i, i.src)) /\ UNCHANGED control
        /\ UNCHANGED mem
Sub  == Binary("sub", LAMBDA x, y : Wrap(x - y))
Add  == Binary("add", LAMBDA x, y : Wrap(x + y))
Imul == Binary("imul", LAMBDA x, y : Wrap(x * y))

\* x86 takes the count modulo the width.
CountAsIs(y) == y
ShiftCount(y) == y % Full
Bshl == Binary("bshl", LAMBDA x, y : ShiftLeft(x, ShiftCount(y), Full))
Bshr == Binary("bshr", LAMBDA x, y : ShiftRight(x, ShiftCount(y), Full))
Band == Binary("band", LAMBDA x, y : BitAnd(x, y, Full))
Bor  == Binary("bor", LAMBDA x, y : BitOr(x, y, Full))
Bxor == Binary("bxor", LAMBDA x, y : BitXor(x, y, Full))
NegationOf(x) == Wrap(Pow2[Full] - x)
ComplementOf(x) == BitNot(x, Full)
Bnot == Binary("bnot", LAMBDA x, y : ComplementOf(x))
Neg  == Binary("neg", LAMBDA x, y : NegationOf(x))

\* brol, bror: the destination decides which form is emitted, and it is never
\* an immediate: the count is the destination's own value.
RotateLeft(x, n) == BitOr((x * Pow2[n]) % Pow2[Full], x \div Pow2[(Full - n) % Full], Full)
Brol == Binary("brol", LAMBDA x, y : RotateLeft(x, ShiftCount(x)))
Bror == Binary("bror", LAMBDA x, y : RotateLeft(x, ShiftCount(Full - ShiftCount(x))))

\* ldd: a whole register is loaded.
Ldd ==
    \E i \in Instr :
        /\ i.ins = "ldd" /\ Emit(i)
        /\ Wrap(gp[GetReg(i.src)] + i.res) \in Addresses
        /\ Write(i, mem[Wrap(gp[GetReg(i.src)] + i.res)])
        /\ UNCHANGED <<control, mem>>

\* str: as many bits as the value has are stored.
StoredWhole(old, value, s) == value
Stored(old, value, s) == old - (old % Pow2[s]) + (value % Pow2[s])
Str ==
    \E i \in Instr :
        /\ i.ins = "str" /\ Emit(i)
        /\ LET address == Wrap(gp[GetReg(i.dst)] + i.res) IN
             /\ address \in Addresses
             /\ mem' = [mem EXCEPT ![address] =
                           Stored(@, IF i.src \in Registers THEN gp[GetReg(i.src)]
                                     ELSE Immediate(i.src, i.bits), StoredBits(i))]
        /\ UNCHANGED <<gp, control>>

\* MAP_CONDITIONAL: whole registers are compared, and the third parameter,
\* the opposite condition, is set.  An immediate first operand is compared as
\* the second, with the same condition.
Opposite ==
    [te |-> "tne", tne |-> "te", tl |-> "tge", tge |-> "tl", tle |-> "tg",
     tg |-> "tle", tul |-> "tuge", tuge |-> "tul", tule |-> "tug", tug |-> "tule"]
MapConditional ==
    \E i \in Instr :
        /\ i.ins \in DOMAIN Opposite /\ Emit(i)
        /\ LET swap == i.src \notin Registers
               r == IF swap THEN i.res ELSE i.src
               o == IF swap THEN i.src ELSE i.res
               y == IF o \in Registers THEN gp[GetReg(o)] ELSE Immediate(o, Size[r])
               d == gp[GetReg(i.dst)]
           IN Write(i, d - (d % Pow2[Byte])
                          + Test(Opposite[i.ins], gp[GetReg(r)], y, Pow2[Full - 1]))
        /\ UNCHANGED <<control, mem>>

\* ifs: the destination is cleared before the condition and the value are read.
Cleared(i) == [gp EXCEPT ![GetReg(i.dst)] = 0]
NotCleared(i) == gp
Ifs ==
    \E i \in Instr :
        /\ i.ins = "ifs" /\ Emit(i)
        /\ gp' = IF Cleared(i)[GetReg(i.src)] # 0
                 THEN [gp EXCEPT ![GetReg(i.dst)] =
                          IF i.res \in Registers THEN Cleared(i)[GetReg(i.res)]
                          ELSE Operand(i, i.res)]
                 ELSE Cleared(i)
        /\ UNCHANGED <<control, mem>>

\* vpinr, vpinw, vpinrm, vpinwm: nothing is emitted.
Pins == {"vpinr", "vpinw", "vpinrm", "vpinwm"}
Vpin == \E i \in Instr : i.ins \in Pins /\ last' = i /\ UNCHANGED <<gp, control, mem>>

\* abort(), in get_reg or in an assertion: there is no code at all.  Nor is
\* anything said of what a build makes of unreachable() (:237).
Aborted == [ins |-> "aborted"]
Abort ==
    /\ \E i \in Instr : i.ins \notin Pins /\ ~Compiles(i)
    /\ last' = Aborted
    /\ UNCHANGED <<gp, control, mem>>

\* The code of one instruction runs, from whatever state other code left.
Next ==
    /\ last = Start
    /\ \/ Mov \/ Sub \/ Add \/ Imul \/ Bshl \/ Bshr \/ Band \/ Bor \/ Bxor \/ Bnot \/ Neg
       \/ Brol \/ Bror \/ Ldd \/ Str \/ MapConditional \/ Ifs \/ Vpin \/ Abort

Spec == Init /\ [][Next]_vars

-----------------------------------------------------------------------------
\* No temporary is taken for a control register: mov does not tell one with
\* the same local_id apart.
Clear(i) ==
    i.ins = "mov" => \A r \in ({i.dst, i.src, i.res} \cap Registers) \ Control : LocalId[r] = "none"

\* The x86 registers, read as VTIL's: a view is the low bits of its register,
\* but for one that selects higher bits of a physical register.
Low(r) == Id[r] \notin Physical \/ Offset[r] = 0
VtilRegisters ==
    [r \in Registers |->
        CASE r \in Control -> control[LocalId[r]]
          [] r \notin Control /\ Low(r) -> gp[GetReg(r)] % Pow2[Size[r]]
          [] OTHER -> (gp[GetReg(r)] \div Pow2[Offset[r]]) % Pow2[Size[r]]]
Vtil == INSTANCE VtilMachine WITH regs <- VtilRegisters

\* What the compiler keeps.  A register it writes has no other view with which
\* it shares bits or its x86 register, and a register it reads is the low bits
\* of its x86 register: bit selectors are not handled (:91).  With more bits in
\* the code's registers than in VTIL's, an instruction whose low bits depend on
\* high bits of its operands comes out wrong unless these are whole registers.
Alone(r) == \A q \in Registers \ {r} : GetReg(q) # GetReg(r) /\ ~Vtil!Overlap(q, r)
Wide(o) == o \notin Registers \/ Size[o] = Full
Kept(i) ==
    /\ \A r \in {i.dst, i.src, i.res} \cap Registers : Low(r)
    /\ i.ins # "str" => Alone(i.dst)
    /\ Clear(i)
    /\ CASE i.ins = "bshr" -> Size[i.dst] = Full /\ i.src \in 0..(Full - 1)
         [] i.ins = "bshl" -> i.src \in 0..(Size[i.dst] - 1)
         [] i.ins = "ldd" -> Wide(i.src)
         [] i.ins = "str" -> Wide(i.dst)
         [] i.ins = "ifs" -> Wide(i.src) /\ i.dst \notin {i.src, i.res}
                              /\ (i.res \in Registers => Size[i.res] >= Size[i.dst])
         [] i.ins \in DOMAIN Opposite \cup {"brol", "bror"} -> FALSE
         [] OTHER -> i.src \in Registers => Size[i.src] >= Size[i.dst]

\* Although every register has 64 bits, the code of an instruction that is
\* kept takes, on the low bits, the step of that instruction, and leaves every
\* view of every other register, memory, CR0 and DR7 as they are
\* (vtil-compile.cpp:62-78, :87-192, :196-649).
ComputesVtil == [][last' # Aborted /\ Kept(last') => Vtil!Step(last')]_vars

\* What the code does not keep: every instruction computes what VTIL defines,
\* in particular the tests that lifter_add emits under "SF = r < 0" and
\* "ZF = r == 0" (lifters.cpp:33-36).
ImplementsVtil == Vtil!Spec
=============================================================================
