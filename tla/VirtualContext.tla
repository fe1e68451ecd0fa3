--------------------------- MODULE VirtualContext ---------------------------
(***************************************************************************)
(* The VM context as src/src/lifters.cpp lifts it: bytes of the context    *)
(* become bits of VTIL virtual registers (make_virtual_register), and      *)
(* lift() and lifter_vmexit push and pop the processor's registers, and    *)
(* the VM stack is memory that its own pointers reach.                     *)
(* VmContext says what the virtual machine does.                           *)
(*                                                                         *)
(* A state is one of the VTIL routine that runs; each action runs the VTIL *)
(* of one virtual instruction.  A register's bits are given as its bytes.  *)
(***************************************************************************)
EXTENDS Integers, Sequences, SequencesExt, ZyregToRegister

CONSTANTS
    RegBytes,     \* bytes of a virtual register, 8 in the code
    ContextRegs,  \* how many virtual registers the context takes
    Byte,         \* values of a byte
    Consts,       \* the constants of LCONST, sequences of bytes
    VmentryPushOrder,  \* get_vmentry_push_order(): Zydis registers
    EntryNative,  \* what the registers hold before VMENTER
    Return,       \* the return address of the virtual routine
    EntryMemory,  \* memory beside the VM stack: address -> word
    EntrySpecial, \* what CR0 and DR7 hold
    StackPointer(_),  \* the address of the n-th word of the VM stack
    MaxStack,     \* bound: words on the VM stack
    MaxInstrs     \* bound: virtual instructions that run

\* The cast is made when the VTIL instruction is.
PushOrder == [k \in DOMAIN VmentryPushOrder |-> Cast(VmentryPushOrder[k])]
Regs == {PushOrder[k] : k \in DOMAIN PushOrder}
CR0 == <<"cr", 0>>
DR7 == <<"dr", 7>>
ASSUME ContextAssumption ==
    /\ RegBytes \in Nat \ {0} /\ ContextRegs \in Nat \ {0}
    /\ PushOrder \in Seq(Regs)
    /\ \A k, l \in DOMAIN PushOrder : PushOrder[k] = PushOrder[l] => k = l
    /\ 0 \in Byte
    /\ EntryNative \in [Regs -> [1..RegBytes -> Byte]]
    /\ MaxStack \in Nat /\ Len(PushOrder) + 2 <= MaxStack /\ MaxInstrs \in Nat

\* Words: as many bytes as an operand has.
ContextSize == RegBytes * ContextRegs
Offsets == 0..(ContextSize - 1)
Sizes == 1..RegBytes
Word == UNION {[1..n -> Byte] : n \in Sizes}
ASSUME WordAssumption ==
    /\ Return \in Word /\ Consts \subseteq Word
    /\ DOMAIN EntryMemory \subseteq Word /\ EntryMemory \in [DOMAIN EntryMemory -> Word]
    /\ EntrySpecial \in [{CR0, DR7} -> Word]
    /\ \A d \in 0..MaxStack : StackPointer(d) \in Word

\* VMENTER pushes registers that the table knows.
ASSUME PushedAssumption ==
    \A k \in DOMAIN VmentryPushOrder :
      /\ \E i \in DOMAIN ZydisRegister : ZydisRegister[i] = VmentryPushOrder[k]
      /\ VmentryPushOrder[k][1] \notin {"none", "x87", "table", "test", "bound", "other"}

VARIABLES
    vregs,   \* the virtual registers: id -> byte within it -> value
    stack,   \* the VM stack, top last
    memory,  \* the rest of the memory
    native,  \* the registers of the processor
    special, \* CR0 and DR7
    target,  \* where vexit goes
    access,  \* <<offset, size>> of the last LREG or SREG that ran
    phase,   \* "outside", "inside", "left", "aborted"
    instrs   \* how many virtual instructions ran

vars == <<vregs, stack, memory, native, special, target, access, phase, instrs>>

-----------------------------------------------------------------------------
\* make_virtual_register: the register, and the byte of it that comes first.
\* The assertion refuses a range that does not end within the register:
\* the program ends while it lifts, and no VTIL of the instruction runs.
Fits(o, size) == (o % RegBytes) + size <= RegBytes
RegisterId(o) == o \div RegBytes
FirstByteOfOffset(o) == 0
FirstByte(o) == o % RegBytes

\* The load delta.
Delta == [k \in 1..RegBytes |-> 0]

\* Bytes of the virtual registers may hold anything; those that no SREG wrote
\* are never told apart from 0 by what is checked.
Init ==
    /\ vregs = [id \in 0..(ContextRegs - 1) |-> [b \in 0..(RegBytes - 1) |-> 0]]
    /\ stack = <<Return>>
    /\ memory = EntryMemory
    /\ native = EntryNative
    /\ special = EntrySpecial
    /\ target = <<>>
    /\ access = <<>>
    /\ phase = "outside"
    /\ instrs = 0

Push(word) == Len(stack) < MaxStack /\ stack' = Append(stack, word)
Inside ==
    /\ phase = "inside" /\ UNCHANGED <<native, target>>
    /\ instrs < MaxInstrs /\ instrs' = instrs + 1

\* lift(): the registers in push order, then the load delta.
LiftPrologue ==
    /\ phase = "outside"
    /\ phase' = "inside"
    /\ stack' = stack \o [k \in DOMAIN PushOrder |-> native[PushOrder[k]]] \o <<Delta>>
    /\ UNCHANGED <<vregs, memory, native, special, target, access, instrs>>

LifterLconst ==
    /\ Inside
    /\ \E imm \in Consts : Push(imm)
    /\ UNCHANGED <<vregs, memory, special, access, phase>>

LifterLreg ==
    /\ Inside
    /\ \E o \in Offsets, size \in Sizes :
         \/ /\ Fits(o, size)
            /\ Push([k \in 1..size |-> vregs[RegisterId(o)][FirstByte(o) + k - 1]])
            /\ access' = <<o, size>>
            /\ UNCHANGED phase
         \/ ~Fits(o, size) /\ phase' = "aborted" /\ UNCHANGED <<stack, access>>
    /\ UNCHANGED <<vregs, memory, special>>

\* The other bytes of the register stay.
LifterSreg ==
    /\ Inside /\ stack # <<>>
    /\ LET word == Last(stack) IN
       \E o \in Offsets :
         \/ /\ Fits(o, Len(word))
            /\ stack' = Front(stack)
            /\ vregs' = [vregs EXCEPT ![RegisterId(o)] =
                           [b \in DOMAIN @ |->
                              IF b \in FirstByte(o)..(FirstByte(o) + Len(word) - 1)
                              THEN word[b - FirstByte(o) + 1] ELSE @[b]]]
            /\ access' = <<o, Len(word)>>
            /\ UNCHANGED phase
         \/ ~Fits(o, Len(word)) /\ phase' = "aborted" /\ UNCHANGED <<stack, vregs, access>>
    /\ UNCHANGED <<memory, special>>

\* read and write: the address is popped first.  An address reaches a word of
\* memory or, if it came from lvsp, one of the VM stack, of the instruction's
\* size.
Popped(k) == stack[Len(stack) - k + 1]
Below(k) == SubSeq(stack, 1, Len(stack) - k)
Slots(address, words) == {d \in DOMAIN words : StackPointer(d) = address}
LifterRead ==
    /\ Inside /\ stack # <<>>
    /\ \/ Popped(1) \in DOMAIN memory /\ stack' = Append(Below(1), memory[Popped(1)])
       \/ \E d \in Slots(Popped(1), Below(1)) : stack' = Append(Below(1), stack[d])
    /\ UNCHANGED <<vregs, memory, special, access, phase>>
WriteTo(address, word) ==
    \/ /\ address \in DOMAIN memory /\ Len(memory[address]) = Len(word)
       /\ memory' = [memory EXCEPT ![address] = word]
       /\ stack' = Below(2)
    \/ \E d \in Slots(address, Below(2)) :
       /\ Len(stack[d]) = Len(word)
       /\ stack' = [Below(2) EXCEPT ![d] = word]
       /\ UNCHANGED memory
LifterWrite ==
    /\ Inside /\ Len(stack) >= 2
    /\ WriteTo(Popped(1), Popped(2))
    /\ UNCHANGED <<vregs, special, access, phase>>

\* lvsp pushes the stack pointer as it was before the push, svsp sets it from
\* the word on top, without a pop of its own.
LifterLvsp ==
    /\ Inside /\ Push(StackPointer(Len(stack)))
    /\ UNCHANGED <<vregs, memory, special, access, phase>>
LifterSvsp ==
    /\ Inside /\ stack # <<>>
    /\ \E d \in 0..Len(stack) : StackPointer(d) = Last(stack) /\ stack' = SubSeq(stack, 1, d)
    /\ UNCHANGED <<vregs, memory, special, access, phase>>

LifterLcr0 ==
    /\ Inside /\ Push(special[Cast(CR0)])
    /\ UNCHANGED <<vregs, memory, special, access, phase>>
LifterWritedr7 ==
    /\ Inside /\ stack # <<>> /\ Len(Last(stack)) = RegBytes
    /\ special' = [special EXCEPT ![DR7] = Last(stack)]
    /\ stack' = Front(stack)
    /\ UNCHANGED <<vregs, memory, access, phase>>

\* lifter_vmexit: the push order is gone through from its end, one pop each.
ExitOrderForward == PushOrder
ExitOrder == Reverse(PushOrder)
ReturnAddressKept == target
ReturnAddress == Popped(Len(PushOrder) + 1)
LifterVmexit ==
    /\ phase = "inside" /\ Len(stack) > Len(PushOrder)
    /\ native' = [r \in Regs |-> Popped(CHOOSE k \in DOMAIN ExitOrder : ExitOrder[k] = r)]
    /\ target' = ReturnAddress
    /\ stack' = SubSeq(stack, 1, Len(stack) - Len(PushOrder) - 1)
    /\ phase' = "left"
    /\ UNCHANGED <<vregs, memory, special, access, instrs>>

Next ==
    \/ LiftPrologue \/ LifterLconst \/ LifterLreg \/ LifterSreg
    \/ LifterRead \/ LifterWrite \/ LifterLvsp \/ LifterSvsp
    \/ LifterLcr0 \/ LifterWritedr7 \/ LifterVmexit

Spec == Init /\ [][Next]_vars

-----------------------------------------------------------------------------
\* The registers keep their bytes, words are no larger than a register, and
\* the VM is left to somewhere exactly when it was left.
TypeOK ==
    /\ vregs \in [0..(ContextRegs - 1) -> [0..(RegBytes - 1) -> Byte]]
    /\ stack \in Seq(Word) /\ Len(stack) <= MaxStack
    /\ memory \in [DOMAIN EntryMemory -> Word]
    /\ native \in [Regs -> Word]
    /\ special \in [{CR0, DR7} -> Word]
    /\ target \in Word \cup {<<>>}
    /\ access = <<>> \/ access \in Offsets \X Sizes
    /\ phase \in {"outside", "inside", "left", "aborted"}
    /\ phase = "left" <=> target # <<>>
    /\ instrs \in 0..MaxInstrs

\* vmexit undoes the prologue: when the VM stack is again what the prologue
\* left, but for the load delta, the processor gets its registers back, each
\* its own, and goes on at the return address with nothing left behind
\* (vm-lifter.cpp:57-62, lifters.cpp:304-311).
RegistersRestored ==
    [][(/\ phase' = "left"
        /\ stack = <<Return>> \o [k \in DOMAIN PushOrder |-> EntryNative[PushOrder[k]]])
       => native' = EntryNative /\ target' = Return /\ stack' = <<>>]_vars

\* The lifted code does what the virtual machine does, or the lifter aborts:
\* each LREG and SREG moves the bytes of the context that its operands name,
\* so that two accesses through the bits of the virtual registers share a byte
\* exactly when their ranges of the context overlap (lifters.cpp:6-18); each
\* register is the one that Zydis names (zyreg_to_register_desc.hpp); pointers
\* to the VM stack reach the words that were there when they were made.
Machine == INSTANCE VmContext WITH
    context <- [o \in Offsets |-> vregs[o \div RegBytes][o % RegBytes]],
    PushOrder <- [k \in DOMAIN VmentryPushOrder |-> Meant(VmentryPushOrder[k])]
KeepsContext == Machine!Spec
=============================================================================
