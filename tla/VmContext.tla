----------------------------- MODULE VmContext -----------------------------
(***************************************************************************)
(* What the virtual machine of a protected program does with its context,  *)
(* as far as src/src/lifters.cpp relies on it: the context is an array of  *)
(* bytes, LREG and SREG move bytes between it and the VM stack at any      *)
(* offset, VMENTER leaves the registers on the VM stack and VMEXIT takes   *)
(* them from there; the VM stack is memory.                                *)
(***************************************************************************)
EXTENDS Integers, Sequences

CONSTANTS
    ContextSize,  \* bytes of the context
    Byte,         \* values of a byte
    Word,         \* words on the VM stack: sequences of bytes, any size
    PushOrder,    \* the registers VMENTER pushes, first pushed first
    Consts,       \* constants of LCONST
    Delta,        \* the word pushed last, the load delta
    StackPointer(_),  \* the address of the n-th word of the VM stack
    CR0, DR7,
    MaxStack      \* bound: words on the VM stack

VARIABLES
    context,  \* the bytes of the context
    stack,    \* the VM stack, top last
    memory,   \* the rest of the memory: address -> word
    native,   \* the registers of the processor
    special,  \* CR0 and DR7
    target,   \* where the VM was left to
    access,   \* <<offset, size>> of the last LREG or SREG
    phase     \* "outside", "inside", "left", "aborted"

vars == <<context, stack, memory, native, special, target, access, phase>>

Offsets == 0..(ContextSize - 1)
Regs == {PushOrder[k] : k \in DOMAIN PushOrder}

Init ==
    /\ context \in [Offsets -> Byte]
    /\ native \in [Regs -> Word] /\ special \in [{CR0, DR7} -> Word]
    /\ DOMAIN memory \subseteq Word /\ \A address \in DOMAIN memory : memory[address] \in Word
    /\ \E return \in Word : stack = <<return>>
    /\ target = <<>> /\ access = <<>> /\ phase = "outside"

Enter ==
    /\ phase = "outside"
    /\ phase' = "inside"
    /\ stack' = stack \o [k \in DOMAIN PushOrder |-> native[PushOrder[k]]] \o <<Delta>>
    /\ UNCHANGED <<context, memory, native, special, target, access>>

Inside == phase = "inside" /\ UNCHANGED <<native, target, phase>>
Push(word) == Len(stack) < MaxStack /\ stack' = Append(stack, word)

LoadConst ==
    /\ Inside /\ \E word \in Consts : Push(word)
    /\ UNCHANGED <<context, memory, special, access>>
Bytes(o, size) == [k \in 1..size |-> context[o + k - 1]]
LoadReg ==
    /\ Inside
    /\ \E o \in Offsets : \E size \in 1..(ContextSize - o) :
          access' = <<o, size>> /\ Push(Bytes(o, size))
    /\ UNCHANGED <<context, memory, special>>
StoreReg ==
    /\ Inside /\ stack # <<>>
    /\ stack' = SubSeq(stack, 1, Len(stack) - 1)
    /\ LET word == stack[Len(stack)] IN
       \E o \in Offsets :
          /\ o + Len(word) <= ContextSize
          /\ access' = <<o, Len(word)>>
          /\ context' = [b \in Offsets |-> IF b \in o..(o + Len(word) - 1)
                                           THEN word[b - o + 1] ELSE context[b]]
    /\ UNCHANGED <<memory, special>>

\* What an address says: a word of the memory, or of the VM stack.
Top == stack[Len(stack)]
Rest == SubSeq(stack, 1, Len(stack) - 1)
At(address, words) == {d \in DOMAIN words : StackPointer(d) = address}
Read ==
    /\ Inside /\ stack # <<>>
    /\ \E word \in {memory[a] : a \in {Top} \cap DOMAIN memory} \cup {Rest[d] : d \in At(Top, Rest)} :
          stack' = Append(Rest, word)
    /\ UNCHANGED <<context, memory, special, access>>
Write ==
    /\ Inside /\ Len(stack) >= 2
    /\ LET words == SubSeq(stack, 1, Len(stack) - 2)  word == stack[Len(stack) - 1] IN
         \/ /\ Top \in DOMAIN memory
            /\ memory' = [memory EXCEPT ![Top] = word] /\ stack' = words
         \/ /\ \E d \in At(Top, words) : stack' = [words EXCEPT ![d] = word]
            /\ UNCHANGED memory
    /\ UNCHANGED <<context, special, access>>

\* VSP is the address of the top of the VM stack.
LoadStackPointer ==
    /\ Inside /\ Push(StackPointer(Len(stack)))
    /\ UNCHANGED <<context, memory, special, access>>
SetStackPointer ==
    /\ Inside /\ stack # <<>>
    /\ \E d \in 0..Len(stack) : StackPointer(d) = Top /\ stack' = SubSeq(stack, 1, d)
    /\ UNCHANGED <<context, memory, special, access>>

LoadCr0 == Inside /\ Push(special[CR0]) /\ UNCHANGED <<context, memory, special, access>>
StoreDr7 ==
    /\ Inside /\ stack # <<>>
    /\ special' = [special EXCEPT ![DR7] = Top] /\ stack' = Rest
    /\ UNCHANGED <<context, memory, access>>

\* The registers are taken from the VM stack, and then the return address.
Leave ==
    /\ phase = "inside" /\ Len(stack) > Len(PushOrder)
    /\ LET rest == Len(stack) - Len(PushOrder) IN
         /\ native' = [r \in Regs |->
                          stack[rest + CHOOSE k \in DOMAIN PushOrder : PushOrder[k] = r]]
         /\ target' = stack[rest]
         /\ stack' = SubSeq(stack, 1, rest - 1)
    /\ phase' = "left"
    /\ UNCHANGED <<context, memory, special, access>>

\* An access that the lifter refuses ends the program.
Abort ==
    /\ phase = "inside" /\ phase' = "aborted"
    /\ UNCHANGED <<context, stack, memory, native, special, target, access>>

Next ==
    \/ Enter \/ LoadConst \/ LoadReg \/ StoreReg \/ Read \/ Write
    \/ LoadStackPointer \/ SetStackPointer \/ LoadCr0 \/ StoreDr7 \/ Leave \/ Abort

Spec == Init /\ [][Next]_vars
=============================================================================
