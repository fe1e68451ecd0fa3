------------------------ MODULE VirtualContextProofs ------------------------
(***************************************************************************)
(* vmexit undoes the prologue, and the lifted code does what the virtual   *)
(* machine does with its context, for every push order of the registers.   *)
(***************************************************************************)
EXTENDS VirtualContext, SequenceTheorems, TLAPS

\* The order of the pops is the push order from its end.
LEMMA ExitOrderFacts ==
    /\ PushOrder \in Seq(Regs) /\ Len(PushOrder) \in Nat
    /\ DOMAIN PushOrder = 1..Len(PushOrder)
    /\ DOMAIN ExitOrder = 1..Len(PushOrder)
    /\ \A k \in 1..Len(PushOrder) : ExitOrder[k] = PushOrder[Len(PushOrder) - k + 1]
<1>1. PushOrder \in Seq(Regs)
  BY ContextAssumption
<1>2. Len(PushOrder) \in Nat /\ DOMAIN PushOrder = 1..Len(PushOrder)
  BY <1>1
<1>3. ExitOrder = [k \in 1..Len(PushOrder) |-> PushOrder[Len(PushOrder) - k + 1]]
  BY <1>2 DEF ExitOrder, Reverse
<1> QED BY <1>1, <1>2, <1>3

\* The pop that is a register's is unique: it is as far from the end of the
\* exit order as the push was from the start of the push order.
LEMMA PopOfRegister ==
    ASSUME NEW r \in Regs
    PROVE  LET k == CHOOSE k \in DOMAIN ExitOrder : ExitOrder[k] = r IN
           /\ k \in 1..Len(PushOrder)
           /\ PushOrder[Len(PushOrder) - k + 1] = r
<1>1. PICK j \in 1..Len(PushOrder) : PushOrder[j] = r
  BY ExitOrderFacts DEF Regs
<1>2. /\ Len(PushOrder) - j + 1 \in 1..Len(PushOrder)
      /\ Len(PushOrder) - (Len(PushOrder) - j + 1) + 1 = j
  BY ExitOrderFacts
<1>3. \E k \in DOMAIN ExitOrder : ExitOrder[k] = r
  BY <1>1, <1>2, ExitOrderFacts
<1> QED BY <1>3, ExitOrderFacts

\* The VM stack as the prologue leaves it, without the load delta.
LEMMA EntryStackFacts ==
    LET entry == <<Return>> \o [k \in DOMAIN PushOrder |-> EntryNative[PushOrder[k]]] IN
    /\ Len(entry) = Len(PushOrder) + 1
    /\ entry[1] = Return
    /\ \A k \in 1..Len(PushOrder) : entry[k + 1] = EntryNative[PushOrder[k]]
<1> DEFINE words == [k \in 1..Len(PushOrder) |-> EntryNative[PushOrder[k]]]
           values == {EntryNative[r] : r \in Regs}
<1>1. words \in Seq(values) /\ Len(words) = Len(PushOrder)
  <2>1. \A k \in 1..Len(PushOrder) : PushOrder[k] \in Regs
    BY ExitOrderFacts DEF Regs
  <2>2. \A k \in 1..Len(PushOrder) : EntryNative[PushOrder[k]] \in values
    BY <2>1
  <2> HIDE DEF values
  <2> QED BY <2>2, ExitOrderFacts
<1>2. <<Return>> \in Seq({Return})
  OBVIOUS
<1>3. /\ Len(<<Return>> \o words) = Len(PushOrder) + 1
      /\ (<<Return>> \o words)[1] = Return
      /\ \A k \in 1..Len(PushOrder) : (<<Return>> \o words)[k + 1] = words[k]
  <2> DEFINE all == values \cup {Return}
  <2>1. words \in Seq(all) /\ <<Return>> \in Seq(all)
    BY <1>1
  <2> HIDE DEF words, values, all
  <2> QED BY <1>1, <2>1, ExitOrderFacts
<1> QED BY <1>3, ExitOrderFacts

\* lifter_vmexit on that stack.
LEMMA VmexitRestores ==
    ASSUME LifterVmexit,
           stack = <<Return>> \o [k \in DOMAIN PushOrder |-> EntryNative[PushOrder[k]]]
    PROVE  native' = EntryNative /\ target' = Return /\ stack' = <<>>
<1>1. /\ Len(stack) = Len(PushOrder) + 1 /\ stack[1] = Return
      /\ \A k \in 1..Len(PushOrder) : stack[k + 1] = EntryNative[PushOrder[k]]
  BY EntryStackFacts
<1>2. \A k \in 1..Len(PushOrder) : Popped(k) = EntryNative[PushOrder[Len(PushOrder) - k + 1]]
  BY <1>1, ExitOrderFacts DEF Popped
<1>3. \A r \in Regs : native'[r] = EntryNative[r]
  <2> TAKE r \in Regs
  <2> DEFINE k == CHOOSE k \in DOMAIN ExitOrder : ExitOrder[k] = r
  <2>1. native'[r] = Popped(k)
    BY DEF LifterVmexit
  <2>2. k \in 1..Len(PushOrder) /\ PushOrder[Len(PushOrder) - k + 1] = r
    BY PopOfRegister
  <2> HIDE DEF k
  <2> QED BY <1>2, <2>1, <2>2
<1>4. native' = EntryNative
  <2>1. native' = [r \in Regs |-> native'[r]]
    BY DEF LifterVmexit
  <2>2. EntryNative = [r \in Regs |-> EntryNative[r]]
    BY ContextAssumption
  <2> QED BY <1>3, <2>1, <2>2
<1>5. target' = Return
  BY <1>1, ExitOrderFacts DEF LifterVmexit, ReturnAddress, Popped
<1>6. stack' = <<>>
  <2>1. stack' = SubSeq(stack, 1, 0)
    BY <1>1, ExitOrderFacts DEF LifterVmexit
  <2> QED BY <2>1
<1> QED BY <1>4, <1>5, <1>6

\* For every set of registers and every push order, VMEXIT on the stack that
\* VMENTER left, but for the load delta, gives each register its own value
\* back and goes on at the return address (lifters.cpp:304-311).
THEOREM RestoredTheorem == Spec => RegistersRestored
<1> DEFINE Restored ==
      (/\ phase' = "left"
       /\ stack = <<Return>> \o [k \in DOMAIN PushOrder |-> EntryNative[PushOrder[k]]])
      => native' = EntryNative /\ target' = Return /\ stack' = <<>>
<1>1. Next => Restored
  <2> SUFFICES ASSUME Next PROVE Restored
    OBVIOUS
  <2>1. CASE LifterVmexit
    BY <2>1, VmexitRestores
  <2>2. CASE LiftPrologue \/ LifterLconst \/ LifterLreg \/ LifterSreg \/ LifterRead
             \/ LifterWrite \/ LifterLvsp \/ LifterSvsp \/ LifterLcr0 \/ LifterWritedr7
    <3>1. phase' # "left"
      BY <2>2 DEF LiftPrologue, LifterLconst, LifterLreg, LifterSreg, LifterRead, LifterWrite,
                  LifterLvsp, LifterSvsp, LifterLcr0, LifterWritedr7, Inside
    <3> QED BY <3>1
  <2> QED BY <2>1, <2>2 DEF Next
<1>2. [Next]_vars => [Restored]_vars
  BY <1>1
<1> QED BY <1>2, PTL DEF Spec, RegistersRestored

-----------------------------------------------------------------------------
\* A range of the context that fits is a range of one virtual register.
LEMMA RowFacts ==
    ASSUME NEW w \in Nat \ {0}, NEW q \in Nat, NEW r \in 0..(w - 1)
    PROVE  (w * q + r) \div w = q /\ (w * q + r) % w = r
OBVIOUS

\* An offset is a register and a byte within it.
LEMMA SplitFacts ==
    ASSUME NEW o \in Nat, NEW w \in Nat \ {0}
    PROVE  /\ o \div w \in Nat /\ o % w \in 0..(w - 1)
           /\ o = w * (o \div w) + (o % w)
OBVIOUS

\* That is what RegisterId and FirstByte give for an offset of the context.
LEMMA OffsetFacts ==
    ASSUME NEW o \in Offsets
    PROVE  /\ o \in Nat /\ RegisterId(o) \in 0..(ContextRegs - 1)
           /\ FirstByte(o) \in 0..(RegBytes - 1)
           /\ o = RegBytes * RegisterId(o) + FirstByte(o)
<1>1. PICK w \in Nat \ {0}, c \in Nat \ {0} : w = RegBytes /\ c = ContextRegs
    BY ContextAssumption
<1>2. o \in Nat /\ o < w * c
    <2>1. w * c \in Nat
        OBVIOUS
    <2> QED BY <1>1, <2>1 DEF Offsets, ContextSize
<1>3. PICK q \in Nat, r \in 0..(w - 1) : o = w * q + r /\ q = o \div w /\ r = o % w
    BY <1>2, SplitFacts
<1>4. q < c
    <2>1. SUFFICES ASSUME q >= c PROVE FALSE
        BY <1>1, <1>3
    <2>2. w * q >= w * c
        BY <2>1
    <2> QED BY <1>2, <1>3, <2>2
<1> QED BY <1>1, <1>2, <1>3, <1>4 DEF RegisterId, FirstByte

\* Any byte of any register is one of the context.
LEMMA InRegister ==
    ASSUME NEW q \in 0..(ContextRegs - 1), NEW r \in 0..(RegBytes - 1), NEW o,
           o = RegBytes * q + r
    PROVE  o \in Offsets /\ RegisterId(o) = q /\ FirstByte(o) = r
<1>1. PICK w \in Nat \ {0}, c \in Nat \ {0} : w = RegBytes /\ c = ContextRegs
    BY ContextAssumption
<1>2. q \in Nat /\ r \in 0..(w - 1) /\ o = w * q + r
    BY <1>1
<1>3. o \div w = q /\ o % w = r
    BY <1>2, RowFacts
<1>4. o < w * c
    <2>1. q + 1 <= c
        BY <1>1
    <2>2. w * (q + 1) <= w * c
        BY <1>2, <2>1
    <2>3. w * (q + 1) = w * q + w
        BY <1>2
    <2>4. w * q \in Nat /\ w * c \in Nat
        BY <1>2
    <2> QED BY <1>2, <2>2, <2>3, <2>4
<1>5. o \in Nat /\ w * c \in Nat
    <2>1. w * q \in Nat /\ w * c \in Nat
        BY <1>2
    <2> QED BY <1>2, <2>1
<1> QED BY <1>1, <1>3, <1>4, <1>5 DEF Offsets, ContextSize, RegisterId, FirstByte

\* A range that fits stays within the context and within one register.
LEMMA RangeFacts ==
    ASSUME NEW o \in Offsets, NEW size \in Nat \ {0}, Fits(o, size)
    PROVE  /\ o + size <= ContextSize /\ ContextSize \in Nat
           /\ \A k \in 1..size :
                /\ o + k - 1 \in Offsets
                /\ RegisterId(o + k - 1) = RegisterId(o)
                /\ FirstByte(o + k - 1) = FirstByte(o) + k - 1
<1>1. PICK w \in Nat \ {0}, q \in 0..(ContextRegs - 1), r \in 0..(RegBytes - 1) :
         w = RegBytes /\ q = RegisterId(o) /\ r = FirstByte(o) /\ o = w * q + r
    BY ContextAssumption, OffsetFacts
<1>2. r + size <= w
    BY <1>1 DEF Fits, FirstByte
<1>3. ASSUME NEW k \in 1..size
      PROVE  /\ o + k - 1 \in Offsets /\ RegisterId(o + k - 1) = q
             /\ FirstByte(o + k - 1) = r + k - 1
    <2>1. r + k - 1 \in 0..(w - 1)
        BY <1>1, <1>2
    <2>2. PICK p \in Int : p = w * q
        BY <1>1, ContextAssumption
    <2>3. o + k - 1 = w * q + (r + k - 1)
        BY <1>1, <2>2
    <2> QED BY <1>1, <2>1, <2>3, InRegister
<1>4. ContextSize \in Nat
    BY ContextAssumption DEF ContextSize
<1>5. o + size <= ContextSize
    <2>1. o + size - 1 \in Offsets
        BY <1>3
    <2>2. o \in Nat
        BY OffsetFacts
    <2> QED BY <1>4, <2>1, <2>2 DEF Offsets
<1> QED BY <1>1, <1>3, <1>4, <1>5

\* A byte of the context is in such a range exactly when its bits are among those named.
LEMMA InRange ==
    ASSUME NEW o \in Offsets, NEW size \in Nat \ {0}, Fits(o, size), NEW b \in Offsets
    PROVE  b \in o..(o + size - 1)
             <=> RegisterId(b) = RegisterId(o) /\ FirstByte(b) \in FirstByte(o)..(FirstByte(o) + size - 1)
<1>1. PICK n \in Nat, m \in Nat : n = o /\ m = b
    BY OffsetFacts
<1>2. ASSUME b \in o..(o + size - 1)
      PROVE  RegisterId(b) = RegisterId(o) /\ FirstByte(b) \in FirstByte(o)..(FirstByte(o) + size - 1)
    <2>1. PICK k \in 1..size : k = m - n + 1 /\ n + k - 1 = m
        BY <1>1, <1>2
    <2>2. o + k - 1 = b
        BY <1>1, <2>1
    <2>3. RegisterId(b) = RegisterId(o) /\ FirstByte(b) = FirstByte(o) + k - 1
        BY <2>2, RangeFacts
    <2>4. FirstByte(o) \in Nat
        BY OffsetFacts, ContextAssumption
    <2> QED BY <2>1, <2>3, <2>4
<1>3. ASSUME RegisterId(b) = RegisterId(o), FirstByte(b) \in FirstByte(o)..(FirstByte(o) + size - 1)
      PROVE  b \in o..(o + size - 1)
    <2>1. PICK p \in Int : p = RegBytes * RegisterId(o)
        BY OffsetFacts, ContextAssumption
    <2>2. n = p + FirstByte(o) /\ m = p + FirstByte(b) /\ FirstByte(o) \in Nat /\ FirstByte(b) \in Nat
        BY <1>1, <1>3, <2>1, OffsetFacts, ContextAssumption
    <2> QED BY <1>1, <1>3, <2>2
<1> QED BY <1>2, <1>3

-----------------------------------------------------------------------------
\* Types, without the bound on the VM stack.
CInv ==
    /\ vregs \in [0..(ContextRegs - 1) -> [0..(RegBytes - 1) -> Byte]]
    /\ stack \in Seq(Word)
    /\ memory \in [DOMAIN EntryMemory -> Word]
    /\ native \in [Regs -> Word]
    /\ special \in [{CR0, DR7} -> Word]

\* A word is a nonempty sequence of bytes.
LEMMA WordFacts ==
    ASSUME NEW word \in Word
    PROVE  /\ Len(word) \in Sizes /\ Len(word) \in Nat \ {0}
           /\ word \in [1..Len(word) -> Byte]
<1>1. PICK n \in Sizes : word \in [1..n -> Byte]
    BY DEF Word
<1>2. n \in Nat \ {0}
    BY ContextAssumption DEF Sizes
<1>3. word \in Seq(Byte) /\ Len(word) = n
    BY <1>1, <1>2
<1> QED BY <1>1, <1>2, <1>3

\* Bytes in a sequence of an operand's size are a word.
LEMMA IsWord == ASSUME NEW n \in Sizes, NEW word \in [1..n -> Byte] PROVE word \in Word
BY DEF Word

\* What fills a register is a word.
LEMMA RegistersAreWords == ASSUME NEW v \in [1..RegBytes -> Byte] PROVE v \in Word
<1>1. RegBytes \in Sizes
    BY ContextAssumption DEF Sizes
<1> QED BY <1>1, IsWord

\* The VM stack, its top and what is below it.
LEMMA StackFacts ==
    ASSUME CInv
    PROVE  /\ Len(stack) \in Nat /\ DOMAIN stack = 1..Len(stack)
           /\ stack # <<>> => /\ Len(stack) \in Nat \ {0}
                              /\ Last(stack) = stack[Len(stack)] /\ Last(stack) \in Word
                              /\ Front(stack) = SubSeq(stack, 1, Len(stack) - 1)
           /\ \A d \in 1..Len(stack) : stack[d] \in Word
           /\ \A n \in 0..Len(stack) :
                /\ SubSeq(stack, 1, n) \in Seq(Word) /\ Len(SubSeq(stack, 1, n)) = n
                /\ DOMAIN SubSeq(stack, 1, n) = 1..n
                /\ \A d \in 1..n : SubSeq(stack, 1, n)[d] = stack[d]
<1>1. PICK s \in Seq(Word) : s = stack
    BY DEF CInv
<1>2. Len(s) \in Nat /\ DOMAIN s = 1..Len(s) /\ \A d \in 1..Len(s) : s[d] \in Word
    BY <1>1
<1>3. \A n \in 0..Len(s) :
         /\ SubSeq(s, 1, n) \in Seq(Word) /\ Len(SubSeq(s, 1, n)) = n
         /\ DOMAIN SubSeq(s, 1, n) = 1..n
         /\ \A d \in 1..n : SubSeq(s, 1, n)[d] = s[d]
    BY <1>2
<1>4. s # <<>> => Len(s) \in Nat \ {0}
    BY <1>1
<1>5. Last(s) = s[Len(s)] /\ Front(s) = SubSeq(s, 1, Len(s) - 1)
    BY DEF Last, Front
<1> QED BY <1>1, <1>2, <1>3, <1>4, <1>5

\* A push leaves words on the VM stack.
LEMMA PushFacts ==
    ASSUME CInv, NEW word \in Word, stack' = Append(stack, word)
    PROVE  stack' \in Seq(Word)
BY DEF CInv

\* LREG pushes a word.
LEMMA LregWord ==
    ASSUME CInv, NEW o \in Offsets, NEW size \in Sizes, Fits(o, size)
    PROVE  [k \in 1..size |-> vregs[RegisterId(o)][FirstByte(o) + k - 1]] \in Word
<1>1. size \in Nat \ {0}
    BY ContextAssumption DEF Sizes
<1>2. ASSUME NEW k \in 1..size PROVE vregs[RegisterId(o)][FirstByte(o) + k - 1] \in Byte
    <2>1. /\ RegisterId(o) \in 0..(ContextRegs - 1)
          /\ FirstByte(o) + k - 1 \in 0..(RegBytes - 1)
        BY <1>1, RangeFacts, OffsetFacts
    <2>2. vregs[RegisterId(o)] \in [0..(RegBytes - 1) -> Byte]
        BY <2>1 DEF CInv
    <2> QED BY <2>1, <2>2
<1>3. [k \in 1..size |-> vregs[RegisterId(o)][FirstByte(o) + k - 1]] \in [1..size -> Byte]
    BY <1>2
<1> QED BY <1>3, IsWord

\* The types hold at first, and each action keeps them.
LEMMA InitTypes == Init => CInv
<1> SUFFICES ASSUME Init PROVE CInv
    OBVIOUS
<1>1. vregs \in [0..(ContextRegs - 1) -> [0..(RegBytes - 1) -> Byte]]
    BY ContextAssumption DEF Init
<1>2. stack \in Seq(Word)
    BY WordAssumption DEF Init
<1>3. native \in [Regs -> Word]
    BY ContextAssumption, RegistersAreWords DEF Init
<1> QED BY <1>1, <1>2, <1>3, WordAssumption DEF Init, CInv

LEMMA PrologueTypes ==
    ASSUME CInv, LiftPrologue PROVE CInv'
<1>1. Delta \in Word
    BY ContextAssumption, RegistersAreWords DEF Delta
<1>2. [k \in DOMAIN PushOrder |-> native[PushOrder[k]]] \in Seq(Word)
    <2>1. \A k \in 1..Len(PushOrder) : PushOrder[k] \in Regs
        BY ExitOrderFacts DEF Regs
    <2>2. \A k \in 1..Len(PushOrder) : native[PushOrder[k]] \in Word
        BY <2>1 DEF CInv
    <2> QED BY <2>2, ExitOrderFacts
<1>3. stack' \in Seq(Word)
    <2>1. PICK words \in Seq(Word) : words = [k \in DOMAIN PushOrder |-> native[PushOrder[k]]]
        BY <1>2
    <2>2. stack' = stack \o words \o <<Delta>> /\ stack \in Seq(Word) /\ <<Delta>> \in Seq(Word)
        BY <1>1, <2>1 DEF LiftPrologue, CInv
    <2> QED BY <2>1, <2>2
<1> QED BY <1>3 DEF LiftPrologue, CInv

\* Where SREG writes, and how much.
LEMMA SregPlace ==
    ASSUME NEW word \in Word, NEW o \in Offsets
    PROVE  /\ RegisterId(o) \in 0..(ContextRegs - 1) /\ FirstByte(o) \in Nat
           /\ Len(word) \in Nat \ {0}
<1>1. RegisterId(o) \in 0..(ContextRegs - 1) /\ FirstByte(o) \in 0..(RegBytes - 1)
    BY OffsetFacts
<1>2. Len(word) \in Nat \ {0}
    BY WordFacts
<1> QED BY <1>1, <1>2

\* SREG leaves bytes in the registers.
LEMMA SregTypes ==
    ASSUME CInv, NEW word \in Word, NEW o \in Offsets, Fits(o, Len(word)),
           vregs' = [vregs EXCEPT ![RegisterId(o)] =
                       [b \in DOMAIN @ |->
                          IF b \in FirstByte(o)..(FirstByte(o) + Len(word) - 1)
                          THEN word[b - FirstByte(o) + 1] ELSE @[b]]]
    PROVE  /\ vregs' \in [0..(ContextRegs - 1) -> [0..(RegBytes - 1) -> Byte]]
           /\ \A id \in 0..(ContextRegs - 1), b \in 0..(RegBytes - 1) :
                vregs'[id][b] =
                    IF id = RegisterId(o) /\ b \in FirstByte(o)..(FirstByte(o) + Len(word) - 1)
                    THEN word[b - FirstByte(o) + 1] ELSE vregs[id][b]
<1>1. PICK q \in 0..(ContextRegs - 1), r \in Nat, len \in Nat \ {0} :
         q = RegisterId(o) /\ r = FirstByte(o) /\ len = Len(word)
    BY SregPlace
<1>2. PICK old \in [0..(RegBytes - 1) -> Byte] : old = vregs[q]
    BY DEF CInv
<1> DEFINE new == [b \in 0..(RegBytes - 1) |->
                      IF b \in r..(r + len - 1) THEN word[b - r + 1] ELSE old[b]]
<1>3. vregs' = [vregs EXCEPT ![q] = new]
    BY <1>1, <1>2
<1>4. new \in [0..(RegBytes - 1) -> Byte]
    <2>1. ASSUME NEW b \in 0..(RegBytes - 1), b \in r..(r + len - 1)
          PROVE  word[b - r + 1] \in Byte
        <3>1. b - r + 1 \in 1..len
            BY <1>1, <2>1
        <3> QED BY <1>1, <3>1, WordFacts
    <2> QED BY <1>2, <2>1
<1>5. vregs' \in [0..(ContextRegs - 1) -> [0..(RegBytes - 1) -> Byte]]
    BY <1>3, <1>4 DEF CInv
<1>6. vregs'[q] = new /\ \A id \in 0..(ContextRegs - 1) : id # q => vregs'[id] = vregs[id]
    BY <1>3 DEF CInv
<1> QED BY <1>1, <1>2, <1>5, <1>6

\* Pops take the words from the end of the VM stack.
LEMMA PoppedFacts ==
    ASSUME CInv, NEW n \in Nat \ {0}, n <= Len(stack)
    PROVE  /\ \A k \in 1..n : Popped(k) = stack[Len(stack) - k + 1] /\ Popped(k) \in Word
           /\ Below(n) = SubSeq(stack, 1, Len(stack) - n) /\ Below(n) \in Seq(Word)
           /\ Len(Below(n)) = Len(stack) - n /\ DOMAIN Below(n) = 1..(Len(stack) - n)
           /\ \A d \in DOMAIN Below(n) : Below(n)[d] = stack[d] /\ stack[d] \in Word
<1>1. PICK len \in Nat : len = Len(stack)
    BY StackFacts
<1>2. \A k \in 1..n : len - k + 1 \in 1..len
    BY <1>1
<1>3. len - n \in 0..len
    BY <1>1
<1>4. \A d \in 1..(len - n) : d \in 1..len
    BY <1>1
<1> QED BY <1>1, <1>2, <1>3, <1>4, StackFacts DEF Popped, Below

LEMMA ConstTypes == ASSUME CInv, LifterLconst PROVE CInv'
<1>1. stack' \in Seq(Word)
    BY PushFacts, WordAssumption DEF LifterLconst, Push
<1> QED BY <1>1 DEF LifterLconst, Inside, CInv

LEMMA LregTypes == ASSUME CInv, LifterLreg PROVE CInv'
<1>1. stack' \in Seq(Word)
    <2>1. CASE stack' = stack
        BY <2>1 DEF CInv
    <2>2. ASSUME NEW o \in Offsets, NEW size \in Sizes, Fits(o, size),
                 Push([k \in 1..size |-> vregs[RegisterId(o)][FirstByte(o) + k - 1]])
          PROVE  stack' \in Seq(Word)
        BY <2>2, LregWord, PushFacts DEF Push
    <2> QED BY <2>1, <2>2 DEF LifterLreg
<1> QED BY <1>1 DEF LifterLreg, Inside, CInv

LEMMA SregStep ==
    ASSUME CInv, LifterSreg PROVE CInv'
<1>1. stack # <<>> /\ Last(stack) \in Word /\ Front(stack) \in Seq(Word)
    <2>1. stack # <<>> /\ Len(stack) - 1 \in 0..Len(stack)
        BY StackFacts DEF LifterSreg
    <2> QED BY <2>1, StackFacts
<1>2. /\ stack' \in Seq(Word)
      /\ vregs' \in [0..(ContextRegs - 1) -> [0..(RegBytes - 1) -> Byte]]
    <2>1. CASE UNCHANGED <<stack, vregs>>
        BY <2>1 DEF CInv
    <2>2. ASSUME NEW o \in Offsets, Fits(o, Len(Last(stack))), stack' = Front(stack),
                 vregs' = [vregs EXCEPT ![RegisterId(o)] =
                             [b \in DOMAIN @ |->
                                IF b \in FirstByte(o)..(FirstByte(o) + Len(Last(stack)) - 1)
                                THEN Last(stack)[b - FirstByte(o) + 1] ELSE @[b]]]
          PROVE  /\ stack' \in Seq(Word)
                 /\ vregs' \in [0..(ContextRegs - 1) -> [0..(RegBytes - 1) -> Byte]]
        BY <1>1, <2>2, SregTypes
    <2> QED BY <2>1, <2>2 DEF LifterSreg
<1> QED BY <1>2 DEF LifterSreg, Inside, CInv

LEMMA ReadTypes == ASSUME CInv, LifterRead PROVE CInv'
<1>1. Len(stack) \in Nat \ {0}
    BY StackFacts DEF LifterRead
<1>2. Below(1) \in Seq(Word) /\ \A d \in DOMAIN Below(1) : stack[d] \in Word
    BY <1>1, PoppedFacts
<1>3. stack' \in Seq(Word)
    <2>1. ASSUME NEW word \in Word, stack' = Append(Below(1), word) PROVE stack' \in Seq(Word)
        BY <1>2, <2>1
    <2>2. \A a \in DOMAIN memory : memory[a] \in Word
        BY DEF CInv
    <2>3. \A d \in Slots(Popped(1), Below(1)) : stack[d] \in Word
        BY <1>2 DEF Slots
    <2> QED BY <2>1, <2>2, <2>3 DEF LifterRead
<1> QED BY <1>3 DEF LifterRead, Inside, CInv

LEMMA WriteTypes == ASSUME CInv, LifterWrite PROVE CInv'
<1>1. Len(stack) \in Nat /\ Len(stack) >= 2
    BY StackFacts DEF LifterWrite
<1>2. Below(2) \in Seq(Word) /\ Popped(2) \in Word
    BY <1>1, PoppedFacts
<1>3. stack' \in Seq(Word) /\ memory' \in [DOMAIN EntryMemory -> Word]
    <2>1. WriteTo(Popped(1), Popped(2))
        BY DEF LifterWrite
    <2>2. CASE memory' = [memory EXCEPT ![Popped(1)] = Popped(2)] /\ stack' = Below(2)
        BY <1>2, <2>2 DEF CInv
    <2>3. ASSUME NEW d \in Slots(Popped(1), Below(2)),
                 stack' = [Below(2) EXCEPT ![d] = Popped(2)], UNCHANGED memory
          PROVE  stack' \in Seq(Word) /\ memory' \in [DOMAIN EntryMemory -> Word]
        <3>1. d \in DOMAIN Below(2)
            BY DEF Slots
        <3>2. [Below(2) EXCEPT ![d] = Popped(2)] \in Seq(Word)
            BY <1>2, <3>1
        <3> QED BY <2>3, <3>2 DEF CInv
    <2> QED BY <2>1, <2>2, <2>3 DEF WriteTo
<1> QED BY <1>3 DEF LifterWrite, Inside, CInv

LEMMA LvspTypes == ASSUME CInv, LifterLvsp PROVE CInv'
<1>1. Len(stack) \in 0..MaxStack /\ stack' = Append(stack, StackPointer(Len(stack)))
    BY StackFacts, ContextAssumption DEF LifterLvsp, Push
<1>2. StackPointer(Len(stack)) \in Word
    BY <1>1, WordAssumption
<1>3. stack' \in Seq(Word)
    BY <1>1, <1>2, PushFacts
<1> QED BY <1>3 DEF LifterLvsp, Inside, CInv

LEMMA SvspTypes == ASSUME CInv, LifterSvsp PROVE CInv'
<1>1. stack' \in Seq(Word)
    BY StackFacts DEF LifterSvsp
<1> QED BY <1>1 DEF LifterSvsp, Inside, CInv

-----------------------------------------------------------------------------
\* The register table.  Where the array has a register, it is the one of the
\* enumeration; where it has none, the class of the register has none.
Classes ==
    {"none", "gp8", "gp16", "gp32", "gp64", "st", "x87", "mm", "xmm", "ymm", "zmm", "flags",
     "ip", "segment", "table", "test", "cr", "dr", "mask", "bound", "other"}
Registers == Classes \X Int
NotMapped == {"none", "x87", "table", "test", "bound", "other"}
Mapped(zyreg) == IF zyreg[1] \in NotMapped THEN INVALID ELSE Meant(zyreg)

LEMMA ClassFacts ==
    /\ INVALID \in Registers /\ EFLAGS \in Registers
    /\ NotMapped \subseteq Classes
    /\ \A class \in NotMapped, n \in Int : Mapped(<<class, n>>) = INVALID
    /\ \A class \in Classes, n \in Int :
         class \notin NotMapped /\ class # "flags" => Mapped(<<class, n>>) = <<class, n>>
    /\ \A n \in Int : Mapped(<<"flags", n>>) = EFLAGS
<1>1. INVALID \in Registers /\ EFLAGS \in Registers
    BY DEF INVALID, EFLAGS, Registers, Classes
<1>2. NotMapped \subseteq Classes
    BY DEF NotMapped, Classes
<1>3. \A class \in NotMapped, n \in Int : Mapped(<<class, n>>) = INVALID
    BY DEF Mapped
<1>4. \A class \in Classes, n \in Int :
          class \notin NotMapped /\ class # "flags" => Mapped(<<class, n>>) = <<class, n>>
    BY DEF Mapped, Meant
<1>5. \A n \in Int : Mapped(<<"flags", n>>) = EFLAGS
    <2>1. "flags" \notin NotMapped
        BY DEF NotMapped
    <2> QED BY <2>1 DEF Mapped, Meant
<1> QED BY <1>1, <1>2, <1>3, <1>4, <1>5

LEMMA KeptClasses ==
    \A class \in {"gp8", "gp16", "gp32", "gp64", "st", "mm", "xmm", "ymm", "zmm",
                  "ip", "segment", "cr", "dr", "mask"} :
        class \in Classes /\ class \notin NotMapped /\ class # "flags"
BY DEF Classes, NotMapped

LEMMA ListedClasses ==
    \A class \in {"none", "gp8", "gp16", "gp32", "gp64", "st", "x87", "mm", "xmm", "ymm", "zmm",
                  "flags", "ip", "segment", "table", "test", "cr", "dr", "mask", "bound", "other"} :
        class \in Classes
BY DEF Classes

LEMMA Associative ==
    \A s, t, u \in Seq(Registers) : (s \o t) \o u = s \o (t \o u)
BY ConcatAssociative

\* Two sequences of registers of which the second maps the first.
Maps(s, t) ==
    /\ s \in Seq(Registers) /\ t \in Seq(Registers) /\ Len(t) = Len(s)
    /\ \A i \in 1..Len(s) : t[i] = Mapped(s[i])

LEMMA MapsBoth ==
    ASSUME NEW s, NEW t, NEW u, NEW v, Maps(s, t), Maps(u, v)
    PROVE  Maps(s \o u, t \o v)
<1>1. s \o u \in Seq(Registers) /\ t \o v \in Seq(Registers) /\ Len(t \o v) = Len(s \o u)
    BY DEF Maps
<1>2. ASSUME NEW i \in 1..Len(s \o u) PROVE (t \o v)[i] = Mapped((s \o u)[i])
    <2>1. CASE i <= Len(s)
        <3>1. i \in 1..Len(s) /\ (s \o u)[i] = s[i] /\ (t \o v)[i] = t[i]
            BY <2>1 DEF Maps
        <3> QED BY <3>1 DEF Maps
    <2>2. CASE i > Len(s)
        <3>1. /\ i - Len(s) \in 1..Len(u)
              /\ (s \o u)[i] = u[i - Len(s)] /\ (t \o v)[i] = v[i - Len(s)]
            BY <2>2 DEF Maps
        <3> QED BY <3>1 DEF Maps
    <2> QED BY <2>1, <2>2 DEF Maps
<1> QED BY <1>1, <1>2 DEF Maps

\* Rows of registers that keep their place, and of those that have none.
LEMMA RowTypes ==
    ASSUME NEW class \in Classes, NEW count \in Nat
    PROVE  /\ Row(class, count) \in Seq(Registers) /\ Len(Row(class, count)) = count
           /\ \A i \in 1..count : Row(class, count)[i] = <<class, i - 1>>
BY DEF Row, Registers

LEMMA RowMaps ==
    ASSUME NEW class \in Classes, NEW count \in Nat, class \notin NotMapped, class # "flags"
    PROVE  Maps(Row(class, count), Row(class, count))
<1>1. \A i \in 1..count : i - 1 \in Int /\ Mapped(<<class, i - 1>>) = <<class, i - 1>>
    BY ClassFacts
<1> QED BY <1>1, RowTypes DEF Maps

LEMMA NoRowMaps ==
    ASSUME NEW class \in NotMapped, NEW count \in Nat
    PROVE  Maps(Row(class, count), Invalid(count))
<1>1. class \in Classes /\ INVALID \in Registers
    BY ClassFacts
<1>2. /\ Invalid(count) \in Seq(Registers) /\ Len(Invalid(count)) = count
      /\ \A i \in 1..count : Invalid(count)[i] = INVALID
    <2>1. Invalid(count) \in [1..count -> Registers]
        BY <1>1 DEF Invalid
    <2> QED BY <2>1 DEF Invalid
<1>3. \A i \in 1..count : Mapped(<<class, i - 1>>) = INVALID
    BY ClassFacts
<1> QED BY <1>1, <1>2, <1>3, RowTypes DEF Maps

LEMMA FlagsMap == Maps(Row("flags", 3), Flags)
<1>1. Flags \in Seq(Registers) /\ Len(Flags) = 3 /\ \A i \in 1..3 : Flags[i] = EFLAGS
    BY ClassFacts DEF Flags
<1>2. "flags" \in Classes
    BY DEF Classes
<1>3. \A i \in 1..3 : Mapped(<<"flags", i - 1>>) = EFLAGS
    BY ClassFacts
<1>4. /\ Row("flags", 3) \in Seq(Registers) /\ Len(Row("flags", 3)) = 3
      /\ \A i \in 1..3 : Row("flags", 3)[i] = <<"flags", i - 1>>
    BY <1>2, RowTypes
<1> QED BY <1>1, <1>3, <1>4 DEF Maps

\* A part of the array goes on behind another as its rows do.
LEMMA MapsPart ==
    ASSUME NEW s, NEW t, Maps(s, t), NEW a, NEW b, Maps(a, b), NEW c, NEW d, Maps(c, d)
    PROVE  Maps((s \o a) \o c, t \o (b \o d))
<1>1. Maps((s \o a) \o c, (t \o b) \o d)
    BY MapsBoth
<1>2. (t \o b) \o d = t \o (b \o d)
    <2>1. t \in Seq(Registers) /\ b \in Seq(Registers) /\ d \in Seq(Registers)
        BY DEF Maps
    <2> QED BY <2>1, Associative
<1> QED BY <1>1, <1>2

LEMMA MapsPart3 ==
    ASSUME NEW s, NEW t, Maps(s, t), NEW a, NEW b, Maps(a, b), NEW c, NEW d, Maps(c, d),
           NEW e, NEW f, Maps(e, f)
    PROVE  Maps(((s \o a) \o c) \o e, t \o ((b \o d) \o f))
<1>1. Maps(((s \o a) \o c) \o e, (t \o (b \o d)) \o f)
    BY MapsPart, MapsBoth
<1>2. b \o d \in Seq(Registers) /\ t \in Seq(Registers) /\ f \in Seq(Registers)
    BY DEF Maps
<1>3. (t \o (b \o d)) \o f = t \o ((b \o d) \o f)
    BY <1>2, Associative
<1> QED BY <1>1, <1>3

LEMMA MapsPart4 ==
    ASSUME NEW s, NEW t, Maps(s, t), NEW a, NEW b, Maps(a, b), NEW c, NEW d, Maps(c, d),
           NEW e, NEW f, Maps(e, f), NEW g, NEW h, Maps(g, h)
    PROVE  Maps((((s \o a) \o c) \o e) \o g, t \o (((b \o d) \o f) \o h))
<1>1. Maps((((s \o a) \o c) \o e) \o g, (t \o ((b \o d) \o f)) \o h)
    BY MapsPart3, MapsBoth
<1>2. (b \o d) \o f \in Seq(Registers) /\ t \in Seq(Registers) /\ h \in Seq(Registers)
    BY DEF Maps
<1>3. (t \o ((b \o d) \o f)) \o h = t \o (((b \o d) \o f) \o h)
    BY <1>2, Associative
<1> QED BY <1>1, <1>3

LEMMA TableMaps == Maps(ZydisRegister, zyreg_to_capreg_map)
<1> DEFINE
      zNone == Row("none", 1)
      zGp == (((zNone \o Row("gp8", 20)) \o Row("gp16", 16)) \o Row("gp32", 16)) \o Row("gp64", 16)
      zFp == ((zGp \o Row("st", 8)) \o Row("x87", 3)) \o Row("mm", 8)
      zVec == ((zFp \o Row("xmm", 32)) \o Row("ymm", 32)) \o Row("zmm", 32)
      zSeg == ((zVec \o Row("flags", 3)) \o Row("ip", 3)) \o Row("segment", 6)
      zTest == (zSeg \o Row("table", 4)) \o Row("test", 8)
      zDr == (zTest \o Row("cr", 16)) \o Row("dr", 16)
      cNone == <<INVALID>>
      cGp == cNone \o GeneralPurpose
      cFp == cGp \o FloatingPoint
      cVec == cFp \o Vector
      cSeg == ((cVec \o Flags) \o InstructionPointer) \o Segment
      cTest == cSeg \o TableAndTest
      cDr == (cTest \o Control) \o Debug
<1>1. Maps(zNone, cNone)
    <2>1. Maps(zNone, Invalid(1))
        BY NoRowMaps DEF NotMapped
    <2>2. Invalid(1) = <<INVALID>>
        BY DEF Invalid
    <2> QED BY <2>1, <2>2
<1> HIDE DEF zNone, cNone
<1>2. Maps(zGp, cGp)
    <2>1. /\ Maps(Row("gp8", 20), Row("gp8", 20)) /\ Maps(Row("gp16", 16), Row("gp16", 16))
          /\ Maps(Row("gp32", 16), Row("gp32", 16)) /\ Maps(Row("gp64", 16), Row("gp64", 16))
        BY RowMaps, KeptClasses
    <2> QED BY <1>1, <2>1, MapsPart4 DEF GeneralPurpose
<1> HIDE DEF zGp, cGp
<1>3. Maps(zFp, cFp)
    <2>1. Maps(Row("st", 8), Row("st", 8)) /\ Maps(Row("mm", 8), Row("mm", 8))
        BY RowMaps, KeptClasses
    <2>2. Maps(Row("x87", 3), Invalid(3))
        BY NoRowMaps DEF NotMapped
    <2> QED BY <1>2, <2>1, <2>2, MapsPart3 DEF FloatingPoint
<1> HIDE DEF zFp, cFp
<1>4. Maps(zVec, cVec)
    <2>1. /\ Maps(Row("xmm", 32), Row("xmm", 32)) /\ Maps(Row("ymm", 32), Row("ymm", 32))
          /\ Maps(Row("zmm", 32), Row("zmm", 32))
        BY RowMaps, KeptClasses
    <2> QED BY <1>3, <2>1, MapsPart3 DEF Vector
<1> HIDE DEF zVec, cVec
<1>5. Maps(zSeg, cSeg)
    <2>1. Maps(Row("ip", 3), InstructionPointer) /\ Maps(Row("segment", 6), Segment)
        BY RowMaps, KeptClasses DEF InstructionPointer, Segment
    <2> QED BY <1>4, <2>1, FlagsMap, MapsBoth
<1> HIDE DEF zSeg, cSeg
<1>6. Maps(zTest, cTest)
    <2>1. Maps(Row("table", 4), Invalid(4)) /\ Maps(Row("test", 8), Invalid(8))
        BY NoRowMaps DEF NotMapped
    <2> QED BY <1>5, <2>1, MapsPart DEF TableAndTest
<1> HIDE DEF zTest, cTest
<1>7. Maps(zDr, cDr)
    <2>1. Maps(Row("cr", 16), Control) /\ Maps(Row("dr", 16), Debug)
        BY RowMaps, KeptClasses DEF Control, Debug
    <2> QED BY <1>6, <2>1, MapsBoth
<1> HIDE DEF zDr, cDr
<1>8. Maps(((zDr \o Row("mask", 8)) \o Row("bound", 6)) \o Row("other", 3), cDr \o Rest)
    <2>1. Maps(Row("mask", 8), Row("mask", 8))
        BY RowMaps, KeptClasses
    <2>2. Maps(Row("bound", 6), Invalid(6)) /\ Maps(Row("other", 3), Invalid(3))
        BY NoRowMaps DEF NotMapped
    <2> QED BY <1>7, <2>1, <2>2, MapsPart3 DEF Rest
<1> QED BY <1>8 DEF ZydisRegister, zyreg_to_capreg_map, zDr, cDr, zTest, cTest, zSeg, cSeg,
                    zVec, cVec, zFp, cFp, zGp, cGp, zNone, cNone

\* register_cast gives every register of Zydis's enumeration the register that
\* VTIL's code accesses for it, all parts of the flags the one flags register,
\* or the invalid one if its class is not in the table
\* (zyreg_to_register_desc.hpp:6-305).
THEOREM TableTheorem ==
    \A i \in DOMAIN ZydisRegister : Cast(ZydisRegister[i]) = Mapped(ZydisRegister[i])
<1> SUFFICES ASSUME NEW i \in DOMAIN ZydisRegister
             PROVE  Cast(ZydisRegister[i]) = Mapped(ZydisRegister[i])
    OBVIOUS
<1> DEFINE n == CHOOSE j \in DOMAIN ZydisRegister : ZydisRegister[j] = ZydisRegister[i]
<1>1. n \in DOMAIN ZydisRegister /\ ZydisRegister[n] = ZydisRegister[i]
    OBVIOUS
<1>2. n \in 1..Len(ZydisRegister)
    BY <1>1, TableMaps DEF Maps
<1>3. Cast(ZydisRegister[i]) = zyreg_to_capreg_map[n]
    BY <1>2 DEF Cast, Number
<1> QED BY <1>1, <1>2, <1>3, TableMaps DEF Maps

\* The enumeration has CR0.
LEMMA ControlListed == \E i \in DOMAIN ZydisRegister : ZydisRegister[i] = <<"cr", 0>>
<1> DEFINE
      Lists(s) == s \in Seq(Registers) /\ \E i \in 1..Len(s) : s[i] = <<"cr", 0>>
      before ==
          Row("none", 1)
            \o Row("gp8", 20) \o Row("gp16", 16) \o Row("gp32", 16) \o Row("gp64", 16)
            \o Row("st", 8) \o Row("x87", 3) \o Row("mm", 8)
            \o Row("xmm", 32) \o Row("ymm", 32) \o Row("zmm", 32)
            \o Row("flags", 3) \o Row("ip", 3) \o Row("segment", 6)
            \o Row("table", 4) \o Row("test", 8)
<1>1. before \in Seq(Registers)
    <2>1. \A t \in Seq(Registers), class \in Classes, count \in Nat :
              t \o Row(class, count) \in Seq(Registers)
        BY RowTypes
    <2> DEFINE
          gp == Row("none", 1) \o Row("gp8", 20) \o Row("gp16", 16) \o Row("gp32", 16) \o Row("gp64", 16)
          mm == gp \o Row("st", 8) \o Row("x87", 3) \o Row("mm", 8)
          zmm == mm \o Row("xmm", 32) \o Row("ymm", 32) \o Row("zmm", 32)
          ip == zmm \o Row("flags", 3) \o Row("ip", 3) \o Row("segment", 6)
    <2>2. gp \in Seq(Registers)
        BY <2>1, RowTypes, ListedClasses
    <2> HIDE DEF gp
    <2>3. mm \in Seq(Registers)
        BY <2>1, <2>2, ListedClasses
    <2> HIDE DEF mm
    <2>4. zmm \in Seq(Registers)
        BY <2>1, <2>3, ListedClasses
    <2> HIDE DEF zmm
    <2>5. ip \in Seq(Registers)
        BY <2>1, <2>4, ListedClasses
    <2> HIDE DEF ip
    <2>6. ip \o Row("table", 4) \o Row("test", 8) \in Seq(Registers)
        BY <2>1, <2>5, ListedClasses
    <2> QED BY <2>6 DEF ip, zmm, mm, gp
<1> HIDE DEF before
<1>2. ASSUME NEW s, NEW t \in Seq(Registers), Lists(s)
      PROVE  Lists(s \o t)
    <2>1. PICK i \in 1..Len(s) : s[i] = <<"cr", 0>>
        BY <1>2
    <2>2. i \in 1..Len(s \o t) /\ (s \o t)[i] = s[i] /\ s \o t \in Seq(Registers)
        BY <1>2
    <2> QED BY <2>1, <2>2
<1>3. Lists(before \o Row("cr", 16))
    <2>1. /\ Row("cr", 16) \in Seq(Registers) /\ Len(Row("cr", 16)) = 16
          /\ Row("cr", 16)[1] = <<"cr", 1 - 1>>
        <3>1. "cr" \in Classes /\ 16 \in Nat /\ 1 \in 1..16
            BY ListedClasses
        <3> QED BY <3>1, RowTypes
    <2>2. /\ Len(before) + 1 \in 1..Len(before \o Row("cr", 16))
          /\ (before \o Row("cr", 16))[Len(before) + 1] = Row("cr", 16)[1]
          /\ before \o Row("cr", 16) \in Seq(Registers)
        BY <1>1, <2>1
    <2> QED BY <2>1, <2>2
<1>4. /\ Row("dr", 16) \in Seq(Registers) /\ Row("mask", 8) \in Seq(Registers)
      /\ Row("bound", 6) \in Seq(Registers) /\ Row("other", 3) \in Seq(Registers)
    BY RowTypes, ListedClasses
<1> HIDE DEF Lists
<1>5. Lists(before \o Row("cr", 16) \o Row("dr", 16) \o Row("mask", 8) \o Row("bound", 6)
              \o Row("other", 3))
    BY <1>2, <1>3, <1>4
<1>6. Lists(ZydisRegister)
    BY <1>5 DEF before, ZydisRegister
<1>7. DOMAIN ZydisRegister = 1..Len(ZydisRegister)
    BY TableMaps DEF Maps
<1> QED BY <1>6, <1>7, Zenon DEF Lists

\* The casts of the pushed registers and of CR0 name what Zydis names.
LEMMA RegistersNamed ==
    /\ \A k \in DOMAIN VmentryPushOrder : Cast(VmentryPushOrder[k]) = Meant(VmentryPushOrder[k])
    /\ Cast(CR0) = CR0
<1>1. ASSUME NEW k \in DOMAIN VmentryPushOrder
      PROVE  Cast(VmentryPushOrder[k]) = Meant(VmentryPushOrder[k])
    <2>1. PICK i \in DOMAIN ZydisRegister : ZydisRegister[i] = VmentryPushOrder[k]
        BY PushedAssumption
    <2>2. VmentryPushOrder[k][1] \notin NotMapped
        BY PushedAssumption DEF NotMapped
    <2> QED BY <2>1, <2>2, TableTheorem DEF Mapped
<1>2. Cast(CR0) = CR0
    <2>1. PICK i \in DOMAIN ZydisRegister : ZydisRegister[i] = CR0
        BY ControlListed DEF CR0
    <2>2. Cast(CR0) = Meant(CR0)
        BY <2>1, TableTheorem DEF Mapped, CR0, NotMapped
    <2> QED BY <2>2 DEF Meant, CR0
<1> QED BY <1>1, <1>2

-----------------------------------------------------------------------------
LEMMA SpecialTypes ==
    ASSUME CInv, LifterLcr0 \/ LifterWritedr7 PROVE CInv'
<1>1. CASE LifterLcr0
    <2>1. special[Cast(CR0)] \in Word
        BY RegistersNamed DEF CInv
    <2>2. stack' \in Seq(Word)
        BY <1>1, <2>1, PushFacts DEF LifterLcr0, Push
    <2> QED BY <1>1, <2>2 DEF LifterLcr0, Inside, CInv
<1>2. CASE LifterWritedr7
    <2>1. stack # <<>>
        BY <1>2 DEF LifterWritedr7
    <2>2. Last(stack) \in Word /\ Front(stack) \in Seq(Word)
        BY <2>1, StackFacts
    <2> QED BY <1>2, <2>2 DEF LifterWritedr7, Inside, CInv
<1> QED BY <1>1, <1>2

LEMMA ExitTypes == ASSUME CInv, LifterVmexit PROVE CInv'
<1>1. Len(stack) \in Nat /\ Len(PushOrder) \in Nat /\ Len(stack) > Len(PushOrder)
    BY StackFacts, ExitOrderFacts DEF LifterVmexit
<1>2. stack' \in Seq(Word)
    <2>1. Len(stack) - Len(PushOrder) - 1 \in 0..Len(stack)
        BY <1>1
    <2> QED BY <2>1, StackFacts DEF LifterVmexit
<1>3. native' \in [Regs -> Word]
    <2>1. ASSUME NEW r \in Regs
          PROVE  Popped(CHOOSE k \in DOMAIN ExitOrder : ExitOrder[k] = r) \in Word
        <3>1. PICK k \in 1..Len(PushOrder) : k = CHOOSE l \in DOMAIN ExitOrder : ExitOrder[l] = r
            BY PopOfRegister
        <3>2. Len(stack) - k + 1 \in 1..Len(stack)
            BY <1>1
        <3>3. Popped(k) \in Word
            BY <3>2, StackFacts DEF Popped
        <3> QED BY <3>1, <3>3
    <2> QED BY <2>1 DEF LifterVmexit
<1> QED BY <1>2, <1>3 DEF LifterVmexit, CInv

\* So every step keeps them.
LEMMA TypesStay == ASSUME CInv, [Next]_vars PROVE CInv'
<1>1. CASE UNCHANGED vars
    BY <1>1 DEF vars, CInv
<1> QED BY <1>1, PrologueTypes, ConstTypes, LregTypes, SregStep, ReadTypes, WriteTypes,
           LvspTypes, SvspTypes, SpecialTypes, ExitTypes DEF Next

-----------------------------------------------------------------------------
\* Each action is one of the machine's.
Ctx == [o \in Offsets |-> vregs[o \div RegBytes][o % RegBytes]]

\* The context as an array of bytes.
LEMMA CtxFacts ==
    /\ DOMAIN Ctx = Offsets
    /\ \A o \in Offsets : Ctx[o] = vregs[RegisterId(o)][FirstByte(o)]
BY DEF Ctx, RegisterId, FirstByte

\* The machine has the same offsets, push order and registers.
LEMMA MachineConstants ==
    /\ [k \in DOMAIN VmentryPushOrder |-> Meant(VmentryPushOrder[k])] = PushOrder
    /\ Machine!Offsets = Offsets /\ Machine!Regs = Regs
<1>1. [k \in DOMAIN VmentryPushOrder |-> Meant(VmentryPushOrder[k])] = PushOrder
    BY RegistersNamed DEF PushOrder
<1>2. Machine!Offsets = Offsets
    BY DEF Machine!Offsets, Offsets
<1>3. Machine!Regs = {PushOrder[k] : k \in DOMAIN PushOrder}
    BY <1>1 DEF Machine!Regs
<1> QED BY <1>1, <1>2, <1>3 DEF Regs

\* The first state is one of the machine's.
LEMMA MachineInit == ASSUME Init PROVE Machine!Init
<1>1. CInv
    BY InitTypes
<1>2. Ctx \in [Offsets -> Byte]
    <2>1. ASSUME NEW o \in Offsets PROVE Ctx[o] \in Byte
        <3>1. RegisterId(o) \in 0..(ContextRegs - 1) /\ FirstByte(o) \in 0..(RegBytes - 1)
            BY OffsetFacts
        <3>2. vregs[RegisterId(o)] \in [0..(RegBytes - 1) -> Byte]
            BY <1>1, <3>1 DEF CInv
        <3>3. vregs[RegisterId(o)][FirstByte(o)] \in Byte
            BY <3>1, <3>2
        <3> QED BY <3>3, CtxFacts
    <2> QED BY <2>1, CtxFacts DEF Ctx
<1>3. Ctx \in [Machine!Offsets -> Byte] /\ native \in [Machine!Regs -> Word]
    BY <1>1, <1>2, MachineConstants DEF CInv
<1>4. DOMAIN memory \subseteq Word /\ \A address \in DOMAIN memory : memory[address] \in Word
    BY WordAssumption DEF Init
<1>5. special \in [{CR0, DR7} -> Word] /\ \E return \in Word : stack = <<return>>
    BY WordAssumption DEF Init
<1> QED BY <1>3, <1>4, <1>5 DEF Machine!Init, Init, Ctx

\* The bytes that LREG pushes are those of the context.
LEMMA LregBytes ==
    ASSUME NEW o \in Offsets, NEW size \in Sizes, Fits(o, size)
    PROVE  /\ [k \in 1..size |-> vregs[RegisterId(o)][FirstByte(o) + k - 1]] = Machine!Bytes(o, size)
           /\ size \in 1..(ContextSize - o)
<1>1. size \in Nat \ {0}
    BY ContextAssumption DEF Sizes
<1>2. \A k \in 1..size :
         /\ o + k - 1 \in Offsets
         /\ RegisterId(o + k - 1) = RegisterId(o) /\ FirstByte(o + k - 1) = FirstByte(o) + k - 1
    BY <1>1, RangeFacts
<1>3. \A k \in 1..size : Ctx[o + k - 1] = vregs[RegisterId(o)][FirstByte(o) + k - 1]
    BY <1>2, CtxFacts
<1>4. Machine!Bytes(o, size) = [k \in 1..size |-> Ctx[o + k - 1]]
    BY DEF Machine!Bytes, Ctx
<1>5. size \in 1..(ContextSize - o)
    BY <1>1, RangeFacts, OffsetFacts
<1> QED BY <1>3, <1>4, <1>5

LEMMA LregIsLoadReg ==
    ASSUME CInv, LifterLreg PROVE Machine!LoadReg \/ Machine!Abort
<1>1. /\ phase = "inside" /\ UNCHANGED <<native, target, vregs, memory, special>> /\ Ctx' = Ctx
    BY DEF LifterLreg, Inside, Ctx
<1>2. ASSUME NEW o \in Offsets, NEW size \in Sizes, Fits(o, size), access' = <<o, size>>,
             Push([k \in 1..size |-> vregs[RegisterId(o)][FirstByte(o) + k - 1]]), UNCHANGED phase
      PROVE  Machine!LoadReg
    <2>1. Machine!Push(Machine!Bytes(o, size)) /\ size \in 1..(ContextSize - o) /\ o \in Machine!Offsets
        BY <1>2, LregBytes, MachineConstants DEF Push, Machine!Push
    <2>2. Machine!Inside
        BY <1>1, <1>2 DEF Machine!Inside
    <2> QED BY <1>1, <1>2, <2>1, <2>2 DEF Machine!LoadReg, Ctx
<1>3. CASE phase' = "aborted" /\ UNCHANGED <<stack, access>>
    BY <1>1, <1>3 DEF Machine!Abort, Ctx
<1> QED BY <1>2, <1>3 DEF LifterLreg

\* The bytes that SREG leaves are those that it names.
LEMMA SregIsStoreReg ==
    ASSUME CInv, LifterSreg PROVE Machine!StoreReg \/ Machine!Abort
<1>1. phase = "inside" /\ UNCHANGED <<native, target, memory, special>> /\ stack # <<>>
    BY DEF LifterSreg, Inside
<1>2. PICK word \in Word : word = Last(stack) /\ word = stack[Len(stack)]
    BY <1>1, StackFacts
<1>3. Front(stack) = SubSeq(stack, 1, Len(stack) - 1)
    BY <1>1, StackFacts
<1>4. ASSUME NEW o \in Offsets, Fits(o, Len(word)), stack' = Front(stack), access' = <<o, Len(word)>>,
             vregs' = [vregs EXCEPT ![RegisterId(o)] =
                         [b \in DOMAIN @ |->
                            IF b \in FirstByte(o)..(FirstByte(o) + Len(word) - 1)
                            THEN word[b - FirstByte(o) + 1] ELSE @[b]]],
             UNCHANGED phase
      PROVE  Machine!StoreReg
    <2>1. o + Len(word) <= ContextSize /\ o \in Machine!Offsets
        BY <1>4, WordFacts, RangeFacts, MachineConstants
    <2>2. ASSUME NEW b \in Offsets
          PROVE  vregs'[RegisterId(b)][FirstByte(b)]
                   = IF b \in o..(o + Len(word) - 1) THEN word[b - o + 1] ELSE Ctx[b]
        <3>1. RegisterId(b) \in 0..(ContextRegs - 1) /\ FirstByte(b) \in 0..(RegBytes - 1)
            BY OffsetFacts
        <3>2. vregs'[RegisterId(b)][FirstByte(b)] =
                 IF RegisterId(b) = RegisterId(o)
                      /\ FirstByte(b) \in FirstByte(o)..(FirstByte(o) + Len(word) - 1)
                 THEN word[FirstByte(b) - FirstByte(o) + 1] ELSE vregs[RegisterId(b)][FirstByte(b)]
            BY <1>4, <3>1, SregTypes
        <3>3. CASE b \in o..(o + Len(word) - 1)
            <4>1. /\ RegisterId(b) = RegisterId(o)
                  /\ FirstByte(b) \in FirstByte(o)..(FirstByte(o) + Len(word) - 1)
                BY <1>4, <3>3, WordFacts, InRange
            <4>2. FirstByte(b) - FirstByte(o) = b - o
                <5>1. PICK p \in Int : p = RegBytes * RegisterId(o)
                    BY OffsetFacts, ContextAssumption
                <5>2. PICK n \in Nat, m \in Nat : n = FirstByte(o) /\ m = FirstByte(b)
                    BY <3>1, OffsetFacts, ContextAssumption
                <5>3. o = p + n /\ b = p + m
                    BY <4>1, <5>1, <5>2, OffsetFacts
                <5> QED BY <5>2, <5>3
            <4> QED BY <3>2, <3>3, <4>1, <4>2
        <3>4. CASE b \notin o..(o + Len(word) - 1)
            <4>1. ~ (/\ RegisterId(b) = RegisterId(o)
                     /\ FirstByte(b) \in FirstByte(o)..(FirstByte(o) + Len(word) - 1))
                BY <1>4, <3>4, WordFacts, InRange
            <4> QED BY <3>2, <3>4, <4>1, CtxFacts
        <3> QED BY <3>3, <3>4
    <2>3. Ctx' = [b \in Offsets |-> IF b \in o..(o + Len(word) - 1) THEN word[b - o + 1] ELSE Ctx[b]]
        <3>1. Ctx' = [b \in Offsets |-> vregs'[RegisterId(b)][FirstByte(b)]]
            BY DEF Ctx, RegisterId, FirstByte
        <3> QED BY <2>2, <3>1
    <2>4. Machine!Inside
        BY <1>1, <1>4 DEF Machine!Inside
    <2> QED BY <1>1, <1>2, <1>3, <1>4, <2>1, <2>3, <2>4, MachineConstants DEF Machine!StoreReg, Ctx
<1>5. CASE phase' = "aborted" /\ UNCHANGED <<stack, vregs, access>>
    BY <1>1, <1>5 DEF Machine!Abort, Ctx
<1> QED BY <1>2, <1>4, <1>5 DEF LifterSreg

\* The handlers that do not touch the context.
LEMMA InsideFacts ==
    ASSUME Inside, UNCHANGED <<vregs, phase>> PROVE Machine!Inside /\ Ctx' = Ctx
BY DEF Inside, Machine!Inside, Ctx

LEMMA PrologueIsEnter == ASSUME LiftPrologue PROVE Machine!Enter
BY MachineConstants DEF LiftPrologue, Machine!Enter, Ctx

\* The handlers that push a word from elsewhere.
LEMMA PushesAreLoads ==
    ASSUME LifterLconst \/ LifterLvsp \/ LifterLcr0
    PROVE  Machine!LoadConst \/ Machine!LoadStackPointer \/ Machine!LoadCr0
<1>1. /\ Inside /\ UNCHANGED <<vregs, phase>> /\ UNCHANGED <<memory, special, access>>
    BY DEF LifterLconst, LifterLvsp, LifterLcr0
<1>2. Machine!Inside /\ Ctx' = Ctx
    BY <1>1, InsideFacts
<1>3. \A word : Push(word) => Machine!Push(word)
    BY DEF Push, Machine!Push
<1>4. CASE LifterLconst
    BY <1>1, <1>2, <1>3, <1>4 DEF LifterLconst, Machine!LoadConst, Ctx
<1>5. CASE LifterLvsp
    BY <1>1, <1>2, <1>3, <1>5 DEF LifterLvsp, Machine!LoadStackPointer, Ctx
<1>6. CASE LifterLcr0
    BY <1>1, <1>2, <1>3, <1>6, RegistersNamed DEF LifterLcr0, Machine!LoadCr0, Ctx
<1> QED BY <1>4, <1>5, <1>6

\* Addresses reach the same words.
LEMMA ReadIsRead == ASSUME CInv, LifterRead PROVE Machine!Read
<1>1. /\ Machine!Inside /\ Ctx' = Ctx /\ UNCHANGED <<memory, special, access>> /\ stack # <<>>
    BY InsideFacts DEF LifterRead
<1>2. /\ Popped(1) = stack[Len(stack)] /\ Below(1) = SubSeq(stack, 1, Len(stack) - 1)
      /\ \A d \in DOMAIN Below(1) : Below(1)[d] = stack[d]
    <2>1. Len(stack) \in Nat /\ 1 <= Len(stack) /\ Len(stack) - 1 + 1 = Len(stack)
        BY <1>1, StackFacts
    <2>2. Popped(1) = stack[Len(stack)] /\ Below(1) = SubSeq(stack, 1, Len(stack) - 1)
        BY <2>1 DEF Popped, Below
    <2>3. \A d \in DOMAIN Below(1) : Below(1)[d] = stack[d]
        <3>1. 1 \in Nat \ {0}
            OBVIOUS
        <3> QED BY <2>1, <3>1, PoppedFacts
    <2> QED BY <2>2, <2>3
<1>3. Popped(1) = Machine!Top /\ Below(1) = Machine!Rest
    BY <1>2 DEF Machine!Top, Machine!Rest
<1>4. ASSUME NEW word, stack' = Append(Below(1), word),
             \/ Popped(1) \in DOMAIN memory /\ word = memory[Popped(1)]
             \/ \E d \in Slots(Popped(1), Below(1)) : word = stack[d]
      PROVE  Machine!Read
    <2>1. word \in {memory[a] : a \in {Machine!Top} \cap DOMAIN memory}
              \cup {Machine!Rest[d] : d \in Machine!At(Machine!Top, Machine!Rest)}
        BY <1>2, <1>3, <1>4 DEF Slots, Machine!At
    <2>2. stack' = Append(Machine!Rest, word)
        BY <1>3, <1>4
    <2> QED BY <1>1, <2>1, <2>2 DEF Machine!Read, Ctx
<1>5. CASE Popped(1) \in DOMAIN memory /\ stack' = Append(Below(1), memory[Popped(1)])
    BY <1>4, <1>5
<1>6. CASE \E d \in Slots(Popped(1), Below(1)) : stack' = Append(Below(1), stack[d])
    BY <1>4, <1>6
<1> QED BY <1>5, <1>6 DEF LifterRead

LEMMA WriteIsWrite == ASSUME CInv, LifterWrite PROVE Machine!Write
<1>1. /\ Machine!Inside /\ Ctx' = Ctx /\ UNCHANGED <<special, access>> /\ Len(stack) >= 2
      /\ WriteTo(Popped(1), Popped(2))
    BY InsideFacts DEF LifterWrite
<1>2. Popped(1) = Machine!Top /\ Popped(2) = stack[Len(stack) - 1]
    <2>1. Len(stack) - 1 + 1 = Len(stack) /\ Len(stack) - 2 + 1 = Len(stack) - 1
        BY StackFacts
    <2> QED BY <2>1 DEF Popped, Machine!Top
<1>3. Below(2) = SubSeq(stack, 1, Len(stack) - 2)
    BY DEF Below
<1>4. \A d : d \in Slots(Popped(1), Below(2))
                <=> d \in Machine!At(Machine!Top, SubSeq(stack, 1, Len(stack) - 2))
    BY <1>2, <1>3 DEF Slots, Machine!At
<1>5. CASE /\ Popped(1) \in DOMAIN memory /\ memory' = [memory EXCEPT ![Popped(1)] = Popped(2)]
           /\ stack' = Below(2)
    BY <1>1, <1>2, <1>3, <1>5 DEF Machine!Write, Ctx
<1>6. ASSUME NEW d \in Slots(Popped(1), Below(2)), stack' = [Below(2) EXCEPT ![d] = Popped(2)],
             UNCHANGED memory
      PROVE  Machine!Write
    BY <1>1, <1>2, <1>3, <1>4, <1>6 DEF Machine!Write, Ctx
<1> QED BY <1>1, <1>5, <1>6 DEF WriteTo

LEMMA SvspIsSet == ASSUME CInv, LifterSvsp PROVE Machine!SetStackPointer
<1>1. /\ Machine!Inside /\ Ctx' = Ctx /\ UNCHANGED <<memory, special, access>> /\ stack # <<>>
    BY InsideFacts DEF LifterSvsp
<1>2. Last(stack) = Machine!Top
    BY <1>1, StackFacts DEF Machine!Top
<1> QED BY <1>1, <1>2 DEF LifterSvsp, Machine!SetStackPointer, Ctx

LEMMA Dr7IsStore == ASSUME CInv, LifterWritedr7 PROVE Machine!StoreDr7
<1>1. /\ Machine!Inside /\ Ctx' = Ctx /\ UNCHANGED <<memory, access>> /\ stack # <<>>
    BY InsideFacts DEF LifterWritedr7
<1>2. Last(stack) = Machine!Top /\ Front(stack) = Machine!Rest
    BY <1>1, StackFacts DEF Machine!Top, Machine!Rest
<1> QED BY <1>1, <1>2 DEF LifterWritedr7, Machine!StoreDr7, Ctx

\* The order of the pops, from its end, is the order of the pushes.
LEMMA VmexitIsLeave == ASSUME CInv, LifterVmexit PROVE Machine!Leave
<1>1. PICK len \in Nat, n \in Nat : len = Len(stack) /\ n = Len(PushOrder) /\ len > n
    BY StackFacts, ExitOrderFacts DEF LifterVmexit
<1>2. ASSUME NEW r \in Regs
      PROVE  Popped(CHOOSE k \in DOMAIN ExitOrder : ExitOrder[k] = r)
               = stack[(len - n) + CHOOSE k \in DOMAIN PushOrder : PushOrder[k] = r]
    <2>1. PICK k \in 1..n : /\ k = CHOOSE l \in DOMAIN ExitOrder : ExitOrder[l] = r
                            /\ PushOrder[n - k + 1] = r
        BY <1>1, PopOfRegister
    <2>2. PICK j \in 1..n : j = n - k + 1
        <3>1. n - k + 1 \in 1..n
            BY <1>1, <2>1
        <3> QED BY <3>1
    <2>3. \A i \in DOMAIN PushOrder : PushOrder[i] = r => i = j
        BY <1>1, <2>1, <2>2, ExitOrderFacts, ContextAssumption
    <2>4. j = CHOOSE i \in DOMAIN PushOrder : PushOrder[i] = r
        BY <1>1, <2>1, <2>2, <2>3, ExitOrderFacts
    <2>5. len - k + 1 = (len - n) + j
        BY <1>1, <2>1, <2>2
    <2> QED BY <1>1, <2>1, <2>4, <2>5 DEF Popped
<1>3. native' = [r \in Machine!Regs |->
                    stack[(len - n) + CHOOSE k \in DOMAIN PushOrder : PushOrder[k] = r]]
    <2> DEFINE pop(r) == Popped(CHOOSE k \in DOMAIN ExitOrder : ExitOrder[k] = r)
               slot(r) == stack[(len - n) + CHOOSE k \in DOMAIN PushOrder : PushOrder[k] = r]
    <2>1. native' = [r \in Regs |-> pop(r)]
        BY DEF LifterVmexit
    <2>2. \A r \in Regs : pop(r) = slot(r)
        BY <1>2
    <2>3. Machine!Regs = Regs
        BY MachineConstants
    <2> HIDE DEF pop, slot
    <2>4. native' = [r \in Machine!Regs |-> slot(r)]
        BY <2>1, <2>2, <2>3
    <2> QED BY <2>4 DEF slot
<1>4. target' = stack[len - n]
    <2>1. len - (n + 1) + 1 = len - n
        BY <1>1
    <2> QED BY <1>1, <2>1 DEF LifterVmexit, ReturnAddress, Popped
<1>5. stack' = SubSeq(stack, 1, (len - n) - 1) /\ phase = "inside" /\ phase' = "left"
    BY <1>1 DEF LifterVmexit
<1>6. UNCHANGED <<memory, special, access>> /\ Ctx' = Ctx
    BY DEF LifterVmexit, Ctx
<1> DEFINE order == [k \in DOMAIN VmentryPushOrder |-> Meant(VmentryPushOrder[k])]
<1>7. order = PushOrder
    BY MachineConstants
<1>8. native' = [r \in Machine!Regs |->
                    stack[(len - n) + CHOOSE k \in DOMAIN order : order[k] = r]]
    <2> HIDE DEF order
    <2> QED BY <1>3, <1>7
<1>9. len = Len(stack) /\ n = Len(order)
    BY <1>1, <1>7
<1> QED BY <1>1, <1>4, <1>5, <1>6, <1>8, <1>9 DEF Machine!Leave, Ctx

\* For registers of any size, any context, any memory and any push order of
\* registers that the table knows, every step of the lifted code is one of the
\* virtual machine, whose context is an array of bytes (lifters.cpp:6-18,
\* :183-311, vm-lifter.cpp:56-63).
THEOREM ContextTheorem == Spec => KeepsContext
<1>1. Init => CInv /\ Machine!Init
    BY InitTypes, MachineInit
<1>2. CInv /\ [Next]_vars => CInv'
    BY TypesStay
<1>3. CInv /\ [Next]_vars => [Machine!Next]_(Machine!vars)
    <2> SUFFICES ASSUME CInv, [Next]_vars PROVE [Machine!Next]_(Machine!vars)
        OBVIOUS
    <2>1. CASE UNCHANGED vars
        BY <2>1 DEF vars, Machine!vars
    <2>2. CASE Next
        <3>1. Machine!Next
            BY <2>2, PrologueIsEnter, PushesAreLoads, LregIsLoadReg, SregIsStoreReg, ReadIsRead,
               WriteIsWrite, SvspIsSet, Dr7IsStore, VmexitIsLeave DEF Next, Machine!Next
        <3> QED BY <3>1
    <2> QED BY <2>1, <2>2
<1> QED BY <1>1, <1>2, <1>3, PTL DEF Spec, KeepsContext, Machine!Spec

-----------------------------------------------------------------------------
\* The rest of the type invariant: bounds, and where the VM was left to.
Bounded ==
    /\ Len(stack) <= MaxStack
    /\ phase = "outside" => stack = <<Return>>
    /\ target \in Word \cup {<<>>}
    /\ access = <<>> \/ access \in Offsets \X Sizes
    /\ phase \in {"outside", "inside", "left", "aborted"}
    /\ phase = "left" <=> target # <<>>
    /\ instrs \in 0..MaxInstrs

\* No word is the empty sequence.
LEMMA WordsAreNotEmpty == ASSUME NEW word \in Word PROVE word # <<>>
BY WordFacts

\* A handler inside leaves target alone and does not leave.
LEMMA InsideBounded ==
    ASSUME Bounded, Inside, phase' \in {"inside", "aborted"}, stack' \in Seq(Word),
           Len(stack') <= MaxStack, access' = access \/ access' \in Offsets \X Sizes
    PROVE  Bounded'
<1>1. instrs' \in 0..MaxInstrs
    BY ContextAssumption DEF Bounded, Inside
<1> QED BY <1>1 DEF Bounded, Inside

\* The VM stack within the bound, handler by handler.
LEMMA StackBounded ==
    ASSUME CInv, CInv', Bounded,
           \/ LifterLconst \/ LifterLreg \/ LifterSreg \/ LifterRead \/ LifterWrite
           \/ LifterLvsp \/ LifterSvsp \/ LifterLcr0 \/ LifterWritedr7
    PROVE  Len(stack') <= MaxStack
<1>1. PICK n \in Nat, m \in Nat : n = Len(stack) /\ m = MaxStack /\ n <= m
    BY ContextAssumption, StackFacts DEF Bounded
<1>2. \A word : Push(word) => Len(stack') <= MaxStack
    <2> SUFFICES ASSUME NEW word, Push(word) PROVE Len(stack') <= MaxStack
        OBVIOUS
    <2>1. n < m /\ stack' = Append(stack, word)
        BY <1>1 DEF Push
    <2>2. Len(stack') = n + 1
        BY <1>1, <2>1 DEF CInv
    <2> QED BY <1>1, <2>1, <2>2
<1>3. CASE LifterLconst \/ LifterLvsp \/ LifterLcr0
    BY <1>2, <1>3 DEF LifterLconst, LifterLvsp, LifterLcr0
<1>4. CASE LifterLreg
    BY <1>1, <1>2, <1>4 DEF LifterLreg
<1>5. CASE (LifterSreg \/ LifterWritedr7) /\ stack' # stack
    <2>1. stack # <<>> /\ stack' = Front(stack)
        BY <1>5 DEF LifterSreg, LifterWritedr7
    <2>2. n \in Nat \ {0} /\ stack' = SubSeq(stack, 1, n - 1) /\ n - 1 \in 0..n
        BY <1>1, <2>1, StackFacts
    <2>3. Len(stack') = n - 1
        BY <1>1, <2>2, StackFacts
    <2> QED BY <1>1, <2>3
<1>6. CASE stack' = stack
    BY <1>1, <1>6
<1>7. CASE LifterRead
    <2>1. n \in Nat \ {0} /\ 1 \in Nat \ {0} /\ 1 <= n
        BY <1>1, <1>7, StackFacts DEF LifterRead
    <2>2. Below(1) \in Seq(Word) /\ Len(Below(1)) = n - 1
        BY <1>1, <2>1, PoppedFacts
    <2>3. \E word : stack' = Append(Below(1), word)
        BY <1>7 DEF LifterRead
    <2>4. Len(stack') = n - 1 + 1
        BY <2>2, <2>3
    <2> QED BY <1>1, <2>4
<1>8. CASE LifterWrite
    <2>1. 2 \in Nat \ {0} /\ 2 <= n
        BY <1>1, <1>8 DEF LifterWrite
    <2>2. Below(2) \in Seq(Word) /\ Len(Below(2)) = n - 2
        BY <1>1, <2>1, PoppedFacts
    <2>3. stack' = Below(2) \/ \E d, word : stack' = [Below(2) EXCEPT ![d] = word]
        BY <1>8 DEF LifterWrite, WriteTo
    <2>4. DOMAIN stack' = DOMAIN Below(2)
        BY <2>3
    <2>5. Len(stack') = n - 2
        BY <2>2, <2>4 DEF CInv
    <2> QED BY <1>1, <2>1, <2>5
<1>9. CASE LifterSvsp
    <2>1. PICK d \in 0..n : stack' = SubSeq(stack, 1, d)
        BY <1>1, <1>9 DEF LifterSvsp
    <2>2. Len(stack') = d
        BY <1>1, <2>1, StackFacts
    <2> QED BY <1>1, <2>2
<1> QED BY <1>3, <1>4, <1>5, <1>6, <1>7, <1>8, <1>9

\* The prologue and vmexit.
LEMMA OutsideBounded ==
    ASSUME CInv, CInv', Bounded, LiftPrologue \/ LifterVmexit PROVE Bounded'
<1>1. CASE LiftPrologue
    <2>1. PICK words \in Seq(Word) : /\ words = [k \in DOMAIN PushOrder |-> native[PushOrder[k]]]
                                     /\ Len(words) = Len(PushOrder)
        <3>1. \A k \in 1..Len(PushOrder) : PushOrder[k] \in Regs
            BY ExitOrderFacts DEF Regs
        <3>2. \A k \in 1..Len(PushOrder) : native[PushOrder[k]] \in Word
            BY <3>1 DEF CInv
        <3>3. [k \in 1..Len(PushOrder) |-> native[PushOrder[k]]] \in Seq(Word)
            BY <3>2, ExitOrderFacts
        <3>4. DOMAIN PushOrder = 1..Len(PushOrder) /\ Len(PushOrder) \in Nat
            BY ExitOrderFacts
        <3>5. Len([k \in 1..Len(PushOrder) |-> native[PushOrder[k]]]) = Len(PushOrder)
            BY <3>3, <3>4
        <3> QED BY <3>3, <3>4, <3>5
    <2>2. Delta \in Word /\ Return \in Word
        BY ContextAssumption, WordAssumption, RegistersAreWords DEF Delta
    <2>3. stack' = <<Return>> \o words \o <<Delta>>
        BY <1>1, <2>1 DEF LiftPrologue, Bounded
    <2>4. Len(stack') = 1 + Len(words) + 1
        BY <2>1, <2>2, <2>3
    <2>5. Len(stack') <= MaxStack
        BY <2>1, <2>4, ContextAssumption, ExitOrderFacts
    <2> QED BY <1>1, <2>5 DEF LiftPrologue, Bounded
<1>2. CASE LifterVmexit
    <2>1. PICK n \in Nat, p \in Nat, m \in Nat :
             n = Len(stack) /\ p = Len(PushOrder) /\ m = MaxStack /\ n > p /\ n <= m
        BY <1>2, StackFacts, ExitOrderFacts, ContextAssumption DEF LifterVmexit, Bounded
    <2>2. stack' = SubSeq(stack, 1, n - p - 1) /\ n - p - 1 \in 0..n
        BY <1>2, <2>1 DEF LifterVmexit
    <2>3. Len(stack') = n - p - 1
        BY <2>1, <2>2, StackFacts
    <2>4. target' \in Word
        <3>1. n - (p + 1) + 1 \in 1..n
            BY <2>1
        <3>2. target' = stack[n - (p + 1) + 1]
            BY <1>2, <2>1 DEF LifterVmexit, ReturnAddress, Popped
        <3> QED BY <2>1, <3>1, <3>2, StackFacts
    <2> QED BY <1>2, <2>1, <2>3, <2>4, WordsAreNotEmpty DEF LifterVmexit, Bounded
<1> QED BY <1>1, <1>2

\* LREG and SREG record an offset of the context and the size of an operand.
LEMMA AccessBounded ==
    ASSUME CInv, CInv', Bounded, LifterLreg \/ LifterSreg PROVE Bounded'
<1>1. Inside /\ phase' \in {"inside", "aborted"}
    BY DEF LifterLreg, LifterSreg, Inside
<1>2. access' = access \/ access' \in Offsets \X Sizes
    <2>1. CASE LifterLreg
        BY <2>1 DEF LifterLreg
    <2>2. CASE LifterSreg
        <3>1. Last(stack) \in Word
            BY <2>2, StackFacts DEF LifterSreg
        <3>2. Len(Last(stack)) \in Sizes
            BY <3>1, WordFacts
        <3> QED BY <2>2, <3>2 DEF LifterSreg
    <2> QED BY <2>1, <2>2
<1> QED BY <1>1, <1>2, InsideBounded, StackBounded DEF CInv

\* The other handlers inside.
LEMMA HandlersBounded ==
    ASSUME CInv, CInv', Bounded,
           \/ LifterLconst \/ LifterRead \/ LifterWrite \/ LifterLvsp \/ LifterSvsp
           \/ LifterLcr0 \/ LifterWritedr7
    PROVE  Bounded'
<1>1. Inside /\ phase' \in {"inside", "aborted"} /\ access' = access
    BY DEF LifterLconst, LifterRead, LifterWrite, LifterLvsp, LifterSvsp, LifterLcr0,
           LifterWritedr7, Inside
<1> QED BY <1>1, InsideBounded, StackBounded DEF CInv

\* For registers of any size and any context, memory and push order: the
\* virtual registers keep their bytes, whatever is pushed is a word, and target
\* is set exactly when the VM was left (lifters.cpp:6-18, :183-311).
THEOREM TypeTheorem == Spec => []TypeOK
<1> DEFINE Inv == CInv /\ Bounded
<1>1. Init => Inv
    <2> SUFFICES ASSUME Init PROVE Inv
        OBVIOUS
    <2>1. Len(stack) = 1 /\ 1 <= MaxStack
        BY ContextAssumption, ExitOrderFacts DEF Init
    <2> QED BY <2>1, InitTypes, ContextAssumption DEF Init, Bounded
<1>2. Inv /\ [Next]_vars => Inv'
    <2> SUFFICES ASSUME Inv, [Next]_vars PROVE Inv'
        OBVIOUS
    <2>1. CInv'
        BY TypesStay
    <2>2. CASE UNCHANGED vars
        BY <2>1, <2>2 DEF vars, Bounded
    <2>3. CASE Next
        BY <2>1, <2>3, OutsideBounded, AccessBounded, HandlersBounded DEF Next
    <2> QED BY <2>1, <2>2, <2>3
<1>3. Inv => TypeOK
    BY DEF CInv, Bounded, TypeOK
<1> QED BY <1>1, <1>2, <1>3, PTL DEF Spec
=============================================================================
