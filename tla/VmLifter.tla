------------------------------ MODULE VmLifter ------------------------------
(***************************************************************************)
(* vm::lifter_t (src/src/vm-lifter.cpp): the control flow of a traced VM   *)
(* routine is copied, block by block, into a VTIL routine.  lift() makes   *)
(* the root block, with the effect of VMENTER as its prologue, and calls   *)
(* recursive_lifter on the first traced block; recursive_lifter appends    *)
(* the VTIL of every virtual instruction of a block and then forks it once *)
(* per branch, recursing into the blocks that fork() creates.              *)
(*                                                                         *)
(* The C++ call stack is the variable `stack'.  A block of the VTIL        *)
(* routine is the sequence of the things lifted into it: the prologue is   *)
(* one element, a virtual instruction is its mnemonic.                     *)
(***************************************************************************)
EXTENDS Integers, Sequences, FiniteSets

CONSTANTS
    ModuleBase,  \* where the image is mapped for the emulator
    ImageBase,   \* the image base its headers ask for
    BlockRva,    \* rva of the i-th block the emulator traces
    VInstrs      \* the instruction sequences a traced block may have

\* Addresses relative to the image are smaller than the image base, so that
\* they never equal an address based on it; main() refuses an image base of 0.
ASSUME LifterAssumption ==
    /\ ModuleBase \in Nat /\ ImageBase \in Nat
    /\ BlockRva \in Seq(Nat) /\ BlockRva # <<>>
    /\ \A i, j \in DOMAIN BlockRva : BlockRva[i] = BlockRva[j] => i = j
    /\ \A i \in DOMAIN BlockRva : BlockRva[i] < ImageBase
    /\ VInstrs \subseteq Seq(STRING)

VARIABLES
    emulated,    \* what vm::emu_t::emulate returned (its caller goes on anyway)
    m_blks,      \* vmp_routine->m_blks, the traced blocks, the entry first
    unexplored,  \* lift()'s map: image-based address -> traced block
    body,        \* the VTIL routine: entry vip -> what was lifted into the block
    next,        \* the links fork() makes between VTIL blocks
    stack,       \* the active calls of recursive_lifter
    status       \* "ready", "lifting", "failing", "lifted", "failed", "undefined"

vars == <<emulated, m_blks, unexplored, body, next, stack, status>>
input == <<emulated, m_blks>>

-----------------------------------------------------------------------------
\* The input.  The emulator reports branch targets as addresses of the image
\* it has mapped, and the address of a block both ways.
BranchCount == [absolute |-> 1, jcc |-> 2, none |-> 0]
RvaSet == {BlockRva[i] : i \in DOMAIN BlockRva}
VBlk(rva) ==
    UNION {[m_vip : {[rva |-> rva, img_based |-> rva + ImageBase]},
            branch_type : {type},
            branches : [1..BranchCount[type] -> {ModuleBase + t : t \in RvaSet}],
            m_vinstrs : VInstrs] : type \in DOMAIN BranchCount}

\* Line 26: an address of the mapped image becomes an image-based one.
BranchAddr(blk, n) == blk.branches[n] - ModuleBase + ImageBase

\* emulate() traced every block that a traced block branches to.
TraceClosed ==
    /\ m_blks # <<>>
    /\ \A i \in DOMAIN m_blks : \A n \in DOMAIN m_blks[i].branches :
         \E j \in DOMAIN m_blks : m_blks[j].m_vip.img_based = BranchAddr(m_blks[i], n)

-----------------------------------------------------------------------------
\* The mnemonics lift_handler has a case for.
LiftedMnemonics ==
    {"add", "_and", "imul", "jmp", "lconst", "lcr0", "lreg", "lvsp", "nand", "nop",
     "nor", "_or", "read", "shl", "shr", "shld", "shrd", "sreg", "svsp", "vmexit",
     "write", "writedr7"}

\* The pushes that stand for VMENTER: registers, flags and the load delta.
Prologue == <<"vmenter">>

\* The vip of the root block: the rva of the first traced block, where every
\* other block is known by its image-based address.
RootVipAsBranch == m_blks[1].m_vip.img_based
RootVip == m_blks[1].m_vip.rva

\* lift()'s map from image-based addresses to traced blocks.
ImgBased == {m_blks[i].m_vip.img_based : i \in DOMAIN m_blks}
UnexploredByRva ==
    [a \in {m_blks[i].m_vip.rva : i \in DOMAIN m_blks} |->
        CHOOSE i \in DOMAIN m_blks : m_blks[i].m_vip.rva = a]
UnexploredOfNext ==
    [a \in ImgBased |-> 1 + CHOOSE i \in DOMAIN m_blks : m_blks[i].m_vip.img_based = a]
UnexploredOf ==
    [a \in ImgBased |-> CHOOSE i \in DOMAIN m_blks : m_blks[i].m_vip.img_based = a]

\* One call of recursive_lifter: the traced block, the VTIL block it fills,
\* the instruction it is at, and where it goes on.
Frame ==
    [vmp : 1..Len(BlockRva), vtil : Nat, ip : Nat,
     pc : {"instrs", "second", "return"}]
Call(vmp, vtil) == [vmp |-> vmp, vtil |-> vtil, ip |-> 1, pc |-> "instrs"]
Top == stack[Len(stack)]
TopBlk == m_blks[Top.vmp]
Resume(pc) == [stack EXCEPT ![Len(stack)].pc = pc]
Pop == SubSeq(stack, 1, Len(stack) - 1)

-----------------------------------------------------------------------------
\* The routine is whatever the emulator traced: all blocks when it succeeded,
\* any of them (or none) when it did not.
Init ==
    /\ emulated \in BOOLEAN
    /\ \E n \in 0..Len(BlockRva) :
         m_blks \in {blks \in [1..n -> UNION {VBlk(rva) : rva \in RvaSet}] :
                      \A i \in 1..n : blks[i].m_vip.rva = BlockRva[i]}
    /\ emulated => TraceClosed
    /\ unexplored = <<>>
    /\ body = <<>>
    /\ next = {}
    /\ stack = <<>>
    /\ status = "ready"

\* lift(): the root block with its prologue, the map, the first call.  With
\* no traced block, m_blks[0] is undefined behaviour.
Lift ==
    /\ status = "ready"
    /\ \/ /\ m_blks # <<>>
          /\ unexplored' = UnexploredOf
          /\ body' = [vip \in {RootVip} |-> Prologue]
          /\ stack' = <<Call(1, RootVip)>>
          /\ status' = "lifting"
       \/ /\ m_blks = <<>>
          /\ status' = "undefined"
          /\ UNCHANGED <<unexplored, body, stack>>
    /\ UNCHANGED <<input, next>>

\* The loop over m_vinstrs: lift_handler appends the VTIL of the instruction
\* or does not know it, and then the call returns false.
LiftHandler ==
    /\ status = "lifting"
    /\ Top.pc = "instrs" /\ Top.ip <= Len(TopBlk.m_vinstrs)
    /\ LET mnemonic == TopBlk.m_vinstrs[Top.ip] IN
       \/ /\ mnemonic \in LiftedMnemonics
          /\ body' = [body EXCEPT ![Top.vtil] = Append(@, mnemonic)]
          /\ stack' = [stack EXCEPT ![Len(stack)].ip = @ + 1]
          /\ UNCHANGED status
       \/ /\ mnemonic \notin LiftedMnemonics
          /\ status' = "failing"
          /\ UNCHANGED <<body, stack>>
    /\ UNCHANGED <<input, unexplored, next>>

\* vtil_blk->fork(addr) links the block at addr to this one, and makes it if
\* the routine has none there.
ForkBlock(addr) ==
    /\ next' = next \cup {<<Top.vtil, addr>>}
    /\ body' = IF addr \in DOMAIN body THEN body
               ELSE [vip \in DOMAIN body \cup {addr} |->
                        IF vip = addr THEN <<>> ELSE body[vip]]

\* The recursive call.  What unexplored_branches.find returns is used without a
\* test against end(): for an address that was not traced that is undefined.
Recurse(addr, cont) ==
    \/ /\ addr \in DOMAIN unexplored
       /\ stack' = Append(Resume(cont), Call(unexplored[addr], addr))
       /\ UNCHANGED status
    \/ /\ addr \notin DOMAIN unexplored
       /\ status' = "undefined"
       /\ UNCHANGED stack

\* A block that was there already (fork returned null) is not lifted again.
\* The bound in the mutant keeps its recursion finite.
LiftBlockAlways(addr, cont) == Len(stack) < 2 * Len(BlockRva) /\ Recurse(addr, cont)
LiftBlock(addr, cont) ==
    \/ /\ addr \in DOMAIN body
       /\ stack' = Resume(cont)
       /\ UNCHANGED status
    \/ addr \notin DOMAIN body /\ Recurse(addr, cont)

\* One of the two branches of a block.
ForkFirst(n, cont) ==
    ForkBlock(BranchAddr(TopBlk, 1)) /\ LiftBlock(BranchAddr(TopBlk, 1), cont)
Fork(n, cont) ==
    ForkBlock(BranchAddr(TopBlk, n)) /\ LiftBlock(BranchAddr(TopBlk, n), cont)

\* Lines 23-35: the only branch of an absolute block, the first of a jcc.
FirstBranch ==
    /\ status = "lifting"
    /\ Top.pc = "instrs" /\ Top.ip > Len(TopBlk.m_vinstrs)
    /\ \/ TopBlk.branch_type \in {"absolute", "jcc"} /\ Fork(1, "second")
       \/ /\ TopBlk.branch_type \notin {"absolute", "jcc"}
          /\ stack' = Resume("second")
          /\ UNCHANGED <<body, next, status>>
    /\ UNCHANGED <<input, unexplored>>

\* Lines 37-48: the second branch of a jcc.
SecondBranch ==
    /\ status = "lifting"
    /\ Top.pc = "second"
    /\ \/ TopBlk.branch_type = "jcc" /\ Fork(2, "return")
       \/ /\ TopBlk.branch_type # "jcc"
          /\ stack' = Resume("return")
          /\ UNCHANGED <<body, next, status>>
    /\ UNCHANGED <<input, unexplored>>

\* return true: from the outermost call it is lift()'s result.
Outermost == Len(stack) = 1
Return ==
    /\ status = "lifting"
    /\ Top.pc = "return"
    /\ stack' = Pop
    /\ status' = IF Outermost THEN "lifted" ELSE "lifting"
    /\ UNCHANGED <<input, unexplored, body, next>>

\* return false: every caller returns false in its turn.
Unwind ==
    /\ status = "failing"
    /\ stack' = Pop
    /\ status' = IF Outermost THEN "failed" ELSE "failing"
    /\ UNCHANGED <<input, unexplored, body, next>>

Next == Lift \/ LiftHandler \/ FirstBranch \/ SecondBranch \/ Return \/ Unwind

Spec == Init /\ [][Next]_vars
FairSpec == Spec /\ WF_vars(Next)

-----------------------------------------------------------------------------
\* The traced block that a VTIL block is the lifting of.
Src(vip) == IF vip = RootVip THEN 1 ELSE unexplored[vip]
Blocks == DOMAIN body
Active == {stack[i].vtil : i \in DOMAIN stack}
Lifting(vip, k) ==
    (IF vip = RootVip THEN Prologue ELSE <<>>) \o SubSeq(m_blks[Src(vip)].m_vinstrs, 1, k)
Succs(vip) ==
    LET blk == m_blks[Src(vip)] IN {BranchAddr(blk, n) : n \in DOMAIN blk.branches}

\* The type invariant: every variable holds what its C++ counterpart can hold,
\* an active call works on a traced block and on a block of the routine, and
\* lift() has a result exactly when no call is active.
TypeOK ==
    /\ emulated \in BOOLEAN
    /\ DOMAIN m_blks \subseteq DOMAIN BlockRva
    /\ \A i \in DOMAIN m_blks : m_blks[i] \in VBlk(BlockRva[i])
    /\ \A addr \in DOMAIN unexplored : unexplored[addr] \in DOMAIN m_blks
    /\ Blocks \subseteq Nat
    /\ \A vip \in Blocks : body[vip] \in Seq(LiftedMnemonics \cup {"vmenter"})
    /\ next \subseteq Blocks \X Blocks
    /\ stack \in Seq(Frame)
    /\ \A i \in DOMAIN stack : stack[i].vmp \in DOMAIN m_blks /\ stack[i].vtil \in Blocks
    /\ status \in {"ready", "lifting", "failing", "lifted", "failed", "undefined"}
    /\ status \in {"lifting", "failing"} => stack # <<>>
    /\ status \in {"ready", "lifted", "failed"} => stack = <<>>

\* recursive_lifter dereferences what unexplored_branches.find returns without
\* a test (vm-lifter.cpp:29-30, :42-43), and lift() takes m_blks[0] (:55).
\* When emulate() succeeded neither is ever undefined behaviour, although the
\* root block is known under another address than the map knows it by.
NoUndefinedLookup == emulated => status # "undefined"

\* The root block is the only one that pushes the VMENTER registers, and no
\* branch leads into it: a VM loop back to the first virtual instruction goes
\* to a second lifting of that block, without the prologue, so the registers
\* are never pushed twice on any path (vm-lifter.cpp:54-63, :26-27).
PrologueRunsOnce ==
    \A link \in next : ~ \E i \in DOMAIN body[link[2]] : body[link[2]][i] = "vmenter"

\* Each VTIL block is filled by one call of recursive_lifter, from one traced
\* block, in order: at any time it holds a prefix of that block's lifting,
\* cut where its call is, and the whole of it once the call is past the loop
\* (vm-lifter.cpp:16-22), however the recursion reached the block.
FilledInOrder ==
    status \in {"lifting", "lifted"} =>
        /\ \A i, j \in DOMAIN stack : stack[i].vtil = stack[j].vtil => i = j
        /\ \A i \in DOMAIN stack : body[stack[i].vtil] = Lifting(stack[i].vtil, stack[i].ip - 1)
        /\ \A vip \in Blocks \ Active :
             body[vip] = Lifting(vip, Len(m_blks[Src(vip)].m_vinstrs))

\* When lift() returns true nothing is missing and nothing is invented: every
\* block holds all instructions of its source, none of them unknown to
\* lift_handler, and has a link to each branch target of its source and to
\* nothing else, all of them blocks of the routine (vm-lifter.cpp:23-49).
LiftIsComplete ==
    status = "lifted" =>
        \A vip \in Blocks :
            /\ \A i \in DOMAIN m_blks[Src(vip)].m_vinstrs :
                  m_blks[Src(vip)].m_vinstrs[i] \in LiftedMnemonics
            /\ {link \in next : link[1] = vip} = {vip} \X Succs(vip)
            /\ Succs(vip) \subseteq Blocks

\* Recursion is bounded by the routine: at most one call per traced block and
\* one for the root, whatever cycles the traced control flow has, since fork()
\* returns no block the second time (vm-lifter.cpp:28, :41).
RecursionIsBounded == Len(stack) <= Len(m_blks) + 1

\* lift() returns, also for cyclic control flow and after an unknown
\* instruction at any depth of the recursion, unless a lookup went astray.
LiftReturns ==
    (status = "ready") ~> (status \in {"lifted", "failed", "undefined"})

-----------------------------------------------------------------------------
\* The lifter copies the control-flow graph of the traced routine.
Copy == INSTANCE CfgCopy WITH
    succ  <- IF m_blks = <<>> THEN <<>>
             ELSE [vip \in ImgBased \cup {RootVip} |->
                    LET blk == m_blks[CHOOSE i \in DOMAIN m_blks :
                                         \/ vip = RootVip /\ i = 1
                                         \/ vip # RootVip /\ m_blks[i].m_vip.img_based = vip]
                    IN  {BranchAddr(blk, n) : n \in DOMAIN blk.branches}],
    nodes <- Blocks,
    edges <- next,
    phase <- CASE status = "ready"   -> "idle"
               [] status = "lifting" -> "copying"
               [] status = "lifted"  -> "complete"
               [] OTHER              -> "abandoned"

\* The lifting is a traversal of the traced graph from its first block: it
\* never links what the trace does not branch to, and is only complete when
\* closed under branches.
CopiesTheTrace == Copy!Spec
=============================================================================
