--------------------------- MODULE VmLifterProofs ---------------------------
(***************************************************************************)
(* Proofs about VmLifter, for every module base, image base, set of traced *)
(* blocks and of instruction sequences: the type invariant, that the root  *)
(* block is never re-entered, and that no look-up goes astray; that the    *)
(* recursion fills each VTIL block once, in order and completely, that its *)
(* depth is bounded by the routine, that what it does is the traversal of  *)
(* a graph that CfgCopy specifies, and that every step brings it nearer to *)
(* its end.                                                                *)
(***************************************************************************)
EXTENDS VmLifter, SequenceTheorems, FiniteSetTheorems, TLAPS

\* What is known of a traced block, from the set it is taken from.
LEMMA VBlkFields ==
    ASSUME NEW rva \in Nat, NEW blk \in VBlk(rva)
    PROVE  /\ blk.m_vip.rva = rva
           /\ blk.m_vip.img_based = rva + ImageBase
           /\ blk.branch_type \in DOMAIN BranchCount
           /\ blk.branches \in [1..BranchCount[blk.branch_type] -> {ModuleBase + t : t \in RvaSet}]
           /\ blk.m_vinstrs \in VInstrs
<1>1. PICK type \in DOMAIN BranchCount :
         blk \in [m_vip : {[rva |-> rva, img_based |-> rva + ImageBase]},
                  branch_type : {type},
                  branches : [1..BranchCount[type] -> {ModuleBase + t : t \in RvaSet}],
                  m_vinstrs : VInstrs]
  BY DEF VBlk
<1> QED BY <1>1

-----------------------------------------------------------------------------
\* The inductive invariant.  What makes PrologueRunsOnce inductive is that
\* every link leads to an image-based address, and that no block known by one
\* has a prologue; what makes NoUndefinedLookup inductive is that the map
\* stays the one lift() made.
InputOK ==
    /\ m_blks # <<>> => 1 \in DOMAIN m_blks
    /\ emulated => TraceClosed

ControlOK ==
    /\ status = "ready" => body = <<>> /\ next = {} /\ stack = <<>> /\ unexplored = <<>>
    /\ status = "lifting" => unexplored = UnexploredOf

ImageBasedOK ==
    /\ \A link \in next : link[2] >= ImageBase
    /\ \A vip \in Blocks : vip >= ImageBase => body[vip] \in Seq(LiftedMnemonics)

IInv == TypeOK /\ InputOK /\ ControlOK /\ ImageBasedOK /\ NoUndefinedLookup

\* The rvas are natural numbers below the image base.
LEMMA RvaFacts ==
    /\ DOMAIN BlockRva = 1..Len(BlockRva) /\ Len(BlockRva) \in Nat \ {0}
    /\ \A i \in DOMAIN BlockRva : BlockRva[i] \in Nat /\ BlockRva[i] < ImageBase
    /\ RvaSet \subseteq Nat
<1>1. BlockRva \in Seq(Nat) /\ BlockRva # <<>>
  BY LifterAssumption
<1>2. DOMAIN BlockRva = 1..Len(BlockRva) /\ Len(BlockRva) \in Nat \ {0}
  BY <1>1
<1>3. \A i \in DOMAIN BlockRva : BlockRva[i] \in Nat /\ BlockRva[i] < ImageBase
  BY <1>1, LifterAssumption
<1> QED BY <1>2, <1>3 DEF RvaSet

\* The call that runs is a frame of the right type.
LEMMA TopFacts ==
    ASSUME TypeOK, stack # <<>>
    PROVE  /\ Len(stack) \in DOMAIN stack /\ Top = stack[Len(stack)]
           /\ Top \in Frame
           /\ Top.vmp \in DOMAIN m_blks /\ Top.vtil \in Blocks /\ Top.ip \in Nat
           /\ TopBlk \in VBlk(BlockRva[Top.vmp]) /\ BlockRva[Top.vmp] \in Nat
<1>1. Len(stack) \in DOMAIN stack
  BY DEF TypeOK
<1>2. Top \in Frame /\ Top.vmp \in DOMAIN m_blks /\ Top.vtil \in Blocks
  BY <1>1 DEF TypeOK, Top
<1>3. Top.ip \in Nat
  BY <1>2 DEF Frame
<1>4. TopBlk \in VBlk(BlockRva[Top.vmp]) /\ BlockRva[Top.vmp] \in Nat
  BY <1>2, RvaFacts DEF TypeOK, TopBlk
<1> QED BY <1>1, <1>2, <1>3, <1>4 DEF Top

\* Every branch leads to an image-based address.
LEMMA BranchAddrFacts ==
    ASSUME TypeOK, stack # <<>>, NEW n \in DOMAIN TopBlk.branches
    PROVE  BranchAddr(TopBlk, n) \in Nat /\ BranchAddr(TopBlk, n) >= ImageBase
<1> DEFINE last == BranchCount[TopBlk.branch_type]
           targets == {ModuleBase + t : t \in RvaSet}
<1>0. TopBlk.branches \in [1..last -> targets]
  BY TopFacts, VBlkFields
<1> HIDE DEF last, targets
<1>1. TopBlk.branches[n] \in targets
  BY <1>0
<1> USE DEF targets
<1>2. PICK t \in RvaSet : TopBlk.branches[n] = ModuleBase + t
  BY <1>1
<1>3. t \in Nat /\ ModuleBase \in Nat /\ ImageBase \in Nat
  BY RvaFacts, LifterAssumption
<1>4. BranchAddr(TopBlk, n) = t + ImageBase
  BY <1>2, <1>3 DEF BranchAddr
<1> QED BY <1>3, <1>4

\* The first branch exists for "absolute" and "jcc", the second for "jcc".
LEMMA BranchCountFacts ==
    ASSUME TypeOK, stack # <<>>
    PROVE  /\ TopBlk.branch_type \in {"absolute", "jcc"} => 1 \in DOMAIN TopBlk.branches
           /\ TopBlk.branch_type = "jcc" => 2 \in DOMAIN TopBlk.branches
<1>1. TopBlk.branches \in [1..BranchCount[TopBlk.branch_type] -> {ModuleBase + t : t \in RvaSet}]
  BY TopFacts, VBlkFields
<1> QED BY <1>1 DEF BranchCount

\* Changing where the running call goes on keeps the frames well-typed.
LEMMA ResumeFacts ==
    ASSUME TypeOK, stack # <<>>, NEW cont \in {"instrs", "second", "return"}
    PROVE  /\ Resume(cont) \in Seq(Frame) /\ Resume(cont) # <<>>
           /\ DOMAIN Resume(cont) = DOMAIN stack
           /\ \A i \in DOMAIN stack : /\ Resume(cont)[i].vmp = stack[i].vmp
                                      /\ Resume(cont)[i].vtil = stack[i].vtil
<1>1. stack \in Seq(Frame) /\ Len(stack) \in DOMAIN stack /\ Top \in Frame
  BY TopFacts DEF TypeOK
<1>2. [stack[Len(stack)] EXCEPT !.pc = cont] \in Frame
  BY <1>1 DEF Frame, Top
<1>3. Resume(cont) = [stack EXCEPT ![Len(stack)] = [stack[Len(stack)] EXCEPT !.pc = cont]]
  BY DEF Resume
<1>4. DOMAIN Resume(cont) = DOMAIN stack
  BY <1>3
<1>5. Resume(cont) \in Seq(Frame)
  BY <1>1, <1>2, <1>3
<1>6. \A i \in DOMAIN stack : /\ Resume(cont)[i].vmp = stack[i].vmp
                              /\ Resume(cont)[i].vtil = stack[i].vtil
  <2> TAKE i \in DOMAIN stack
  <2>1. CASE i = Len(stack)
    BY <2>1, <1>1, <1>3 DEF Frame, Top
  <2>2. CASE i # Len(stack)
    BY <2>2, <1>3
  <2> QED BY <2>1, <2>2
<1>7. Resume(cont) # <<>>
  BY <1>1, <1>4
<1> QED BY <1>4, <1>5, <1>6, <1>7

-----------------------------------------------------------------------------
\* lift(): the root block is known by its rva, below the image base.
LEMMA LiftPreserves ==
    ASSUME IInv, Lift PROVE IInv'
<1>1. m_blks' = m_blks /\ emulated' = emulated /\ next' = next /\ next = {}
  BY DEF Lift, input, IInv, ControlOK
<1>2. CASE m_blks = <<>>
  <2>1. status' = "undefined" /\ UNCHANGED <<unexplored, body, stack>>
    BY <1>2 DEF Lift
  <2>2. ~ emulated
    BY <1>2 DEF IInv, InputOK, TraceClosed
  <2>3. body = <<>> /\ stack = <<>>
    BY DEF Lift, IInv, ControlOK
  <2> QED BY <1>1, <2>1, <2>2, <2>3
           DEF IInv, TypeOK, InputOK, ControlOK, ImageBasedOK, NoUndefinedLookup, Blocks, TraceClosed,
               BranchAddr, VBlk, RvaSet, BranchCount
<1>3. CASE m_blks # <<>>
  <2>1. /\ unexplored' = UnexploredOf /\ body' = [vip \in {RootVip} |-> Prologue]
        /\ stack' = <<Call(1, RootVip)>> /\ status' = "lifting"
    BY <1>3 DEF Lift
  <2>2. 1 \in DOMAIN m_blks /\ 1 \in DOMAIN BlockRva /\ m_blks[1] \in VBlk(BlockRva[1])
    BY <1>3 DEF IInv, InputOK, TypeOK
  <2>3. RootVip \in Nat /\ RootVip < ImageBase
    BY <2>2, VBlkFields, RvaFacts DEF RootVip
  <2>4. \A addr \in DOMAIN UnexploredOf : UnexploredOf[addr] \in DOMAIN m_blks
    BY DEF UnexploredOf, ImgBased
  <2>5. Call(1, RootVip) \in Frame
    BY <2>3, RvaFacts DEF Call, Frame
  <2>6. TypeOK'
    <3>1. stack' \in Seq(Frame) /\ DOMAIN stack' = {1} /\ stack'[1] = Call(1, RootVip)
      BY <2>1, <2>5
    <3>2. \A i \in DOMAIN stack' : stack'[i].vmp \in DOMAIN m_blks' /\ stack'[i].vtil \in Blocks'
      BY <1>1, <2>1, <2>2, <3>1 DEF Call, Blocks
    <3>3. \A vip \in Blocks' : body'[vip] \in Seq(LiftedMnemonics \cup {"vmenter"})
      BY <2>1 DEF Blocks, Prologue
    <3>4. Blocks' \subseteq Nat
      BY <2>1, <2>3 DEF Blocks
    <3>5. \A addr \in DOMAIN unexplored' : unexplored'[addr] \in DOMAIN m_blks'
      BY <1>1, <2>1, <2>4
    <3>6. /\ emulated' \in BOOLEAN /\ DOMAIN m_blks' \subseteq DOMAIN BlockRva
          /\ \A i \in DOMAIN m_blks' : m_blks'[i] \in VBlk(BlockRva[i])
      BY <1>1 DEF IInv, TypeOK
    <3> QED BY <1>1, <2>1, <3>1, <3>2, <3>3, <3>4, <3>5, <3>6 DEF TypeOK
  <2>7. InputOK'
    BY <1>1 DEF IInv, InputOK, TraceClosed, BranchAddr
  <2>8. ControlOK'
    BY <1>1, <2>1 DEF ControlOK, UnexploredOf, ImgBased
  <2>9. ImageBasedOK'
    BY <1>1, <2>1, <2>3, LifterAssumption DEF ImageBasedOK, Blocks
  <2> QED BY <2>1, <2>6, <2>7, <2>8, <2>9 DEF IInv, NoUndefinedLookup
<1> QED BY <1>2, <1>3

\* lift_handler appends a mnemonic it knows to the block on top.
LEMMA LiftHandlerPreserves ==
    ASSUME IInv, LiftHandler PROVE IInv'
<1> DEFINE mnemonic == TopBlk.m_vinstrs[Top.ip]
<1>1. /\ UNCHANGED <<m_blks, emulated, unexplored, next>>
      /\ status = "lifting" /\ stack # <<>> /\ TypeOK
  BY DEF LiftHandler, input, IInv, ControlOK, TypeOK
<1>2. InputOK'
  BY <1>1 DEF IInv, InputOK, TraceClosed, BranchAddr
<1>3. CASE mnemonic \notin LiftedMnemonics
  <2>1. status' = "failing" /\ UNCHANGED <<body, stack>>
    BY <1>3 DEF LiftHandler
  <2> QED BY <1>1, <1>2, <2>1
           DEF IInv, TypeOK, ControlOK, ImageBasedOK, NoUndefinedLookup, Blocks
<1>4. CASE mnemonic \in LiftedMnemonics
  <2>1. /\ body' = [body EXCEPT ![Top.vtil] = Append(body[Top.vtil], mnemonic)]
        /\ stack' = [stack EXCEPT ![Len(stack)] = [stack[Len(stack)] EXCEPT !.ip = @ + 1]]
        /\ status' = status
    BY <1>4 DEF LiftHandler
  <2>2. Top.vtil \in Blocks /\ Top \in Frame /\ Top = stack[Len(stack)] /\ Len(stack) \in DOMAIN stack
    BY <1>1, TopFacts
  <2>3. Blocks' = Blocks
    BY <2>1 DEF Blocks
  <2>4. [stack[Len(stack)] EXCEPT !.ip = @ + 1] \in Frame
    BY <2>2 DEF Frame
  <2>5. stack' \in Seq(Frame) /\ DOMAIN stack' = DOMAIN stack /\ stack' # <<>>
    BY <1>1, <2>1, <2>2, <2>4 DEF TypeOK
  <2>6. \A i \in DOMAIN stack : stack'[i].vmp = stack[i].vmp /\ stack'[i].vtil = stack[i].vtil
    <3> TAKE i \in DOMAIN stack
    <3>1. CASE i = Len(stack)
      BY <3>1, <2>1, <2>2 DEF Frame
    <3>2. CASE i # Len(stack)
      BY <3>2, <2>1
    <3> QED BY <3>1, <3>2
  <2>7. \A vip \in Blocks : body'[vip] \in Seq(LiftedMnemonics \cup {"vmenter"})
    <3> TAKE vip \in Blocks
    <3>1. body[vip] \in Seq(LiftedMnemonics \cup {"vmenter"})
      BY <1>1 DEF TypeOK
    <3> QED BY <1>4, <2>1, <3>1 DEF Blocks
  <2>8. \A vip \in Blocks : vip >= ImageBase => body'[vip] \in Seq(LiftedMnemonics)
    <3> SUFFICES ASSUME NEW vip \in Blocks, vip >= ImageBase
                 PROVE  body'[vip] \in Seq(LiftedMnemonics)
      OBVIOUS
    <3>1. body[vip] \in Seq(LiftedMnemonics)
      BY DEF IInv, ImageBasedOK
    <3> QED BY <1>4, <2>1, <3>1 DEF Blocks
  <2>9. TypeOK'
    BY <1>1, <2>1, <2>3, <2>5, <2>6, <2>7 DEF TypeOK
  <2>10. ControlOK'
    BY <1>1, <2>1, <2>5 DEF IInv, ControlOK, UnexploredOf, ImgBased
  <2>11. ImageBasedOK'
    BY <1>1, <2>3, <2>8 DEF IInv, ImageBasedOK
  <2> QED BY <1>1, <1>2, <2>1, <2>9, <2>10, <2>11 DEF IInv, NoUndefinedLookup
<1> QED BY <1>3, <1>4

\* vtil_blk->fork(addr) and the recursive call, for either branch.
LEMMA ForkPreserves ==
    ASSUME IInv, status = "lifting", UNCHANGED <<input, unexplored>>,
           NEW n \in DOMAIN TopBlk.branches, NEW cont \in {"second", "return"},
           Fork(n, cont)
    PROVE  IInv'
<1> DEFINE addr == BranchAddr(TopBlk, n)
<1>1. /\ UNCHANGED <<m_blks, emulated, unexplored>>
      /\ stack # <<>> /\ TypeOK /\ unexplored = UnexploredOf
  BY DEF input, IInv, ControlOK, TypeOK
<1>2. addr \in Nat /\ addr >= ImageBase
  BY <1>1, BranchAddrFacts
<1>3. /\ Top.vtil \in Blocks /\ Top.vmp \in DOMAIN m_blks /\ Blocks \subseteq Nat
      /\ TopBlk = m_blks[Top.vmp]
  BY <1>1, TopFacts DEF TypeOK, TopBlk
<1>4. /\ next' = next \cup {<<Top.vtil, addr>>}
      /\ body' = IF addr \in DOMAIN body THEN body
                 ELSE [vip \in DOMAIN body \cup {addr} |->
                          IF vip = addr THEN <<>> ELSE body[vip]]
  BY DEF Fork, ForkBlock
<1>5. Blocks' = Blocks \cup {addr}
  BY <1>4 DEF Blocks
<1>6. \A vip \in Blocks' : body'[vip] = IF vip \in Blocks THEN body[vip] ELSE <<>>
  BY <1>4 DEF Blocks
<1>7. InputOK'
  BY <1>1 DEF IInv, InputOK, TraceClosed, BranchAddr
<1>8. ImageBasedOK'
  <2>1. \A link \in next' : link[2] >= ImageBase
    BY <1>2, <1>4 DEF IInv, ImageBasedOK
  <2>2. \A vip \in Blocks' : vip >= ImageBase => body'[vip] \in Seq(LiftedMnemonics)
    <3> SUFFICES ASSUME NEW vip \in Blocks', vip >= ImageBase
                 PROVE  body'[vip] \in Seq(LiftedMnemonics)
      OBVIOUS
    <3>1. CASE vip \in Blocks
      BY <3>1, <1>6 DEF IInv, ImageBasedOK
    <3>2. CASE vip \notin Blocks
      <4>1. body'[vip] = <<>>
        BY <3>2, <1>6
      <4> QED BY <4>1, EmptySeq
    <3> QED BY <3>1, <3>2
  <2> QED BY <2>1, <2>2 DEF ImageBasedOK
<1>9. /\ stack' \in Seq(Frame) /\ stack' # <<>>
      /\ \A i \in DOMAIN stack' : stack'[i].vmp \in DOMAIN m_blks /\ stack'[i].vtil \in Blocks'
  <2>1. /\ Resume(cont) \in Seq(Frame) /\ Resume(cont) # <<>>
        /\ \A i \in DOMAIN Resume(cont) :
             Resume(cont)[i].vmp \in DOMAIN m_blks /\ Resume(cont)[i].vtil \in Blocks
    <3>1. \A i \in DOMAIN stack : stack[i].vmp \in DOMAIN m_blks /\ stack[i].vtil \in Blocks
      BY <1>1 DEF TypeOK
    <3>2. cont \in {"instrs", "second", "return"}
      OBVIOUS
    <3>3. /\ Resume(cont) \in Seq(Frame) /\ Resume(cont) # <<>>
          /\ DOMAIN Resume(cont) = DOMAIN stack
          /\ \A i \in DOMAIN stack : /\ Resume(cont)[i].vmp = stack[i].vmp
                                     /\ Resume(cont)[i].vtil = stack[i].vtil
      BY <1>1, <3>2, ResumeFacts
    <3> QED BY <3>1, <3>3
  <2>2. CASE stack' = Resume(cont)
    BY <2>1, <2>2, <1>5
  <2>3. CASE /\ addr \in DOMAIN unexplored
             /\ stack' = Append(Resume(cont), Call(unexplored[addr], addr))
    <3>1. unexplored[addr] \in DOMAIN m_blks /\ unexplored[addr] \in 1..Len(BlockRva)
      BY <1>1, <2>3, RvaFacts DEF TypeOK
    <3>2. Call(unexplored[addr], addr) \in Frame
      BY <3>1, <1>2 DEF Call, Frame
    <3>3. /\ Call(unexplored[addr], addr).vmp \in DOMAIN m_blks
          /\ Call(unexplored[addr], addr).vtil \in Blocks'
      BY <3>1, <1>5 DEF Call
    <3> HIDE DEF addr
    <3> QED BY <2>1, <2>3, <3>2, <3>3, <1>5
  <2>4. CASE stack' = stack
    BY <2>4, <1>1, <1>5 DEF TypeOK
  <2> QED BY <2>2, <2>3, <2>4 DEF Fork, LiftBlock, Recurse
<1>10. status' \in {"lifting", "undefined"}
  BY DEF Fork, LiftBlock, Recurse
<1>11. TypeOK'
  <2>1. next' \subseteq Blocks' \X Blocks'
    BY <1>1, <1>3, <1>4, <1>5 DEF TypeOK
  <2>2. \A vip \in Blocks' : body'[vip] \in Seq(LiftedMnemonics \cup {"vmenter"})
    <3> TAKE vip \in Blocks'
    <3>1. CASE vip \in Blocks
      BY <3>1, <1>1, <1>6 DEF TypeOK
    <3>2. CASE vip \notin Blocks
      <4>1. body'[vip] = <<>>
        BY <3>2, <1>6
      <4> QED BY <4>1, EmptySeq
    <3> QED BY <3>1, <3>2
  <2>3. Blocks' \subseteq Nat
    BY <1>2, <1>3, <1>5
  <2> QED BY <1>1, <1>9, <1>10, <2>1, <2>2, <2>3 DEF TypeOK
<1>12. ControlOK'
  BY <1>1, <1>9, <1>10 DEF IInv, ControlOK, UnexploredOf, ImgBased
<1>13. NoUndefinedLookup'
  <2> SUFFICES ASSUME emulated PROVE status' # "undefined"
    BY <1>1 DEF NoUndefinedLookup
  <2>1. addr \in ImgBased
    BY <1>3 DEF IInv, InputOK, TraceClosed, ImgBased
  <2>2. addr \in DOMAIN unexplored
    BY <1>1, <2>1 DEF UnexploredOf
  <2> QED BY <2>2 DEF Fork, LiftBlock, Recurse
<1> QED BY <1>7, <1>8, <1>11, <1>12, <1>13 DEF IInv

\* The call on top goes on without forking.
LEMMA ResumePreserves ==
    ASSUME IInv, status = "lifting", UNCHANGED <<input, unexplored, body, next, status>>,
           NEW cont \in {"second", "return"}, stack' = Resume(cont)
    PROVE  IInv'
<1>1. stack # <<>> /\ TypeOK
  BY DEF IInv, TypeOK
<1>2. \A i \in DOMAIN stack : stack[i].vmp \in DOMAIN m_blks /\ stack[i].vtil \in Blocks
  BY <1>1 DEF TypeOK
<1>3. cont \in {"instrs", "second", "return"}
  OBVIOUS
<1>4. /\ Resume(cont) \in Seq(Frame) /\ Resume(cont) # <<>>
      /\ DOMAIN Resume(cont) = DOMAIN stack
      /\ \A i \in DOMAIN stack : /\ Resume(cont)[i].vmp = stack[i].vmp
                                 /\ Resume(cont)[i].vtil = stack[i].vtil
  BY <1>1, <1>3, ResumeFacts
<1>5. /\ stack' \in Seq(Frame) /\ stack' # <<>>
      /\ \A i \in DOMAIN stack' : stack'[i].vmp \in DOMAIN m_blks /\ stack'[i].vtil \in Blocks
  BY <1>2, <1>4
<1> QED BY <1>1, <1>5
         DEF IInv, input, TypeOK, InputOK, ControlOK, ImageBasedOK, NoUndefinedLookup, Blocks,
             TraceClosed, BranchAddr, UnexploredOf, ImgBased

\* A call returns, with true or with false.
LEMMA PopPreserves ==
    ASSUME IInv, stack # <<>>, UNCHANGED <<input, unexplored, body, next>>, stack' = Pop,
           \/ status = "lifting" /\ status' = IF Outermost THEN "lifted" ELSE "lifting"
           \/ status = "failing" /\ status' = IF Outermost THEN "failed" ELSE "failing"
    PROVE  IInv'
<1>1. TypeOK /\ stack \in Seq(Frame) /\ Len(stack) \in Nat \ {0}
  BY DEF IInv, TypeOK
<1>2. /\ stack' \in Seq(Frame) /\ Len(stack') = Len(stack) - 1
      /\ \A i \in 1..Len(stack') : stack'[i] = stack[i]
  <2> DEFINE n == Len(stack) - 1
  <2>1. 1 \in 1..(Len(stack) + 1) /\ n \in 0..Len(stack) /\ 1 + n - 1 = n
    BY <1>1
  <2>2. /\ SubSeq(stack, 1, n) \in Seq(Frame)
        /\ Len(SubSeq(stack, 1, n)) = IF 1 <= n THEN n - 1 + 1 ELSE 0
        /\ \A i \in 1..(n - 1 + 1) : SubSeq(stack, 1, n)[i] = stack[1 + i - 1]
    BY <1>1, <2>1, SubSeqProperties
  <2>3. stack' = SubSeq(stack, 1, n)
    BY DEF Pop
  <2> HIDE DEF n
  <2> QED BY <2>1, <2>2, <2>3, <1>1 DEF n
<1>3. DOMAIN stack' \subseteq DOMAIN stack /\ \A i \in DOMAIN stack' : stack'[i] = stack[i]
  BY <1>1, <1>2
<1>4. Len(stack) # 1 => stack' # <<>>
  BY <1>1, <1>2
<1>5. TypeOK'
  <2>1. Outermost => stack' = <<>>
    BY <1>1, <1>2 DEF Outermost
  <2> QED BY <1>1, <1>2, <1>3, <1>4, <2>1 DEF TypeOK, input, Blocks, Outermost
<1>6. ControlOK'
  <2>1. status' # "ready"
    OBVIOUS
  <2>2. status' = "lifting" => status = "lifting" /\ unexplored = UnexploredOf
    BY DEF IInv, ControlOK
  <2>3. UnexploredOf' = UnexploredOf /\ unexplored' = unexplored
    BY DEF UnexploredOf, ImgBased, input
  <2> QED BY <2>1, <2>2, <2>3 DEF ControlOK
<1>7. InputOK'
  BY DEF IInv, input, InputOK, TraceClosed, BranchAddr
<1>8. ImageBasedOK'
  BY DEF IInv, input, ImageBasedOK, Blocks
<1>9. NoUndefinedLookup'
  BY <1>1 DEF IInv, input, NoUndefinedLookup
<1> QED BY <1>5, <1>6, <1>7, <1>8, <1>9 DEF IInv

-----------------------------------------------------------------------------
LEMMA InitIInv == Init => IInv
<1> SUFFICES ASSUME Init PROVE IInv
  OBVIOUS
<1>1. PICK n \in 0..Len(BlockRva) :
        m_blks \in {blks \in [1..n -> UNION {VBlk(rva) : rva \in RvaSet}] :
                      \A i \in 1..n : blks[i].m_vip.rva = BlockRva[i]}
  BY DEF Init
<1>2. n \in Nat /\ n <= Len(BlockRva) /\ DOMAIN m_blks = 1..n
  BY <1>1, RvaFacts
<1>3. \A i \in DOMAIN m_blks : m_blks[i] \in VBlk(BlockRva[i])
  <2> TAKE i \in DOMAIN m_blks
  <2>1. PICK rva \in RvaSet : m_blks[i] \in VBlk(rva)
    BY <1>1, <1>2
  <2>2. rva = m_blks[i].m_vip.rva
    BY <2>1, VBlkFields, RvaFacts
  <2>3. rva = BlockRva[i]
    BY <1>1, <1>2, <2>2
  <2> QED BY <2>1, <2>3
<1>4. m_blks # <<>> => 1 \in DOMAIN m_blks
  BY <1>1, <1>2
<1>5. DOMAIN m_blks \subseteq DOMAIN BlockRva
  BY <1>2, RvaFacts
<1> QED BY <1>3, <1>4, <1>5
         DEF Init, IInv, TypeOK, InputOK, ControlOK, ImageBasedOK, NoUndefinedLookup, Blocks

LEMMA NextIInv == IInv /\ [Next]_vars => IInv'
<1> SUFFICES ASSUME IInv, [Next]_vars PROVE IInv'
  OBVIOUS
<1>1. CASE Lift
  BY <1>1, LiftPreserves
<1>2. CASE LiftHandler
  BY <1>2, LiftHandlerPreserves
<1>3. CASE FirstBranch
  <2>1. status = "lifting" /\ UNCHANGED <<input, unexplored>> /\ TypeOK /\ stack # <<>>
    BY <1>3 DEF FirstBranch, IInv, TypeOK
  <2>2. CASE TopBlk.branch_type \in {"absolute", "jcc"} /\ Fork(1, "second")
    BY <2>1, <2>2, BranchCountFacts, ForkPreserves
  <2>3. CASE stack' = Resume("second") /\ UNCHANGED <<body, next, status>>
    BY <2>1, <2>3, ResumePreserves
  <2> QED BY <1>3, <2>2, <2>3 DEF FirstBranch
<1>4. CASE SecondBranch
  <2>1. status = "lifting" /\ UNCHANGED <<input, unexplored>> /\ TypeOK /\ stack # <<>>
    BY <1>4 DEF SecondBranch, IInv, TypeOK
  <2>2. CASE TopBlk.branch_type = "jcc" /\ Fork(2, "return")
    BY <2>1, <2>2, BranchCountFacts, ForkPreserves
  <2>3. CASE stack' = Resume("return") /\ UNCHANGED <<body, next, status>>
    BY <2>1, <2>3, ResumePreserves
  <2> QED BY <1>4, <2>2, <2>3 DEF SecondBranch
<1>5. CASE Return
  BY <1>5, PopPreserves DEF Return, IInv, TypeOK
<1>6. CASE Unwind
  BY <1>6, PopPreserves DEF Unwind, IInv, TypeOK
<1>7. CASE UNCHANGED vars
  BY <1>7 DEF vars, IInv, TypeOK, InputOK, ControlOK, ImageBasedOK, NoUndefinedLookup, Blocks,
              TraceClosed, BranchAddr, UnexploredOf, ImgBased
<1> QED BY <1>1, <1>2, <1>3, <1>4, <1>5, <1>6, <1>7 DEF Next

LEMMA Invariance == Spec => []IInv
BY InitIInv, NextIInv, PTL DEF Spec

\* Every variable of the lifter always has its type (vm-lifter.cpp:13-72).
THEOREM TypeCorrect == Spec => []TypeOK
<1>1. IInv => TypeOK
  BY DEF IInv
<1> QED BY <1>1, Invariance, PTL

\* Whatever was traced, no branch of the VTIL routine leads into a block that
\* pushes the VMENTER registers (vm-lifter.cpp:54-63).
THEOREM PrologueTheorem == Spec => []PrologueRunsOnce
<1>1. IInv => PrologueRunsOnce
  <2> SUFFICES ASSUME IInv, NEW link \in next, NEW i \in DOMAIN body[link[2]]
               PROVE  body[link[2]][i] # "vmenter"
    BY DEF PrologueRunsOnce
  <2>1. link[2] \in Blocks /\ link[2] >= ImageBase
    BY DEF IInv, TypeOK, ImageBasedOK
  <2>2. body[link[2]] \in Seq(LiftedMnemonics)
    BY <2>1 DEF IInv, ImageBasedOK
  <2>3. body[link[2]][i] \in LiftedMnemonics
    BY <2>2
  <2> QED BY <2>3 DEF LiftedMnemonics
<1> QED BY <1>1, Invariance, PTL

\* When the emulator succeeded, the iterator that unexplored_branches.find
\* returns is never end(), and m_blks[0] exists (vm-lifter.cpp:29, :42, :55).
THEOREM LookupTheorem == Spec => []NoUndefinedLookup
<1>1. IInv => NoUndefinedLookup
  BY DEF IInv
<1> QED BY <1>1, Invariance, PTL

-----------------------------------------------------------------------------
\* The blocks that calls fill.
Known == ImgBased \cup {RootVip}
Distinct == \A i, j \in DOMAIN stack : stack[i].vtil = stack[j].vtil => i = j

\* What a call has done so far, by where it is.
FrameOK(f) ==
    LET blk == m_blks[f.vmp] IN
    /\ f.vmp = Src(f.vtil)
    /\ f.ip \in 1..(Len(blk.m_vinstrs) + 1)
    /\ body[f.vtil] = Lifting(f.vtil, f.ip - 1)
    /\ \A i \in 1..(f.ip - 1) : blk.m_vinstrs[i] \in LiftedMnemonics
    /\ f.pc # "instrs" =>
         /\ f.ip = Len(blk.m_vinstrs) + 1
         /\ blk.branch_type \in {"absolute", "jcc"} => <<f.vtil, BranchAddr(blk, 1)>> \in next
    /\ f.pc = "return" /\ blk.branch_type = "jcc" => <<f.vtil, BranchAddr(blk, 2)>> \in next

\* What a call that returned true has done.
Done(vip) ==
    LET blk == m_blks[Src(vip)] IN
    /\ body[vip] = Lifting(vip, Len(blk.m_vinstrs))
    /\ \A i \in DOMAIN blk.m_vinstrs : blk.m_vinstrs[i] \in LiftedMnemonics
    /\ \A n \in DOMAIN blk.branches : <<vip, BranchAddr(blk, n)>> \in next

\* FilledInOrder and LiftIsComplete for the calls that are still active; after
\* a failure only the calls matter.
Filled ==
    /\ m_blks # <<>> /\ unexplored = UnexploredOf
    /\ Blocks \subseteq Known
    /\ \A i \in DOMAIN stack : FrameOK(stack[i])
    /\ \A vip \in Blocks \ Active : Done(vip)
    /\ \A link \in next : link[2] \in Succs(link[1])
CopyInv ==
    /\ Len(m_blks) \in Nat /\ DOMAIN m_blks = 1..Len(m_blks)
    /\ Distinct
    /\ \A i \in DOMAIN stack : stack[i].vtil \in Known
    /\ status \in {"lifting", "lifted"} => Filled

-----------------------------------------------------------------------------
LEMMA RootFacts ==
    ASSUME IInv, m_blks # <<>>
    PROVE  /\ 1 \in DOMAIN m_blks /\ RootVip \in Nat /\ RootVip < ImageBase
           /\ \A vip \in ImgBased : vip \in Nat /\ vip >= ImageBase
<1>1. 1 \in DOMAIN m_blks /\ 1 \in DOMAIN BlockRva /\ m_blks[1] \in VBlk(BlockRva[1])
    BY DEF IInv, InputOK, TypeOK
<1>2. RootVip \in Nat /\ RootVip < ImageBase
    BY <1>1, VBlkFields, RvaFacts DEF RootVip
<1>3. ASSUME NEW i \in DOMAIN m_blks
      PROVE  m_blks[i].m_vip.img_based \in Nat /\ m_blks[i].m_vip.img_based >= ImageBase
    <2>1. BlockRva[i] \in Nat /\ m_blks[i] \in VBlk(BlockRva[i]) /\ ImageBase \in Nat
        BY RvaFacts, LifterAssumption DEF IInv, TypeOK
    <2> QED BY <2>1, VBlkFields
<1> QED BY <1>1, <1>2, <1>3 DEF ImgBased

\* Every block the routine can have is the lifting of a traced block.
LEMMA SrcFacts ==
    ASSUME IInv, m_blks # <<>>, unexplored = UnexploredOf, NEW vip \in Known
    PROVE  /\ Src(vip) \in DOMAIN m_blks
           /\ m_blks[Src(vip)].m_vinstrs \in Seq(STRING)
           /\ vip # RootVip => m_blks[Src(vip)].m_vip.img_based = vip
<1>1. Src(vip) \in DOMAIN m_blks /\ (vip # RootVip => m_blks[Src(vip)].m_vip.img_based = vip)
    BY RootFacts DEF Known, Src, UnexploredOf, ImgBased
<1>2. m_blks[Src(vip)] \in VBlk(BlockRva[Src(vip)]) /\ BlockRva[Src(vip)] \in Nat
    BY <1>1, RvaFacts DEF IInv, TypeOK
<1>3. m_blks[Src(vip)].m_vinstrs \in VInstrs
    BY <1>2, VBlkFields
<1> QED BY <1>1, <1>3, LifterAssumption

\* The branches a block has, by its type.
LEMMA BranchesOf ==
    ASSUME IInv, NEW i \in DOMAIN m_blks
    PROVE  /\ m_blks[i].branch_type \in {"absolute", "jcc", "none"}
           /\ DOMAIN m_blks[i].branches =
                IF m_blks[i].branch_type = "jcc" THEN {1, 2}
                ELSE IF m_blks[i].branch_type = "absolute" THEN {1} ELSE {}
<1>1. m_blks[i] \in VBlk(BlockRva[i]) /\ BlockRva[i] \in Nat
    BY RvaFacts DEF IInv, TypeOK
<1>2. /\ m_blks[i].branch_type \in DOMAIN BranchCount
      /\ DOMAIN m_blks[i].branches = 1..BranchCount[m_blks[i].branch_type]
    BY <1>1, VBlkFields
<1>3. DOMAIN BranchCount = {"absolute", "jcc", "none"}
    BY DEF BranchCount
<1>4. /\ BranchCount["jcc"] = 2 /\ BranchCount["absolute"] = 1 /\ BranchCount["none"] = 0
      /\ 1..2 = {1, 2} /\ 1..1 = {1} /\ 1..0 = {}
    BY DEF BranchCount
<1> QED BY <1>2, <1>3, <1>4

\* A step that leaves a block's contents and its source alone, and drops no
\* link, leaves what is known of it.
LEMMA FrameStays ==
    ASSUME UNCHANGED <<m_blks, unexplored>>, next \subseteq next',
           NEW f, FrameOK(f), body'[f.vtil] = body[f.vtil]
    PROVE  FrameOK(f)'
BY DEF FrameOK, Src, RootVip, Lifting, BranchAddr

LEMMA DoneStays ==
    ASSUME UNCHANGED <<m_blks, unexplored>>, next \subseteq next',
           NEW vip, Done(vip), body'[vip] = body[vip]
    PROVE  Done(vip)'
BY DEF Done, Src, RootVip, Lifting, BranchAddr

LEMMA KnownStays ==
    ASSUME UNCHANGED m_blks
    PROVE  /\ Known' = Known /\ ImgBased' = ImgBased /\ RootVip' = RootVip
           /\ UnexploredOf' = UnexploredOf
BY DEF Known, ImgBased, RootVip, UnexploredOf

LEMMA InputStays ==
    ASSUME UNCHANGED <<m_blks, unexplored>>
    PROVE  /\ Known' = Known /\ ImgBased' = ImgBased /\ RootVip' = RootVip
           /\ UnexploredOf' = UnexploredOf
           /\ \A vip : Src(vip)' = Src(vip) /\ Succs(vip)' = Succs(vip)
BY DEF Known, ImgBased, RootVip, UnexploredOf, Src, Succs, BranchAddr

\* What the root block starts with is a sequence too, over any names that
\* contain those of the instructions.
LEMMA PrologueSeq ==
    ASSUME NEW S
    PROVE  Prologue \in Seq(S \cup {"vmenter"})
<1> DEFINE T == S \cup {"vmenter"}
<1>1. "vmenter" \in T
    OBVIOUS
<1> HIDE DEF T
<1>2. <<"vmenter">> \in Seq(T)
    BY <1>1
<1> QED BY <1>2 DEF Prologue, T

\* One more instruction.
LEMMA LiftingGrows ==
    ASSUME NEW S, NEW vip, NEW k \in Nat \ {0}, m_blks[Src(vip)].m_vinstrs \in Seq(S),
           k <= Len(m_blks[Src(vip)].m_vinstrs)
    PROVE  Lifting(vip, k) = Append(Lifting(vip, k - 1), m_blks[Src(vip)].m_vinstrs[k])
<1> DEFINE front == IF vip = RootVip THEN Prologue ELSE <<>>
           T == S \cup {"vmenter"}
<1>0. /\ Prologue \in Seq(T)
      /\ \A seq \in Seq(S) : seq \in Seq(T)
    BY PrologueSeq, SeqMonotonic
<1>1. PICK s \in Seq(T) : s = m_blks[Src(vip)].m_vinstrs
    BY <1>0
<1>2. front \in Seq(T)
    BY <1>0, EmptySeq
<1> HIDE DEF front, T
<1>3. SubSeq(s, 1, k) = Append(SubSeq(s, 1, k - 1), s[k])
    BY <1>1
<1>4. SubSeq(s, 1, k - 1) \in Seq(T) /\ s[k] \in T
    BY <1>1
<1>5. front \o Append(SubSeq(s, 1, k - 1), s[k]) = Append(front \o SubSeq(s, 1, k - 1), s[k])
    BY <1>2, <1>4
<1> QED BY <1>1, <1>3, <1>5 DEF Lifting, front

\* Nothing yet.
LEMMA LiftingStarts ==
    ASSUME NEW vip
    PROVE  Lifting(vip, 0) = IF vip = RootVip THEN Prologue ELSE <<>>
<1>1. SubSeq(m_blks[Src(vip)].m_vinstrs, 1, 0) = <<>>
    BY SubSeqEmpty
<1>2. Prologue \in Seq({"vmenter"})
    BY PrologueSeq
<1>3. Prologue \o <<>> = Prologue /\ <<>> \o <<>> = <<>>
    BY <1>2, ConcatEmptySeq, EmptySeq
<1> QED BY <1>1, <1>3 DEF Lifting
-----------------------------------------------------------------------------
\* lift(): the root block holds its prologue and is the block of the only call.
LEMMA LiftCopies ==
    ASSUME IInv, CopyInv, Lift PROVE CopyInv'
<1>1. /\ UNCHANGED <<m_blks, next>> /\ next = {} /\ stack = <<>>
    BY DEF Lift, input, IInv, ControlOK
<1>2. CASE m_blks = <<>>
    <2>1. status' = "undefined" /\ stack' = <<>>
        BY <1>1, <1>2 DEF Lift
    <2> QED BY <1>1, <2>1 DEF CopyInv, Distinct
<1>3. CASE m_blks # <<>>
    <2>1. /\ unexplored' = UnexploredOf /\ body' = [vip \in {RootVip} |-> Prologue]
          /\ stack' = <<Call(1, RootVip)>> /\ status' = "lifting"
        BY <1>3 DEF Lift
    <2>2. /\ DOMAIN stack' = {1} /\ stack'[1] = Call(1, RootVip)
          /\ Call(1, RootVip).vmp = 1 /\ Call(1, RootVip).vtil = RootVip
          /\ Call(1, RootVip).ip = 1 /\ Call(1, RootVip).pc = "instrs"
        BY <2>1 DEF Call
    <2>3. /\ Known' = Known /\ RootVip' = RootVip /\ UnexploredOf' = UnexploredOf
          /\ RootVip \in Known
        BY <1>1, KnownStays DEF Known
    <2>4. Lifting(RootVip, 0)' = Prologue
        <3>1. Src(RootVip)' = 1 /\ Src(RootVip) = 1
            BY <2>3 DEF Src
        <3>2. Lifting(RootVip, 0)' = Lifting(RootVip, 0)
            BY <1>1, <2>3, <3>1 DEF Lifting, Prologue
        <3> QED BY <3>2, LiftingStarts
    <2>5. FrameOK(stack[1])'
        <3>0. PICK f : f = stack'[1]
            OBVIOUS
        <3>1. Src(RootVip)' = 1
            BY <2>3 DEF Src
        <3>2. body'[RootVip] = Prologue
            BY <2>1
        <3>3. m_blks'[1].m_vinstrs \in Seq(STRING)
            <4>1. 1 \in DOMAIN m_blks /\ 1 \in DOMAIN BlockRva /\ m_blks[1] \in VBlk(BlockRva[1])
                BY <1>3 DEF IInv, InputOK, TypeOK
            <4> QED BY <1>1, <4>1, VBlkFields, RvaFacts, LifterAssumption
        <3>4. /\ f.vmp = Src(f.vtil)' /\ f.ip = 1 /\ f.pc = "instrs" /\ f.vmp = 1
              /\ body'[f.vtil] = Lifting(f.vtil, 0)'
            <4>1. f.vtil = RootVip /\ f.vmp = 1 /\ f.ip = 1 /\ f.pc = "instrs"
                BY <2>2, <3>0
            <4>2. f.vtil = RootVip'
                BY <2>3, <4>1
            <4>3. Src(f.vtil)' = 1 /\ Lifting(f.vtil, 0)' = Prologue
                BY <2>4, <3>1, <4>2
            <4> QED BY <3>2, <4>1, <4>3
        <3>5. 1 \in 1..(Len(m_blks'[1].m_vinstrs) + 1) /\ 1 - 1 = 0 /\ 1..0 = {}
            BY <3>3
        <3>6. FrameOK(f)'
            BY <3>4, <3>5 DEF FrameOK
        <3> QED BY <3>0, <3>6
    <2>6. Blocks' = {RootVip} /\ Active' = {RootVip}
        BY <2>1, <2>2 DEF Blocks, Active
    <2>7. Filled'
        BY <1>1, <1>3, <2>1, <2>2, <2>3, <2>5, <2>6 DEF Filled
    <2> QED BY <1>1, <2>2, <2>3, <2>7 DEF CopyInv, Distinct
<1> QED BY <1>2, <1>3

\* The call on top writes to its own block only, which no other call fills.
LEMMA LiftHandlerCopies ==
    ASSUME IInv, CopyInv, LiftHandler PROVE CopyInv'
<1> DEFINE mnemonic == TopBlk.m_vinstrs[Top.ip]
           top == Len(stack)
<1>1. /\ UNCHANGED <<m_blks, unexplored, next>>
      /\ status = "lifting" /\ stack # <<>> /\ TypeOK
      /\ Top.pc = "instrs" /\ Top.ip <= Len(TopBlk.m_vinstrs)
    BY DEF LiftHandler, input, IInv, TypeOK
<1>2. /\ Known' = Known /\ UnexploredOf' = UnexploredOf
      /\ \A vip : Src(vip)' = Src(vip) /\ Succs(vip)' = Succs(vip)
    BY <1>1, InputStays
<1>3. CASE mnemonic \notin LiftedMnemonics
    <2>1. status' = "failing" /\ UNCHANGED <<body, stack>>
        BY <1>3 DEF LiftHandler
    <2> QED BY <1>1, <1>2, <2>1 DEF CopyInv, Distinct
<1>4. CASE mnemonic \in LiftedMnemonics
    <2>1. /\ body' = [body EXCEPT ![Top.vtil] = Append(body[Top.vtil], mnemonic)]
          /\ stack' = [stack EXCEPT ![top] = [stack[top] EXCEPT !.ip = @ + 1]]
          /\ status' = status
        BY <1>4 DEF LiftHandler
    <2>2. /\ Top.vtil \in Blocks /\ Top \in Frame /\ Top = stack[top] /\ top \in DOMAIN stack
        BY <1>1, TopFacts
    <2>3. Filled /\ Distinct
        BY <1>1 DEF CopyInv
    <2>4. /\ DOMAIN stack' = DOMAIN stack
          /\ \A i \in DOMAIN stack : i # top => stack'[i] = stack[i]
          /\ stack'[top] = [Top EXCEPT !.ip = @ + 1]
        BY <2>1, <2>2
    <2>5. \A i \in DOMAIN stack : stack'[i].vtil = stack[i].vtil
        BY <2>2, <2>4 DEF Frame
    <2>6. \A vip : vip # Top.vtil => body'[vip] = body[vip]
        BY <2>1
    <2>7. \A i \in DOMAIN stack : i = top => FrameOK(stack[i])'
        <3>1. FrameOK(Top)
            BY <2>2, <2>3 DEF Filled
        <3>2. /\ Src(Top.vtil) = Top.vmp /\ TopBlk = m_blks[Src(Top.vtil)]
              /\ Top.ip \in 1..(Len(TopBlk.m_vinstrs) + 1)
              /\ body[Top.vtil] = Lifting(Top.vtil, Top.ip - 1)
              /\ \A i \in 1..(Top.ip - 1) : TopBlk.m_vinstrs[i] \in LiftedMnemonics
            BY <3>1 DEF FrameOK, TopBlk
        <3>3. TopBlk.m_vinstrs \in Seq(STRING)
            BY <1>1, TopFacts, VBlkFields, LifterAssumption
        <3>4. Len(TopBlk.m_vinstrs) \in Nat /\ Top.ip \in Nat \ {0}
            BY <3>2, <3>3
        <3>5. Lifting(Top.vtil, Top.ip) = Append(Lifting(Top.vtil, Top.ip - 1), mnemonic)
            <4>1. /\ Top.ip \in Nat \ {0} /\ m_blks[Src(Top.vtil)].m_vinstrs \in Seq(STRING)
                  /\ Top.ip <= Len(m_blks[Src(Top.vtil)].m_vinstrs)
                BY <1>1, <3>2, <3>3, <3>4
            <4>2. Lifting(Top.vtil, Top.ip) =
                    Append(Lifting(Top.vtil, Top.ip - 1), m_blks[Src(Top.vtil)].m_vinstrs[Top.ip])
                BY <4>1, LiftingGrows
            <4> QED BY <3>2, <4>2
        <3>6. body'[Top.vtil] = Lifting(Top.vtil, Top.ip)
            BY <2>1, <2>2, <3>2, <3>5 DEF Blocks
        <3>7. RootVip' = RootVip
            BY <1>1, InputStays
        <3>8. /\ stack'[top].vmp = Top.vmp /\ stack'[top].vtil = Top.vtil
              /\ stack'[top].ip = Top.ip + 1 /\ stack'[top].pc = "instrs"
            BY <1>1, <2>2, <2>4 DEF Frame
        <3>9. PICK f : f = stack'[top]
            OBVIOUS
        <3>10. /\ f.vtil = Top.vtil /\ f.vmp = Top.vmp /\ f.pc = "instrs"
               /\ f.ip = Top.ip + 1 /\ f.ip - 1 = Top.ip
            BY <3>4, <3>8, <3>9
        <3>11. PICK vip, k : vip = Top.vtil /\ k = Top.ip
            OBVIOUS
        <3>12. Lifting(vip, k)' = Lifting(vip, k)
            BY <1>1, <1>2, <3>7 DEF Lifting, Prologue
        <3>13. body'[f.vtil] = Lifting(f.vtil, f.ip - 1)'
            BY <3>6, <3>10, <3>11, <3>12
        <3>14. \A i \in 1..(f.ip - 1) : TopBlk.m_vinstrs[i] \in LiftedMnemonics
            BY <1>4, <3>2, <3>4, <3>10
        <3>15. f.ip \in 1..(Len(TopBlk.m_vinstrs) + 1)
            BY <1>1, <3>4, <3>10
        <3>16. m_blks'[f.vmp] = TopBlk /\ f.vmp = Src(f.vtil)'
            BY <1>1, <1>2, <3>2, <3>10 DEF TopBlk
        <3>17. FrameOK(f)'
            BY <3>10, <3>13, <3>14, <3>15, <3>16 DEF FrameOK
        <3> QED BY <2>2, <3>9, <3>17
    <2>8. \A i \in DOMAIN stack : i # top => FrameOK(stack[i])'
        <3> SUFFICES ASSUME NEW i \in DOMAIN stack, i # top PROVE FrameOK(stack[i])'
            OBVIOUS
        <3>1. stack[i].vtil # Top.vtil
            BY <2>2, <2>3 DEF Distinct
        <3>2. FrameOK(stack[i]) /\ body'[stack[i].vtil] = body[stack[i].vtil]
            BY <2>3, <2>6, <3>1 DEF Filled
        <3>3. PICK f : f = stack[i]
            OBVIOUS
        <3>4. FrameOK(f)'
            BY <1>1, <3>2, <3>3, FrameStays
        <3> QED BY <2>4, <3>3, <3>4
    <2>9. \A vip \in Blocks' \ Active' : Done(vip)'
        <3>1. Blocks' = Blocks /\ Active' = Active /\ Top.vtil \in Active
            BY <2>1, <2>2, <2>4, <2>5 DEF Blocks, Active
        <3> SUFFICES ASSUME NEW vip \in Blocks \ Active PROVE Done(vip)'
            BY <3>1
        <3>2. Done(vip) /\ body'[vip] = body[vip]
            BY <2>3, <2>6, <3>1 DEF Filled
        <3> QED BY <1>1, <3>2, DoneStays
    <2>10. Filled'
        <3>1. Blocks' = Blocks
            BY <2>1 DEF Blocks
        <3>2. \A i \in DOMAIN stack' : FrameOK(stack[i])'
            BY <2>4, <2>7, <2>8
        <3> QED BY <1>1, <1>2, <2>3, <2>9, <3>1, <3>2 DEF Filled
    <2> QED BY <1>1, <1>2, <2>4, <2>5, <2>10 DEF CopyInv, Distinct
<1> QED BY <1>3, <1>4
\* The call on top goes on: past the loop over the instructions, or past the
\* first branch, with the link that branch calls for.
Advances(cont) ==
    /\ status = "lifting" /\ UNCHANGED <<m_blks, unexplored>> /\ next \subseteq next'
    /\ \/ cont = "second" /\ Top.pc = "instrs" /\ Top.ip > Len(TopBlk.m_vinstrs)
       \/ cont = "return" /\ Top.pc = "second"
    /\ cont = "second" /\ TopBlk.branch_type \in {"absolute", "jcc"} =>
         <<Top.vtil, BranchAddr(TopBlk, 1)>> \in next'
    /\ cont = "return" /\ TopBlk.branch_type = "jcc" =>
         <<Top.vtil, BranchAddr(TopBlk, 2)>> \in next'
    /\ \A vip \in Blocks : body'[vip] = body[vip]

LEMMA AdvanceFacts ==
    ASSUME IInv, CopyInv, NEW cont, Advances(cont),
           NEW i \in DOMAIN stack, NEW f, f = Resume(cont)[i]
    PROVE  FrameOK(f)'
<1> DEFINE top == Len(stack)
<1>1. /\ status = "lifting" /\ UNCHANGED <<m_blks, unexplored>> /\ next \subseteq next'
      /\ stack # <<>> /\ TypeOK /\ Filled
    BY DEF Advances, IInv, TypeOK, CopyInv
<1>2. /\ Resume(cont) = [stack EXCEPT ![top] = [stack[top] EXCEPT !.pc = cont]]
      /\ top \in DOMAIN stack /\ Top = stack[top] /\ Top \in Frame /\ Top.vtil \in Blocks
    BY <1>1, TopFacts DEF Resume
<1>3. stack[i].vtil \in Blocks
    BY <1>1 DEF TypeOK
<1>4. CASE i # top
    <2>1. f = stack[i] /\ FrameOK(f) /\ body'[f.vtil] = body[f.vtil]
        BY <1>1, <1>2, <1>3, <1>4 DEF Filled, Advances
    <2> QED BY <1>1, <2>1, FrameStays
<1>5. CASE i = top
    <2>1. /\ f = [Top EXCEPT !.pc = cont]
          /\ f.vmp = Top.vmp /\ f.vtil = Top.vtil /\ f.ip = Top.ip /\ f.pc = cont
        BY <1>2, <1>5 DEF Frame
    <2>2. FrameOK(Top)
        BY <1>1, <1>2 DEF Filled
    <2>3. /\ Top.vmp = Src(Top.vtil)
          /\ Top.ip \in 1..(Len(TopBlk.m_vinstrs) + 1)
          /\ body[Top.vtil] = Lifting(Top.vtil, Top.ip - 1)
          /\ \A k \in 1..(Top.ip - 1) : TopBlk.m_vinstrs[k] \in LiftedMnemonics
        BY <2>2 DEF FrameOK, TopBlk
    <2>4. Len(TopBlk.m_vinstrs) \in Nat
        <3>1. TopBlk.m_vinstrs \in Seq(STRING)
            BY <1>1, TopFacts, VBlkFields, LifterAssumption
        <3> QED BY <3>1
    <2>5. Top.ip = Len(TopBlk.m_vinstrs) + 1
        <3>1. CASE Top.pc = "instrs" /\ Top.ip > Len(TopBlk.m_vinstrs)
            BY <2>3, <2>4, <3>1
        <3>2. CASE Top.pc = "second"
            BY <2>2, <3>2 DEF FrameOK, TopBlk
        <3> QED BY <3>1, <3>2 DEF Advances
    <2>6. TopBlk.branch_type \in {"absolute", "jcc"} => <<Top.vtil, BranchAddr(TopBlk, 1)>> \in next'
        <3>1. CASE cont = "second"
            BY <3>1 DEF Advances
        <3>2. CASE Top.pc = "second"
            BY <1>1, <2>2, <3>2 DEF FrameOK, TopBlk
        <3> QED BY <3>1, <3>2 DEF Advances
    <2>7. cont = "return" /\ TopBlk.branch_type = "jcc" => <<Top.vtil, BranchAddr(TopBlk, 2)>> \in next'
        BY DEF Advances
    <2>8. PICK blk : blk = TopBlk
        OBVIOUS
    <2>9. m_blks[f.vmp] = blk /\ m_blks'[f.vmp] = blk
        BY <1>1, <2>1, <2>8 DEF TopBlk
    <2>10. Src(f.vtil)' = Src(f.vtil) /\ RootVip' = RootVip
        BY <1>1, InputStays
    <2>11. Lifting(f.vtil, f.ip - 1)' = Lifting(f.vtil, f.ip - 1)
        BY <1>1, <2>10 DEF Lifting, Prologue
    <2>12. body'[f.vtil] = body[f.vtil]
        BY <1>2, <2>1 DEF Advances
    <2>13. /\ f.vmp = Src(f.vtil)'
           /\ f.ip = Len(blk.m_vinstrs) + 1 /\ f.ip \in 1..(Len(blk.m_vinstrs) + 1)
           /\ body'[f.vtil] = Lifting(f.vtil, f.ip - 1)'
           /\ \A k \in 1..(f.ip - 1) : blk.m_vinstrs[k] \in LiftedMnemonics
        BY <2>1, <2>3, <2>5, <2>8, <2>10, <2>11, <2>12
    <2>14. /\ blk.branch_type \in {"absolute", "jcc"} => <<f.vtil, BranchAddr(blk, 1)>> \in next'
           /\ f.pc = "return" /\ blk.branch_type = "jcc" => <<f.vtil, BranchAddr(blk, 2)>> \in next'
        BY <2>1, <2>6, <2>7, <2>8
    <2> QED BY <2>9, <2>13, <2>14 DEF FrameOK, BranchAddr
<1> QED BY <1>4, <1>5

\* What the call on top does not touch, when it goes on without a fork.
LEMMA ResumeCopies ==
    ASSUME IInv, CopyInv, UNCHANGED <<body, next, status>>,
           NEW cont \in {"second", "return"}, Advances(cont), stack' = Resume(cont)
    PROVE  CopyInv'
<1>1. /\ status = "lifting" /\ UNCHANGED <<m_blks, unexplored>> /\ next \subseteq next'
      /\ stack # <<>> /\ TypeOK /\ Filled
    BY DEF Advances, IInv, TypeOK, CopyInv
<1>2. /\ DOMAIN stack' = DOMAIN stack
      /\ \A i \in DOMAIN stack : stack'[i].vtil = stack[i].vtil
    BY <1>1, ResumeFacts
<1>3. /\ Known' = Known /\ UnexploredOf' = UnexploredOf
      /\ \A vip : Src(vip)' = Src(vip) /\ Succs(vip)' = Succs(vip)
    BY <1>1, InputStays
<1>4. \A i \in DOMAIN stack' : FrameOK(stack[i])'
    <2> SUFFICES ASSUME NEW i \in DOMAIN stack PROVE FrameOK(stack[i])'
        BY <1>2
    <2>1. PICK f : f = Resume(cont)[i]
        OBVIOUS
    <2>2. FrameOK(f)'
        BY <2>1, AdvanceFacts
    <2> QED BY <2>1, <2>2
<1>5. \A vip \in Blocks' \ Active' : Done(vip)'
    <2>1. Blocks' = Blocks /\ Active' = Active
        BY <1>2 DEF Blocks, Active
    <2> QED BY <1>1, <2>1, DoneStays DEF Filled
<1>6. Filled'
    BY <1>1, <1>3, <1>4, <1>5 DEF Filled, Blocks
<1> QED BY <1>1, <1>2, <1>3, <1>6 DEF CopyInv, Distinct
\* A fork links the block, and makes and enters the other end if it is new.
LEMMA ForkCopies ==
    ASSUME IInv, CopyInv, NEW n \in DOMAIN TopBlk.branches, NEW cont \in {"second", "return"},
           Advances(cont), Fork(n, cont)
    PROVE  CopyInv'
<1>1. /\ status = "lifting" /\ UNCHANGED <<m_blks, unexplored>> /\ next \subseteq next'
      /\ stack # <<>> /\ TypeOK /\ Filled /\ Distinct /\ m_blks # <<>>
    BY DEF Advances, IInv, TypeOK, CopyInv, Filled
<1>2. PICK addr : addr = BranchAddr(TopBlk, n)
    OBVIOUS
<1>3. /\ addr \in Nat /\ addr # RootVip
      /\ Top.vtil \in Blocks /\ Blocks \subseteq Known
      /\ \A i \in DOMAIN stack : stack[i].vtil \in Blocks
    <2>1. RootVip \in Nat /\ RootVip < ImageBase /\ ImageBase \in Nat
        BY <1>1, RootFacts, LifterAssumption
    <2> QED BY <1>1, <1>2, <2>1, BranchAddrFacts, TopFacts DEF TypeOK, Filled
<1>4. /\ next' = next \cup {<<Top.vtil, addr>>}
      /\ body' = IF addr \in DOMAIN body THEN body
                 ELSE [vip \in DOMAIN body \cup {addr} |-> IF vip = addr THEN <<>> ELSE body[vip]]
    BY <1>2 DEF Fork, ForkBlock
<1>5. /\ Known' = Known /\ UnexploredOf' = UnexploredOf /\ RootVip' = RootVip
      /\ \A vip : Src(vip)' = Src(vip) /\ Succs(vip)' = Succs(vip)
    BY <1>1, InputStays
<1>6. /\ Resume(cont) \in Seq(Frame) /\ DOMAIN Resume(cont) = DOMAIN stack
      /\ \A i \in DOMAIN stack : Resume(cont)[i].vtil = stack[i].vtil
    BY <1>1, ResumeFacts
<1>7. \A link \in next' : link[2] \in Succs(link[1])
    <2>1. FrameOK(Top)
        BY <1>1, TopFacts DEF Filled
    <2>2. Src(Top.vtil) = Top.vmp
        BY <2>1 DEF FrameOK
    <2>3. addr \in Succs(Top.vtil)
        BY <1>2, <2>2 DEF Succs, TopBlk
    <2> QED BY <1>1, <1>4, <2>3 DEF Filled
<1>8. \A i \in DOMAIN stack : \A f : f = Resume(cont)[i] => FrameOK(f)'
    BY AdvanceFacts
<1>9. CASE addr \in Blocks
    <2>1. stack' = Resume(cont) /\ body' = body /\ status' = status
        BY <1>2, <1>4, <1>9 DEF Fork, LiftBlock, Blocks
    <2>2. /\ DOMAIN stack' = DOMAIN stack
          /\ \A i \in DOMAIN stack : stack'[i].vtil = stack[i].vtil
        BY <1>6, <2>1
    <2>3. \A i \in DOMAIN stack' : FrameOK(stack[i])'
        <3> SUFFICES ASSUME NEW i \in DOMAIN stack PROVE FrameOK(stack[i])'
            BY <2>2
        <3>1. PICK f : f = Resume(cont)[i]
            OBVIOUS
        <3>2. FrameOK(f)'
            BY <1>8, <3>1
        <3> QED BY <2>1, <3>1, <3>2
    <2>4. \A vip \in Blocks' \ Active' : Done(vip)'
        <3>1. Blocks' = Blocks /\ Active' = Active
            BY <2>1, <2>2 DEF Blocks, Active
        <3> QED BY <1>1, <2>1, <3>1, DoneStays DEF Filled
    <2>5. Filled'
        BY <1>1, <1>5, <1>7, <2>1, <2>3, <2>4 DEF Filled, Blocks
    <2> QED BY <1>1, <1>5, <2>2, <2>5 DEF CopyInv, Distinct
<1>10. CASE addr \notin Blocks /\ addr \in DOMAIN unexplored
    <2>1. /\ stack' = Append(Resume(cont), Call(unexplored[addr], addr)) /\ status' = status
          /\ Blocks' = Blocks \cup {addr} /\ body'[addr] = <<>>
          /\ \A vip \in Blocks : body'[vip] = body[vip]
        BY <1>2, <1>4, <1>10 DEF Fork, LiftBlock, Recurse, Blocks
    <2>2. PICK new : new = Call(unexplored[addr], addr)
        OBVIOUS
    <2>3. /\ new.vmp = unexplored[addr] /\ new.vtil = addr /\ new.ip = 1 /\ new.pc = "instrs"
        BY <2>2 DEF Call
    <2>4. PICK top : top = Len(stack)
        OBVIOUS
    <2>5. /\ top \in Nat /\ DOMAIN stack = 1..top /\ DOMAIN stack' = 1..(top + 1)
          /\ stack'[top + 1] = new
          /\ \A i \in 1..top : stack'[i] = Resume(cont)[i]
        <3>1. top \in Nat /\ DOMAIN stack = 1..top
            BY <1>1, <2>4 DEF TypeOK
        <3>2. Resume(cont) \in Seq(Frame) /\ Len(Resume(cont)) = top
            BY <1>6, <3>1
        <3>3. stack' = Append(Resume(cont), new)
            BY <2>1, <2>2
        <3> QED BY <3>1, <3>2, <3>3
    <2>6. addr \in Known /\ Src(addr) = unexplored[addr]
        BY <1>1, <1>3, <1>10 DEF Known, Filled, UnexploredOf, Src
    <2>7. FrameOK(new)'
        <3>1. Src(addr) \in DOMAIN m_blks /\ m_blks[Src(addr)].m_vinstrs \in Seq(STRING)
            BY <1>1, <2>6, SrcFacts DEF Filled
        <3>2. 1 \in 1..(Len(m_blks[Src(addr)].m_vinstrs) + 1) /\ 1 - 1 = 0 /\ 1..0 = {}
            BY <3>1
        <3>3. Lifting(addr, 0) = <<>>
            BY <1>3, LiftingStarts
        <3>4. Lifting(addr, 0)' = Lifting(addr, 0)
            BY <1>1, <1>5 DEF Lifting, Prologue
        <3> QED BY <1>1, <1>5, <2>1, <2>3, <2>6, <3>2, <3>3, <3>4 DEF FrameOK
    <2>8. \A i \in DOMAIN stack' : FrameOK(stack[i])'
        <3> SUFFICES ASSUME NEW i \in DOMAIN stack' PROVE FrameOK(stack[i])'
            OBVIOUS
        <3>1. CASE i \in 1..top
            <4>1. PICK f : f = Resume(cont)[i]
                OBVIOUS
            <4>2. FrameOK(f)'
                BY <1>8, <2>5, <3>1, <4>1
            <4> QED BY <2>5, <3>1, <4>1, <4>2
        <3>2. CASE i = top + 1
            BY <2>5, <2>7, <3>2
        <3> QED BY <2>5, <3>1, <3>2
    <2>9. /\ stack'[top + 1].vtil = addr
          /\ \A i \in 1..top : stack'[i].vtil = stack[i].vtil
        BY <1>6, <2>3, <2>5
    <2>10. Active' = Active \cup {addr}
        <3>1. 1..(top + 1) = 1..top \cup {top + 1}
            BY <2>5
        <3> QED BY <2>5, <2>9, <3>1 DEF Active
    <2>11. \A vip \in Blocks' \ Active' : Done(vip)'
        BY <1>1, <2>1, <2>10, DoneStays DEF Filled
    <2>12. Filled'
        BY <1>1, <1>3, <1>5, <1>7, <2>1, <2>6, <2>8, <2>11 DEF Filled
    <2>13. Distinct'
        <3> SUFFICES ASSUME NEW i \in 1..(top + 1), NEW j \in 1..(top + 1),
                            stack'[i].vtil = stack'[j].vtil
                     PROVE  i = j
            BY <2>5 DEF Distinct
        <3>1. \A k \in 1..top : stack'[k].vtil # addr
            BY <1>3, <1>10, <2>5, <2>9
        <3>2. CASE i \in 1..top /\ j \in 1..top
            BY <1>1, <2>5, <2>9, <3>2 DEF Distinct
        <3> QED BY <2>5, <2>9, <3>1, <3>2
    <2>14. \A i \in DOMAIN stack' : stack'[i].vtil \in Known
        <3>1. \A i \in 1..(top + 1) : i \in 1..top \/ i = top + 1
            BY <2>5
        <3> QED BY <1>3, <2>5, <2>6, <2>9, <3>1
    <2> QED BY <1>1, <1>5, <2>12, <2>13, <2>14 DEF CopyInv
<1>11. CASE addr \notin Blocks /\ addr \notin DOMAIN unexplored
    <2>1. status' = "undefined" /\ stack' = stack
        BY <1>2, <1>11 DEF Fork, LiftBlock, Recurse, Blocks
    <2> QED BY <1>1, <1>5, <2>1 DEF CopyInv, Distinct
<1> QED BY <1>9, <1>10, <1>11
\* A call that returned true has filled its block and linked it completely.
LEMMA DoneFacts ==
    ASSUME IInv, CopyInv, status = "lifting", Top.pc = "return"
    PROVE  Done(Top.vtil)
<1>1. stack # <<>> /\ TypeOK /\ Filled
    BY DEF IInv, TypeOK, CopyInv
<1>2. /\ FrameOK(Top) /\ Top.vmp \in DOMAIN m_blks
      /\ TopBlk.m_vinstrs \in Seq(STRING)
    BY <1>1, TopFacts, VBlkFields, LifterAssumption DEF Filled
<1>3. /\ Top.vmp = Src(Top.vtil) /\ TopBlk = m_blks[Src(Top.vtil)]
      /\ Top.ip = Len(TopBlk.m_vinstrs) + 1
      /\ body[Top.vtil] = Lifting(Top.vtil, Top.ip - 1)
      /\ \A i \in 1..(Top.ip - 1) : TopBlk.m_vinstrs[i] \in LiftedMnemonics
      /\ TopBlk.branch_type \in {"absolute", "jcc"} => <<Top.vtil, BranchAddr(TopBlk, 1)>> \in next
      /\ TopBlk.branch_type = "jcc" => <<Top.vtil, BranchAddr(TopBlk, 2)>> \in next
    BY <1>2 DEF FrameOK, TopBlk
<1>4. /\ Top.ip - 1 = Len(TopBlk.m_vinstrs)
      /\ DOMAIN TopBlk.m_vinstrs = 1..Len(TopBlk.m_vinstrs)
    BY <1>2, <1>3
<1>5. \A n \in DOMAIN TopBlk.branches : <<Top.vtil, BranchAddr(TopBlk, n)>> \in next
    <2>1. /\ TopBlk.branch_type \in {"absolute", "jcc", "none"}
          /\ DOMAIN TopBlk.branches =
                IF TopBlk.branch_type = "jcc" THEN {1, 2}
                ELSE IF TopBlk.branch_type = "absolute" THEN {1} ELSE {}
        BY <1>2, BranchesOf DEF TopBlk
    <2> QED BY <1>3, <2>1
<1> QED BY <1>3, <1>4, <1>5 DEF Done

\* A call returns, with true or with false.
LEMMA PopCopies ==
    ASSUME IInv, CopyInv, stack # <<>>, UNCHANGED <<input, unexplored, body, next>>, stack' = Pop,
           \/ status = "lifting" /\ Top.pc = "return"
           \/ status = "failing" /\ status' \in {"failed", "failing"}
    PROVE  CopyInv'
<1>1. PICK top : top = Len(stack)
    OBVIOUS
<1>2. /\ top \in Nat \ {0} /\ DOMAIN stack = 1..top /\ DOMAIN stack' = 1..(top - 1)
      /\ \A i \in 1..(top - 1) : stack'[i] = stack[i]
    <2>1. stack \in Seq(Frame) /\ top \in Nat \ {0} /\ DOMAIN stack = 1..top
        BY <1>1 DEF IInv, TypeOK
    <2>2. stack' = SubSeq(stack, 1, top - 1)
        BY <1>1 DEF Pop
    <2>3. \A i \in 1..(top - 1) : stack[i] \in Frame
        BY <2>1
    <2>4. 1 \in Int /\ top - 1 \in Int /\ top - 1 - 1 + 1 = top - 1
        BY <2>1
    <2>5. /\ stack' \in Seq(Frame)
          /\ Len(stack') = IF 1 <= top - 1 THEN top - 1 - 1 + 1 ELSE 0
          /\ \A i \in 1..(top - 1 - 1 + 1) : stack'[i] = stack[1 + i - 1]
        BY <2>2, <2>3, <2>4, SubSeqProperties
    <2> QED BY <2>1, <2>4, <2>5
<1>3. UNCHANGED <<m_blks, unexplored, body, next>>
    BY DEF input
<1>4. /\ Known' = Known /\ UnexploredOf' = UnexploredOf
      /\ \A vip : Src(vip)' = Src(vip) /\ Succs(vip)' = Succs(vip)
    BY <1>3, InputStays
<1>5. /\ DOMAIN stack' \subseteq DOMAIN stack
      /\ \A i \in DOMAIN stack' : stack'[i] = stack[i]
    BY <1>2
<1>6. CASE status = "failing"
    BY <1>3, <1>4, <1>5, <1>6 DEF CopyInv, Distinct
<1>7. CASE status = "lifting"
    <2>1. Filled /\ Done(Top.vtil)
        BY <1>7, DoneFacts DEF CopyInv
    <2>2. \A i \in DOMAIN stack' : FrameOK(stack[i])'
        <3> SUFFICES ASSUME NEW i \in DOMAIN stack' PROVE FrameOK(stack[i])'
            OBVIOUS
        <3>1. PICK f : f = stack[i]
            OBVIOUS
        <3>2. FrameOK(f)
            BY <1>5, <2>1, <3>1 DEF Filled
        <3>3. FrameOK(f)'
            BY <1>3, <3>2, FrameStays
        <3> QED BY <1>5, <3>1, <3>3
    <2>3. \A vip \in Blocks' \ Active' : Done(vip)'
        <3> SUFFICES ASSUME NEW vip \in Blocks, vip \notin Active' PROVE Done(vip)'
            BY <1>3 DEF Blocks
        <3>1. vip \notin Active \/ vip = Top.vtil
            <4> SUFFICES ASSUME NEW i \in 1..top, stack[i].vtil = vip PROVE vip = Top.vtil
                BY <1>2 DEF Active
            <4>1. i \notin 1..(top - 1)
                BY <1>2 DEF Active
            <4>2. i = top
                BY <1>2, <4>1
            <4> QED BY <1>1, <4>2 DEF Top
        <3>2. Done(vip)
            BY <2>1, <3>1 DEF Filled
        <3> QED BY <1>3, <3>2, DoneStays
    <2>4. Filled'
        BY <1>3, <1>4, <2>1, <2>2, <2>3 DEF Filled, Blocks
    <2> QED BY <1>3, <1>4, <1>5, <2>4 DEF CopyInv, Distinct
<1> QED BY <1>6, <1>7

-----------------------------------------------------------------------------
LEMMA InitCopyInv == Init => CopyInv
<1> SUFFICES ASSUME Init PROVE CopyInv
    OBVIOUS
<1>1. PICK n \in 0..Len(BlockRva) : m_blks \in [1..n -> UNION {VBlk(rva) : rva \in RvaSet}]
    BY DEF Init
<1>2. n \in Nat
    BY <1>1, RvaFacts
<1>3. m_blks \in Seq(UNION {VBlk(rva) : rva \in RvaSet}) /\ Len(m_blks) = n
    BY <1>1, <1>2
<1>4. stack = <<>> /\ status = "ready"
    BY DEF Init
<1> QED BY <1>1, <1>2, <1>3, <1>4 DEF CopyInv, Distinct

\* What each of the two forking actions makes of the call on top.
LEMMA BranchAdvances ==
    ASSUME IInv, FirstBranch \/ SecondBranch
    PROVE  \/ \E n \in DOMAIN TopBlk.branches, cont \in {"second", "return"} :
                 Fork(n, cont) /\ Advances(cont)
           \/ \E cont \in {"second", "return"} :
                 stack' = Resume(cont) /\ Advances(cont) /\ UNCHANGED <<body, next, status>>
<1>1. /\ status = "lifting" /\ stack # <<>> /\ TypeOK /\ UNCHANGED <<m_blks, unexplored>>
    BY DEF FirstBranch, SecondBranch, input, IInv, TypeOK
<1>2. ASSUME NEW n, NEW cont, Fork(n, cont)
      PROVE  /\ next \subseteq next' /\ <<Top.vtil, BranchAddr(TopBlk, n)>> \in next'
             /\ \A vip \in Blocks : body'[vip] = body[vip]
    BY <1>2 DEF Fork, ForkBlock, Blocks
<1>3. CASE FirstBranch
    <2>1. CASE TopBlk.branch_type \in {"absolute", "jcc"} /\ Fork(1, "second")
        <3>1. 1 \in DOMAIN TopBlk.branches
            BY <1>1, <2>1, BranchCountFacts
        <3>2. Advances("second")
            BY <1>1, <1>2, <1>3, <2>1 DEF Advances, FirstBranch
        <3> QED BY <2>1, <3>1, <3>2
    <2>2. CASE /\ TopBlk.branch_type \notin {"absolute", "jcc"}
               /\ stack' = Resume("second") /\ UNCHANGED <<body, next, status>>
        <3>1. Advances("second")
            BY <1>1, <1>3, <2>2 DEF Advances, FirstBranch
        <3> QED BY <2>2, <3>1
    <2> QED BY <1>3, <2>1, <2>2 DEF FirstBranch
<1>4. CASE SecondBranch
    <2>1. CASE TopBlk.branch_type = "jcc" /\ Fork(2, "return")
        <3>1. 2 \in DOMAIN TopBlk.branches
            BY <1>1, <2>1, BranchCountFacts
        <3>2. Advances("return")
            BY <1>1, <1>2, <1>4, <2>1 DEF Advances, SecondBranch
        <3> QED BY <2>1, <3>1, <3>2
    <2>2. CASE /\ TopBlk.branch_type # "jcc"
               /\ stack' = Resume("return") /\ UNCHANGED <<body, next, status>>
        <3>1. Advances("return")
            BY <1>1, <1>4, <2>2 DEF Advances, SecondBranch
        <3> QED BY <2>2, <3>1
    <2> QED BY <1>4, <2>1, <2>2 DEF SecondBranch
<1> QED BY <1>3, <1>4

LEMMA NextCopyInv == IInv /\ CopyInv /\ [Next]_vars => CopyInv'
<1> SUFFICES ASSUME IInv, CopyInv, [Next]_vars PROVE CopyInv'
    OBVIOUS
<1>1. CASE Lift
    BY <1>1, LiftCopies
<1>2. CASE LiftHandler
    BY <1>2, LiftHandlerCopies
<1>3. CASE FirstBranch \/ SecondBranch
    BY <1>3, BranchAdvances, ForkCopies, ResumeCopies
<1>4. CASE Return
    BY <1>4, PopCopies DEF Return, IInv, TypeOK
<1>5. CASE Unwind
    BY <1>5, PopCopies DEF Unwind, IInv, TypeOK
<1>6. CASE UNCHANGED vars
    <2>1. UNCHANGED <<m_blks, unexplored, body, next, stack, status>>
        BY <1>6 DEF vars
    <2>2. /\ Known' = Known /\ UnexploredOf' = UnexploredOf
          /\ \A vip : Src(vip)' = Src(vip) /\ Succs(vip)' = Succs(vip)
        BY <2>1, InputStays
    <2>3. Filled => Filled'
        <3> SUFFICES ASSUME Filled PROVE Filled'
            OBVIOUS
        <3>1. \A i \in DOMAIN stack : FrameOK(stack[i])'
            <4> SUFFICES ASSUME NEW i \in DOMAIN stack PROVE FrameOK(stack[i])'
                OBVIOUS
            <4>1. PICK f : f = stack[i]
                OBVIOUS
            <4>2. FrameOK(f)'
                BY <2>1, <4>1, FrameStays DEF Filled
            <4> QED BY <2>1, <4>1, <4>2
        <3>2. \A vip \in Blocks \ Active : Done(vip)'
            BY <2>1, DoneStays DEF Filled
        <3> QED BY <2>1, <2>2, <3>1, <3>2 DEF Filled, Blocks, Active
    <2> QED BY <2>1, <2>2, <2>3 DEF CopyInv, Distinct
<1> QED BY <1>1, <1>2, <1>3, <1>4, <1>5, <1>6 DEF Next

LEMMA CopyInvariance == Spec => [](IInv /\ CopyInv)
BY InitIInv, NextIInv, InitCopyInv, NextCopyInv, PTL DEF Spec
-----------------------------------------------------------------------------
\* However the recursion reaches a block, one call fills it, in the order of
\* its instructions (vm-lifter.cpp:16-22).
THEOREM FilledTheorem == Spec => []FilledInOrder
<1>1. IInv /\ CopyInv => FilledInOrder
    <2> SUFFICES ASSUME CopyInv, status \in {"lifting", "lifted"} PROVE FilledInOrder
        BY DEF FilledInOrder
    <2> QED BY DEF CopyInv, Distinct, Filled, FrameOK, Done, FilledInOrder
<1> QED BY <1>1, CopyInvariance, PTL

\* When lift() returns true the routine has all blocks, instructions and links
\* of the trace that are reachable, and no others (vm-lifter.cpp:23-49, :69).
THEOREM CompleteTheorem == Spec => []LiftIsComplete
<1>1. IInv /\ CopyInv => LiftIsComplete
    <2> SUFFICES ASSUME IInv, CopyInv, status = "lifted", NEW vip \in Blocks
                 PROVE  /\ \A i \in DOMAIN m_blks[Src(vip)].m_vinstrs :
                              m_blks[Src(vip)].m_vinstrs[i] \in LiftedMnemonics
                        /\ {link \in next : link[1] = vip} = {vip} \X Succs(vip)
                        /\ Succs(vip) \subseteq Blocks
        BY DEF LiftIsComplete
    <2>1. /\ stack = <<>> /\ next \subseteq Blocks \X Blocks
        BY DEF IInv, TypeOK
    <2>2. Done(vip) /\ \A link \in next : link[2] \in Succs(link[1])
        BY <2>1 DEF CopyInv, Filled, Active
    <2>3. \A to \in Succs(vip) : <<vip, to>> \in next
        BY <2>2 DEF Done, Succs
    <2>4. {link \in next : link[1] = vip} = {vip} \X Succs(vip)
        BY <2>1, <2>2, <2>3
    <2>5. Succs(vip) \subseteq Blocks
        BY <2>1, <2>3
    <2> QED BY <2>2, <2>4, <2>5 DEF Done
<1> QED BY <1>1, CopyInvariance, PTL

LEMMA CountUpTo ==
    \A n \in Nat : /\ IsFiniteSet(1..n) /\ Cardinality(1..n) = n
                  /\ IsFiniteSet(0..n) /\ Cardinality(0..n) = n + 1
<1> SUFFICES ASSUME NEW n \in Nat
             PROVE  /\ IsFiniteSet(1..n) /\ Cardinality(1..n) = n
                    /\ IsFiniteSet(0..n) /\ Cardinality(0..n) = n + 1
    OBVIOUS
<1>1. \A m \in Int : IsFiniteSet(m..n) /\ Cardinality(m..n) = IF m > n THEN 0 ELSE n - m + 1
    BY FS_Interval
<1>2. IsFiniteSet(1..n) /\ Cardinality(1..n) = n
    BY <1>1
<1>3. IsFiniteSet(0..n) /\ Cardinality(0..n) = n + 1
    BY <1>1
<1> QED BY <1>2, <1>3

\* No two calls are active for one block, and the routine has one block per
\* traced block and the root: the recursion has no other bound, and needs none
\* (vm-lifter.cpp:28, :41).
THEOREM RecursionTheorem == Spec => []RecursionIsBounded
<1>1. IInv /\ CopyInv => RecursionIsBounded
    <2> SUFFICES ASSUME IInv, CopyInv, ~ RecursionIsBounded PROVE FALSE
        OBVIOUS
    <2> DEFINE last == Len(m_blks)
               home == [i \in 1..Len(stack) |->
                          IF stack[i].vtil = RootVip THEN 0
                          ELSE CHOOSE j \in DOMAIN m_blks : m_blks[j].m_vip.img_based = stack[i].vtil]
    <2>1. /\ last \in Nat /\ DOMAIN m_blks = 1..last
          /\ Len(stack) \in Nat /\ DOMAIN stack = 1..Len(stack)
          /\ Len(stack) > last + 1
        BY DEF CopyInv, IInv, TypeOK, RecursionIsBounded
    <2>2. \A i \in 1..Len(stack) :
             \/ stack[i].vtil = RootVip /\ home[i] = 0
             \/ /\ stack[i].vtil # RootVip /\ home[i] \in DOMAIN m_blks
                /\ m_blks[home[i]].m_vip.img_based = stack[i].vtil
        BY <2>1 DEF CopyInv, Known, ImgBased
    <2>3. home \in [1..Len(stack) -> 0..last]
        <3>1. home = [i \in 1..Len(stack) |-> home[i]]
            OBVIOUS
        <3> HIDE DEF home, last
        <3>2. \A i \in 1..Len(stack) : home[i] = 0 \/ home[i] \in 1..last
            BY <2>1, <2>2
        <3>3. \A i \in 1..Len(stack) : home[i] \in 0..last
            BY <2>1, <3>2
        <3> QED BY <3>1, <3>3
    <2>4. /\ IsFiniteSet(1..Len(stack)) /\ Cardinality(1..Len(stack)) = Len(stack)
          /\ IsFiniteSet(0..last) /\ Cardinality(0..last) = last + 1
        <3> HIDE DEF home, last
        <3>1. last \in Nat /\ Len(stack) \in Nat
            BY <2>1
        <3> QED BY <3>1, CountUpTo
    <2> HIDE DEF home, last
    <2>5. PICK i \in 1..Len(stack), j \in 1..Len(stack) : i # j /\ home[i] = home[j]
        BY <2>1, <2>3, <2>4, FS_PigeonHole
    <2>6. stack[i].vtil = stack[j].vtil
        BY <2>1, <2>2, <2>5
    <2> QED BY <2>1, <2>5, <2>6 DEF CopyInv, Distinct
<1> QED BY <1>1, CopyInvariance, PTL
-----------------------------------------------------------------------------
\* The refinement of CfgCopy.  Graph and Phase are what its instance
\* substitutes for succ and phase.
Graph ==
    IF m_blks = <<>> THEN <<>>
    ELSE [vip \in ImgBased \cup {RootVip} |->
            LET blk == m_blks[CHOOSE i \in DOMAIN m_blks :
                                 \/ vip = RootVip /\ i = 1
                                 \/ vip # RootVip /\ m_blks[i].m_vip.img_based = vip]
            IN  {BranchAddr(blk, n) : n \in DOMAIN blk.branches}]
Phase ==
    CASE status = "ready"   -> "idle"
      [] status = "lifting" -> "copying"
      [] status = "lifted"  -> "complete"
      [] OTHER              -> "abandoned"

LEMMA PhaseFacts ==
    /\ status = "ready" => Phase = "idle"
    /\ status = "lifting" => Phase = "copying"
    /\ status = "lifted" => Phase = "complete"
    /\ status \in {"failing", "failed", "undefined"} => Phase = "abandoned"
BY DEF Phase

\* The graph is what Src and Succs know of the trace.
LEMMA GraphFacts ==
    ASSUME IInv, Filled
    PROVE  DOMAIN Graph = Known /\ \A vip \in Known : Graph[vip] = Succs(vip)
<1>1. m_blks # <<>> /\ DOMAIN Graph = Known
    BY DEF Filled, Graph, Known
<1>2. ASSUME NEW vip \in Known PROVE Graph[vip] = Succs(vip)
    <2> DEFINE found == CHOOSE i \in DOMAIN m_blks :
                           \/ vip = RootVip /\ i = 1
                           \/ vip # RootVip /\ m_blks[i].m_vip.img_based = vip
    <2>1. found = Src(vip)
        <3>1. CASE vip = RootVip
            BY <1>1, <3>1, RootFacts DEF Src
        <3>2. CASE vip # RootVip
            <4>1. Src(vip) = UnexploredOf[vip] /\ vip \in ImgBased
                BY <1>2, <3>2 DEF Src, Filled, Known
            <4>2. Src(vip) = CHOOSE i \in DOMAIN m_blks : m_blks[i].m_vip.img_based = vip
                BY <4>1 DEF UnexploredOf
            <4> QED BY <3>2, <4>2
        <3> QED BY <3>1, <3>2
    <2>2. Graph[vip] = {BranchAddr(m_blks[found], n) : n \in DOMAIN m_blks[found].branches}
        BY <1>1, <1>2 DEF Graph, Known
    <2> QED BY <2>1, <2>2 DEF Succs
<1> QED BY <1>1, <1>2

LEMMA GraphStays ==
    ASSUME UNCHANGED m_blks PROVE Graph' = Graph
BY DEF Graph, ImgBased, RootVip, BranchAddr

\* The steps of the instance, in terms of Graph and Phase.
LEMMA StepOfCopy ==
    ASSUME UNCHANGED m_blks,
           \/ \E root \in DOMAIN Graph :
                 /\ Phase = "idle" /\ Phase' = "copying"
                 /\ Blocks' = {root} /\ next' = next
           \/ \E from \in Blocks \cap DOMAIN Graph : \E to \in Graph[from] :
                 /\ Phase = "copying" /\ Phase' \in {"copying", "abandoned"}
                 /\ Blocks' = Blocks \cup {to} /\ next' = next \cup {<<from, to>>}
           \/ /\ Phase = "copying" /\ Phase' = "complete"
              /\ \A from \in Blocks :
                   from \in DOMAIN Graph /\ \A to \in Graph[from] : <<from, to>> \in next
              /\ Blocks' = Blocks /\ next' = next
           \/ /\ Phase \in {"idle", "copying"} /\ Phase' = "abandoned"
              /\ Blocks' = Blocks /\ next' = next
           \/ Blocks' = Blocks /\ next' = next /\ Phase' = Phase
    PROVE  [Copy!Next]_(Copy!vars)
<1>1. Graph' = Graph
    BY GraphStays
<1>2. ASSUME NEW root \in DOMAIN Graph, Phase = "idle", Phase' = "copying",
             Blocks' = {root}, next' = next
      PROVE  Copy!Begin(root)
    BY <1>1, <1>2 DEF Graph, Phase, Copy!Begin
<1>3. ASSUME NEW from \in Blocks \cap DOMAIN Graph, NEW to \in Graph[from],
             Phase = "copying", Blocks' = Blocks \cup {to}, next' = next \cup {<<from, to>>}
      PROVE  Copy!Follow(from, to)
    BY <1>1, <1>3 DEF Graph, Phase, Copy!Follow
<1>4. ASSUME Phase = "copying", Phase' = "complete", Blocks' = Blocks, next' = next,
             \A from \in Blocks :
               from \in DOMAIN Graph /\ \A to \in Graph[from] : <<from, to>> \in next
      PROVE  Copy!Finish
    BY <1>1, <1>4 DEF Graph, Phase, Copy!Finish
<1>5. ASSUME Phase \in {"idle", "copying"}, Phase' = "abandoned", Blocks' = Blocks, next' = next
      PROVE  Copy!Abandon
    BY <1>1, <1>5 DEF Graph, Phase, Copy!Abandon
<1>6. ASSUME Blocks' = Blocks, next' = next, Phase' = Phase
      PROVE  UNCHANGED Copy!vars
    BY <1>1, <1>6 DEF Graph, Phase, Copy!vars
<1>7. ASSUME NEW root \in DOMAIN Graph, Copy!Begin(root)
      PROVE  Copy!Next
    BY <1>7 DEF Graph, Copy!Next
<1>8. ASSUME NEW from \in Blocks \cap DOMAIN Graph, NEW to \in Graph[from],
             Copy!Follow(from, to), Phase' \in {"copying", "abandoned"}
      PROVE  Copy!Next
    BY <1>8 DEF Graph, Phase, Copy!Next
<1>9. Copy!Finish \/ Copy!Abandon => Copy!Next
    BY DEF Copy!Next
<1>10. Copy!Next => [Copy!Next]_(Copy!vars)
    OBVIOUS
<1> QED BY <1>2, <1>3, <1>4, <1>5, <1>6, <1>7, <1>8, <1>9, <1>10
LEMMA StepRefines ==
    ASSUME IInv, CopyInv, [Next]_vars
    PROVE  [Copy!Next]_(Copy!vars)
<1>1. UNCHANGED m_blks
    BY DEF Next, vars, Lift, LiftHandler, FirstBranch, SecondBranch, Return, Unwind, input
<1>2. ASSUME status \in {"lifting", "lifted"}
      PROVE  Filled /\ DOMAIN Graph = Known /\ Blocks \subseteq Known
             /\ \A vip \in Known : Graph[vip] = Succs(vip)
    BY <1>2, GraphFacts DEF CopyInv, Filled
<1>3. /\ status' = "ready" => Phase' = "idle"
      /\ status' = "lifting" => Phase' = "copying"
      /\ status' = "lifted" => Phase' = "complete"
      /\ status' \in {"failing", "failed", "undefined"} => Phase' = "abandoned"
    BY PhaseFacts DEF Phase
<1>4. CASE Lift
    <2>1. status = "ready" /\ next' = next /\ Phase = "idle"
        BY <1>4, PhaseFacts DEF Lift
    <2>2. CASE m_blks # <<>>
        <3>1. Blocks' = {RootVip} /\ Phase' = "copying" /\ RootVip \in DOMAIN Graph
            BY <1>3, <1>4, <2>2 DEF Lift, Blocks, Graph
        <3> QED BY <1>1, <2>1, <3>1, StepOfCopy
    <2>3. CASE m_blks = <<>>
        <3>1. Blocks' = Blocks /\ Phase' = "abandoned"
            BY <1>3, <1>4, <2>3 DEF Lift, Blocks
        <3> QED BY <1>1, <2>1, <3>1, StepOfCopy
    <2> QED BY <2>2, <2>3
<1>5. CASE LiftHandler
    <2>1. /\ Phase = "copying" /\ Blocks' = Blocks /\ next' = next
          /\ Phase' = Phase \/ Phase' = "abandoned"
        BY <1>3, <1>5, PhaseFacts DEF LiftHandler, Blocks
    <2> QED BY <1>1, <2>1, StepOfCopy
<1>6. CASE FirstBranch \/ SecondBranch
    <2>1. CASE UNCHANGED <<body, next, status>>
        <3>1. Phase' = Phase
            BY <2>1 DEF Phase
        <3> QED BY <1>1, <2>1, <3>1, StepOfCopy DEF Blocks
    <2>2. ASSUME NEW n \in DOMAIN TopBlk.branches, NEW cont \in {"second", "return"},
                 Fork(n, cont)
          PROVE  [Copy!Next]_(Copy!vars)
        <3>1. status = "lifting" /\ stack # <<>> /\ TypeOK
            BY <1>6 DEF FirstBranch, SecondBranch, IInv, TypeOK
        <3>2. PICK from, to : from = Top.vtil /\ to = BranchAddr(TopBlk, n)
            OBVIOUS
        <3>3. from \in Blocks /\ FrameOK(Top)
            BY <1>2, <3>1, <3>2, TopFacts DEF Filled
        <3>4. from \in Blocks \cap DOMAIN Graph /\ to \in Graph[from]
            <4>1. Src(from) = Top.vmp
                BY <3>2, <3>3 DEF FrameOK
            <4>2. to \in Succs(from)
                BY <3>2, <4>1 DEF Succs, TopBlk
            <4> QED BY <1>2, <3>1, <3>3, <4>2
        <3>5. Blocks' = Blocks \cup {to} /\ next' = next \cup {<<from, to>>}
            BY <2>2, <3>2 DEF Fork, ForkBlock, Blocks
        <3>6. status' \in {"lifting", "undefined"}
            BY <2>2, <3>1 DEF Fork, LiftBlock, Recurse
        <3> QED BY <1>1, <1>3, <3>1, <3>4, <3>5, <3>6, PhaseFacts, StepOfCopy
    <2> QED BY <1>6, <2>1, <2>2, BranchAdvances
<1>7. CASE Return
    <2>1. /\ status = "lifting" /\ Phase = "copying" /\ UNCHANGED <<unexplored, body, next>>
          /\ status' \in {"lifting", "lifted"}
        BY <1>7, PhaseFacts DEF Return
    <2>2. CASE status' = "lifting"
        BY <1>1, <1>3, <2>1, <2>2, StepOfCopy DEF Blocks
    <2>3. CASE status' = "lifted"
        <3>1. stack # <<>> /\ TypeOK /\ Top.pc = "return" /\ Outermost
            BY <1>7, <2>3 DEF Return, IInv, TypeOK
        <3>2. Active = {Top.vtil}
            <4>1. Len(stack) = 1 /\ DOMAIN stack = {1}
                BY <3>1 DEF Outermost, TypeOK
            <4> QED BY <4>1 DEF Active, Top
        <3>3. Done(Top.vtil)
            BY <2>1, <3>1, DoneFacts
        <3>4. \A vip \in Blocks : Done(vip)
            BY <1>2, <2>1, <3>2, <3>3 DEF Filled
        <3>5. \A from \in Blocks :
                from \in DOMAIN Graph /\ \A to \in Graph[from] : <<from, to>> \in next
            BY <1>2, <2>1, <3>4 DEF Done, Succs
        <3> QED BY <1>1, <1>3, <2>1, <2>3, <3>5, StepOfCopy DEF Blocks
    <2> QED BY <2>1, <2>2, <2>3
<1>8. CASE Unwind
    <2>1. /\ Phase = "abandoned" /\ UNCHANGED <<body, next>>
          /\ status' \in {"failing", "failed"}
        BY <1>8, PhaseFacts DEF Unwind
    <2> QED BY <1>1, <1>3, <2>1, StepOfCopy DEF Blocks
<1>9. CASE UNCHANGED vars
    <2>1. Blocks' = Blocks /\ next' = next /\ Phase' = Phase
        BY <1>9 DEF vars, Blocks, Phase
    <2> QED BY <1>1, <2>1, StepOfCopy
<1> QED BY <1>4, <1>5, <1>6, <1>7, <1>8, <1>9 DEF Next

\* Whatever the trace, the lifting is a traversal of its graph: it starts at
\* one node, follows edges of the graph only, and is complete only when every
\* edge of a block it has is followed (vm-lifter.cpp:13-72).
THEOREM CopyTheorem == Spec => CopiesTheTrace
<1>1. Init => Copy!Init
    BY DEF Init, Copy!Init, Blocks
<1>2. IInv /\ CopyInv /\ [Next]_vars => [Copy!Next]_(Copy!vars)
    BY StepRefines
<1> QED BY <1>1, <1>2, CopyInvariance, PTL DEF Spec, CopiesTheTrace, Copy!Spec
-----------------------------------------------------------------------------
\* lift() gets nearer to its end with every step.  How much of a block there is
\* to do, how far the call that fills it has come, and what is left of all the
\* blocks the routine can have.
Size(vip) == Len(m_blks[Src(vip)].m_vinstrs) + 4
Reached(frame) ==
    IF frame.pc = "instrs" THEN frame.ip
    ELSE IF frame.pc = "second" THEN Size(frame.vtil) - 2 ELSE Size(frame.vtil) - 1
PositionIn(calls, blks, vip) ==
    IF vip \in {calls[i].vtil : i \in DOMAIN calls}
    THEN Reached(calls[CHOOSE i \in DOMAIN calls : calls[i].vtil = vip])
    ELSE IF vip \in blks THEN Size(vip) ELSE 0
Position(vip) == PositionIn(stack, Blocks, vip)
Left == UNION {{vip} \X ((Position(vip) + 1)..Size(vip)) : vip \in Known}

\* The variant: the stage, and within a stage a number of things to do.
Stage ==
    CASE status = "ready"   -> 3
      [] status = "lifting" -> 2
      [] status = "failing" -> 1
      [] OTHER              -> 0
ToDo ==
    CASE status = "lifting" -> Cardinality(Left)
      [] status = "failing" -> Len(stack)
      [] OTHER              -> 0
LiftAdvances ==
    [][/\ ToDo \in Nat /\ ToDo' \in Nat
       /\ Stage' < Stage \/ (Stage' = Stage /\ ToDo' < ToDo)]_vars

\* The calls fill different blocks, so CHOOSE finds the one that fills a block.
Apart(calls) == \A i, j \in DOMAIN calls : calls[i].vtil = calls[j].vtil => i = j
LEMMA PositionByFrame ==
    ASSUME NEW calls, Apart(calls), NEW i \in DOMAIN calls, NEW blks
    PROVE  PositionIn(calls, blks, calls[i].vtil) = Reached(calls[i])
<1>1. (CHOOSE j \in DOMAIN calls : calls[j].vtil = calls[i].vtil) = i
    BY DEF Apart
<1> QED BY <1>1 DEF PositionIn

LEMMA SizeFacts ==
    ASSUME IInv, m_blks # <<>>, unexplored = UnexploredOf, NEW vip \in Known
    PROVE  Size(vip) \in Nat /\ Size(vip) >= 4
<1>1. Len(m_blks[Src(vip)].m_vinstrs) \in Nat
    BY SrcFacts
<1> QED BY <1>1 DEF Size

\* A call has begun and is not finished, and in its loop it has the two
\* branches and the return still before it.
LEMMA ReachedBounded ==
    ASSUME IInv, CopyInv, status = "lifting", NEW i \in DOMAIN stack
    PROVE  /\ Reached(stack[i]) \in 1..(Size(stack[i].vtil) - 1)
           /\ stack[i].pc = "instrs" => Reached(stack[i]) <= Size(stack[i].vtil) - 3
<1>1. /\ Filled /\ FrameOK(stack[i]) /\ stack[i].vtil \in Known
      /\ m_blks # <<>> /\ unexplored = UnexploredOf
    BY DEF CopyInv, Filled
<1>2. /\ Len(m_blks[Src(stack[i].vtil)].m_vinstrs) \in Nat
    BY <1>1, SrcFacts
<1>3. stack[i].ip \in 1..(Len(m_blks[Src(stack[i].vtil)].m_vinstrs) + 1)
    BY <1>1 DEF FrameOK
<1> QED BY <1>2, <1>3 DEF Reached, Size

PositionOK == status = "lifting" => \A vip \in Known : Position(vip) \in 0..Size(vip)
LEMMA PositionBounded == IInv /\ CopyInv => PositionOK
<1> SUFFICES ASSUME IInv, CopyInv, status = "lifting", NEW vip \in Known
             PROVE  Position(vip) \in 0..Size(vip)
    BY DEF PositionOK
<1>1. Size(vip) \in Nat
    BY SizeFacts DEF CopyInv, Filled
<1>2. ASSUME NEW i \in DOMAIN stack, stack[i].vtil = vip
      PROVE  Position(vip) \in 0..Size(vip)
    <2>1. Position(vip) = Reached(stack[i])
        BY <1>2, PositionByFrame DEF CopyInv, Distinct, Apart, Position
    <2> QED BY <1>1, <1>2, <2>1, ReachedBounded
<1>3. CASE vip \notin Active
    BY <1>1, <1>3 DEF Position, PositionIn, Active
<1> QED BY <1>2, <1>3 DEF Active

\* What is left is a finite set.
LEMMA LeftFinite ==
    ASSUME IInv, CopyInv, status = "lifting"
    PROVE  IsFiniteSet(Left) /\ Cardinality(Left) \in Nat
<1> DEFINE Part(vip) == {vip} \X ((Position(vip) + 1)..Size(vip))
           parts == {Part(vip) : vip \in Known}
<1>1. \A vip \in Known : IsFiniteSet(Part(vip))
    <2> TAKE vip \in Known
    <2>1. Position(vip) + 1 \in Int /\ Size(vip) \in Int
        BY PositionBounded, SizeFacts DEF PositionOK, CopyInv, Filled
    <2>2. IsFiniteSet((Position(vip) + 1)..Size(vip)) /\ IsFiniteSet({vip})
        BY <2>1, FS_Interval, FS_Singleton
    <2> QED BY <2>2, FS_Product
<1>2. IsFiniteSet(DOMAIN m_blks)
    BY FS_Interval DEF CopyInv
<1> HIDE DEF Part
<1>3. IsFiniteSet(parts)
    <2> DEFINE f == [i \in DOMAIN m_blks |-> Part(m_blks[i].m_vip.img_based)]
               range == {Part(vip) : vip \in ImgBased}
    <2>1. f \in Surjection(DOMAIN m_blks, range)
        BY DEF ImgBased, Surjection
    <2>2. IsFiniteSet(range)
        BY <1>2, <2>1, FS_Surjection
    <2>3. parts = range \cup {Part(RootVip)}
        BY DEF Known
    <2> QED BY <2>2, <2>3, FS_AddElement
<1>4. IsFiniteSet(UNION parts)
    BY <1>1, <1>3, FS_UNION
<1> QED BY <1>4, FS_CardinalityType DEF Left, Part

\* Less is left when one call has come further, or has finished its block, and
\* the calls below it wait; a block that is made in the step is a new one.
LEMMA LeftShrinks ==
    ASSUME IInv, CopyInv, Distinct', PositionOK', status = "lifting", status' = "lifting",
           UNCHANGED <<m_blks, unexplored>>, Blocks \subseteq Blocks',
           \A i \in DOMAIN stack : i # Len(stack) => i \in DOMAIN stack' /\ stack'[i] = stack[i],
           \A i \in DOMAIN stack' :
               \/ i \in DOMAIN stack /\ stack'[i].vtil = stack[i].vtil
               \/ stack'[i].vtil \notin Blocks,
           \/ /\ Len(stack) \in DOMAIN stack' /\ stack'[Len(stack)].vtil = Top.vtil
              /\ Reached(Top) < Reached(stack'[Len(stack)])
           \/ Len(stack) \notin DOMAIN stack'
    PROVE  Cardinality(Left') < Cardinality(Left)
<1> DEFINE top == Len(stack)
<1>1. /\ stack # <<>> /\ TypeOK /\ Filled /\ Apart(stack) /\ Apart(stack')
      /\ m_blks # <<>> /\ unexplored = UnexploredOf
    BY DEF IInv, TypeOK, CopyInv, Filled, Distinct, Apart
<1>2. /\ top \in DOMAIN stack /\ Top = stack[top] /\ Top.vtil \in Blocks /\ Top.vtil \in Known
    BY <1>1, TopFacts DEF CopyInv
<1>3. /\ Known' = Known
      /\ \A vip : Size(vip)' = Size(vip)
      /\ \A vip : Position(vip)' = PositionIn(stack', Blocks', vip)
    <2>1. Known' = Known /\ \A vip : Size(vip)' = Size(vip)
        BY InputStays DEF Size
    <2>2. \A f : Reached(f)' = Reached(f)
        BY <2>1 DEF Reached
    <2> QED BY <2>1, <2>2 DEF Position, PositionIn
<1>4. \A vip \in Known : /\ Size(vip) \in Nat
                         /\ Position(vip) \in 0..Size(vip)
                         /\ Position(vip)' \in 0..Size(vip)
    <2> TAKE vip \in Known
    <2>1. Size(vip) \in Nat /\ Position(vip) \in 0..Size(vip)
        BY <1>1, SizeFacts, PositionBounded DEF PositionOK
    <2>2. Position(vip)' \in 0..Size(vip)'
        BY <1>3 DEF PositionOK
    <2> QED BY <1>3, <2>1, <2>2
<1> HIDE DEF top
<1>5. ASSUME NEW vip \in Known, vip # Top.vtil PROVE Position(vip) <= Position(vip)'
    <2>1. ASSUME NEW i \in DOMAIN stack, stack[i].vtil = vip
          PROVE  Position(vip) <= Position(vip)'
        <3>1. i # top
            BY <1>2, <1>5, <2>1
        <3>2. i \in DOMAIN stack' /\ stack'[i] = stack[i]
            BY <3>1 DEF top
        <3>3. Position(vip) = Reached(stack[i])
            BY <1>1, <2>1, PositionByFrame DEF Position
        <3>4. Position(vip)' = Reached(stack'[i])
            BY <1>1, <1>3, <2>1, <3>2, PositionByFrame
        <3> QED BY <1>4, <3>2, <3>3, <3>4
    <2>2. CASE vip \notin Active /\ vip \in Blocks
        <3>1. vip \notin Active'
            BY <2>2 DEF Active
        <3>2. Position(vip)' = Size(vip)
            BY <1>3, <2>2, <3>1 DEF PositionIn, Active
        <3> QED BY <1>4, <3>2
    <2>3. CASE vip \notin Active /\ vip \notin Blocks
        <3>1. Position(vip) = 0
            BY <2>3 DEF Position, PositionIn, Active
        <3> QED BY <1>4, <3>1
    <2> QED BY <2>1, <2>2, <2>3 DEF Active
<1>6. PICK w \in Known : w = Top.vtil
    BY <1>2
<1>7. Position(w) < Position(w)'
    <2>1. Position(w) = Reached(Top)
        BY <1>1, <1>2, <1>6, PositionByFrame DEF Position
    <2>2. CASE /\ top \in DOMAIN stack' /\ stack'[top].vtil = Top.vtil
               /\ Reached(Top) < Reached(stack'[top])
        <3>1. Position(w)' = Reached(stack'[top])
            BY <1>1, <1>3, <1>6, <2>2, PositionByFrame
        <3> QED BY <2>1, <2>2, <3>1
    <2>3. CASE top \notin DOMAIN stack'
        <3>1. w \notin Active'
            <4> SUFFICES ASSUME NEW i \in DOMAIN stack', stack'[i].vtil = w PROVE FALSE
                BY DEF Active
            <4>1. i \in DOMAIN stack /\ stack[i].vtil = Top.vtil
                BY <1>2, <1>6
            <4> QED BY <1>1, <1>2, <2>3, <4>1 DEF Apart
        <3>2. Position(w)' = Size(w)
            BY <1>2, <1>3, <1>6, <3>1 DEF PositionIn, Active
        <3>3. Reached(Top) \in 1..(Size(w) - 1)
            BY <1>2, <1>6, ReachedBounded
        <3> QED BY <1>4, <2>1, <3>2, <3>3
    <2> QED BY <2>2, <2>3 DEF top
<1>8. Left' \subseteq Left
    <2>1. \A vip \in Known : Position(vip) <= Position(vip)'
        BY <1>4, <1>5, <1>6, <1>7
    <2> QED BY <1>3, <1>4, <2>1 DEF Left
<1>9. <<w, Position(w) + 1>> \in Left /\ <<w, Position(w) + 1>> \notin Left'
    BY <1>3, <1>4, <1>7 DEF Left
<1>10. IsFiniteSet(Left) /\ Cardinality(Left) \in Nat
    BY LeftFinite
<1>11. Left' \in SUBSET Left /\ Left' # Left
    BY <1>8, <1>9
<1>12. Cardinality(Left') \in Nat
    BY <1>10, <1>11, FS_Subset, FS_CardinalityType
<1> QED BY <1>10, <1>11, <1>12, FS_Subset

\* The call on top is past one more of its instructions.
LEMMA LiftHandlerShrinks ==
    ASSUME IInv, CopyInv, Distinct', PositionOK', LiftHandler, status' = "lifting"
    PROVE  Cardinality(Left') < Cardinality(Left)
<1> DEFINE top == Len(stack)
           mnemonic == TopBlk.m_vinstrs[Top.ip]
<1>1. /\ status = "lifting" /\ stack # <<>> /\ TypeOK /\ UNCHANGED <<m_blks, unexplored>>
      /\ Top.pc = "instrs"
    BY DEF LiftHandler, input, IInv, TypeOK
<1>2. /\ top \in DOMAIN stack /\ Top = stack[top] /\ Top \in Frame /\ Top.ip \in Nat
    BY <1>1, TopFacts
<1>3. /\ stack' = [stack EXCEPT ![top] = [stack[top] EXCEPT !.ip = @ + 1]]
      /\ body' = [body EXCEPT ![Top.vtil] = Append(body[Top.vtil], mnemonic)]
    BY DEF LiftHandler
<1>4. /\ DOMAIN stack' = DOMAIN stack /\ Blocks' = Blocks
      /\ \A i \in DOMAIN stack : i # top => stack'[i] = stack[i]
      /\ stack'[top].ip = Top.ip + 1 /\ stack'[top].pc = "instrs" /\ stack'[top].vtil = Top.vtil
    BY <1>1, <1>2, <1>3 DEF Blocks, Frame
<1>5. Reached(Top) < Reached(stack'[top])
    BY <1>1, <1>2, <1>4 DEF Reached
<1>6. \A i \in DOMAIN stack' : i \in DOMAIN stack /\ stack'[i].vtil = stack[i].vtil
    BY <1>2, <1>4
<1> QED BY <1>1, <1>2, <1>4, <1>5, <1>6, LeftShrinks

\* Or it is past its loop, or its first branch.
LEMMA BranchShrinks ==
    ASSUME IInv, CopyInv, Distinct', PositionOK', FirstBranch \/ SecondBranch, status' = "lifting"
    PROVE  Cardinality(Left') < Cardinality(Left)
<1> DEFINE top == Len(stack)
<1>1. PICK cont \in {"second", "return"} :
        /\ Advances(cont)
        /\ \/ \E n \in DOMAIN TopBlk.branches : Fork(n, cont)
           \/ stack' = Resume(cont) /\ UNCHANGED body
    BY BranchAdvances
<1>2. /\ status = "lifting" /\ stack # <<>> /\ TypeOK /\ UNCHANGED <<m_blks, unexplored>>
    BY <1>1 DEF Advances, IInv, TypeOK
<1>3. /\ top \in DOMAIN stack /\ Top = stack[top] /\ Top \in Frame /\ Top.vtil \in Known
    BY <1>2, TopFacts DEF CopyInv
<1>4. /\ Resume(cont) \in Seq(Frame) /\ DOMAIN Resume(cont) = DOMAIN stack
      /\ \A i \in DOMAIN stack : Resume(cont)[i].vtil = stack[i].vtil
      /\ \A i \in DOMAIN stack : i # top => Resume(cont)[i] = stack[i]
      /\ Resume(cont)[top].pc = cont
    BY <1>2, <1>3, ResumeFacts DEF Resume, Frame
<1>5. PICK last : last = Resume(cont)[top]
    OBVIOUS
<1>6. Reached(Top) < Reached(last)
    <2>1. Size(Top.vtil) \in Nat
        BY <1>2, <1>3, SizeFacts DEF CopyInv, Filled
    <2>2. /\ Reached(Top) \in 1..(Size(Top.vtil) - 1)
          /\ Top.pc = "instrs" => Reached(Top) <= Size(Top.vtil) - 3
          /\ Top.pc = "second" => Reached(Top) = Size(Top.vtil) - 2
        BY <1>2, <1>3, ReachedBounded DEF Reached
    <2>3. Reached(last) = IF cont = "second" THEN Size(Top.vtil) - 2 ELSE Size(Top.vtil) - 1
        BY <1>3, <1>4, <1>5 DEF Reached
    <2>4. \/ cont = "second" /\ Top.pc = "instrs"
          \/ cont = "return" /\ Top.pc = "second"
        BY <1>1 DEF Advances
    <2> QED BY <2>1, <2>2, <2>3, <2>4
<1>7. CASE stack' = Resume(cont) /\ Blocks' = Blocks
    BY <1>2, <1>3, <1>4, <1>5, <1>6, <1>7, LeftShrinks
<1>8. ASSUME NEW n \in DOMAIN TopBlk.branches, Fork(n, cont)
      PROVE  Cardinality(Left') < Cardinality(Left)
    <2>1. PICK addr : addr = BranchAddr(TopBlk, n)
        OBVIOUS
    <2>2. CASE addr \in Blocks
        <3>1. stack' = Resume(cont) /\ Blocks' = Blocks
            BY <1>8, <2>1, <2>2 DEF Fork, ForkBlock, LiftBlock, Blocks
        <3> QED BY <1>7, <3>1
    <2>3. CASE addr \notin Blocks
        <3>1. /\ stack' = Append(Resume(cont), Call(unexplored[addr], addr))
              /\ Blocks' = Blocks \cup {addr}
            BY <1>2, <1>8, <2>1, <2>3 DEF Fork, ForkBlock, LiftBlock, Recurse, Blocks
        <3>2. PICK new : new = Call(unexplored[addr], addr)
            OBVIOUS
        <3>3. /\ top \in Nat /\ DOMAIN stack = 1..top /\ Len(Resume(cont)) = top
            BY <1>2, <1>4 DEF TypeOK
        <3>4. /\ DOMAIN stack' = 1..(top + 1) /\ stack'[top + 1] = new
              /\ \A i \in 1..top : stack'[i] = Resume(cont)[i]
            BY <1>4, <3>1, <3>2, <3>3
        <3>5. stack'[top + 1].vtil = addr
            BY <3>2, <3>4 DEF Call
        <3>6. \A i \in DOMAIN stack' : \/ i \in DOMAIN stack /\ stack'[i].vtil = stack[i].vtil
                                       \/ stack'[i].vtil \notin Blocks
            BY <1>4, <2>3, <3>3, <3>4, <3>5
        <3>7. /\ \A i \in DOMAIN stack : i # top => i \in DOMAIN stack' /\ stack'[i] = stack[i]
              /\ top \in DOMAIN stack' /\ stack'[top] = last
            BY <1>3, <1>4, <1>5, <3>3, <3>4
        <3>8. stack'[top].vtil = Top.vtil
            BY <1>3, <1>4, <1>5, <3>7
        <3> QED BY <1>2, <1>6, <3>1, <3>6, <3>7, <3>8, LeftShrinks
    <2> QED BY <2>2, <2>3
<1> QED BY <1>1, <1>7, <1>8 DEF Blocks

\* Or it returns, and its block is done.
LEMMA ReturnShrinks ==
    ASSUME IInv, CopyInv, Distinct', PositionOK', Return, status' = "lifting"
    PROVE  Cardinality(Left') < Cardinality(Left)
<1> DEFINE top == Len(stack)
<1>1. /\ status = "lifting" /\ stack # <<>> /\ stack \in Seq(Frame)
      /\ UNCHANGED <<m_blks, unexplored, body>> /\ stack' = SubSeq(stack, 1, top - 1)
    BY DEF Return, input, IInv, TypeOK, Pop
<1>2. /\ top \in Nat \ {0} /\ DOMAIN stack = 1..top /\ DOMAIN stack' = 1..(top - 1)
      /\ \A i \in 1..(top - 1) : stack'[i] = stack[i]
    BY <1>1
<1>3. Blocks' = Blocks
    BY <1>1 DEF Blocks
<1> HIDE DEF top
<1>4. /\ \A i \in DOMAIN stack : i # top => i \in DOMAIN stack' /\ stack'[i] = stack[i]
      /\ \A i \in DOMAIN stack' : i \in DOMAIN stack /\ stack'[i].vtil = stack[i].vtil
      /\ top \notin DOMAIN stack'
    BY <1>2
<1> QED BY <1>1, <1>3, <1>4, LeftShrinks DEF top

\* lift() comes to an end for every trace, however its blocks loop, and after an
\* instruction that lift_handler does not know: a step that does not end what it
\* is in the middle of, lifting or failing, leaves less of it to do
\* (vm-lifter.cpp:16-49).  That there is a next step is left to LiftReturns.
THEOREM ProgressTheorem == Spec => LiftAdvances
<1> DEFINE Ready == PositionOK /\ Distinct /\ ToDo \in Nat
           Lowers == /\ ToDo \in Nat /\ ToDo' \in Nat
                     /\ Stage' < Stage \/ (Stage' = Stage /\ ToDo' < ToDo)
<1>1. IInv /\ CopyInv => Ready
    <2> SUFFICES ASSUME IInv, CopyInv PROVE Ready
        OBVIOUS
    <2>1. Len(stack) \in Nat
        BY DEF IInv, TypeOK
    <2>2. ToDo \in Nat
        BY <2>1, LeftFinite DEF ToDo
    <2> QED BY <2>2, PositionBounded DEF CopyInv
<1>2. IInv /\ CopyInv /\ Ready /\ Ready' /\ [Next]_vars => [Lowers]_vars
    <2> SUFFICES ASSUME IInv, CopyInv, Ready, Ready', Next PROVE Lowers
        OBVIOUS
    <2> SUFFICES Stage' < Stage \/ (Stage' = Stage /\ ToDo' < ToDo)
        OBVIOUS
    <2>1. CASE status' # "lifting" /\ (LiftHandler \/ FirstBranch \/ SecondBranch \/ Return)
        <3>1. status = "lifting" /\ status' \in {"failing", "lifted", "undefined"}
            BY <2>1 DEF LiftHandler, FirstBranch, SecondBranch, Return, Fork, LiftBlock, Recurse
        <3> QED BY <3>1 DEF Stage
    <2>2. CASE status' = "lifting" /\ (LiftHandler \/ FirstBranch \/ SecondBranch \/ Return)
        <3>1. status = "lifting"
            BY <2>2 DEF LiftHandler, FirstBranch, SecondBranch, Return
        <3>2. Cardinality(Left') < Cardinality(Left)
            BY <2>2, LiftHandlerShrinks, BranchShrinks, ReturnShrinks
        <3>3. ToDo = Cardinality(Left) /\ ToDo' = Cardinality(Left')
            BY <2>2, <3>1 DEF ToDo
        <3> QED BY <2>2, <3>1, <3>2, <3>3 DEF Stage
    <2>3. CASE Lift
        <3>1. status = "ready" /\ status' \in {"lifting", "undefined"}
            BY <2>3 DEF Lift
        <3> QED BY <3>1 DEF Stage
    <2>4. CASE Unwind
        <3>1. status = "failing" /\ status' \in {"failed", "failing"} /\ stack' = Pop
              /\ stack # <<>> /\ stack \in Seq(Frame)
            BY <2>4 DEF Unwind, IInv, TypeOK
        <3>2. PICK top \in Nat \ {0} : top = Len(stack)
            BY <3>1
        <3>3. Len(SubSeq(stack, 1, top - 1)) = top - 1
            BY <3>1, <3>2
        <3>4. Len(stack') = top - 1
            BY <3>1, <3>2, <3>3 DEF Pop
        <3> QED BY <3>1, <3>2, <3>4 DEF Stage, ToDo
    <2> QED BY <2>1, <2>2, <2>3, <2>4 DEF Next
<1> QED BY <1>1, <1>2, CopyInvariance, PTL DEF Spec, LiftAdvances
=============================================================================
