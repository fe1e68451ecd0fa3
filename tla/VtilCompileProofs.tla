-------------------------- MODULE VtilCompileProofs --------------------------
(***************************************************************************)
(* For every routine, of any size and shape: a block is compiled once, a   *)
(* label that is named gets its code, the code that comes out goes where   *)
(* the routine goes, and compiling it is the traversal of CfgCopy.         *)
(***************************************************************************)
EXTENDS VtilCompile, FiniteSetTheorems, SequenceTheorems, TLAPS

\* Labels are handed out once each.
LabelsOK(map) ==
    /\ DOMAIN map \subseteq Vips
    /\ \A v, w \in DOMAIN map :
         map[v] \in 1..Cardinality(DOMAIN map) /\ (map[v] = map[w] => v = w)

\* Only the innermost call can be of a block that does not count as compiled.
StackOK ==
    /\ phase = "ready" => stack = <<>> /\ label_map = <<>> /\ is_compiled = {} /\ code = <<>>
    /\ phase \in {"compiling", "exited"} => stack # <<>>
    /\ is_compiled \subseteq DOMAIN label_map
    /\ \A i \in DOMAIN stack :
         /\ stack[i].pc = "entry" <=> stack[i].vip \notin is_compiled
         /\ stack[i].pc = "entry" => i = Len(stack)
         /\ stack[i].pc = "branch" => stack[i].n = 0
         /\ stack[i].pc = "next" => stack[i].n >= 1
    /\ \A i, j \in DOMAIN stack : stack[i].vip = stack[j].vip => i = j

\* What follows a block's instructions, once its branch has been compiled.
JumpAt(i, op, v) == i \in DOMAIN code /\ code[i].op = op /\ code[i].vip = v
Followed(i) ==
    LET blk == rtn[code[i].vip] IN
    \/ blk.ins = "js" /\ JumpAt(i + 1, "jnz", blk.next[1]) /\ JumpAt(i + 2, "jmp", blk.next[2])
    \/ blk.ins \in {"jmp_imm", "vxcall"} /\ JumpAt(i + 1, "jmp", blk.next[1])
    \/ blk.ins = "jmp_reg" /\ JumpAt(i + 1, "je", blk.next[1])
    \/ blk.ins = "vexit" /\ JumpAt(i + 1, "ret", code[i].vip)
AtBranch(i) ==
    /\ phase \in {"compiling", "exited"}
    /\ i = Len(code) /\ code[i].vip = Top.vip /\ Top.pc = "branch"

JumpOps == {"jnz", "jmp", "je"}
CodeOK ==
    /\ \A i \in DOMAIN code :
         /\ code[i].op \in JumpOps \cup {"label"} =>
                code[i].vip \in DOMAIN label_map /\ code[i].label = label_map[code[i].vip]
         /\ code[i].op = "label" =>
                code[i].vip \in is_compiled /\ JumpAt(i + 1, "body", code[i].vip)
         /\ code[i].op = "body" => Followed(i) \/ AtBranch(i)
    /\ \A i, j \in LabelNodes : code[i].vip = code[j].vip => i = j
    /\ code = <<>> =>
         phase = "ready" \/ (phase = "compiling" /\ Top.vip = EntryVip /\ Top.pc = "entry")
    /\ code # <<>> => JumpAt(1, "label", EntryVip)

\* PendingIsAhead, with the loop of a register jump narrowed to the successor
\* it is at: the labels of the later ones are not asked for yet.
AheadIn(frame, v) ==
    \/ frame.vip = v
    \/ /\ frame.pc = "next"
       /\ \E n \in frame.n..Len(rtn[frame.vip].next) :
            rtn[frame.vip].next[n] = v /\ (rtn[frame.vip].ins = "jmp_reg" => n = frame.n)
Pending ==
    phase = "compiling" =>
        \A v \in DOMAIN label_map \ is_compiled : \E i \in DOMAIN stack : AheadIn(stack[i], v)

\* Where the code is, the routine is too.
OnCourse ==
    /\ ip \in DOMAIN code
    /\ code[ip].op \in {"label", "body", "jmp", "je"} => goal = code[ip].vip
    /\ code[ip].op = "jnz" =>
         \E two \in Vips : JumpAt(ip + 1, "jmp", two) /\ goal \in {code[ip].vip, two}
    /\ code[ip].op = "ret" => goal = Exit
RunOK ==
    phase = "running" =>
        /\ \A i \in Jumps : Bound(code[i].label) # {}
        /\ OneTarget => OnCourse

IInv == TypeOK /\ StackOK /\ CodeOK /\ Pending /\ RunOK

-----------------------------------------------------------------------------
LEMMA SuccessorsFacts ==
    /\ DOMAIN Successors = {"js", "jmp_reg", "jmp_imm", "vxcall", "vexit", "unhandled"}
    /\ Successors["js"] = {2} /\ Successors["jmp_reg"] = 1..MaxTargets
    /\ Successors["jmp_imm"] = {1} /\ Successors["vxcall"] = {1}
    /\ Successors["vexit"] = {0} /\ Successors["unhandled"] = {0}
BY DEF Successors

\* What is known of a block, from the set it is taken from.
LEMMA BlockFacts ==
    ASSUME NEW blk \in Block
    PROVE  /\ blk.ins \in DOMAIN Successors
           /\ blk.next \in Seq(Vips)
           /\ Len(blk.next) \in Successors[blk.ins]
<1>1. PICK ins \in DOMAIN Successors :
         blk \in [ins : {ins}, next : UNION {[1..n -> Vips] : n \in Successors[ins]}]
    BY DEF Block
<1>2. PICK n \in Successors[ins] : blk.next \in [1..n -> Vips]
    BY <1>1
<1>3. n \in Nat
    BY SuccessorsFacts, CompileAssumption
<1> QED BY <1>1, <1>2, <1>3

\* A label that is new differs from all others, and the others stay.
LEMMA GetLabelLemma ==
    ASSUME NEW map, LabelsOK(map), NEW v \in Vips
    PROVE  /\ LabelsOK(GetLabel(map, v))
           /\ DOMAIN GetLabel(map, v) = DOMAIN map \cup {v}
           /\ \A w \in DOMAIN map : GetLabel(map, v)[w] = map[w]
<1> DEFINE n == Cardinality(DOMAIN map)
           new == GetLabel(map, v)
<1>1. /\ DOMAIN new = DOMAIN map \cup {v}
      /\ \A w \in DOMAIN map : new[w] = map[w]
      /\ v \notin DOMAIN map => new[v] = n + 1
    BY DEF GetLabel
<1>2. IsFiniteSet(DOMAIN map) /\ n \in Nat
    BY CompileAssumption, FS_Subset, FS_CardinalityType DEF LabelsOK
<1>3. Cardinality(DOMAIN new) = IF v \in DOMAIN map THEN n ELSE n + 1
    BY <1>1, <1>2, FS_AddElement
<1> HIDE DEF n, new
<1>4. LabelsOK(new)
    BY <1>1, <1>2, <1>3 DEF LabelsOK, n
<1> QED BY <1>1, <1>4 DEF new

LEMMA TopFacts ==
    ASSUME TypeOK, stack # <<>>
    PROVE  /\ Len(stack) \in DOMAIN stack /\ Top = stack[Len(stack)]
           /\ Top \in Frame /\ Top.vip \in Vips /\ Top.n \in Nat
           /\ TopBlk \in Block
<1>1. Len(stack) \in DOMAIN stack
    BY DEF TypeOK
<1>2. Top \in Frame
    BY <1>1 DEF TypeOK, Top
<1>3. Top.vip \in Vips /\ Top.n \in Nat
    BY <1>2 DEF Frame
<1> QED BY <1>1, <1>2, <1>3 DEF TypeOK, Top, TopBlk

LEMMA AdvanceFacts ==
    ASSUME TypeOK, stack # <<>>, NEW to \in {"entry", "branch", "next", "je"}, NEW k \in Nat
    PROVE  LET new == Advance(to, k) IN
           /\ new \in Seq(Frame) /\ Len(new) = Len(stack) /\ DOMAIN new = DOMAIN stack
           /\ new # <<>>
           /\ \A i \in DOMAIN stack : i # Len(stack) => new[i] = stack[i]
           /\ new[Len(stack)] = [vip |-> Top.vip, pc |-> to, n |-> k]
<1>1. /\ Len(stack) \in DOMAIN stack /\ stack[Len(stack)] \in Frame /\ Top = stack[Len(stack)]
      /\ Top.vip \in Vips
    BY TopFacts
<1>2. [vip |-> Top.vip, pc |-> to, n |-> k] \in Frame
    BY <1>1 DEF Frame
<1> QED BY <1>1, <1>2 DEF TypeOK, Advance

LEMMA InitLemma == Init => IInv
<1> SUFFICES ASSUME Init PROVE IInv
    OBVIOUS
<1>1. TypeOK
    <2>1. DOMAIN label_map = {} /\ code \in Seq(Node) /\ stack \in Seq(Frame)
        BY DEF Init
    <2> QED BY <2>1 DEF Init, TypeOK
<1>2. StackOK /\ CodeOK /\ Pending /\ RunOK
    BY DEF Init, StackOK, CodeOK, Pending, RunOK, LabelNodes
<1> QED BY <1>1, <1>2 DEF IInv

-----------------------------------------------------------------------------
LEMMA ConcatFacts ==
    ASSUME TypeOK, NEW nodes \in Seq(Node), code' = code \o nodes
    PROVE  /\ code' \in Seq(Node) /\ Len(code') = Len(code) + Len(nodes)
           /\ Len(code) \in Nat /\ Len(nodes) \in Nat
           /\ DOMAIN code = 1..Len(code) /\ DOMAIN nodes = 1..Len(nodes)
           /\ DOMAIN code' = 1..Len(code')
           /\ \A i \in DOMAIN code : i \in DOMAIN code' /\ code'[i] = code[i]
           /\ \A k \in DOMAIN nodes : code'[Len(code) + k] = nodes[k]
           /\ \A i \in DOMAIN code' : i \in DOMAIN code
                                     \/ \E k \in DOMAIN nodes : i = Len(code) + k
<1>1. /\ code' \in Seq(Node) /\ Len(code') = Len(code) + Len(nodes)
      /\ Len(code) \in Nat /\ Len(nodes) \in Nat
      /\ DOMAIN code = 1..Len(code) /\ DOMAIN nodes = 1..Len(nodes)
      /\ DOMAIN code' = 1..Len(code')
    BY DEF TypeOK
<1>2. \A i \in 1..Len(code') : code'[i] = IF i <= Len(code) THEN code[i] ELSE nodes[i - Len(code)]
    BY <1>1
<1>3. ASSUME NEW i \in DOMAIN code', i \notin DOMAIN code
      PROVE  \E k \in DOMAIN nodes : i = Len(code) + k
    <2>1. i - Len(code) \in DOMAIN nodes /\ i = Len(code) + (i - Len(code))
        BY <1>1, <1>3
    <2> QED BY <2>1
<1> QED BY <1>1, <1>2, <1>3

\* Code that is there stays, and what follows a block's instructions with it.
LEMMA FollowedKept ==
    ASSUME TypeOK, NEW nodes \in Seq(Node), code' = code \o nodes, rtn' = rtn
    PROVE  /\ \A i, op, v : JumpAt(i, op, v) => JumpAt(i, op, v)'
           /\ \A i \in DOMAIN code : Followed(i) => Followed(i)'
<1>1. \A i, op, v : JumpAt(i, op, v) => JumpAt(i, op, v)'
    BY ConcatFacts DEF JumpAt
<1>2. \A i \in DOMAIN code : code'[i] = code[i]
    BY ConcatFacts
<1> QED BY <1>1, <1>2 DEF Followed

\* A branch handler hands out labels, emits `nodes', and turns to the n-th
\* successor.
HandsOut(n) ==
    /\ LabelsOK(label_map') /\ DOMAIN label_map \subseteq DOMAIN label_map'
    /\ \A w \in DOMAIN label_map : label_map'[w] = label_map[w]
    /\ \A w \in DOMAIN label_map' \ DOMAIN label_map : \E m \in n..Len(TopBlk.next) :
         TopBlk.next[m] = w /\ (TopBlk.ins = "jmp_reg" => m = n)
Emits(nodes) ==
    /\ nodes \in Seq(Node) /\ nodes # <<>> /\ code' = code \o nodes
    /\ \A k \in DOMAIN nodes :
         /\ nodes[k].op \in JumpOps \cup {"ret"}
         /\ nodes[k].op \in JumpOps =>
                nodes[k].vip \in DOMAIN label_map' /\ nodes[k].label = label_map'[nodes[k].vip]
    /\ \A i \in DOMAIN code : AtBranch(i) /\ code[i].op = "body" => Followed(i)'
Handles(nodes, n) ==
    /\ phase = "compiling" /\ Top.pc \in {"branch", "je"}
    /\ HandsOut(n) /\ Emits(nodes) /\ stack' = Advance("next", n)
    /\ UNCHANGED <<rtn, is_compiled, phase, machine>>

LEMMA HandlesLemma ==
    ASSUME IInv, NEW nodes, NEW n \in Nat \ {0}, Handles(nodes, n)
    PROVE  IInv'
<1> USE DEF Handles, HandsOut, Emits
<1>0. /\ TypeOK /\ stack # <<>>
      /\ rtn' = rtn /\ is_compiled' = is_compiled /\ phase' = phase
    BY DEF IInv, StackOK
<1>1. /\ stack' \in Seq(Frame) /\ Len(stack') = Len(stack) /\ DOMAIN stack' = DOMAIN stack
      /\ stack' # <<>>
      /\ \A i \in DOMAIN stack : i # Len(stack) => stack'[i] = stack[i]
      /\ stack'[Len(stack)] = [vip |-> Top.vip, pc |-> "next", n |-> n]
      /\ Len(stack) \in DOMAIN stack /\ Top = stack[Len(stack)]
    BY <1>0, AdvanceFacts, TopFacts
<1>2. /\ \A i \in DOMAIN stack : stack'[i].vip = stack[i].vip
      /\ Top' = [vip |-> Top.vip, pc |-> "next", n |-> n]
    <2>1. Top' = stack'[Len(stack)]
        BY <1>1 DEF Top
    <2>2. ASSUME NEW i \in DOMAIN stack PROVE stack'[i].vip = stack[i].vip
        BY <1>1, <2>2
    <2> QED BY <1>1, <2>1, <2>2
<1>3. TypeOK'
    BY <1>0, <1>1, ConcatFacts DEF TypeOK, LabelsOK, machine
<1>4. StackOK'
    <2>1. Top.vip \in is_compiled
        BY <1>1 DEF IInv, StackOK
    <2>2. ASSUME NEW i \in DOMAIN stack'
          PROVE  /\ stack'[i].pc = "entry" <=> stack'[i].vip \notin is_compiled'
                 /\ stack'[i].pc = "entry" => i = Len(stack')
                 /\ stack'[i].pc = "branch" => stack'[i].n = 0
                 /\ stack'[i].pc = "next" => stack'[i].n >= 1
        <3>1. CASE i = Len(stack)
            BY <1>0, <1>1, <2>1, <3>1
        <3>2. CASE i # Len(stack)
            <4>1. i \in DOMAIN stack /\ stack'[i] = stack[i]
                BY <1>1, <3>2
            <4>2. /\ stack[i].pc = "entry" <=> stack[i].vip \notin is_compiled
                  /\ stack[i].pc = "entry" => i = Len(stack)
                  /\ stack[i].pc = "branch" => stack[i].n = 0
                  /\ stack[i].pc = "next" => stack[i].n >= 1
                BY <4>1 DEF IInv, StackOK
            <4> QED BY <1>0, <1>1, <4>1, <4>2
        <3> QED BY <3>1, <3>2
    <2>3. \A i, j \in DOMAIN stack' : stack'[i].vip = stack'[j].vip => i = j
        <3>1. \A i, j \in DOMAIN stack : stack[i].vip = stack[j].vip => i = j
            BY DEF IInv, StackOK
        <3>2. /\ DOMAIN stack' = DOMAIN stack
              /\ \A i \in DOMAIN stack : stack'[i].vip = stack[i].vip
            BY <1>1, <1>2
        <3> HIDE DEF Handles, HandsOut, Emits
        <3> QED BY <3>1, <3>2
    <2>4. is_compiled' \subseteq DOMAIN label_map'
        BY <1>0 DEF IInv, StackOK
    <2> QED BY <1>0, <1>1, <2>2, <2>3, <2>4 DEF StackOK
<1>5. CodeOK'
    <2>1. ASSUME NEW i \in DOMAIN code'
          PROVE  /\ code'[i].op \in JumpOps \cup {"label"} =>
                        code'[i].vip \in DOMAIN label_map' /\ code'[i].label = label_map'[code'[i].vip]
                 /\ code'[i].op = "label" =>
                        i \in DOMAIN code /\ code'[i].vip \in is_compiled'
                        /\ JumpAt(i + 1, "body", code[i].vip)'
                 /\ code'[i].op = "body" => Followed(i)'
        <3>1. CASE i \in DOMAIN code
            <4>1. code'[i] = code[i] /\ (Followed(i) => Followed(i)')
                BY <1>0, <3>1, ConcatFacts, FollowedKept
            <4>2. /\ code[i].op \in JumpOps \cup {"label"} =>
                        code[i].vip \in DOMAIN label_map /\ code[i].label = label_map[code[i].vip]
                  /\ code[i].op = "label" =>
                        code[i].vip \in is_compiled /\ JumpAt(i + 1, "body", code[i].vip)
                  /\ code[i].op = "body" => Followed(i) \/ AtBranch(i)
                BY <3>1 DEF IInv, CodeOK
            <4>3. \A v : JumpAt(i + 1, "body", v) => JumpAt(i + 1, "body", v)'
                BY <1>0, FollowedKept
            <4> QED BY <1>0, <3>1, <4>1, <4>2, <4>3
        <3>2. CASE \E k \in DOMAIN nodes : i = Len(code) + k
            BY <1>0, <3>2, ConcatFacts DEF JumpOps
        <3> QED BY <1>0, <2>1, <3>1, <3>2, ConcatFacts
    <2>2. \A i, j \in LabelNodes' : code'[i].vip = code'[j].vip => i = j
        <3>1. \A i \in DOMAIN code : code'[i] = code[i]
            BY <1>0, ConcatFacts
        <3>2. \A i \in LabelNodes' : i \in LabelNodes /\ code'[i] = code[i]
            BY <2>1, <3>1 DEF LabelNodes
        <3>3. \A i, j \in LabelNodes : code[i].vip = code[j].vip => i = j
            BY DEF IInv, CodeOK
        <3> HIDE DEF Handles, HandsOut, Emits
        <3> QED BY <3>2, <3>3
    <2>3. code' # <<>> /\ JumpAt(1, "label", EntryVip)'
        <3>1. JumpAt(1, "label", EntryVip)
            BY <1>0 DEF IInv, CodeOK
        <3>2. 1 \in DOMAIN code' /\ code'[1] = code[1] /\ code' \in Seq(Node)
            BY <1>0, <3>1, ConcatFacts DEF JumpAt
        <3> HIDE DEF Handles, HandsOut, Emits
        <3> QED BY <3>1, <3>2 DEF JumpAt
    <2>4. \A i \in DOMAIN code' :
            /\ code'[i].op \in JumpOps \cup {"label"} =>
                  code'[i].vip \in DOMAIN label_map' /\ code'[i].label = label_map'[code'[i].vip]
            /\ code'[i].op = "label" =>
                  code'[i].vip \in is_compiled' /\ JumpAt(i + 1, "body", code[i].vip)'
            /\ code'[i].op = "body" => (Followed(i) \/ AtBranch(i))'
        BY <1>0, <2>1
    <2> QED BY <2>2, <2>3, <2>4 DEF CodeOK
<1>6. Pending'
    <2>1. SUFFICES ASSUME NEW v \in DOMAIN label_map' \ is_compiled
                   PROVE  \E i \in DOMAIN stack' : AheadIn(stack[i], v)'
        BY <1>0, <1>1 DEF Pending
    <2>2. CASE v \in DOMAIN label_map
        <3>1. PICK i \in DOMAIN stack : AheadIn(stack[i], v)
            BY <2>1, <2>2 DEF IInv, Pending
        <3>2. CASE i = Len(stack)
            <4>1. Top.vip = v
                BY <1>1, <3>1, <3>2 DEF AheadIn
            <4> QED BY <1>0, <1>1, <4>1 DEF AheadIn
        <3>3. CASE i # Len(stack)
            <4>1. i \in DOMAIN stack' /\ stack'[i] = stack[i]
                BY <1>1, <3>3
            <4>2. AheadIn(stack[i], v)'
                BY <1>0, <3>1, <4>1 DEF AheadIn
            <4> QED BY <4>1, <4>2
        <3> QED BY <3>2, <3>3
    <2>3. CASE v \notin DOMAIN label_map
        <3>1. PICK m \in n..Len(TopBlk.next) :
                  TopBlk.next[m] = v /\ (TopBlk.ins = "jmp_reg" => m = n)
            BY <2>1, <2>3
        <3>2. /\ Len(stack) \in DOMAIN stack' /\ rtn'[stack'[Len(stack)].vip] = TopBlk
              /\ stack'[Len(stack)].pc = "next" /\ stack'[Len(stack)].n = n
            BY <1>0, <1>1 DEF TopBlk
        <3> QED BY <3>1, <3>2 DEF AheadIn
    <2> QED BY <2>2, <2>3
<1>7. RunOK'
    BY DEF RunOK
<1> QED BY <1>3, <1>4, <1>5, <1>6, <1>7 DEF IInv

\* The labels of one or two successors.
LEMMA GetLabels ==
    ASSUME NEW map, LabelsOK(map), NEW v \in Vips, NEW w \in Vips
    PROVE  /\ LabelsOK(GetLabel(GetLabel(map, v), w))
           /\ DOMAIN GetLabel(GetLabel(map, v), w) = DOMAIN map \cup {v, w}
           /\ \A x \in DOMAIN map : GetLabel(GetLabel(map, v), w)[x] = map[x]
<1> DEFINE first == GetLabel(map, v)
<1>1. /\ LabelsOK(first) /\ DOMAIN first = DOMAIN map \cup {v}
      /\ \A x \in DOMAIN map : first[x] = map[x]
    BY GetLabelLemma
<1> HIDE DEF first
<1>2. /\ LabelsOK(GetLabel(first, w)) /\ DOMAIN GetLabel(first, w) = DOMAIN first \cup {w}
      /\ \A x \in DOMAIN first : GetLabel(first, w)[x] = first[x]
    BY <1>1, GetLabelLemma
<1>3. /\ DOMAIN GetLabel(first, w) = DOMAIN map \cup {v, w}
      /\ \A x \in DOMAIN map : GetLabel(first, w)[x] = map[x]
    BY <1>1, <1>2
<1> QED BY <1>2, <1>3 DEF first

\* The block whose branch is being compiled.
LEMMA BranchFacts ==
    ASSUME IInv, phase = "compiling"
    PROVE  /\ TypeOK /\ stack # <<>> /\ LabelsOK(label_map)
           /\ TopBlk.next \in Seq(Vips)
           /\ \A n \in 1..Len(TopBlk.next) : TopBlk.next[n] \in Vips
           /\ TopBlk.ins = "js" => Len(TopBlk.next) = 2
           /\ TopBlk.ins = "jmp_reg" => Len(TopBlk.next) >= 1
           /\ TopBlk.ins \in {"jmp_imm", "vxcall"} => Len(TopBlk.next) = 1
           /\ TopBlk.ins = "vexit" => Len(TopBlk.next) = 0
<1>1. TypeOK /\ stack # <<>> /\ LabelsOK(label_map)
    BY DEF IInv, StackOK, TypeOK, LabelsOK
<1>2. TopBlk \in Block
    BY <1>1, TopFacts
<1>3. TopBlk.next \in Seq(Vips) /\ Len(TopBlk.next) \in Successors[TopBlk.ins]
    BY <1>2, BlockFacts
<1>4. /\ TopBlk.ins = "js" => Len(TopBlk.next) = 2
      /\ TopBlk.ins = "jmp_reg" => Len(TopBlk.next) >= 1
      /\ TopBlk.ins \in {"jmp_imm", "vxcall"} => Len(TopBlk.next) = 1
      /\ TopBlk.ins = "vexit" => Len(TopBlk.next) = 0
    <2>1. Len(TopBlk.next) \in Nat
        BY <1>3
    <2>2. TopBlk.ins = "js" => Len(TopBlk.next) \in {2}
        BY <1>3, SuccessorsFacts
    <2>3. TopBlk.ins = "jmp_reg" => Len(TopBlk.next) \in 1..MaxTargets
        BY <1>3, SuccessorsFacts
    <2>4. TopBlk.ins \in {"jmp_imm", "vxcall"} => Len(TopBlk.next) \in {1}
        BY <1>3, SuccessorsFacts
    <2>5. TopBlk.ins = "vexit" => Len(TopBlk.next) \in {0}
        BY <1>3, SuccessorsFacts
    <2> QED BY <2>1, <2>2, <2>3, <2>4, <2>5, CompileAssumption
<1> QED BY <1>1, <1>3, <1>4

\* What the next one or two nodes are.
LEMMA FollowUp ==
    ASSUME TypeOK, rtn' = rtn, NEW nodes \in Seq(Node), nodes # <<>>, code' = code \o nodes,
           NEW i \in DOMAIN code, AtBranch(i)
    PROVE  /\ rtn'[code'[i].vip] = TopBlk /\ code'[i].vip = Top.vip
           /\ i + 1 \in DOMAIN code' /\ code'[i + 1] = nodes[1]
           /\ Len(nodes) = 2 => i + 2 \in DOMAIN code' /\ code'[i + 2] = nodes[2]
<1>1. i = Len(code) /\ code[i].vip = Top.vip /\ Len(nodes) >= 1
    BY DEF AtBranch
<1>2. code'[i] = code[i]
    BY ConcatFacts
<1> QED BY <1>1, <1>2, ConcatFacts DEF TopBlk

LEMMA JsStep == IInv /\ Js => IInv'
<1> SUFFICES ASSUME IInv, Js PROVE IInv'
    OBVIOUS
<1>1. phase = "compiling" /\ Top.pc = "branch" /\ TopBlk.ins = "js"
    BY DEF Js
<1>2. PICK one \in Vips, two \in Vips : TopBlk.next[1] = one /\ TopBlk.next[2] = two
    BY <1>1, BranchFacts
<1> DEFINE nodes == JsJumps(one, two, label_map')
<1>3. /\ label_map' = GetLabel(GetLabel(label_map, one), two)
      /\ code' = code \o nodes /\ stack' = Advance("next", 1)
      /\ UNCHANGED <<rtn, is_compiled, phase, machine>>
    BY <1>2 DEF Js
<1>4. /\ LabelsOK(label_map')
      /\ DOMAIN label_map' = DOMAIN label_map \cup {one, two}
      /\ \A w \in DOMAIN label_map : label_map'[w] = label_map[w]
    <2>1. LabelsOK(label_map)
        BY <1>1, BranchFacts
    <2>2. /\ LabelsOK(GetLabel(GetLabel(label_map, one), two))
          /\ DOMAIN GetLabel(GetLabel(label_map, one), two) = DOMAIN label_map \cup {one, two}
          /\ \A w \in DOMAIN label_map : GetLabel(GetLabel(label_map, one), two)[w] = label_map[w]
        BY <1>2, <2>1, GetLabels
    <2> QED BY <1>3, <2>2
<1>5. HandsOut(1)
    BY <1>1, <1>2, <1>4, BranchFacts DEF HandsOut
<1>6. /\ nodes \in Seq(Node) /\ nodes # <<>> /\ Len(nodes) = 2
      /\ nodes[1] = Jump("jnz", one, label_map') /\ nodes[2] = Jump("jmp", two, label_map')
    <2>1. label_map'[one] \in Nat /\ label_map'[two] \in Nat
        BY <1>4 DEF LabelsOK
    <2> QED BY <2>1 DEF JsJumps, Jump, Node
<1> HIDE DEF nodes
<1>7. Emits(nodes)
    <2>1. ASSUME NEW i \in DOMAIN code, AtBranch(i)
          PROVE  Followed(i)'
        <3>1. /\ rtn'[code'[i].vip] = TopBlk
              /\ i + 1 \in DOMAIN code' /\ code'[i + 1] = nodes[1]
              /\ i + 2 \in DOMAIN code' /\ code'[i + 2] = nodes[2]
            BY <1>1, <1>3, <1>6, <2>1, FollowUp, BranchFacts
        <3>2. JumpAt(i + 1, "jnz", one)' /\ JumpAt(i + 2, "jmp", two)'
            BY <1>6, <3>1 DEF JumpAt, Jump
        <3>3. TopBlk.ins = "js" /\ TopBlk.next[1] = one /\ TopBlk.next[2] = two
            BY <1>2 DEF Js
        <3> QED BY <3>1, <3>2, <3>3 DEF Followed
    <2> QED BY <1>3, <1>4, <1>6, <2>1 DEF Emits, Jump, JumpOps
<1> QED BY <1>1, <1>3, <1>5, <1>7, HandlesLemma DEF Handles

\* One jump, to one successor.
LEMMA OneJump ==
    ASSUME IInv, phase = "compiling", Top.pc \in {"branch", "je"},
           NEW op \in JumpOps, NEW n \in 1..Len(TopBlk.next),
           label_map' = GetLabel(label_map, TopBlk.next[n]),
           code' = Append(code, Jump(op, TopBlk.next[n], label_map')),
           stack' = Advance("next", n),
           UNCHANGED <<rtn, is_compiled, phase, machine>>,
           Top.pc = "branch" =>
               /\ n = 1
               /\ \/ TopBlk.ins \in {"jmp_imm", "vxcall"} /\ op = "jmp"
                  \/ TopBlk.ins = "jmp_reg" /\ op = "je"
    PROVE  IInv'
<1>1. PICK dest \in Vips : TopBlk.next[n] = dest
    BY BranchFacts
<1> DEFINE nodes == <<Jump(op, dest, label_map')>>
<1>2. /\ LabelsOK(label_map')
      /\ DOMAIN label_map' = DOMAIN label_map \cup {dest}
      /\ \A w \in DOMAIN label_map : label_map'[w] = label_map[w]
    <2>1. LabelsOK(label_map) /\ label_map' = GetLabel(label_map, dest)
        BY <1>1, BranchFacts
    <2>2. /\ LabelsOK(GetLabel(label_map, dest))
          /\ DOMAIN GetLabel(label_map, dest) = DOMAIN label_map \cup {dest}
          /\ \A w \in DOMAIN label_map : GetLabel(label_map, dest)[w] = label_map[w]
        BY <1>1, <2>1, GetLabelLemma
    <2> QED BY <2>1, <2>2
<1>3. HandsOut(n)
    <2>1. n \in n..Len(TopBlk.next)
        BY BranchFacts
    <2> QED BY <1>1, <1>2, <2>1 DEF HandsOut
<1>4. /\ nodes \in Seq(Node) /\ nodes # <<>> /\ DOMAIN nodes = {1}
      /\ nodes[1] = Jump(op, dest, label_map')
    <2>1. label_map'[dest] \in Nat
        BY <1>2 DEF LabelsOK
    <2> QED BY <2>1 DEF Jump, Node, JumpOps
<1>5. code' = code \o nodes
    <2>1. code \in Seq(Node)
        BY BranchFacts DEF TypeOK
    <2> QED BY <1>1, <1>4, <2>1
<1> HIDE DEF nodes
<1>6. Emits(nodes)
    <2>1. ASSUME NEW i \in DOMAIN code, AtBranch(i)
          PROVE  Followed(i)'
        <3>1. /\ rtn'[code'[i].vip] = TopBlk
              /\ i + 1 \in DOMAIN code' /\ code'[i + 1] = nodes[1]
            BY <1>4, <1>5, <2>1, FollowUp, BranchFacts
        <3>2. Top.pc = "branch" /\ TopBlk.next[1] = dest
            BY <1>1, <2>1 DEF AtBranch
        <3>3. code'[i + 1].op = op /\ code'[i + 1].vip = dest
            BY <1>4, <3>1 DEF Jump
        <3>4. CASE TopBlk.ins \in {"jmp_imm", "vxcall"} /\ op = "jmp"
            BY <3>1, <3>2, <3>3, <3>4 DEF Followed, JumpAt
        <3>5. CASE TopBlk.ins = "jmp_reg" /\ op = "je"
            BY <3>1, <3>2, <3>3, <3>5 DEF Followed, JumpAt
        <3> QED BY <3>2, <3>4, <3>5
    <2> QED BY <1>2, <1>4, <1>5, <2>1 DEF Emits, Jump
<1> QED BY <1>3, <1>6, HandlesLemma DEF Handles

LEMMA JmpOrCallStep == IInv /\ JmpOrCall => IInv'
<1> SUFFICES ASSUME IInv, JmpOrCall PROVE IInv'
    OBVIOUS
<1>1. 1 \in 1..Len(TopBlk.next)
    BY BranchFacts DEF JmpOrCall
<1> QED BY <1>1, OneJump DEF JmpOrCall, JumpOps

LEMMA JmpRegisterStep == IInv /\ JmpRegister => IInv'
<1> SUFFICES ASSUME IInv, JmpRegister PROVE IInv'
    OBVIOUS
<1> DEFINE n == Top.n + 1
<1>1. phase = "compiling" /\ TopBlk.ins = "jmp_reg" /\ Top.pc \in {"branch", "je"}
    BY DEF JmpRegister
<1>2. Top.n \in Nat /\ (Top.pc = "branch" => Top.n = 0)
    BY <1>1, BranchFacts, TopFacts DEF IInv, StackOK
<1>3. n \in 1..Len(TopBlk.next)
    BY <1>1, <1>2, BranchFacts DEF JmpRegister
<1> QED BY <1>1, <1>2, <1>3, OneJump DEF JmpRegister, JumpOps

LEMMA VexitStep == IInv /\ Vexit => IInv'
<1> SUFFICES ASSUME IInv, Vexit PROVE IInv'
    OBVIOUS
<1>1. /\ phase = "compiling" /\ Top.pc = "branch" /\ TopBlk.ins = "vexit"
      /\ code' = Append(code, Mark("ret", Top.vip)) /\ stack' = Advance("next", 1)
      /\ UNCHANGED <<rtn, label_map, is_compiled, phase, machine>>
    BY DEF Vexit
<1>2. PICK v \in Vips : Top.vip = v
    BY <1>1, TopFacts, BranchFacts
<1> DEFINE nodes == <<Mark("ret", v)>>
<1>3. /\ nodes \in Seq(Node) /\ nodes # <<>> /\ DOMAIN nodes = {1} /\ nodes[1] = Mark("ret", v)
    BY DEF Mark, Node
<1>4. code' = code \o nodes
    <2>1. code \in Seq(Node)
        BY <1>1, BranchFacts DEF TypeOK
    <2> QED BY <1>1, <1>2, <1>3, <2>1
<1> HIDE DEF nodes
<1>5. HandsOut(1)
    BY <1>1, BranchFacts DEF HandsOut
<1>6. Emits(nodes)
    <2>1. ASSUME NEW i \in DOMAIN code, AtBranch(i)
          PROVE  Followed(i)'
        <3>1. /\ rtn'[code'[i].vip] = TopBlk /\ code'[i].vip = v
              /\ i + 1 \in DOMAIN code' /\ code'[i + 1] = nodes[1]
            BY <1>1, <1>2, <1>3, <1>4, <2>1, FollowUp, BranchFacts
        <3> QED BY <1>1, <1>3, <3>1 DEF Followed, JumpAt, Mark
    <2> QED BY <1>3, <1>4, <2>1 DEF Emits, Mark, JumpOps
<1> QED BY <1>1, <1>5, <1>6, HandlesLemma DEF Handles

-----------------------------------------------------------------------------
\* Calls and returns: code and labels stay, and no call is at its branch.
LEMMA SameCode ==
    ASSUME CodeOK, UNCHANGED <<rtn, label_map, is_compiled, code>>, code # <<>>,
           Top.pc # "branch" \/ phase \notin {"compiling", "exited"}
    PROVE  CodeOK'
<1>1. \A i \in DOMAIN code :
         /\ code[i].op \in JumpOps \cup {"label"} =>
                code[i].vip \in DOMAIN label_map /\ code[i].label = label_map[code[i].vip]
         /\ code[i].op = "label" =>
                code[i].vip \in is_compiled /\ JumpAt(i + 1, "body", code[i].vip)
         /\ code[i].op = "body" => Followed(i)
    BY DEF CodeOK, AtBranch
<1>2. \A i, op, v : JumpAt(i, op, v)' = JumpAt(i, op, v)
    BY DEF JumpAt
<1>3. \A i \in DOMAIN code : Followed(i)' = Followed(i)
    BY <1>2 DEF Followed
<1>4. /\ \A i, j \in LabelNodes' : code'[i].vip = code'[j].vip => i = j
      /\ JumpAt(1, "label", EntryVip)
    BY DEF CodeOK, LabelNodes
<1> QED BY <1>1, <1>2, <1>3, <1>4 DEF CodeOK

LEMMA BeginStep == IInv /\ Begin => IInv'
<1> SUFFICES ASSUME IInv, Begin PROVE IInv'
    OBVIOUS
<1>1. /\ phase' = "compiling" /\ stack' = <<Call(EntryVip)>>
      /\ UNCHANGED <<rtn, label_map, is_compiled, code, machine>>
      /\ label_map = <<>> /\ is_compiled = {} /\ code = <<>> /\ DOMAIN label_map = {}
    BY DEF Begin, IInv, StackOK
<1>2. /\ stack' \in Seq(Frame) /\ stack' # <<>> /\ DOMAIN stack' = {1} /\ Len(stack') = 1
      /\ stack'[1] = Call(EntryVip) /\ Top' = Call(EntryVip)
    BY <1>1, CompileAssumption DEF Call, Frame, Top
<1>3. TypeOK'
    BY <1>1, <1>2 DEF IInv, TypeOK, machine
<1>4. StackOK'
    BY <1>1, <1>2 DEF StackOK, Call
<1>5. CodeOK' /\ Pending' /\ RunOK'
    BY <1>1, <1>2 DEF CodeOK, Pending, RunOK, LabelNodes, Call
<1> QED BY <1>3, <1>4, <1>5 DEF IInv

LEMMA EnterStep == IInv /\ Enter => IInv'
<1> SUFFICES ASSUME IInv, Enter PROVE IInv'
    OBVIOUS
<1>1. phase = "compiling" /\ Top.pc = "entry" /\ TypeOK /\ stack # <<>> /\ LabelsOK(label_map)
    BY BranchFacts DEF Enter
<1>2. PICK v \in Vips : Top.vip = v
    BY <1>1, TopFacts
<1> DEFINE nodes == <<Label(v, label_map'), Mark("body", v)>>
<1>3. /\ label_map' = GetLabel(label_map, v) /\ is_compiled' = is_compiled \cup {v}
      /\ code' = code \o nodes /\ stack' = Advance("branch", 0)
      /\ rtn' = rtn /\ phase' = phase /\ UNCHANGED machine
    BY <1>2 DEF Enter, Recorded
<1>4. /\ LabelsOK(label_map') /\ DOMAIN label_map' = DOMAIN label_map \cup {v}
      /\ \A w \in DOMAIN label_map : label_map'[w] = label_map[w]
    <2>1. /\ LabelsOK(GetLabel(label_map, v))
          /\ DOMAIN GetLabel(label_map, v) = DOMAIN label_map \cup {v}
          /\ \A w \in DOMAIN label_map : GetLabel(label_map, v)[w] = label_map[w]
        BY <1>1, GetLabelLemma
    <2> QED BY <1>3, <2>1
<1>5. /\ nodes \in Seq(Node) /\ DOMAIN nodes = {1, 2} /\ Len(nodes) = 2
      /\ nodes[1] = Label(v, label_map') /\ nodes[2] = Mark("body", v)
    <2>1. label_map'[v] \in Nat
        BY <1>4 DEF LabelsOK
    <2> QED BY <2>1 DEF Label, Mark, Node
<1> HIDE DEF nodes
<1>6. /\ stack' \in Seq(Frame) /\ Len(stack') = Len(stack) /\ DOMAIN stack' = DOMAIN stack
      /\ stack' # <<>> /\ Len(stack) \in DOMAIN stack
      /\ \A i \in DOMAIN stack : i # Len(stack) => stack'[i] = stack[i]
      /\ stack'[Len(stack)] = [vip |-> v, pc |-> "branch", n |-> 0]
      /\ stack[Len(stack)] = Top
    BY <1>1, <1>2, <1>3, AdvanceFacts, TopFacts
<1>7. /\ Top' = [vip |-> v, pc |-> "branch", n |-> 0]
      /\ \A i \in DOMAIN stack : stack'[i].vip = stack[i].vip
    <2>1. Top' = stack'[Len(stack)]
        BY <1>6 DEF Top
    <2>2. ASSUME NEW i \in DOMAIN stack PROVE stack'[i].vip = stack[i].vip
        BY <1>2, <1>6
    <2> QED BY <1>6, <2>1, <2>2
<1>8. v \notin is_compiled /\ (\A i \in DOMAIN stack : stack[i].vip = v => i = Len(stack))
    <2>1. /\ Top.pc = "entry" <=> Top.vip \notin is_compiled
          /\ \A i, j \in DOMAIN stack : stack[i].vip = stack[j].vip => i = j
        BY <1>6 DEF IInv, StackOK
    <2> QED BY <1>1, <1>2, <1>6, <2>1
<1>9. TypeOK'
    <2>1. code' \in Seq(Node)
        BY <1>1, <1>3, <1>5, ConcatFacts
    <2> QED BY <1>1, <1>3, <1>4, <1>6, <2>1 DEF TypeOK, LabelsOK, machine
<1>10. StackOK'
    <2>1. ASSUME NEW i \in DOMAIN stack'
          PROVE  /\ stack'[i].pc = "entry" <=> stack'[i].vip \notin is_compiled'
                 /\ stack'[i].pc = "entry" => i = Len(stack')
                 /\ stack'[i].pc = "branch" => stack'[i].n = 0
                 /\ stack'[i].pc = "next" => stack'[i].n >= 1
        <3>1. CASE i = Len(stack)
            BY <1>3, <1>6, <3>1
        <3>2. CASE i # Len(stack)
            <4>1. i \in DOMAIN stack /\ stack'[i] = stack[i] /\ stack[i].vip # v
                BY <1>6, <1>8, <3>2
            <4>2. /\ stack[i].pc = "entry" <=> stack[i].vip \notin is_compiled
                  /\ stack[i].pc = "entry" => i = Len(stack)
                  /\ stack[i].pc = "branch" => stack[i].n = 0
                  /\ stack[i].pc = "next" => stack[i].n >= 1
                BY <4>1 DEF IInv, StackOK
            <4> QED BY <1>3, <1>6, <4>1, <4>2
        <3> QED BY <3>1, <3>2
    <2>2. \A i, j \in DOMAIN stack' : stack'[i].vip = stack'[j].vip => i = j
        <3>1. \A i, j \in DOMAIN stack : stack[i].vip = stack[j].vip => i = j
            BY DEF IInv, StackOK
        <3> QED BY <1>6, <1>7, <3>1
    <2>3. is_compiled' \subseteq DOMAIN label_map'
        BY <1>3, <1>4 DEF IInv, StackOK
    <2> QED BY <1>1, <1>3, <1>6, <2>1, <2>2, <2>3 DEF StackOK
<1>11. CodeOK'
    <2>0. PICK n \in Nat : n = Len(code)
        BY <1>1 DEF TypeOK
    <2>1. /\ DOMAIN code = 1..n /\ Len(code') = n + 2 /\ DOMAIN code' = 1..(n + 2)
          /\ \A i \in DOMAIN code : code'[i] = code[i]
          /\ code'[n + 1] = Label(v, label_map') /\ code'[n + 2] = Mark("body", v)
        BY <1>1, <1>3, <1>5, <2>0, ConcatFacts
    <2>2. JumpAt(n + 1, "label", v)' /\ JumpAt(n + 2, "body", v)'
        BY <2>1 DEF JumpAt, Label, Mark
    <2>3. ASSUME NEW i \in DOMAIN code
          PROVE  /\ code[i].op \in JumpOps \cup {"label"} =>
                        code[i].vip \in DOMAIN label_map /\ code[i].label = label_map[code[i].vip]
                 /\ code[i].op = "label" =>
                        code[i].vip \in is_compiled /\ JumpAt(i + 1, "body", code[i].vip)
                 /\ code[i].op = "body" => Followed(i)
        BY <1>1 DEF IInv, CodeOK, AtBranch
    <2>4. ASSUME NEW i \in DOMAIN code'
          PROVE  /\ code'[i].op \in JumpOps \cup {"label"} =>
                        code'[i].vip \in DOMAIN label_map' /\ code'[i].label = label_map'[code'[i].vip]
                 /\ code'[i].op = "label" =>
                        code'[i].vip \in is_compiled' /\ JumpAt(i + 1, "body", code[i].vip)'
                 /\ code'[i].op = "body" => (Followed(i) \/ AtBranch(i))'
        <3>1. CASE i \in DOMAIN code
            <4>1. /\ code'[i] = code[i] /\ (Followed(i) => Followed(i)')
                  /\ \A w : JumpAt(i + 1, "body", w) => JumpAt(i + 1, "body", w)'
                BY <1>1, <1>3, <1>5, <2>1, <3>1, FollowedKept
            <4> QED BY <1>3, <1>4, <2>3, <3>1, <4>1
        <3>2. CASE i = n + 1
            <4>1. code'[i] = Label(v, label_map') /\ v \in is_compiled' /\ v \in DOMAIN label_map'
                BY <1>3, <1>4, <2>1, <3>2
            <4>2. JumpAt(i + 1, "body", v)'
                <5>1. (n + 1) + 1 = n + 2
                    BY <2>0
                <5> QED BY <2>2, <3>2, <5>1
            <4>3. code'[i].op = "label" /\ code'[i].vip = v /\ code'[i].label = label_map'[v]
                BY <4>1 DEF Label
            <4>4. PICK w : w = code'[i].vip /\ JumpAt(i + 1, "body", w)'
                BY <4>2, <4>3
            <4> QED BY <4>1, <4>3, <4>4
        <3>3. CASE i = n + 2
            <4>1. AtBranch(i)'
                BY <1>1, <1>3, <1>7, <2>1, <3>3 DEF AtBranch, Mark
            <4> QED BY <2>1, <3>3, <4>1 DEF Mark, JumpOps
        <3> QED BY <2>1, <3>1, <3>2, <3>3
    <2>5. \A i, j \in LabelNodes' : code'[i].vip = code'[j].vip => i = j
        <3>1. ASSUME NEW i \in LabelNodes'
              PROVE  \/ i \in LabelNodes /\ code'[i] = code[i] /\ code[i].vip # v
                     \/ i = n + 1 /\ code'[i].vip = v
            <4>1. i \in DOMAIN code' /\ code'[i].op = "label"
                BY DEF LabelNodes
            <4>2. CASE i \in DOMAIN code
                BY <1>8, <2>1, <2>3, <4>1, <4>2 DEF LabelNodes
            <4>3. CASE i = n + 1
                BY <2>1, <4>3 DEF Label
            <4>4. i # n + 2
                BY <2>1, <4>1 DEF Mark
            <4> QED BY <2>1, <4>1, <4>2, <4>3, <4>4
        <3> QED BY <3>1 DEF IInv, CodeOK
    <2>6. JumpAt(1, "label", EntryVip)'
        <3>1. CASE code = <<>>
            <4>1. v = EntryVip /\ n = 0
                BY <1>1, <1>2, <2>0, <3>1 DEF IInv, CodeOK
            <4> QED BY <2>2, <4>1
        <3>2. CASE code # <<>>
            BY <1>1, <1>3, <1>5, <3>2, FollowedKept DEF IInv, CodeOK
        <3> QED BY <3>1, <3>2
    <2>7. code' # <<>>
        BY <2>1
    <2> QED BY <2>4, <2>5, <2>6, <2>7 DEF CodeOK
<1>12. Pending'
    <2>1. SUFFICES ASSUME NEW w \in DOMAIN label_map' \ is_compiled'
                   PROVE  \E i \in DOMAIN stack' : AheadIn(stack[i], w)'
        BY <1>3, <1>6 DEF Pending
    <2>2. w \in DOMAIN label_map \ is_compiled /\ w # v
        BY <1>3, <1>4, <2>1
    <2>3. PICK i \in DOMAIN stack : AheadIn(stack[i], w)
        BY <1>1, <2>2 DEF IInv, Pending
    <2>4. i # Len(stack)
        BY <1>1, <1>2, <1>6, <2>2, <2>3 DEF AheadIn
    <2>5. i \in DOMAIN stack' /\ stack'[i] = stack[i]
        BY <1>6, <2>4
    <2>6. AheadIn(stack[i], w)'
        BY <1>3, <2>3, <2>5 DEF AheadIn
    <2> QED BY <2>5, <2>6
<1>13. RunOK'
    BY <1>1, <1>3 DEF RunOK
<1> QED BY <1>9, <1>10, <1>11, <1>12, <1>13 DEF IInv

LEMMA UnrecognizedStep == IInv /\ Unrecognized => IInv'
<1> SUFFICES ASSUME IInv, Unrecognized PROVE IInv'
    OBVIOUS
<1>1. /\ phase = "compiling" /\ phase' = "exited" /\ Top.pc = "branch"
      /\ UNCHANGED <<rtn, label_map, is_compiled, code, stack, machine>>
    BY DEF Unrecognized
<1>2. TypeOK' /\ StackOK'
    BY <1>1 DEF IInv, TypeOK, StackOK, machine
<1>3. CodeOK'
    <2>1. \A i : AtBranch(i) => AtBranch(i)'
        BY <1>1 DEF AtBranch, Top
    <2>2. \A i : Followed(i)' = Followed(i)
        BY <1>1 DEF Followed, JumpAt
    <2>3. \A i, op, v : JumpAt(i, op, v)' = JumpAt(i, op, v)
        BY <1>1 DEF JumpAt
    <2>4. code # <<>>
        BY <1>1 DEF IInv, CodeOK
    <2> QED BY <1>1, <2>1, <2>2, <2>3, <2>4 DEF IInv, CodeOK, LabelNodes
<1>4. Pending' /\ RunOK'
    BY <1>1 DEF Pending, RunOK
<1> QED BY <1>2, <1>3, <1>4 DEF IInv

LEMMA SuccessorStep == IInv /\ Successor => IInv'
<1> SUFFICES ASSUME IInv, Successor PROVE IInv'
    OBVIOUS
<1>1. /\ phase = "compiling" /\ Top.pc = "next" /\ TypeOK /\ stack # <<>>
      /\ UNCHANGED <<rtn, label_map, is_compiled, code, phase, machine>>
    BY BranchFacts DEF Successor
<1>2. PICK last \in Nat \ {0} : last = Len(stack)
    BY <1>1 DEF TypeOK
<1>3. /\ last \in DOMAIN stack /\ DOMAIN stack = 1..last /\ Top = stack[last]
      /\ Top.vip \in Vips /\ Top.n \in Nat
    BY <1>1, <1>2, TopFacts DEF TypeOK
<1>4. /\ \A i \in DOMAIN stack : stack[i].pc # "entry" /\ stack[i].vip \in is_compiled
      /\ Top.n >= 1
    <2>1. \A i \in DOMAIN stack :
             /\ stack[i].pc = "entry" <=> stack[i].vip \notin is_compiled
             /\ stack[i].pc = "entry" => i = last
             /\ stack[i].pc = "next" => stack[i].n >= 1
        BY <1>2 DEF IInv, StackOK
    <2> QED BY <1>1, <1>3, <2>1
<1>5. PICK dest \in Vips : TopBlk.next[Top.n] = dest
    <2>1. Top.n \in 1..Len(TopBlk.next)
        BY <1>1, <1>3, <1>4, BranchFacts DEF Successor
    <2> QED BY <1>1, <2>1, BranchFacts
<1>6. PICK to \in {"je", "next"}, k \in Nat :
          /\ Resumed = Advance(to, k)
          /\ to = "next" <=> TopBlk.ins # "jmp_reg"
          /\ to = "next" => k = Top.n + 1
    BY <1>3 DEF Resumed
<1>7. PICK resumed \in Seq(Frame) : resumed = Resumed
    BY <1>1, <1>6, AdvanceFacts
<1>8. /\ Len(resumed) = last /\ DOMAIN resumed = 1..last
      /\ \A i \in 1..last : i # last => resumed[i] = stack[i]
      /\ resumed[last] = [vip |-> Top.vip, pc |-> to, n |-> k]
    BY <1>1, <1>2, <1>3, <1>6, <1>7, AdvanceFacts
<1>9. /\ \A i \in 1..last : resumed[i].vip = stack[i].vip /\ resumed[i].pc \notin {"entry"}
      /\ \A i \in 1..last : /\ resumed[i].pc = "branch" => resumed[i].n = 0
                            /\ resumed[i].pc = "next" => resumed[i].n >= 1
    <2>1. ASSUME NEW i \in 1..last, i # last
          PROVE  /\ resumed[i].vip = stack[i].vip /\ resumed[i].pc # "entry"
                 /\ resumed[i].pc = "branch" => resumed[i].n = 0
                 /\ resumed[i].pc = "next" => resumed[i].n >= 1
        BY <1>3, <1>4, <1>8, <2>1 DEF IInv, StackOK
    <2>2. /\ resumed[last].vip = stack[last].vip /\ resumed[last].pc # "entry"
          /\ resumed[last].pc = "branch" => resumed[last].n = 0
          /\ resumed[last].pc = "next" => resumed[last].n >= 1
        BY <1>3, <1>4, <1>6, <1>8
    <2> QED BY <2>1, <2>2
<1>10. stack' = IF dest \notin is_compiled THEN Append(resumed, Call(dest)) ELSE resumed
    BY <1>5, <1>7 DEF Successor, NeedsCode
<1>11. \/ /\ dest \notin is_compiled /\ Len(stack') = last + 1 /\ DOMAIN stack' = 1..(last + 1)
          /\ stack'[last + 1] = [vip |-> dest, pc |-> "entry", n |-> 0]
       \/ /\ dest \in is_compiled /\ Len(stack') = last /\ DOMAIN stack' = 1..last
    BY <1>8, <1>10 DEF Call
<1>12. /\ stack' \in Seq(Frame) /\ stack' # <<>>
       /\ \A i \in 1..last : i \in DOMAIN stack' /\ stack'[i] = resumed[i]
    <2>1. Call(dest) \in Frame
        BY DEF Call, Frame
    <2> QED BY <1>8, <1>10, <2>1
<1>13. TypeOK'
    BY <1>1, <1>12 DEF TypeOK, machine
<1>14. StackOK'
    <2>1. ASSUME NEW i \in DOMAIN stack'
          PROVE  /\ stack'[i].pc = "entry" <=> stack'[i].vip \notin is_compiled'
                 /\ stack'[i].pc = "entry" => i = Len(stack')
                 /\ stack'[i].pc = "branch" => stack'[i].n = 0
                 /\ stack'[i].pc = "next" => stack'[i].n >= 1
        <3>1. CASE i \in 1..last
            <4>1. stack'[i] = resumed[i] /\ stack[i].vip \in is_compiled
                BY <1>3, <1>4, <1>12, <3>1
            <4> QED BY <1>1, <1>9, <3>1, <4>1
        <3>2. CASE i \notin 1..last
            BY <1>1, <1>11, <3>2
        <3> QED BY <3>1, <3>2
    <2>2. ASSUME NEW i \in DOMAIN stack', NEW j \in DOMAIN stack', stack'[i].vip = stack'[j].vip
          PROVE  i = j
        <3>1. \A x, y \in 1..last : stack[x].vip = stack[y].vip => x = y
            BY <1>3 DEF IInv, StackOK
        <3>2. \A x \in 1..last : stack'[x].vip = stack[x].vip /\ stack[x].vip \in is_compiled
            BY <1>3, <1>4, <1>9, <1>12
        <3> QED BY <1>11, <2>2, <3>1, <3>2
    <2> QED BY <1>1, <1>12, <2>1, <2>2 DEF IInv, StackOK
<1>15. CodeOK'
    <2>1. code # <<>>
        BY <1>1 DEF IInv, CodeOK
    <2> QED BY <1>1, <2>1, SameCode DEF IInv
<1>16. Pending'
    <2>1. SUFFICES ASSUME NEW v \in DOMAIN label_map \ is_compiled
                   PROVE  \E i \in DOMAIN stack' : AheadIn(stack[i], v)'
        BY <1>1 DEF Pending
    <2>2. PICK i \in 1..last : AheadIn(stack[i], v)
        BY <1>1, <1>3, <2>1 DEF IInv, Pending
    <2>3. CASE i # last
        <3>1. i \in DOMAIN stack' /\ stack'[i] = stack[i]
            BY <1>8, <1>12, <2>3
        <3> QED BY <1>1, <2>2, <3>1 DEF AheadIn
    <2>4. CASE i = last
        <3>1. PICK m \in Top.n..Len(TopBlk.next) :
                  TopBlk.next[m] = v /\ (TopBlk.ins = "jmp_reg" => m = Top.n)
            BY <1>3, <1>4, <2>1, <2>2, <2>4 DEF AheadIn, TopBlk
        <3>2. CASE m = Top.n
            <4>1. v = dest /\ dest \notin is_compiled
                BY <1>5, <2>1, <3>1, <3>2
            <4>2. last + 1 \in DOMAIN stack' /\ stack'[last + 1].vip = v
                BY <1>11, <4>1
            <4> QED BY <4>2 DEF AheadIn
        <3>3. CASE m # Top.n
            <4>1. /\ to = "next" /\ k = Top.n + 1 /\ m \in k..Len(TopBlk.next)
                  /\ TopBlk.ins # "jmp_reg"
                BY <1>3, <1>6, <3>1, <3>3, BranchFacts, <1>1
            <4>2. /\ last \in DOMAIN stack' /\ stack'[last].pc = "next" /\ stack'[last].n = k
                  /\ rtn'[stack'[last].vip] = TopBlk
                BY <1>1, <1>8, <1>12, <4>1 DEF TopBlk
            <4> QED BY <3>1, <4>1, <4>2 DEF AheadIn
        <3> QED BY <3>2, <3>3
    <2> QED BY <2>3, <2>4
<1>17. RunOK'
    BY <1>1 DEF RunOK
<1> QED BY <1>13, <1>14, <1>15, <1>16, <1>17 DEF IInv

LEMMA ReturnStep == IInv /\ Return => IInv'
<1> SUFFICES ASSUME IInv, Return PROVE IInv'
    OBVIOUS
<1>1. /\ phase = "compiling" /\ Top.pc \in {"next", "je"} /\ TypeOK /\ stack # <<>>
      /\ Top.pc = "next" => Top.n > Len(TopBlk.next)
      /\ UNCHANGED <<rtn, label_map, is_compiled, code, machine>>
      /\ phase' = (IF Len(stack) = 1 THEN "compiled" ELSE "compiling")
    BY BranchFacts DEF Return
<1>2. PICK last \in Nat \ {0} : last = Len(stack)
    BY <1>1 DEF TypeOK
<1>3. /\ last \in DOMAIN stack /\ DOMAIN stack = 1..last /\ Top = stack[last] /\ Top.n \in Nat
    BY <1>1, <1>2, TopFacts DEF TypeOK
<1>4. /\ stack' \in Seq(Frame) /\ Len(stack') = last - 1 /\ DOMAIN stack' = 1..(last - 1)
      /\ \A i \in 1..(last - 1) : stack'[i] = stack[i]
    <2>1. stack' = SubSeq(stack, 1, last - 1)
        BY <1>2 DEF Return
    <2>2. stack \in Seq(Frame) /\ 1 \in Int /\ last - 1 \in Int
        BY <1>1 DEF TypeOK
    <2>3. \A i \in 1..(last - 1) : i \in 1..Len(stack)
        BY <1>2
    <2> QED BY <1>2, <2>1, <2>2, <2>3
<1>5. TypeOK'
    BY <1>1, <1>4 DEF TypeOK, machine
<1>6. StackOK'
    <2>1. ASSUME NEW i \in DOMAIN stack'
          PROVE  /\ stack'[i].pc # "entry" /\ stack'[i].vip \in is_compiled
                 /\ stack'[i].pc = "branch" => stack'[i].n = 0
                 /\ stack'[i].pc = "next" => stack'[i].n >= 1
        <3>1. i \in DOMAIN stack /\ i # Len(stack) /\ stack'[i] = stack[i]
            BY <1>2, <1>3, <1>4
        <3> QED BY <3>1 DEF IInv, StackOK
    <2>2. \A i, j \in DOMAIN stack' : stack'[i].vip = stack'[j].vip => i = j
        <3>1. \A i, j \in 1..last : stack[i].vip = stack[j].vip => i = j
            BY <1>3 DEF IInv, StackOK
        <3> QED BY <1>4, <3>1
    <2>3. phase' \in {"compiling", "exited"} => stack' # <<>>
        BY <1>1, <1>2, <1>4
    <2>4. is_compiled' \subseteq DOMAIN label_map'
        BY <1>1 DEF IInv, StackOK
    <2> QED BY <1>1, <2>1, <2>2, <2>3, <2>4 DEF StackOK
<1>7. CodeOK'
    <2>1. code # <<>>
        BY <1>1 DEF IInv, CodeOK
    <2> QED BY <1>1, <2>1, SameCode DEF IInv
<1>8. Pending'
    <2>1. SUFFICES ASSUME NEW v \in DOMAIN label_map \ is_compiled
                   PROVE  \E i \in DOMAIN stack' : AheadIn(stack[i], v)'
        BY <1>1 DEF Pending
    <2>2. PICK i \in 1..last : AheadIn(stack[i], v)
        BY <1>1, <1>3, <2>1 DEF IInv, Pending
    <2>3. i # last
        <3>1. Top.vip \in is_compiled
            BY <1>1, <1>3 DEF IInv, StackOK
        <3>2. Top.pc = "next" => Top.n..Len(TopBlk.next) = {}
            BY <1>1, <1>3, BranchFacts
        <3> QED BY <1>3, <2>1, <2>2, <3>1, <3>2 DEF AheadIn, TopBlk
    <2>4. i \in DOMAIN stack' /\ stack'[i] = stack[i]
        BY <1>4, <2>3
    <2> QED BY <1>1, <2>2, <2>4 DEF AheadIn
<1>9. RunOK'
    BY <1>1 DEF RunOK
<1> QED BY <1>5, <1>6, <1>7, <1>8, <1>9 DEF IInv

-----------------------------------------------------------------------------
\* The code that came out runs.
LEMMA FinalizeStep == IInv /\ Finalize => IInv'
<1> SUFFICES ASSUME IInv, Finalize PROVE IInv'
    OBVIOUS
<1>1. /\ phase = "compiled" /\ UNCHANGED <<rtn, label_map, is_compiled, code, stack>>
      /\ \/ phase' = "refused" /\ UNCHANGED machine
         \/ /\ phase' = "running" /\ ip' = 1 /\ goal' = EntryVip
            /\ \A i \in Jumps : Bound(code[i].label) # {}
    BY DEF Finalize
<1>2. TypeOK'
    BY <1>1, CompileAssumption DEF IInv, TypeOK, machine
<1>3. StackOK' /\ Pending'
    BY <1>1 DEF IInv, StackOK, Pending
<1>4. code # <<>> /\ JumpAt(1, "label", EntryVip)
    BY <1>1 DEF IInv, CodeOK
<1>5. CodeOK'
    BY <1>1, <1>4, SameCode DEF IInv
<1>6. RunOK'
    <2> SUFFICES ASSUME phase' = "running" PROVE RunOK'
        BY DEF RunOK
    <2>1. \A i \in Jumps' : Bound(code[i].label)' # {}
        BY <1>1 DEF Jumps, Bound
    <2>2. OnCourse'
        BY <1>1, <1>4 DEF OnCourse, JumpAt
    <2> QED BY <2>1, <2>2 DEF RunOK
<1> QED BY <1>2, <1>3, <1>5, <1>6 DEF IInv

\* A jump that is taken leads to the label of the block it is a jump to.
LEMMA TargetFacts ==
    ASSUME IInv, phase = "running", ip \in DOMAIN code, code[ip].op \in JumpOps
    PROVE  LET i == Target(code[ip]) IN
           i \in DOMAIN code /\ code[i].op = "label" /\ code[i].vip = code[ip].vip
<1>1. Bound(code[ip].label) # {}
    BY DEF IInv, RunOK, Jumps, JumpOps
<1>2. PICK i : i = Target(code[ip]) /\ i \in Bound(code[ip].label)
    BY <1>1 DEF Target
<1>3. i \in DOMAIN code /\ code[i].op = "label" /\ code[i].label = code[ip].label
    BY <1>2 DEF Bound
<1>4. /\ code[i].vip \in DOMAIN label_map /\ code[i].label = label_map[code[i].vip]
      /\ code[ip].vip \in DOMAIN label_map /\ code[ip].label = label_map[code[ip].vip]
    BY <1>3 DEF IInv, CodeOK
<1>5. code[i].vip = code[ip].vip
    BY <1>3, <1>4 DEF IInv, TypeOK
<1> QED BY <1>2, <1>3, <1>5

\* The node that runs next is one the routine is ready for.
LEMMA RunsOn ==
    ASSUME IInv, Run, phase' = "running", OneTarget
    PROVE  OnCourse'
<1>1. /\ phase = "running" /\ ip \in DOMAIN code
      /\ UNCHANGED <<rtn, label_map, is_compiled, code, stack>>
    BY DEF Run
<1>2. OnCourse
    BY <1>1 DEF IInv, RunOK
<1>3. PICK v \in Vips : code[ip].vip = v
    BY <1>1 DEF IInv, TypeOK, Node
<1>4. ASSUME NEW op, NEW w, JumpAt(ip', op, w), op \in {"label", "body", "jmp", "je"}, goal' = w
      PROVE  OnCourse'
    BY <1>1, <1>4 DEF OnCourse, JumpAt
<1>5. CASE code[ip].op = "label"
    <2>1. goal = v /\ goal' = goal /\ ip' = ip + 1
        BY <1>1, <1>2, <1>3, <1>5 DEF Run, OnCourse
    <2>2. JumpAt(ip + 1, "body", v)
        BY <1>1, <1>3, <1>5 DEF IInv, CodeOK
    <2> QED BY <1>4, <2>1, <2>2
<1>6. CASE code[ip].op = "body"
    <2> DEFINE blk == rtn[v]
    <2>1. /\ ip' = ip + 1
          /\ goal' \in IF blk.next = <<>> THEN {Exit} ELSE {blk.next[i] : i \in DOMAIN blk.next}
        BY <1>1, <1>3, <1>6 DEF Run
    <2>2. blk.next \in Seq(Vips) /\ Len(blk.next) \in Successors[blk.ins]
        BY <1>3, BlockFacts DEF IInv, TypeOK
    <2>3. Followed(ip)
        BY <1>1, <1>6 DEF IInv, CodeOK, AtBranch
    <2>4. CASE blk.ins = "js" /\ JumpAt(ip + 1, "jnz", blk.next[1]) /\ JumpAt(ip + 2, "jmp", blk.next[2])
        <3>1. Len(blk.next) = 2
            BY <2>2, <2>4, SuccessorsFacts
        <3>2. PICK one \in Vips, two \in Vips : blk.next[1] = one /\ blk.next[2] = two
            BY <2>2, <3>1
        <3>3. goal' \in {one, two}
            BY <2>1, <2>2, <3>1, <3>2
        <3>4. (ip + 1) + 1 = ip + 2
            BY <1>1 DEF IInv, TypeOK
        <3>5. /\ ip' \in DOMAIN code' /\ code'[ip'].op = "jnz" /\ code'[ip'].vip = one
              /\ JumpAt(ip + 1, "jmp", two)'
            BY <1>1, <2>1, <2>4, <3>2, <3>4 DEF JumpAt
        <3> QED BY <3>2, <3>3, <3>5 DEF OnCourse
    <2>5. ASSUME NEW op \in {"jmp", "je"}, JumpAt(ip + 1, op, blk.next[1]), Len(blk.next) = 1
          PROVE  OnCourse'
        <3>1. goal' = blk.next[1]
            BY <2>1, <2>2, <2>5
        <3> QED BY <1>4, <2>1, <2>5, <3>1
    <2>6. blk.ins \in {"jmp_imm", "vxcall", "jmp_reg"} => Len(blk.next) = 1
        <3>1. blk.ins \in {"jmp_imm", "vxcall"} => Len(blk.next) \in {1}
            BY <2>2, SuccessorsFacts
        <3> QED BY <1>3, <3>1 DEF OneTarget
    <2>7. CASE blk.ins = "vexit" /\ JumpAt(ip + 1, "ret", v)
        <3>1. Len(blk.next) \in {0}
            BY <2>2, <2>7, SuccessorsFacts
        <3>2. goal' = Exit
            BY <2>1, <2>2, <3>1
        <3> QED BY <1>1, <2>1, <2>7, <3>2 DEF OnCourse, JumpAt
    <2> QED BY <1>3, <2>3, <2>4, <2>5, <2>6, <2>7 DEF Followed
<1>7. CASE code[ip].op \in JumpOps /\ Taken(code[ip])
    <2>1. ip' = Target(code[ip]) /\ goal' = goal
        BY <1>1, <1>7 DEF Run, JumpOps
    <2>2. JumpAt(ip', "label", v)
        BY <1>1, <1>3, <1>7, <2>1, TargetFacts DEF JumpAt
    <2>3. goal = v
        BY <1>2, <1>3, <1>7 DEF OnCourse, Taken
    <2> QED BY <1>4, <2>1, <2>2, <2>3
<1>8. CASE code[ip].op \in JumpOps /\ ~Taken(code[ip])
    <2>1. ip' = ip + 1 /\ goal' = goal
        BY <1>1, <1>8 DEF Run, JumpOps
    <2>2. code[ip].op = "jnz" /\ goal # v
        BY <1>2, <1>3, <1>8 DEF OnCourse, Taken, JumpOps
    <2>3. PICK two \in Vips : JumpAt(ip + 1, "jmp", two) /\ goal \in {v, two}
        BY <1>2, <1>3, <2>2 DEF OnCourse
    <2> QED BY <1>4, <2>1, <2>2, <2>3
<1> QED BY <1>1, <1>5, <1>6, <1>7, <1>8 DEF Run, JumpOps

LEMMA RunStep == IInv /\ Run => IInv'
<1> SUFFICES ASSUME IInv, Run PROVE IInv'
    OBVIOUS
<1>1. /\ phase = "running" /\ ip \in DOMAIN code /\ phase' \in {"running", "returned"}
      /\ UNCHANGED <<rtn, label_map, is_compiled, code, stack>>
    BY DEF Run
<1>2. ip' \in Nat /\ goal' \in Vips \cup {Exit}
    <2>1. ip \in Nat /\ goal \in Vips \cup {Exit}
        BY DEF IInv, TypeOK
    <2>2. code[ip].op \in JumpOps => Target(code[ip]) \in Nat
        BY <1>1, TargetFacts DEF IInv, TypeOK
    <2>3. ip' \in Nat
        BY <2>1, <2>2 DEF Run, JumpOps, machine
    <2>4. code[ip].op = "body" => rtn[code[ip].vip].next \in Seq(Vips)
        <3>1. code[ip].vip \in Vips
            BY <1>1 DEF IInv, TypeOK, Node
        <3> QED BY <3>1, BlockFacts DEF IInv, TypeOK
    <2>5. goal' \in Vips \cup {Exit}
        BY <2>1, <2>4 DEF Run, machine
    <2> QED BY <2>3, <2>5
<1>3. TypeOK'
    BY <1>1, <1>2 DEF IInv, TypeOK
<1>4. StackOK' /\ Pending'
    BY <1>1 DEF IInv, StackOK, Pending
<1>5. CodeOK'
    <2>1. code # <<>>
        BY <1>1 DEF IInv, CodeOK
    <2> QED BY <1>1, <2>1, SameCode DEF IInv
<1>6. RunOK'
    <2> SUFFICES ASSUME phase' = "running" PROVE RunOK'
        BY DEF RunOK
    <2>1. \A i \in Jumps' : Bound(code[i].label)' # {}
        BY <1>1 DEF IInv, RunOK, Jumps, Bound
    <2>2. OneTarget' => OnCourse'
        BY <1>1, RunsOn DEF OneTarget
    <2> QED BY <2>1, <2>2 DEF RunOK
<1> QED BY <1>3, <1>4, <1>5, <1>6 DEF IInv

LEMMA StutterStep == IInv /\ UNCHANGED vars => IInv'
<1> SUFFICES ASSUME IInv, UNCHANGED vars PROVE IInv'
    OBVIOUS
<1>1. TypeOK' /\ StackOK'
    BY DEF IInv, TypeOK, StackOK, vars, machine
<1>2. CodeOK'
    <2>1. CodeOK /\ UNCHANGED <<rtn, label_map, is_compiled, code, stack, phase>>
        BY DEF IInv, vars
    <2>2. \A i, op, v : JumpAt(i, op, v)' = JumpAt(i, op, v)
        BY <2>1 DEF JumpAt
    <2>3. \A i : Followed(i)' = Followed(i) /\ AtBranch(i)' = AtBranch(i)
        BY <2>1, <2>2 DEF Followed, AtBranch, Top
    <2>4. LabelNodes' = LabelNodes /\ Top' = Top
        BY <2>1 DEF LabelNodes, Top
    <2> QED BY <2>1, <2>2, <2>3, <2>4 DEF CodeOK
<1>3. Pending'
    BY DEF IInv, Pending, AheadIn, vars, machine
<1>4. RunOK'
    BY DEF IInv, RunOK, Jumps, Bound, OneTarget, OnCourse, JumpAt, vars, machine
<1> QED BY <1>1, <1>2, <1>3, <1>4 DEF IInv

\* The inductive invariant: the calls on the stack (StackOK), what has been
\* emitted (CodeOK), what has been promised (Pending), and where the code and
\* the routine are when it runs (RunOK).
THEOREM Inductive == Spec => []IInv
<1>1. IInv /\ [Next]_vars => IInv'
    BY StutterStep, BeginStep, EnterStep, UnrecognizedStep, JsStep, JmpOrCallStep,
       JmpRegisterStep, VexitStep, SuccessorStep, ReturnStep, FinalizeStep, RunStep DEF Next
<1> QED BY <1>1, InitLemma, PTL DEF Spec

\* Type correctness; above all, get_label hands out each label once.
THEOREM TypeTheorem == Spec => []TypeOK
<1>1. IInv => TypeOK
    BY DEF IInv
<1> QED BY <1>1, Inductive, PTL

\* However blocks loop and join, each has its code once and is never compiled
\* again while an active call is compiling it (:362, :390, :654).
THEOREM CompiledOnceTheorem == Spec => []CompiledOnce
<1>1. IInv => CompiledOnce
    <2> SUFFICES ASSUME IInv PROVE CompiledOnce
        OBVIOUS
    <2>1. ASSUME NEW i \in LabelNodes, NEW j \in LabelNodes, code[i].label = code[j].label
          PROVE  i = j
        <3>1. /\ code[i].vip \in DOMAIN label_map /\ code[i].label = label_map[code[i].vip]
              /\ code[j].vip \in DOMAIN label_map /\ code[j].label = label_map[code[j].vip]
            BY DEF IInv, CodeOK, LabelNodes
        <3>2. code[i].vip = code[j].vip
            BY <2>1, <3>1 DEF IInv, TypeOK
        <3> QED BY <3>2 DEF IInv, CodeOK
    <2> QED BY <2>1 DEF CompiledOnce, IInv, StackOK
<1> QED BY <1>1, Inductive, PTL

\* A label that a jump names before its block has code is the business of some
\* active call: the recursion cannot forget a block (:354-366, :384-396).
THEOREM PendingTheorem == Spec => []PendingIsAhead
<1>1. IInv => PendingIsAhead
    BY DEF IInv, Pending, AheadIn, PendingIsAhead
<1> QED BY <1>1, Inductive, PTL

\* For every routine whose register jumps have one destination each, of any
\* number of blocks, the compiled code goes where the routine goes (:348-409).
THEOREM RunsTheorem == Spec => []RunsTheRoutine
<1>1. IInv => RunsTheRoutine
    BY DEF IInv, RunOK, OnCourse, RunsTheRoutine, Accurate
<1> QED BY <1>1, Inductive, PTL
-----------------------------------------------------------------------------
\* The refinement of CfgCopy.  How many successors a call has passed, by its
\* frame, and which edges of the routine that makes.
ByFrame(frame) ==
    CASE frame.pc = "next" -> frame.n - 1
      [] frame.pc = "je" -> frame.n
      [] OTHER -> 0
PassedIn(calls, blks, v) ==
    IF v \notin {calls[i].vip : i \in DOMAIN calls} THEN Len(blks[v].next)
    ELSE ByFrame(calls[CHOOSE i \in DOMAIN calls : calls[i].vip = v])
Apart(calls) == \A i, j \in DOMAIN calls : calls[i].vip = calls[j].vip => i = j

\* No loop over the successors goes past the last one.
LoopOK ==
    \A i \in DOMAIN stack :
        /\ stack[i].pc = "next" => stack[i].n \in 1..(Len(rtn[stack[i].vip].next) + 1)
        /\ stack[i].pc = "je" => stack[i].n \in 1..Len(rtn[stack[i].vip].next)

Graph == [v \in Vips |-> {rtn[v].next[i] : i \in DOMAIN rtn[v].next}]
Nodes == is_compiled \cup Active
Edges == UNION {{<<v, rtn[v].next[i]>> : i \in 1..Passed(v)} : v \in is_compiled}
Phase ==
    CASE phase = "ready" -> "idle"
      [] phase = "compiling" -> "copying"
      [] phase = "exited" -> "abandoned"
      [] OTHER -> "complete"

LEMMA PassedFacts ==
    ASSUME NEW v
    PROVE  Passed(v) = PassedIn(stack, rtn, v) /\ Passed(v)' = PassedIn(stack', rtn', v)
BY DEF Passed, PassedIn, ByFrame, Active

LEMMA PassedByFrame ==
    ASSUME NEW calls, Apart(calls), NEW i \in DOMAIN calls, NEW blks
    PROVE  PassedIn(calls, blks, calls[i].vip) = ByFrame(calls[i])
<1>1. (CHOOSE j \in DOMAIN calls : calls[j].vip = calls[i].vip) = i
    BY DEF Apart
<1> QED BY <1>1 DEF PassedIn

LEMMA PhaseFacts ==
    /\ phase = "ready" => Phase = "idle"
    /\ phase = "compiling" => Phase = "copying"
    /\ phase = "exited" => Phase = "abandoned"
    /\ phase \in {"compiled", "refused", "running", "returned"} => Phase = "complete"
BY DEF Phase

\* The steps of the instance, in these terms.
LEMMA StepOfCopy ==
    ASSUME UNCHANGED rtn,
           \/ \E root \in Vips :
                 Phase = "idle" /\ Phase' = "copying" /\ Nodes' = {root} /\ Edges' = Edges
           \/ \E from \in Nodes \cap Vips : \E to \in Graph[from] :
                 /\ Phase = "copying" /\ Phase' = "copying"
                 /\ Nodes' = Nodes \cup {to} /\ Edges' = Edges \cup {<<from, to>>}
           \/ /\ Phase = "copying" /\ Phase' = "complete"
              /\ \A from \in Nodes :
                   from \in Vips /\ \A to \in Graph[from] : <<from, to>> \in Edges
              /\ Nodes' = Nodes /\ Edges' = Edges
           \/ Phase = "copying" /\ Phase' = "abandoned" /\ Nodes' = Nodes /\ Edges' = Edges
           \/ Nodes' = Nodes /\ Edges' = Edges /\ Phase' = Phase
    PROVE  [Copy!Next]_(Copy!vars)
<1>1. Graph' = Graph /\ DOMAIN Graph = Vips
    BY DEF Graph
<1>2. ASSUME NEW root \in Vips, Phase = "idle", Phase' = "copying",
             Nodes' = {root}, Edges' = Edges
      PROVE  Copy!Begin(root)
    BY <1>1, <1>2 DEF Graph, Phase, Nodes, Edges, Copy!Begin
<1>3. ASSUME NEW from \in Nodes \cap Vips, NEW to \in Graph[from],
             Phase = "copying", Nodes' = Nodes \cup {to}, Edges' = Edges \cup {<<from, to>>}
      PROVE  Copy!Follow(from, to)
    BY <1>1, <1>3 DEF Graph, Phase, Nodes, Edges, Copy!Follow
<1>4. ASSUME Phase = "copying", Phase' = "complete", Nodes' = Nodes, Edges' = Edges,
             \A from \in Nodes : from \in Vips /\ \A to \in Graph[from] : <<from, to>> \in Edges
      PROVE  Copy!Finish
    BY <1>1, <1>4 DEF Graph, Phase, Nodes, Edges, Copy!Finish
<1>5. ASSUME Phase = "copying", Phase' = "abandoned", Nodes' = Nodes, Edges' = Edges
      PROVE  Copy!Abandon
    BY <1>1, <1>5 DEF Graph, Phase, Nodes, Edges, Copy!Abandon
<1>6. ASSUME Nodes' = Nodes, Edges' = Edges, Phase' = Phase
      PROVE  UNCHANGED Copy!vars
    BY <1>1, <1>6 DEF Graph, Phase, Nodes, Edges, Copy!vars
<1>7. ASSUME NEW root \in Vips, Copy!Begin(root)
      PROVE  Copy!Next
    BY <1>1, <1>7 DEF Graph, Copy!Next
<1>8. ASSUME NEW from \in Nodes \cap Vips, NEW to \in Graph[from],
             Copy!Follow(from, to), Phase' = "copying"
      PROVE  Copy!Next
    BY <1>1, <1>8 DEF Graph, Phase, Nodes, Copy!Next
<1>9. Copy!Finish \/ Copy!Abandon => Copy!Next
    BY DEF Copy!Next
<1>10. Copy!Next => [Copy!Next]_(Copy!vars)
    OBVIOUS
<1> QED BY <1>2, <1>3, <1>4, <1>5, <1>6, <1>7, <1>8, <1>9, <1>10

\* What stays the same but for the call on top.
LEMMA CallFacts ==
    ASSUME IInv, phase = "compiling"
    PROVE  /\ stack # <<>> /\ TypeOK /\ Apart(stack) /\ Len(stack) \in DOMAIN stack
           /\ Top = stack[Len(stack)] /\ Top \in Frame /\ Top.vip \in Vips /\ Top.n \in Nat
           /\ rtn[Top.vip].next \in Seq(Vips) /\ Len(rtn[Top.vip].next) \in Nat
           /\ DOMAIN rtn[Top.vip].next = 1..Len(rtn[Top.vip].next)
           /\ Active \subseteq Vips /\ is_compiled \subseteq Vips
<1>1. stack # <<>> /\ TypeOK /\ Apart(stack)
    BY DEF IInv, StackOK, Apart
<1>2. rtn[Top.vip].next \in Seq(Vips)
    BY <1>1, TopFacts, BlockFacts DEF TopBlk
<1>3. Active \subseteq Vips /\ is_compiled \subseteq Vips
    <2>1. \A i \in DOMAIN stack : stack[i] \in Frame
        BY <1>1 DEF TypeOK
    <2>2. \A i \in DOMAIN stack : stack[i].vip \in Vips
        BY <2>1 DEF Frame
    <2> QED BY <1>1, <2>2 DEF TypeOK, Active
<1> QED BY <1>1, <1>2, <1>3, TopFacts

LEMMA EdgesStay ==
    ASSUME UNCHANGED rtn, NEW more, is_compiled' = is_compiled \cup more,
           \A v \in is_compiled : Passed(v)' = Passed(v),
           \A v \in more \ is_compiled : Passed(v)' = 0
    PROVE  Edges' = Edges
<1>1. \A v \in is_compiled :
         {<<v, rtn[v].next[i]>> : i \in 1..Passed(v)'} = {<<v, rtn[v].next[i]>> : i \in 1..Passed(v)}
    OBVIOUS
<1>2. \A v \in more \ is_compiled : {<<v, rtn[v].next[i]>> : i \in 1..Passed(v)'} = {}
    OBVIOUS
<1>3. Edges' = UNION {{<<v, rtn[v].next[i]>> : i \in 1..Passed(v)'} : v \in is_compiled \cup more}
    BY DEF Edges
<1> QED BY <1>1, <1>2, <1>3 DEF Edges

LEMMA TopMoves ==
    ASSUME IInv, phase = "compiling", UNCHANGED rtn,
           NEW to \in {"entry", "branch", "next", "je"}, NEW k \in Nat, stack' = Advance(to, k)
    PROVE  /\ Active' = Active
           /\ \A v : v # Top.vip => Passed(v)' = Passed(v)
           /\ Passed(Top.vip) = ByFrame(Top)
           /\ PassedIn(stack', rtn', Top.vip) = ByFrame([vip |-> Top.vip, pc |-> to, n |-> k])
           /\ LoopOK /\ (to = "next" => k \in 1..(Len(rtn[Top.vip].next) + 1))
              /\ (to = "je" => k \in 1..Len(rtn[Top.vip].next)) => LoopOK'
<1> DEFINE top == Len(stack)
           new == [vip |-> Top.vip, pc |-> to, n |-> k]
<1>1. /\ stack # <<>> /\ TypeOK /\ Apart(stack) /\ top \in DOMAIN stack
      /\ Top = stack[top] /\ Top \in Frame
    BY CallFacts
<1>2. /\ DOMAIN stack' = DOMAIN stack
      /\ \A i \in DOMAIN stack : i # top => stack'[i] = stack[i]
      /\ stack'[top] = new
    BY <1>1, AdvanceFacts
<1>3. new.vip = Top.vip /\ new.pc = to /\ new.n = k
    OBVIOUS
<1> HIDE DEF top, new
<1>4. \A i \in DOMAIN stack : stack'[i].vip = stack[i].vip
    BY <1>1, <1>2, <1>3
<1>5. Active' = Active
    BY <1>2, <1>4 DEF Active
<1>6. Apart(stack')
    BY <1>1, <1>2, <1>4 DEF Apart
<1>7. ASSUME NEW v, v # Top.vip
      PROVE  Passed(v)' = Passed(v)
    <2>1. CASE v \notin Active
        BY <1>5, <2>1, PassedFacts DEF PassedIn, Active
    <2>2. CASE v \in Active
        <3>1. PICK i \in DOMAIN stack : stack[i].vip = v /\ i # top
            BY <1>1, <1>7, <2>2 DEF Active
        <3>2. PassedIn(stack, rtn, v) = ByFrame(stack[i])
            BY <1>1, <3>1, PassedByFrame
        <3>3. PassedIn(stack', rtn', v) = ByFrame(stack'[i])
            BY <1>2, <1>4, <1>6, <3>1, PassedByFrame
        <3>4. stack'[i] = stack[i]
            BY <1>2, <3>1
        <3> QED BY <3>2, <3>3, <3>4, PassedFacts
    <2> QED BY <2>1, <2>2
<1>8. PassedIn(stack, rtn, Top.vip) = ByFrame(Top)
    BY <1>1, PassedByFrame
<1>9. PassedIn(stack', rtn', Top.vip) = ByFrame(new)
    BY <1>1, <1>2, <1>3, <1>6, PassedByFrame
<1>10. Passed(Top.vip) = ByFrame(Top)
    BY <1>8 DEF Passed, PassedIn, ByFrame, Active
<1>11. /\ LoopOK /\ (to = "next" => k \in 1..(Len(rtn[Top.vip].next) + 1))
          /\ (to = "je" => k \in 1..Len(rtn[Top.vip].next)) => LoopOK'
    BY <1>1, <1>2, <1>3 DEF LoopOK
<1> QED BY <1>5, <1>7, <1>9, <1>10, <1>11 DEF new

LEMMA FrameCount ==
    ASSUME NEW f
    PROVE  /\ f.pc = "next" => ByFrame(f) = f.n - 1
           /\ f.pc = "je" => ByFrame(f) = f.n
           /\ f.pc \in {"entry", "branch"} => ByFrame(f) = 0
BY DEF ByFrame

\* A jump is emitted: nothing has been passed by it.
LEMMA JumpRefines ==
    ASSUME IInv, LoopOK, phase = "compiling", UNCHANGED <<rtn, is_compiled, phase>>,
           NEW k \in Nat, stack' = Advance("next", k),
           \/ Top.pc = "branch" /\ k = 1
           \/ Top.pc = "je" /\ k = Top.n + 1
    PROVE  LoopOK' /\ [Copy!Next]_(Copy!vars)
<1>1. /\ Top.n \in Nat /\ Len(rtn[Top.vip].next) \in Nat
      /\ Len(stack) \in DOMAIN stack /\ Top = stack[Len(stack)]
    BY CallFacts
<1>2. k \in 1..(Len(rtn[Top.vip].next) + 1)
    BY <1>1 DEF LoopOK
<1>3. /\ Active' = Active /\ LoopOK'
      /\ \A v : v # Top.vip => Passed(v)' = Passed(v)
      /\ Passed(Top.vip) = ByFrame(Top)
      /\ PassedIn(stack', rtn', Top.vip) = ByFrame([vip |-> Top.vip, pc |-> "next", n |-> k])
    BY <1>2, TopMoves
<1>4. PICK v : v = Top.vip
    OBVIOUS
<1>5. Passed(v)' = Passed(v)
    <2>1. ByFrame([vip |-> Top.vip, pc |-> "next", n |-> k]) = k - 1
        BY FrameCount
    <2>2. ByFrame(Top) = k - 1
        BY <1>1, FrameCount
    <2> QED BY <1>3, <1>4, <2>1, <2>2, PassedFacts
<1>6. \A w : Passed(w)' = Passed(w)
    BY <1>3, <1>4, <1>5
<1>7. Edges' = Edges
    BY <1>6, EdgesStay
<1>8. Nodes' = Nodes /\ Phase' = Phase
    BY <1>3 DEF Nodes, Phase
<1> QED BY <1>3, <1>7, <1>8, StepOfCopy

LEMMA BeginRefines ==
    ASSUME IInv, LoopOK, Begin PROVE LoopOK' /\ [Copy!Next]_(Copy!vars)
<1>1. /\ phase = "ready" /\ phase' = "compiling" /\ UNCHANGED <<rtn, is_compiled>>
      /\ stack' = <<Call(EntryVip)>> /\ stack = <<>> /\ is_compiled = {}
    BY DEF Begin, IInv, StackOK
<1>2. DOMAIN stack' = {1} /\ stack'[1] = Call(EntryVip)
    BY <1>1
<1>3. LoopOK'
    BY <1>2 DEF LoopOK, Call
<1>4. Nodes = {} /\ Nodes' = {EntryVip}
    <2>1. Active' = {EntryVip} /\ Active = {}
        BY <1>1, <1>2 DEF Active, Call
    <2> QED BY <1>1, <2>1 DEF Nodes
<1>5. Edges' = Edges
    BY <1>1, EdgesStay
<1>6. Phase = "idle" /\ Phase' = "copying"
    BY <1>1 DEF Phase
<1> QED BY <1>1, <1>3, <1>4, <1>5, <1>6, StepOfCopy, CompileAssumption

LEMMA EnterRefines ==
    ASSUME IInv, LoopOK, Enter PROVE LoopOK' /\ [Copy!Next]_(Copy!vars)
<1>1. /\ phase = "compiling" /\ UNCHANGED <<rtn, phase>> /\ Top.pc = "entry"
      /\ is_compiled' = is_compiled \cup {Top.vip} /\ stack' = Advance("branch", 0)
    BY DEF Enter, Recorded
<1>2. /\ Len(stack) \in DOMAIN stack /\ Top = stack[Len(stack)]
    BY <1>1, CallFacts
<1>3. PICK v : v = Top.vip
    OBVIOUS
<1>4. /\ Active' = Active /\ LoopOK'
      /\ \A w : w # v => Passed(w)' = Passed(w)
      /\ PassedIn(stack', rtn', v) = ByFrame([vip |-> Top.vip, pc |-> "branch", n |-> 0])
    BY <1>1, <1>3, TopMoves
<1>5. Passed(v)' = 0
    BY <1>4, PassedFacts, FrameCount
<1>6. v \notin is_compiled /\ v \in Active
    BY <1>1, <1>2, <1>3 DEF IInv, StackOK, Active
<1>7. Edges' = Edges
    BY <1>1, <1>3, <1>4, <1>5, <1>6, EdgesStay
<1>8. Nodes' = Nodes /\ Phase' = Phase
    BY <1>1, <1>3, <1>4, <1>6 DEF Nodes, Phase
<1> QED BY <1>1, <1>4, <1>7, <1>8, StepOfCopy

\* The loop of a branch handler passes a successor, which is an edge.
LEMMA SuccessorRefines ==
    ASSUME IInv, LoopOK, Successor PROVE LoopOK' /\ [Copy!Next]_(Copy!vars)
<1>1. /\ phase = "compiling" /\ UNCHANGED <<rtn, is_compiled, phase>> /\ Top.pc = "next"
      /\ Top.n <= Len(TopBlk.next)
    BY DEF Successor
<1>2. /\ stack # <<>> /\ TypeOK /\ Len(stack) \in DOMAIN stack /\ Top = stack[Len(stack)]
      /\ Top \in Frame /\ Top.vip \in Vips /\ Top.n \in Nat /\ Len(rtn[Top.vip].next) \in Nat
      /\ DOMAIN rtn[Top.vip].next = 1..Len(rtn[Top.vip].next) /\ rtn[Top.vip].next \in Seq(Vips)
    BY <1>1, CallFacts
<1>3. PICK v, n, dest : v = Top.vip /\ n = Top.n /\ dest = rtn[v].next[n]
    OBVIOUS
<1>4. /\ n \in 1..Len(rtn[v].next) /\ n \in Nat /\ v \in is_compiled /\ v \in Vips
      /\ Active \subseteq is_compiled /\ dest \in Graph[v]
    <2>1. n >= 1 /\ v \in is_compiled
        BY <1>1, <1>2, <1>3 DEF IInv, StackOK
    <2>2. \A i \in DOMAIN stack : stack[i].vip \in is_compiled
        BY <1>1, <1>2 DEF IInv, StackOK
    <2>3. n \in 1..Len(rtn[v].next) /\ DOMAIN rtn[v].next = 1..Len(rtn[v].next)
        BY <1>1, <1>2, <1>3, <2>1 DEF TopBlk
    <2>4. dest \in Graph[v]
        BY <1>2, <1>3, <2>3 DEF Graph
    <2>5. Active \subseteq is_compiled
        BY <2>2 DEF Active
    <2> QED BY <1>2, <1>3, <2>1, <2>3, <2>4, <2>5
    \* The frame of the handler, before the call of the successor if there is one.
<1>5. PICK to \in {"next", "je"}, k \in Nat :
        /\ Resumed = Advance(to, k)
        /\ to = "next" => k = n + 1
        /\ to = "je" => k = n
    BY <1>2, <1>3 DEF Resumed
<1>6. PICK f : f = [vip |-> Top.vip, pc |-> to, n |-> k]
    OBVIOUS
<1>7. /\ Resumed \in Seq(Frame) /\ Len(Resumed) = Len(stack) /\ DOMAIN Resumed = DOMAIN stack
      /\ \A i \in DOMAIN stack : i # Len(stack) => Resumed[i] = stack[i]
      /\ Resumed[Len(stack)] = f /\ f.vip = v /\ f.pc = to /\ f.n = k
      /\ ByFrame(f) = n
    <2>1. ByFrame(f) = n
        BY <1>4, <1>5, <1>6, FrameCount
    <2> QED BY <1>2, <1>3, <1>5, <1>6, <2>1, AdvanceFacts
<1>8. \A i \in DOMAIN stack :
         /\ Resumed[i].vip = stack[i].vip
         /\ Resumed[i].pc = "next" => Resumed[i].n \in 1..(Len(rtn[Resumed[i].vip].next) + 1)
         /\ Resumed[i].pc = "je" => Resumed[i].n \in 1..Len(rtn[Resumed[i].vip].next)
    <2> SUFFICES ASSUME NEW i \in DOMAIN stack
                 PROVE  /\ Resumed[i].vip = stack[i].vip
                        /\ Resumed[i].pc = "next" =>
                             Resumed[i].n \in 1..(Len(rtn[stack[i].vip].next) + 1)
                        /\ Resumed[i].pc = "je" =>
                             Resumed[i].n \in 1..Len(rtn[stack[i].vip].next)
        OBVIOUS
    <2>1. CASE i = Len(stack)
        BY <1>2, <1>3, <1>4, <1>5, <1>7, <2>1
    <2>2. CASE i # Len(stack)
        BY <1>7, <2>2 DEF LoopOK
    <2> QED BY <2>1, <2>2
<1>9. PICK top : top = Len(stack) /\ top \in Nat /\ DOMAIN stack = 1..top /\ top >= 1
    BY <1>2 DEF TypeOK
<1>10. \/ stack' = Resumed /\ dest \in is_compiled
       \/ stack' = Append(Resumed, Call(dest)) /\ dest \notin is_compiled
    BY <1>3 DEF Successor, NeedsCode, TopBlk
<1>11. /\ \A i \in 1..top : stack'[i] = Resumed[i]
       /\ \/ DOMAIN stack' = 1..top /\ dest \in is_compiled
          \/ /\ DOMAIN stack' = 1..(top + 1) /\ dest \notin is_compiled
             /\ stack'[top + 1] = Call(dest)
    BY <1>7, <1>9, <1>10
<1>12. Call(dest).vip = dest /\ Call(dest).pc = "entry"
    BY DEF Call
<1>13. LoopOK'
    <2> SUFFICES ASSUME NEW i \in DOMAIN stack', i \notin 1..top
                 PROVE  stack'[i].pc = "entry"
        BY <1>1, <1>8, <1>9, <1>11 DEF LoopOK
    <2> QED BY <1>9, <1>11, <1>12
<1>14. Apart(stack')
    BY SuccessorStep DEF IInv, StackOK, Apart
<1>15. Active' = IF dest \in is_compiled THEN Active ELSE Active \cup {dest}
    <2>1. Active = {stack'[i].vip : i \in 1..top}
        BY <1>8, <1>9, <1>11 DEF Active
    <2>2. CASE dest \in is_compiled
        BY <1>11, <2>1, <2>2 DEF Active
    <2>3. CASE dest \notin is_compiled
        <3>1. 1..(top + 1) = 1..top \cup {top + 1}
            BY <1>9
        <3>2. Active' = {stack'[i].vip : i \in 1..top} \cup {stack'[top + 1].vip}
            BY <1>11, <2>3, <3>1 DEF Active
        <3> QED BY <1>11, <1>12, <2>1, <2>3, <3>2
    <2> QED BY <2>2, <2>3
<1>16. ASSUME NEW i \in 1..top
       PROVE  /\ PassedIn(stack, rtn, stack[i].vip) = ByFrame(stack[i])
              /\ PassedIn(stack', rtn', stack[i].vip) = ByFrame(Resumed[i])
    <2>1. i \in DOMAIN stack /\ i \in DOMAIN stack' /\ stack'[i] = Resumed[i]
          /\ stack'[i].vip = stack[i].vip
        BY <1>8, <1>9, <1>11
    <2>2. Apart(stack)
        BY DEF IInv, StackOK, Apart
    <2> QED BY <2>1, <2>2, <1>14, PassedByFrame
<1>17. Passed(v) = n - 1 /\ Passed(v)' = n
    <2>1. stack[top].vip = v /\ top \in 1..top
        BY <1>2, <1>3, <1>9
    <2>2. PassedIn(stack, rtn, v) = ByFrame(Top) /\ PassedIn(stack', rtn', v) = ByFrame(f)
        BY <1>2, <1>7, <1>9, <1>16, <2>1
    <2> QED BY <1>1, <1>3, <1>7, <2>2, FrameCount, PassedFacts
<1>18. ASSUME NEW w \in is_compiled, w # v
       PROVE  Passed(w)' = Passed(w)
    <2>1. CASE w \in Active
        <3>1. PICK i \in 1..top : stack[i].vip = w /\ i # top
            BY <1>2, <1>3, <1>9, <1>18, <2>1 DEF Active
        <3>2. Resumed[i] = stack[i]
            BY <1>7, <1>9, <3>1
        <3> QED BY <1>16, <3>1, <3>2, PassedFacts
    <2>2. CASE w \notin Active
        <3>1. w \notin Active'
            BY <1>15, <1>18, <2>2
        <3> QED BY <1>1, <2>2, <3>1, PassedFacts DEF PassedIn, Active
    <2> QED BY <2>1, <2>2
<1>19. Edges' = Edges \cup {<<v, dest>>}
    <2> DEFINE new(w) == {<<w, rtn[w].next[i]>> : i \in 1..Passed(w)'}
               old(w) == {<<w, rtn[w].next[i]>> : i \in 1..Passed(w)}
    <2>1. 1..n = 1..(n - 1) \cup {n}
        BY <1>4
    <2>2. new(v) = old(v) \cup {<<v, dest>>}
        BY <1>3, <1>17, <2>1
    <2>3. \A w \in is_compiled : w # v => new(w) = old(w)
        BY <1>18
    <2>4. Edges' = UNION {new(w) : w \in is_compiled} /\ Edges = UNION {old(w) : w \in is_compiled}
        BY <1>1 DEF Edges
    <2> HIDE DEF new, old
    <2> QED BY <1>4, <2>2, <2>3, <2>4
<1>20. Nodes' = Nodes \cup {dest} /\ v \in Nodes
    BY <1>1, <1>4, <1>15 DEF Nodes
<1>21. Phase = "copying" /\ Phase' = "copying"
    BY <1>1 DEF Phase
<1> QED BY <1>1, <1>4, <1>13, <1>19, <1>20, <1>21, StepOfCopy

\* A call returns when it has passed all successors; when the outermost one
\* does, that holds for every block that has code.
LEMMA ReturnRefines ==
    ASSUME IInv, LoopOK, Return PROVE LoopOK' /\ [Copy!Next]_(Copy!vars)
<1>1. /\ phase = "compiling" /\ UNCHANGED <<rtn, is_compiled>>
      /\ \/ Top.pc = "next" /\ Top.n > Len(rtn[Top.vip].next)
         \/ Top.pc = "je" /\ Top.n = Len(rtn[Top.vip].next)
      /\ stack' = SubSeq(stack, 1, Len(stack) - 1)
      /\ phase' = IF Len(stack) = 1 THEN "compiled" ELSE "compiling"
    BY DEF Return, TopBlk
<1>2. /\ stack # <<>> /\ TypeOK /\ Apart(stack) /\ Len(stack) \in DOMAIN stack
      /\ Top = stack[Len(stack)] /\ Top.vip \in Vips /\ Top.n \in Nat
      /\ Len(rtn[Top.vip].next) \in Nat
      /\ Active \subseteq Vips /\ is_compiled \subseteq Vips
    BY <1>1, CallFacts
<1>3. PICK v, top : v = Top.vip /\ top = Len(stack) /\ top \in Nat \ {0} /\ DOMAIN stack = 1..top
    BY <1>2 DEF TypeOK
<1>4. DOMAIN stack' = 1..(top - 1) /\ \A i \in 1..(top - 1) : stack'[i] = stack[i]
    <2>1. stack \in Seq(Frame)
        BY <1>2 DEF TypeOK
    <2>2. \A i \in 1..(top - 1) : stack[i] \in Frame
        BY <1>3, <2>1
    <2>3. 1 \in Int /\ top - 1 \in Int /\ top - 1 - 1 + 1 = top - 1
        BY <1>3
    <2>4. stack' = SubSeq(stack, 1, top - 1)
        BY <1>1, <1>3
    <2>5. /\ stack' \in Seq(Frame)
          /\ Len(stack') = IF 1 <= top - 1 THEN top - 1 - 1 + 1 ELSE 0
          /\ \A i \in 1..(top - 1 - 1 + 1) : stack'[i] = stack[1 + i - 1]
        BY <2>2, <2>3, <2>4, SubSeqProperties
    <2> QED BY <1>3, <2>3, <2>5
<1>5. LoopOK'
    <2>1. 1..(top - 1) \subseteq 1..top
        BY <1>3
    <2> QED BY <1>1, <1>3, <1>4, <2>1 DEF LoopOK
<1>6. v \in is_compiled /\ \A i \in 1..top : stack[i].vip \in is_compiled
    BY <1>1, <1>2, <1>3 DEF IInv, StackOK
<1>7. Active \subseteq is_compiled /\ Active' \subseteq is_compiled /\ v \notin Active'
    <2>1. \A i \in 1..(top - 1) : i \in 1..top /\ i # top
        BY <1>3
    <2>2. \A i \in 1..(top - 1) : stack[i].vip # v
        BY <1>2, <1>3, <2>1 DEF Apart
    <2>3. Active = {stack[i].vip : i \in 1..top}
        BY <1>3 DEF Active
    <2>4. Active' = {stack[i].vip : i \in 1..(top - 1)}
        BY <1>4 DEF Active
    <2> QED BY <1>6, <2>1, <2>2, <2>3, <2>4
<1>8. Passed(v) = Len(rtn[v].next) /\ Passed(v)' = Len(rtn[v].next)
    <2>1. PassedIn(stack, rtn, v) = ByFrame(Top)
        BY <1>2, <1>3, PassedByFrame
    <2>2. ByFrame(Top) = Len(rtn[v].next)
        <3>1. CASE Top.pc = "next" /\ Top.n > Len(rtn[Top.vip].next)
            <4>1. Top.n \in 1..(Len(rtn[Top.vip].next) + 1)
                BY <1>2, <3>1 DEF LoopOK
            <4>2. Top.n - 1 = Len(rtn[Top.vip].next)
                BY <1>2, <3>1, <4>1
            <4> QED BY <1>3, <3>1, <4>2, FrameCount
        <3>2. CASE Top.pc = "je" /\ Top.n = Len(rtn[Top.vip].next)
            BY <1>3, <3>2, FrameCount
        <3> QED BY <1>1, <3>1, <3>2
    <2>3. PassedIn(stack', rtn', v) = Len(rtn[v].next)
        BY <1>1, <1>7 DEF PassedIn, Active
    <2> QED BY <2>1, <2>2, <2>3, PassedFacts
<1>9. ASSUME NEW w, w # v
      PROVE  Passed(w)' = Passed(w)
    <2>1. CASE w \in Active
        <3>1. PICK i \in 1..top : stack[i].vip = w /\ i # top
            BY <1>2, <1>3, <1>9, <2>1 DEF Active
        <3>2. i \in 1..(top - 1) /\ stack'[i] = stack[i]
            BY <1>3, <1>4, <3>1
        <3>3. Apart(stack')
            <4>1. 1..(top - 1) \subseteq 1..top
                BY <1>3
            <4> QED BY <1>2, <1>3, <1>4, <4>1 DEF Apart
        <3>4. PassedIn(stack, rtn, w) = ByFrame(stack[i])
            BY <1>2, <1>3, <3>1, PassedByFrame
        <3>5. PassedIn(stack', rtn', stack'[i].vip) = ByFrame(stack'[i])
            BY <1>4, <3>2, <3>3, PassedByFrame
        <3> QED BY <3>1, <3>2, <3>4, <3>5, PassedFacts
    <2>2. CASE w \notin Active
        <3>1. w \notin Active'
            <4>1. 1..(top - 1) \subseteq 1..top
                BY <1>3
            <4> QED BY <1>3, <1>4, <2>2, <4>1 DEF Active
        <3> QED BY <1>1, <2>2, <3>1, PassedFacts DEF PassedIn, Active
    <2> QED BY <2>1, <2>2
<1>10. \A w : Passed(w)' = Passed(w)
    BY <1>8, <1>9
<1>11. Edges' = Edges /\ Nodes' = Nodes
    BY <1>1, <1>7, <1>10, EdgesStay DEF Nodes
<1>12. Phase = "copying"
    BY <1>1 DEF Phase
<1>13. CASE Len(stack) # 1
    <2>1. Phase' = "copying"
        BY <1>1, <1>13 DEF Phase
    <2> QED BY <1>1, <1>5, <1>11, <1>12, <2>1, StepOfCopy
<1>14. CASE Len(stack) = 1
    <2>1. Phase' = "complete"
        BY <1>1, <1>14 DEF Phase
    <2>2. \A w \in Vips : w \notin Active \/ w = v
        BY <1>2, <1>3, <1>14 DEF Active
    <2>3. \A w \in is_compiled : Passed(w) = Len(rtn[w].next)
        BY <1>2, <1>8, <2>2, PassedFacts DEF PassedIn, Active
    <2>4. ASSUME NEW from \in Nodes
          PROVE  from \in Vips /\ \A to \in Graph[from] : <<from, to>> \in Edges
        <3>1. from \in is_compiled /\ from \in Vips
            BY <1>2, <1>7 DEF Nodes
        <3>2. DOMAIN rtn[from].next = 1..Len(rtn[from].next)
            <4>1. rtn[from] \in Block
                BY <1>2, <3>1 DEF TypeOK
            <4> QED BY <4>1, BlockFacts
        <3>3. {<<from, rtn[from].next[i]>> : i \in 1..Passed(from)} \subseteq Edges
            BY <3>1 DEF Edges
        <3>4. \A i \in DOMAIN rtn[from].next : <<from, rtn[from].next[i]>> \in Edges
            BY <2>3, <3>1, <3>2, <3>3
        <3> QED BY <3>1, <3>4 DEF Graph
    <2> QED BY <1>1, <1>5, <1>11, <1>12, <2>1, <2>4, StepOfCopy
<1> QED BY <1>13, <1>14

\* Nothing of this changes any more, or the compiler ends the program.
LEMMA OthersRefine ==
    ASSUME IInv, LoopOK, Unrecognized \/ Finalize \/ Run \/ UNCHANGED vars
    PROVE  LoopOK' /\ [Copy!Next]_(Copy!vars)
<1>1. UNCHANGED <<rtn, is_compiled, stack>>
    BY DEF Unrecognized, Finalize, Run, vars
<1>2. LoopOK'
    BY <1>1 DEF LoopOK
<1>3. \A v : Passed(v)' = Passed(v)
    BY <1>1, PassedFacts
<1>4. Edges' = Edges /\ Nodes' = Nodes
    BY <1>1, <1>3, EdgesStay DEF Nodes, Active
<1>5. CASE Unrecognized
    <2>1. Phase = "copying" /\ Phase' = "abandoned"
        BY <1>5 DEF Unrecognized, Phase
    <2> QED BY <1>1, <1>2, <1>4, <2>1, StepOfCopy
<1>6. CASE Finalize \/ Run \/ UNCHANGED vars
    <2>1. Phase' = Phase
        BY <1>6 DEF Finalize, Run, vars, machine, Phase
    <2> QED BY <1>1, <1>2, <1>4, <2>1, StepOfCopy
<1> QED BY <1>5, <1>6

LEMMA NextRefines == IInv /\ LoopOK /\ [Next]_vars => LoopOK' /\ [Copy!Next]_(Copy!vars)
<1> SUFFICES ASSUME IInv, LoopOK, [Next]_vars PROVE LoopOK' /\ [Copy!Next]_(Copy!vars)
    OBVIOUS
<1>1. CASE Js \/ JmpOrCall \/ Vexit
    <2>1. /\ phase = "compiling" /\ UNCHANGED <<rtn, is_compiled, phase>>
          /\ stack' = Advance("next", 1) /\ Top.pc = "branch"
        BY <1>1 DEF Js, JmpOrCall, Vexit
    <2> QED BY <2>1, JumpRefines
<1>2. CASE JmpRegister
    <2>1. /\ phase = "compiling" /\ UNCHANGED <<rtn, is_compiled, phase>>
          /\ stack' = Advance("next", Top.n + 1) /\ Top.pc \in {"branch", "je"}
        BY <1>2 DEF JmpRegister
    <2>2. Top.n \in Nat /\ Top.n + 1 \in Nat /\ (Top.pc = "branch" => Top.n + 1 = 1)
        BY <2>1, CallFacts DEF IInv, StackOK
    <2> QED BY <2>1, <2>2, JumpRefines
<1> QED BY <1>1, <1>2, BeginRefines, EnterRefines, SuccessorRefines, ReturnRefines,
           OthersRefine DEF Next

\* For every routine: compiling is a traversal of it from the entry block, each
\* step along one edge, and comes back only when every block it has reached and
\* every successor of one has been through the loop (:354-366, :384-396, :652-676).
THEOREM CopyTheorem == Spec => CopiesTheRoutine
<1>1. Init => Copy!Init /\ LoopOK
    <2> SUFFICES ASSUME Init PROVE Copy!Init /\ LoopOK
        OBVIOUS
    <2>1. Nodes = {} /\ Edges = {} /\ Phase = "idle" /\ LoopOK
        BY DEF Init, Nodes, Edges, Phase, Active, LoopOK
    <2> QED BY <2>1 DEF Copy!Init, Nodes, Edges, Phase
<1> QED BY <1>1, NextRefines, Inductive, PTL DEF Spec, CopiesTheRoutine, Copy!Spec

-----------------------------------------------------------------------------
\* Every step of the compiler gets further: what has been done of a block, by
\* the call that compiles it, and of all blocks together.
Limit == 2 * MaxTargets + 5
Reached(frame) ==
    CASE frame.pc = "entry" -> 0
      [] frame.pc = "branch" -> 1
      [] frame.pc = "next" -> 2 * frame.n
      [] OTHER -> 2 * frame.n + 1
PositionIn(calls, blks, v) ==
    IF v \in {calls[i].vip : i \in DOMAIN calls}
    THEN Reached(calls[CHOOSE i \in DOMAIN calls : calls[i].vip = v])
    ELSE IF v \in blks THEN Limit ELSE 0
Position(v) == PositionIn(stack, is_compiled, v)
Work == {done \in Vips \X (1..Limit) : done[2] <= Position(done[1])}

LEMMA PositionByFrame ==
    ASSUME NEW calls, Apart(calls), NEW i \in DOMAIN calls, NEW blks
    PROVE  PositionIn(calls, blks, calls[i].vip) = Reached(calls[i])
<1>1. (CHOOSE j \in DOMAIN calls : calls[j].vip = calls[i].vip) = i
    BY DEF Apart
<1> QED BY <1>1 DEF PositionIn

LEMMA ReachedFacts ==
    ASSUME NEW f
    PROVE  /\ f.pc = "entry" => Reached(f) = 0
           /\ f.pc = "branch" => Reached(f) = 1
           /\ f.pc = "next" => Reached(f) = 2 * f.n
           /\ f.pc = "je" => Reached(f) = 2 * f.n + 1
BY DEF Reached

\* A call has less behind it than a block that is finished.
LEMMA ReachedBounded ==
    ASSUME TypeOK, StackOK, LoopOK, NEW i \in DOMAIN stack
    PROVE  Reached(stack[i]) \in 0..(Limit - 1)
<1>1. stack[i] \in Frame /\ stack[i].vip \in Vips /\ stack[i].n \in Nat
    <2>1. stack[i] \in Frame
        BY DEF TypeOK
    <2> QED BY <2>1 DEF Frame
<1>2. rtn[stack[i].vip] \in Block
    BY <1>1 DEF TypeOK
<1>3. Len(rtn[stack[i].vip].next) \in 0..(MaxTargets + 1) /\ MaxTargets \in Nat
    <2>1. rtn[stack[i].vip].ins \in DOMAIN Successors
          /\ Len(rtn[stack[i].vip].next) \in Successors[rtn[stack[i].vip].ins]
        BY <1>2, BlockFacts
    <2> QED BY <2>1, SuccessorsFacts, CompileAssumption
<1>4. stack[i].pc \in {"entry", "branch", "next", "je"}
    BY <1>1 DEF Frame
<1>5. CASE stack[i].pc \in {"entry", "branch"}
    BY <1>3, <1>5, ReachedFacts DEF Limit
<1>6. CASE stack[i].pc = "next"
    <2>1. stack[i].n \in 1..(Len(rtn[stack[i].vip].next) + 1)
        BY <1>6 DEF LoopOK
    <2>2. PICK n \in 1..(MaxTargets + 2) : n = stack[i].n
        BY <1>3, <2>1
    <2>3. Reached(stack[i]) = 2 * n
        BY <1>6, <2>2, ReachedFacts
    <2> QED BY <1>3, <2>3 DEF Limit
<1>7. CASE stack[i].pc = "je"
    <2>1. stack[i].n \in 1..Len(rtn[stack[i].vip].next)
        BY <1>7 DEF LoopOK
    <2>2. PICK n \in 1..(MaxTargets + 1) : n = stack[i].n
        BY <1>3, <2>1
    <2>3. Reached(stack[i]) = 2 * n + 1
        BY <1>7, <2>2, ReachedFacts
    <2> QED BY <1>3, <2>3 DEF Limit
<1> QED BY <1>4, <1>5, <1>6, <1>7

PositionOK == \A v \in Vips : Position(v) \in 0..Limit

LEMMA PositionBounded == TypeOK /\ StackOK /\ LoopOK => PositionOK
<1> SUFFICES ASSUME TypeOK, StackOK, LoopOK, NEW v \in Vips PROVE Position(v) \in 0..Limit
    BY DEF PositionOK
<1>1. Limit \in Nat
    BY CompileAssumption DEF Limit
<1>2. ASSUME NEW i \in DOMAIN stack, stack[i].vip = v
      PROVE  Position(v) \in 0..Limit
    <2>1. Position(v) = Reached(stack[i])
        BY <1>2, PositionByFrame DEF Position, StackOK, Apart
    <2> QED BY <1>1, <2>1, ReachedBounded
<1>3. CASE v \notin {stack[i].vip : i \in DOMAIN stack}
    BY <1>1, <1>3 DEF Position, PositionIn
<1> QED BY <1>2, <1>3

\* More is done when one block is further and none is less far.
LEMMA WorkGrows ==
    ASSUME PositionOK, PositionOK',
           NEW top \in Vips, Position(top) < Position(top)',
           \A v \in Vips : v # top => Position(v)' = Position(v)
    PROVE  Work \subseteq Work' /\ Work # Work'
<1>1. /\ Limit \in Nat /\ Limit' = Limit
      /\ \A v \in Vips : Position(v) \in 0..Limit /\ Position(v)' \in 0..Limit
    BY CompileAssumption DEF Limit, PositionOK
<1>2. \A v \in Vips : Position(v) <= Position(v)'
    BY <1>1
<1>3. Work \subseteq Work'
    BY <1>1, <1>2 DEF Work
<1>4. Position(top)' \in 1..Limit
    BY <1>1
<1>5. <<top, Position(top)'>> \in Work' /\ <<top, Position(top)'>> \notin Work
    BY <1>1, <1>4 DEF Work
<1> QED BY <1>3, <1>5

\* Of the other blocks nothing changes: a call below the top waits, and a block
\* whose call begins has nothing done yet.
LEMMA OthersStay ==
    ASSUME Apart(stack), Apart(stack'),
           \A i \in DOMAIN stack : i # Len(stack) => i \in DOMAIN stack' /\ stack'[i] = stack[i],
           \A i \in DOMAIN stack' :
               \/ i \in DOMAIN stack /\ i # Len(stack)
               \/ stack'[i].vip = Top.vip
               \/ /\ stack'[i].pc = "entry"
                  /\ stack'[i].vip \notin is_compiled \cup Active,
           \A v \in Vips : v # Top.vip => (v \in is_compiled' <=> v \in is_compiled),
           NEW v \in Vips, v # Top.vip
    PROVE  Position(v)' = Position(v)
<1>1. ASSUME NEW i \in DOMAIN stack, stack[i].vip = v
      PROVE  Position(v)' = Position(v)
    <2>1. i # Len(stack)
        BY <1>1 DEF Top
    <2>2. i \in DOMAIN stack' /\ stack'[i] = stack[i]
        BY <2>1
    <2>3. Position(v) = Reached(stack[i]) /\ Position(v)' = Reached(stack'[i])
        BY <1>1, <2>2, PositionByFrame DEF Position
    <2> QED BY <2>2, <2>3
<1>2. CASE v \notin Active
    <2>1. Position(v) = IF v \in is_compiled THEN Limit ELSE 0
        BY <1>2 DEF Position, PositionIn, Active
    <2>2. ASSUME NEW i \in DOMAIN stack', stack'[i].vip = v
          PROVE  Position(v)' = Position(v)
        <3>1. ~(i \in DOMAIN stack /\ i # Len(stack))
            BY <1>2, <2>2 DEF Active
        <3>2. stack'[i].pc = "entry" /\ v \notin is_compiled
            BY <2>2, <3>1
        <3>3. Position(v)' = Reached(stack'[i])
            BY <2>2, PositionByFrame DEF Position
        <3> QED BY <2>1, <3>2, <3>3, ReachedFacts
    <2>3. CASE v \notin {stack'[i].vip : i \in DOMAIN stack'}
        <3>1. Position(v)' = IF v \in is_compiled' THEN Limit' ELSE 0
            BY <2>3 DEF Position, PositionIn
        <3> QED BY <2>1, <3>1 DEF Limit
    <2> QED BY <2>2, <2>3
<1> QED BY <1>1, <1>2 DEF Active

\* The call on top goes on, perhaps with a call of its own.
LEMMA TopAdvances ==
    ASSUME IInv, PositionOK, Apart(stack'), PositionOK', phase = "compiling",
           NEW to \in {"branch", "next", "je"}, NEW k \in Nat,
           \/ stack' = Advance(to, k)
           \/ \E dest \in Vips : /\ dest \notin is_compiled /\ Top.vip \in is_compiled
                                 /\ stack' = Append(Advance(to, k), Call(dest)),
           \A v \in Vips : v # Top.vip => (v \in is_compiled' <=> v \in is_compiled),
           Reached(Top) < Reached([vip |-> Top.vip, pc |-> to, n |-> k])
    PROVE  Work \subseteq Work' /\ Work # Work'
<1> DEFINE new == [vip |-> Top.vip, pc |-> to, n |-> k]
           top == Len(stack)
           Old(i) == i \in DOMAIN stack /\ i # top
           Fresh(f) == f.pc = "entry" /\ f.vip \notin is_compiled \cup Active
<1>1. /\ TypeOK /\ stack # <<>> /\ Apart(stack) /\ top \in DOMAIN stack /\ top \in Nat
      /\ Top = stack[top] /\ Top.vip \in Vips /\ DOMAIN stack = 1..top
    BY CallFacts DEF TypeOK
<1>2. /\ Advance(to, k) \in Seq(Frame) /\ Len(Advance(to, k)) = top
      /\ DOMAIN Advance(to, k) = DOMAIN stack
      /\ \A i \in DOMAIN stack : i # top => Advance(to, k)[i] = stack[i]
      /\ Advance(to, k)[top] = new
    BY <1>1, AdvanceFacts
<1>3. new.vip = Top.vip
    OBVIOUS
<1> HIDE DEF new, top
<1>4. /\ top \in DOMAIN stack' /\ stack'[top] = new
      /\ \A i : Old(i) => i \in DOMAIN stack' /\ stack'[i] = stack[i]
      /\ \A i \in DOMAIN stack' : Old(i) \/ stack'[i].vip = Top.vip \/ Fresh(stack'[i])
    <2>1. CASE stack' = Advance(to, k)
        BY <1>1, <1>2, <1>3, <2>1
    <2>2. ASSUME NEW dest \in Vips, dest \notin is_compiled, Top.vip \in is_compiled,
                 stack' = Append(Advance(to, k), Call(dest))
          PROVE  /\ top \in DOMAIN stack' /\ stack'[top] = new
                 /\ \A i : Old(i) => i \in DOMAIN stack' /\ stack'[i] = stack[i]
                 /\ \A i \in DOMAIN stack' : Old(i) \/ stack'[i].vip = Top.vip \/ Fresh(stack'[i])
        <3>1. /\ DOMAIN stack' = 1..(top + 1) /\ stack'[top + 1] = Call(dest)
              /\ \A i \in 1..top : stack'[i] = Advance(to, k)[i]
            BY <1>1, <1>2, <2>2
        <3>2. dest \notin Active
            BY <1>1, <2>2 DEF IInv, StackOK, Active, top
        <3>3. Fresh(Call(dest))
            BY <2>2, <3>2 DEF Call
        <3> QED BY <1>1, <1>2, <1>3, <3>1, <3>3
    <2> QED BY <2>1, <2>2
<1>5. \A v \in Vips : v # Top.vip => Position(v)' = Position(v)
    BY <1>1, <1>4, OthersStay DEF top
<1>6. Position(Top.vip) = Reached(Top)
    BY <1>1, PositionByFrame DEF Position
<1>7. PositionIn(stack', is_compiled', stack'[top].vip) = Reached(stack'[top])
    BY <1>4, PositionByFrame
<1>8. PositionIn(stack', is_compiled', Top.vip) = Reached(new)
    BY <1>3, <1>4, <1>7
<1>9. \E u \in Vips : /\ Position(u) < Position(u)'
                      /\ \A v \in Vips : v # u => Position(v)' = Position(v)
    BY <1>1, <1>5, <1>6, <1>8 DEF new, Position
<1> QED BY <1>9, WorkGrows

\* Or it returns, and its block is finished.
LEMMA TopReturns ==
    ASSUME IInv, LoopOK, PositionOK, Apart(stack'), PositionOK', Return
    PROVE  Work \subseteq Work' /\ Work # Work'
<1> DEFINE top == Len(stack)
<1>1. /\ phase = "compiling" /\ Top.pc \in {"next", "je"} /\ UNCHANGED is_compiled
      /\ stack' = SubSeq(stack, 1, top - 1)
    BY DEF Return
<1>2. /\ TypeOK /\ stack # <<>> /\ stack \in Seq(Frame) /\ Apart(stack) /\ top \in DOMAIN stack
      /\ Top = stack[top] /\ Top.vip \in Vips /\ top \in Nat /\ DOMAIN stack = 1..top
    BY <1>1, CallFacts DEF TypeOK
<1>3. DOMAIN stack' = 1..(top - 1) /\ \A i \in 1..(top - 1) : stack'[i] = stack[i]
    BY <1>1, <1>2
<1> HIDE DEF top
<1>4. \A v \in Vips : v # Top.vip => Position(v)' = Position(v)
    BY <1>1, <1>2, <1>3, OthersStay DEF top
<1>5. Position(Top.vip) \in 0..(Limit - 1)
    <2>1. Position(Top.vip) = Reached(Top)
        BY <1>2, PositionByFrame DEF Position
    <2> QED BY <1>2, <2>1, ReachedBounded DEF IInv
<1>6. PositionIn(stack', is_compiled', Top.vip) = Limit
    <2>1. Top.vip \in is_compiled
        BY <1>1, <1>2 DEF IInv, StackOK
    <2>2. Top.vip \notin {stack'[i].vip : i \in DOMAIN stack'}
        BY <1>2, <1>3 DEF Apart
    <2> QED BY <1>1, <2>1, <2>2 DEF PositionIn
<1>7. Limit \in Nat
    BY CompileAssumption DEF Limit
<1>8. \E u \in Vips : /\ Position(u) < Position(u)'
                      /\ \A v \in Vips : v # u => Position(v)' = Position(v)
    BY <1>2, <1>4, <1>5, <1>6, <1>7 DEF Position
<1> QED BY <1>8, WorkGrows

\* Each step of compile() is one of these.
LEMMA StepAdvances ==
    ASSUME IInv, LoopOK, PositionOK, Apart(stack'), PositionOK', Next,
           phase = "compiling", phase' # "exited"
    PROVE  Work \subseteq Work' /\ Work # Work'
<1> DEFINE At(to, k) == Reached([vip |-> Top.vip, pc |-> to, n |-> k])
<1>1. /\ stack # <<>> /\ Top.n \in Nat /\ Top = stack[Len(stack)] /\ Len(stack) \in DOMAIN stack
      /\ Top.vip \in Vips /\ (Top.pc = "branch" => Top.n = 0)
      /\ (Top.pc = "entry" <=> Top.vip \notin is_compiled)
    BY CallFacts DEF IInv, StackOK
<1>2. /\ Top.pc = "entry" => Reached(Top) = 0
      /\ Top.pc = "branch" => Reached(Top) = 1
      /\ Top.pc = "next" => Reached(Top) = 2 * Top.n
      /\ Top.pc = "je" => Reached(Top) = 2 * Top.n + 1
    BY ReachedFacts
<1>3. \A k \in Nat : At("branch", k) = 1 /\ At("next", k) = 2 * k /\ At("je", k) = 2 * k + 1
    BY DEF Reached
<1> HIDE DEF At
<1>4. CASE Enter
    <2>1. Top.pc = "entry" /\ stack' = Advance("branch", 0) /\ is_compiled' = is_compiled \cup {Top.vip}
        BY <1>4 DEF Enter, Recorded
    <2>2. Reached(Top) < At("branch", 0)
        BY <1>2, <1>3, <2>1
    <2> QED BY <2>1, <2>2, TopAdvances DEF At
<1>5. CASE Js \/ JmpOrCall \/ Vexit
    <2>1. Top.pc = "branch" /\ stack' = Advance("next", 1) /\ UNCHANGED is_compiled
        BY <1>5 DEF Js, JmpOrCall, Vexit
    <2>2. Reached(Top) < At("next", 1)
        BY <1>2, <1>3, <2>1
    <2> QED BY <2>1, <2>2, TopAdvances DEF At
<1>6. CASE JmpRegister
    <2>1. /\ Top.pc \in {"branch", "je"} /\ stack' = Advance("next", Top.n + 1)
          /\ UNCHANGED is_compiled /\ Top.n + 1 \in Nat
        BY <1>1, <1>6 DEF JmpRegister
    <2>2. Reached(Top) < At("next", Top.n + 1)
        <3>1. PICK n \in Nat : n = Top.n
            BY <1>1
        <3>2. Reached(Top) \in {1, 2 * n + 1}
            BY <1>1, <1>2, <2>1, <3>1
        <3>3. At("next", n + 1) = 2 * (n + 1)
            BY <1>3
        <3> QED BY <3>1, <3>2, <3>3
    <2> QED BY <2>1, <2>2, TopAdvances DEF At
<1>7. CASE Successor
    <2>1. /\ Top.pc = "next" /\ UNCHANGED is_compiled /\ Top.n \in 1..Len(TopBlk.next)
          /\ LET dest == TopBlk.next[Top.n] IN
             stack' = IF dest \notin is_compiled THEN Append(Resumed, Call(dest)) ELSE Resumed
        <3>1. Top.n >= 1
            BY <1>1, <1>7 DEF Successor, IInv, StackOK
        <3>2. Len(TopBlk.next) \in Nat
            BY CallFacts DEF TopBlk
        <3> QED BY <1>1, <1>7, <3>1, <3>2 DEF Successor, NeedsCode
    <2>2. PICK to \in {"next", "je"}, k \in Nat :
              /\ Resumed = Advance(to, k)
              /\ Reached(Top) < At(to, k)
        <3>1. Reached(Top) = 2 * Top.n /\ Top.n + 1 \in Nat
            BY <1>1, <1>2, <2>1
        <3>2. CASE TopBlk.ins = "jmp_reg"
            <4>1. Resumed = Advance("je", Top.n)
                BY <3>2 DEF Resumed
            <4>2. Reached(Top) < At("je", Top.n)
                <5>1. PICK n \in Nat : n = Top.n
                    BY <1>1
                <5>2. At("je", n) = 2 * n + 1
                    BY <1>3
                <5> QED BY <3>1, <5>1, <5>2
            <4> QED BY <1>1, <4>1, <4>2
        <3>3. CASE TopBlk.ins # "jmp_reg"
            <4>1. Resumed = Advance("next", Top.n + 1)
                BY <3>3 DEF Resumed
            <4>2. Reached(Top) < At("next", Top.n + 1)
                <5>1. PICK n \in Nat : n = Top.n
                    BY <1>1
                <5>2. At("next", n + 1) = 2 * (n + 1)
                    BY <1>3
                <5> QED BY <3>1, <5>1, <5>2
            <4>3. "next" \in {"next", "je"} /\ Top.n + 1 \in Nat
                BY <3>1
            <4> QED BY <4>1, <4>2, <4>3
        <3> QED BY <3>2, <3>3
    <2>3. TopBlk.next[Top.n] \in Vips /\ Top.vip \in is_compiled
        <3>1. TopBlk.next \in Seq(Vips) /\ DOMAIN TopBlk.next = 1..Len(TopBlk.next)
            BY CallFacts DEF TopBlk
        <3>2. TopBlk.next[Top.n] \in Vips
            BY <2>1, <3>1
        <3>3. stack[Len(stack)].pc = "entry" <=> stack[Len(stack)].vip \notin is_compiled
            BY <1>1 DEF IInv, StackOK
        <3> QED BY <1>1, <2>1, <3>2, <3>3
    <2>4. \/ stack' = Advance(to, k)
          \/ \E dest \in Vips : /\ dest \notin is_compiled /\ Top.vip \in is_compiled
                                /\ stack' = Append(Advance(to, k), Call(dest))
        BY <2>1, <2>2, <2>3
    <2> QED BY <2>1, <2>2, <2>4, TopAdvances DEF At
<1>8. CASE Return
    BY <1>8, TopReturns
<1>9. ~Begin /\ ~Unrecognized /\ ~Finalize /\ ~Run
    BY DEF Begin, Unrecognized, Finalize, Run
<1> QED BY <1>4, <1>5, <1>6, <1>7, <1>8, <1>9 DEF Next

\* What can be done is bounded by the routine.
LEMMA WorkCount ==
    /\ IsFiniteSet(Work) /\ Cardinality(Work) \in Nat
    /\ Cardinality(Work) <= Cardinality(Vips) * Limit
<1> DEFINE all == Vips \X (1..Limit)
<1>1. IsFiniteSet(1..Limit) /\ Cardinality(1..Limit) = Limit
    <2>1. Limit \in Nat
        BY CompileAssumption DEF Limit
    <2>2. IsFiniteSet(1..Limit) /\ Cardinality(1..Limit) = IF 1 > Limit THEN 0 ELSE Limit - 1 + 1
        BY <2>1, FS_Interval
    <2> QED BY <2>1, <2>2
<1>2. IsFiniteSet(all) /\ Cardinality(all) = Cardinality(Vips) * Limit
    BY <1>1, CompileAssumption, FS_Product
<1>3. Work \subseteq all
    BY DEF Work
<1> QED BY <1>2, <1>3, FS_Subset, FS_CardinalityType

\* compile() comes to an end, for every routine however its blocks loop: each
\* step has done more than the one before, of at most Limit things per block
\* (:348-409, :652-676).  That there is a next step is left to CompileEnds.
CompileAdvances ==
    [][phase = "compiling" /\ phase' # "exited" =>
         /\ Cardinality(Work) < Cardinality(Work')
         /\ Cardinality(Work') <= Cardinality(Vips) * Limit]_vars
THEOREM ProgressTheorem == Spec => CompileAdvances
<1> DEFINE Inv == IInv /\ LoopOK
           Counted == IsFiniteSet(Work) /\ Cardinality(Work) \in Nat
                      /\ Cardinality(Work) <= Cardinality(Vips) * Limit
           Ready == PositionOK /\ Apart(stack) /\ Counted
           Grows == phase = "compiling" /\ phase' # "exited" =>
                      /\ Cardinality(Work) < Cardinality(Work')
                      /\ Cardinality(Work') <= Cardinality(Vips) * Limit
<1>1. Init => LoopOK
    BY DEF Init, LoopOK
<1>2. IInv /\ LoopOK /\ [Next]_vars => LoopOK'
    BY NextRefines
<1>3. Inv => Ready
    BY PositionBounded, WorkCount DEF IInv, StackOK, Apart
<1>4. Inv /\ Ready /\ Ready' /\ [Next]_vars => [Grows]_vars
    <2> SUFFICES ASSUME Inv, Ready, Ready', Next, phase = "compiling", phase' # "exited"
                 PROVE  /\ Cardinality(Work) < Cardinality(Work')
                        /\ Cardinality(Work') <= Cardinality(Vips) * Limit
        OBVIOUS
    <2>1. Work \subseteq Work' /\ Work # Work'
        BY StepAdvances
    <2>2. Cardinality(Work) < Cardinality(Work')
        BY <2>1, FS_Subset
    <2>3. Cardinality(Work') <= Cardinality(Vips) * Limit
        BY DEF Limit
    <2> QED BY <2>2, <2>3
<1> QED BY <1>1, <1>2, <1>3, <1>4, Inductive, PTL DEF Spec, CompileAdvances

-----------------------------------------------------------------------------
\* How many nodes of the code may lie between this one and the next block's
\* instructions: after a "jnz" that is not taken there is a "jmp", a jump
\* that is taken leads to a label, and a label to its block.
Hops ==
    CASE code[ip].op = "jnz" -> 3
      [] code[ip].op \in {"jmp", "je"} -> 2
      [] code[ip].op = "label" -> 1
      [] OTHER -> 0

LEMMA NodeFacts ==
    ASSUME IInv, phase = "running", OneTarget
    PROVE  /\ ip \in DOMAIN code /\ OnCourse
           /\ code[ip].op \in JumpOps \cup {"label", "body", "ret"}
           /\ code[ip].op = "body" => code[ip] = Mark("body", goal)
<1>1. ip \in DOMAIN code /\ OnCourse
    BY DEF IInv, RunOK, OnCourse
<1>2. code[ip] \in Node
    BY <1>1 DEF IInv, TypeOK
<1>3. ASSUME code[ip].op = "body" PROVE code[ip] = Mark("body", goal)
    <2>1. code[ip] \in [op : {"body", "ret"}, vip : Vips]
        BY <1>2, <1>3 DEF Node
    <2>2. code[ip].vip = goal
        BY <1>1, <1>3 DEF OnCourse
    <2> QED BY <1>3, <2>1, <2>2 DEF Mark
<1> QED BY <1>1, <1>2, <1>3 DEF Node, JumpOps

\* At a jump or a label the run comes nearer to the block the routine goes to.
LEMMA HopLemma ==
    ASSUME IInv, OneTarget, Run, phase' = "running", code[ip].op # "body"
    PROVE  goal' = goal /\ Hops' \in Nat /\ Hops' < Hops
<1>1. phase = "running" /\ UNCHANGED code
    BY DEF Run
<1>2. ip \in DOMAIN code /\ OnCourse /\ code[ip].op \in JumpOps \cup {"label"}
    BY <1>1, NodeFacts DEF Run
<1>3. ASSUME NEW op, NEW v, JumpAt(ip', op, v)
      PROVE  code'[ip'].op = op
    BY <1>1, <1>3 DEF JumpAt
<1>4. CASE code[ip].op = "label"
    <2>1. ip' = ip + 1 /\ goal' = goal
        BY <1>4 DEF Run
    <2>2. code'[ip'].op = "body"
        BY <1>2, <1>3, <1>4, <2>1 DEF IInv, CodeOK
    <2> QED BY <1>4, <2>1, <2>2 DEF Hops
<1>5. CASE code[ip].op \in JumpOps /\ Taken(code[ip])
    <2>1. ip' = Target(code[ip]) /\ goal' = goal
        BY <1>5 DEF Run, JumpOps
    <2>2. code'[ip'].op = "label"
        BY <1>1, <1>2, <1>5, <2>1, TargetFacts
    <2> QED BY <1>5, <2>1, <2>2 DEF Hops, JumpOps
<1>6. CASE code[ip].op \in JumpOps /\ ~ Taken(code[ip])
    <2>1. ip' = ip + 1 /\ goal' = goal
        BY <1>6 DEF Run, JumpOps
    <2>2. code[ip].op = "jnz"
        BY <1>2, <1>6 DEF OnCourse, Taken, JumpOps
    <2>3. code'[ip'].op = "jmp"
        BY <1>2, <1>3, <2>1, <2>2 DEF OnCourse
    <2> QED BY <2>1, <2>2, <2>3 DEF Hops
<1> QED BY <1>2, <1>4, <1>5, <1>6

\* The run is not caught among the jumps: whenever it is not at the block the
\* routine goes to, its next step keeps that goal and is one of at most three
\* that are left until it is there (:348-409).
RunGetsOn ==
    [][OneTarget /\ phase = "running" /\ phase' = "running" =>
          \/ code[ip] = Mark("body", goal)
          \/ goal' = goal /\ Hops' \in Nat /\ Hops' < Hops]_vars

\* The safety half of GoalIsReached.
THEOREM ReachTheorem == Spec => RunGetsOn
<1> DEFINE GetsOn ==
        OneTarget /\ phase = "running" /\ phase' = "running" =>
          \/ code[ip] = Mark("body", goal)
          \/ goal' = goal /\ Hops' \in Nat /\ Hops' < Hops
<1>1. IInv /\ [Next]_vars => [GetsOn]_vars
    <2> SUFFICES ASSUME IInv, Next, OneTarget, phase = "running", phase' = "running",
                        code[ip] # Mark("body", goal)
                 PROVE  goal' = goal /\ Hops' \in Nat /\ Hops' < Hops
        OBVIOUS
    <2>1. Run
        BY DEF Next, Begin, Enter, Unrecognized, Js, JmpOrCall, JmpRegister, Vexit, Successor,
               Return, Finalize
    <2>2. code[ip].op # "body"
        BY NodeFacts
    <2> QED BY <2>1, <2>2, HopLemma
<1> QED BY <1>1, Inductive, PTL DEF Spec, RunGetsOn
=============================================================================
