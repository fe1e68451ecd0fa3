---------------------------- MODULE VtilCompile ----------------------------
(***************************************************************************)
(* The control flow of src/src/vtil-compile.cpp: compile(routine) compiles *)
(* the entry block, and the handler of a block's branch instruction emits  *)
(* the jumps and compiles, in place, the successors that have no code yet. *)
(* Then the code that came out is run beside the routine it stands for.    *)
(*                                                                         *)
(* A block is known by its entry vip.  Its instructions before the branch  *)
(* are one node of the code; what they compute appears only as the choice  *)
(* of the successor, which the jumps test (a condition or a register).     *)
(***************************************************************************)
EXTENDS Integers, Sequences, FiniteSets

CONSTANTS
    Vips,        \* entry vips of the blocks
    EntryVip,    \* entry vip of rtn->entry_point
    MaxTargets   \* bound: destinations of a jump through a register

ASSUME CompileAssumption ==
    /\ IsFiniteSet(Vips) /\ Vips \subseteq Nat \ {0} /\ EntryVip \in Vips
    /\ MaxTargets \in Nat \ {0}

VARIABLES
    rtn,          \* the routine: vip -> [ins, next]
    label_map,    \* routine_state: vip -> label
    is_compiled,  \* routine_state: vips of the blocks that have code
    code,         \* what was handed to asmjit
    stack,        \* the active calls of compile(basic_block)
    phase,        \* "ready", "compiling", "exited", "compiled", "refused",
                  \* "running", "returned"
    ip,           \* the node of the code that runs next
    goal          \* where the routine goes next

vars == <<rtn, label_map, is_compiled, code, stack, phase, ip, goal>>
machine == <<ip, goal>>

-----------------------------------------------------------------------------
\* The branch instructions with a handler, and how many successors the block
\* of each has; "unhandled" stands for a block that holds an instruction
\* handler_table does not know or an assertion of its handler refuses.
Successors ==
    [js |-> {2}, jmp_reg |-> 1..MaxTargets, jmp_imm |-> {1}, vxcall |-> {1},
     vexit |-> {0}, unhandled |-> {0}]
Block ==
    UNION {[ins : {ins}, next : UNION {[1..n -> Vips] : n \in Successors[ins]}] :
              ins \in DOMAIN Successors}

\* The routine leaves the VM.
Exit == 0

\* A node of the code: a bound label, a block's instructions, or a jump.  A
\* "je" compares the register with the vip of the destination.
Node ==
    [op : {"label", "jnz", "jmp", "je"}, vip : Vips, label : Nat]
        \cup [op : {"body", "ret"}, vip : Vips]
Label(v, map) == [op |-> "label", vip |-> v, label |-> map[v]]
Jump(op, v, map) == [op |-> op, vip |-> v, label |-> map[v]]
Mark(op, v) == [op |-> op, vip |-> v]

\* routine_state::get_label: the label of a vip, made when first asked for.
GetLabelAnew(map, v) ==
    [w \in DOMAIN map \cup {v} |-> IF w = v THEN Cardinality(DOMAIN map) + 1 ELSE map[w]]
GetLabel(map, v) ==
    [w \in DOMAIN map \cup {v} |->
        IF w \in DOMAIN map THEN map[w] ELSE Cardinality(DOMAIN map) + 1]

\* One call of compile(basic_block): what it does next, and the successor its
\* branch handler is at.
Frame == [vip : Vips, pc : {"entry", "branch", "next", "je"}, n : Nat]
Call(v) == [vip |-> v, pc |-> "entry", n |-> 0]
Top == stack[Len(stack)]
TopBlk == rtn[Top.vip]
Advance(pc, n) == [stack EXCEPT ![Len(stack)] = [vip |-> Top.vip, pc |-> pc, n |-> n]]

Init ==
    /\ rtn \in [Vips -> Block]
    /\ label_map = <<>> /\ is_compiled = {} /\ code = <<>> /\ stack = <<>>
    /\ phase = "ready"
    /\ ip = 0 /\ goal = Exit

-----------------------------------------------------------------------------
\* compile(routine): a function is begun and the entry block compiled.
Begin ==
    /\ phase = "ready"
    /\ phase' = "compiling"
    /\ stack' = <<Call(EntryVip)>>
    /\ UNCHANGED <<rtn, label_map, is_compiled, code, machine>>

\* compile(basic_block): the label is bound, the block counts as compiled
\* from here on, and the instructions go through their handlers.
RecordedNot == is_compiled
Recorded == is_compiled \cup {Top.vip}
Enter ==
    /\ phase = "compiling" /\ Top.pc = "entry"
    /\ label_map' = GetLabel(label_map, Top.vip)
    /\ is_compiled' = Recorded
    /\ code' = code \o <<Label(Top.vip, label_map'), Mark("body", Top.vip)>>
    /\ stack' = Advance("branch", 0)
    /\ UNCHANGED <<rtn, phase, machine>>

\* An instruction without a handler ends the program, as does a js whose
\* destinations are no immediates (:355).
Unrecognized ==
    /\ phase = "compiling" /\ Top.pc = "branch"
    /\ TopBlk.ins = "unhandled"
    /\ phase' = "exited"
    /\ UNCHANGED <<rtn, label_map, is_compiled, code, stack, machine>>

\* js: both jumps are emitted, then the successors compiled.
JsJumpsIfCompiled(one, two, map) ==
    IF two \in is_compiled THEN <<Jump("jnz", one, map), Jump("jmp", two, map)>>
    ELSE <<Jump("jnz", one, map)>>
JsJumps(one, two, map) == <<Jump("jnz", one, map), Jump("jmp", two, map)>>
Js ==
    /\ phase = "compiling" /\ Top.pc = "branch"
    /\ TopBlk.ins = "js"
    /\ label_map' = GetLabel(GetLabel(label_map, TopBlk.next[1]), TopBlk.next[2])
    /\ code' = code \o JsJumps(TopBlk.next[1], TopBlk.next[2], label_map')
    /\ stack' = Advance("next", 1)
    /\ UNCHANGED <<rtn, is_compiled, phase, machine>>

\* jmp to an immediate, and vxcall: one jump, one successor.
JmpOrCall ==
    /\ phase = "compiling" /\ Top.pc = "branch"
    /\ TopBlk.ins \in {"jmp_imm", "vxcall"}
    /\ label_map' = GetLabel(label_map, TopBlk.next[1])
    /\ code' = Append(code, Jump("jmp", TopBlk.next[1], label_map'))
    /\ stack' = Advance("next", 1)
    /\ UNCHANGED <<rtn, is_compiled, phase, machine>>

\* jmp to a register: for each successor a compare and jump, and then, before
\* those of the next one, its code if it has none.
JmpRegister ==
    /\ phase = "compiling"
    /\ TopBlk.ins = "jmp_reg"
    /\ LET n == Top.n + 1 IN
       /\ \/ Top.pc = "branch"
          \/ Top.pc = "je" /\ n <= Len(TopBlk.next)
       /\ label_map' = GetLabel(label_map, TopBlk.next[n])
       /\ code' = Append(code, Jump("je", TopBlk.next[n], label_map'))
       /\ stack' = Advance("next", n)
    /\ UNCHANGED <<rtn, is_compiled, phase, machine>>

\* vexit: the function ends.
Vexit ==
    /\ phase = "compiling" /\ Top.pc = "branch"
    /\ TopBlk.ins = "vexit"
    /\ code' = Append(code, Mark("ret", Top.vip))
    /\ stack' = Advance("next", 1)
    /\ UNCHANGED <<rtn, label_map, is_compiled, phase, machine>>

\* A branch handler's loop over the successors: those without code are
\* compiled now.
NeedsCodeIfFirst(dest) == dest \notin is_compiled /\ Top.n = 1
NeedsCodeIfUnlabelled(dest) == dest \notin DOMAIN label_map
NeedsCode(dest) == dest \notin is_compiled
ResumedHere ==
    IF TopBlk.next[Top.n] \in is_compiled THEN stack ELSE Advance("next", Top.n + 1)
Resumed == IF TopBlk.ins = "jmp_reg" THEN Advance("je", Top.n) ELSE Advance("next", Top.n + 1)
Successor ==
    /\ phase = "compiling" /\ Top.pc = "next" /\ Top.n <= Len(TopBlk.next)
    /\ LET dest == TopBlk.next[Top.n] IN
         stack' = IF NeedsCode(dest) THEN Append(Resumed, Call(dest)) ELSE Resumed
    /\ UNCHANGED <<rtn, label_map, is_compiled, code, phase, machine>>

\* The branch is the last instruction: the call returns.  The outermost one
\* returns to compile(routine).
Return ==
    /\ phase = "compiling"
    /\ \/ Top.pc = "next" /\ Top.n > Len(TopBlk.next)
       \/ Top.pc = "je" /\ Top.n = Len(TopBlk.next)
    /\ stack' = SubSeq(stack, 1, Len(stack) - 1)
    /\ phase' = IF Len(stack) = 1 THEN "compiled" ELSE "compiling"
    /\ UNCHANGED <<rtn, label_map, is_compiled, code, machine>>

\* cc.finalize(): asmjit may have found something it cannot encode, and does
\* not take a jump to a label that is nowhere bound; then nothing is added to
\* the output.  Otherwise the code can run, from its first node.
Bound(label) == {i \in DOMAIN code : code[i].op = "label" /\ code[i].label = label}
Jumps == {i \in DOMAIN code : code[i].op \in {"jnz", "jmp", "je"}}
Finalize ==
    /\ phase = "compiled"
    /\ \/ phase' = "refused" /\ UNCHANGED machine
       \/ /\ \A i \in Jumps : Bound(code[i].label) # {}
          /\ phase' = "running"
          /\ ip' = 1 /\ goal' = EntryVip
    /\ UNCHANGED <<rtn, label_map, is_compiled, code, stack>>

-----------------------------------------------------------------------------
\* The processor runs the code.  The instructions of a block decide where the
\* routine goes; a condition and a register hold that decision for the jumps.
Target(node) == CHOOSE i \in Bound(node.label) : TRUE
Taken(node) ==
    \/ node.op = "jmp"
    \/ node.op \in {"jnz", "je"} /\ goal = node.vip
Run ==
    /\ phase = "running" /\ ip \in DOMAIN code
    /\ LET node == code[ip] IN
       \/ node.op = "label" /\ ip' = ip + 1 /\ UNCHANGED <<phase, goal>>
       \/ /\ node.op = "body"
          /\ ip' = ip + 1
          /\ goal' \in IF rtn[node.vip].next = <<>> THEN {Exit}
                       ELSE {rtn[node.vip].next[i] : i \in DOMAIN rtn[node.vip].next}
          /\ UNCHANGED phase
       \/ /\ node.op \in {"jnz", "jmp", "je"}
          /\ ip' = IF Taken(node) THEN Target(node) ELSE ip + 1
          /\ UNCHANGED <<phase, goal>>
       \/ node.op = "ret" /\ phase' = "returned" /\ UNCHANGED machine
    /\ UNCHANGED <<rtn, label_map, is_compiled, code, stack>>

Next ==
    \/ Begin \/ Enter \/ Unrecognized \/ Js \/ JmpOrCall \/ JmpRegister \/ Vexit
    \/ Successor \/ Return \/ Finalize \/ Run

Spec == Init /\ [][Next]_vars
FairSpec == Spec /\ WF_vars(Next)

-----------------------------------------------------------------------------
Active == {stack[i].vip : i \in DOMAIN stack}
LabelNodes == {i \in DOMAIN code : code[i].op = "label"}

\* The type invariant; the labels of different blocks are different.
TypeOK ==
    /\ rtn \in [Vips -> Block]
    /\ DOMAIN label_map \subseteq Vips
    /\ \A v, w \in DOMAIN label_map :
         label_map[v] \in 1..Cardinality(DOMAIN label_map) /\ (label_map[v] = label_map[w] => v = w)
    /\ is_compiled \subseteq Vips
    /\ code \in Seq(Node)
    /\ stack \in Seq(Frame)
    /\ phase \in {"ready", "compiling", "exited", "compiled", "refused", "running", "returned"}
    /\ ip \in Nat /\ goal \in Vips \cup {Exit}

\* A block is compiled at most once, however the recursion meets it again
\* (loops, joins, both arms of a js): asmjit takes a label only once, and a
\* second copy would be dead or wrong (is_compiled, lines 362, :390, :654).
CompiledOnce ==
    /\ \A i, j \in LabelNodes : code[i].label = code[j].label => i = j
    /\ \A i, j \in DOMAIN stack : stack[i].vip = stack[j].vip => i = j

\* The compiled code goes where the routine goes.
Accurate ==
    phase = "running" =>
        /\ ip \in DOMAIN code
        /\ code[ip].op = "body" => code[ip].vip = goal
        /\ code[ip].op = "ret" => goal = Exit

OneTarget == \A v \in Vips : rtn[v].ins = "jmp_reg" => Len(rtn[v].next) = 1

\* When no register jump has two destinations, the compiled code does what the
\* routine does: a block's instructions run exactly when the routine goes to
\* that block, the code leaves exactly when the routine does, and it never
\* runs past its last node, although blocks lie in the order of the recursion
\* and only jumps connect them (:348-409).
RunsTheRoutine == OneTarget => Accurate

\* A label that a jump already names, of a block without code, belongs to a
\* block that some active call still has ahead of it: it is about to be
\* compiled, or the loop of a branch handler has yet to come to it.
PendingIsAhead ==
    phase = "compiling" =>
        \A v \in DOMAIN label_map \ is_compiled : \E i \in DOMAIN stack :
            \/ stack[i].vip = v
            \/ /\ stack[i].pc = "next"
               /\ \E n \in stack[i].n..Len(rtn[stack[i].vip].next) :
                     rtn[stack[i].vip].next[n] = v

\* compile() comes back or ends the program for every routine, cyclic or not.
CompileEnds == (phase = "ready") ~> (phase \in {"exited", "refused", "running"})

\* The code gets on: from a block the run comes to the block that the routine
\* goes to, and is not caught among the jumps between them.
GoalIsReached ==
    \A v \in Vips :
        (OneTarget /\ phase = "running" /\ goal = v) ~> (ip \in DOMAIN code /\ code[ip] = Mark("body", v))

-----------------------------------------------------------------------------
\* Compiling is a traversal of the routine from its entry block; an edge is
\* followed when the loop over the successors has passed it.
Passed(v) ==
    IF v \notin Active THEN Len(rtn[v].next)
    ELSE LET frame == stack[CHOOSE i \in DOMAIN stack : stack[i].vip = v] IN
         CASE frame.pc = "next" -> frame.n - 1
           [] frame.pc = "je" -> frame.n
           [] OTHER -> 0
Copy == INSTANCE CfgCopy WITH
    succ  <- [v \in Vips |-> {rtn[v].next[i] : i \in DOMAIN rtn[v].next}],
    nodes <- is_compiled \cup Active,
    edges <- UNION {{<<v, rtn[v].next[i]>> : i \in 1..Passed(v)} : v \in is_compiled},
    phase <- CASE phase = "ready" -> "idle"
               [] phase = "compiling" -> "copying"
               [] phase = "exited" -> "abandoned"
               [] OTHER -> "complete"

\* The compiler reaches each block it compiles along an edge of the routine,
\* and comes back only when every successor of every such block has code.
CopiesTheRoutine == Copy!Spec

-----------------------------------------------------------------------------
\* The README (line 2) has the compiler "mainly focused on semantic accuracy":
\* the code goes where the routine goes, also for a register jump that has
\* more than one destination.
CodeIsAccurate == Accurate
=============================================================================
