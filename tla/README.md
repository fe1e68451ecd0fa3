# Verification of vmdevirt-vtil

vmdevirt-vtil takes a Windows binary protected by VMProtect 3, traces the virtualized routines
behind its VM entries with an emulator, lifts each to VTIL, optimizes it, compiles it back to x64
and writes a binary in which the VM entries jump to the compiled code. This directory holds a
TLA+ model of the parts that carry that logic, the TLC configurations that check it and the
proofs that TLAPS checks. Paths and line numbers refer to the repository (`src/`).

## The system

| Part | Source | State | Operations | What makes it correct |
|---|---|---|---|---|
| Driver | `src/vmdevirt-vtil.cpp` `main`, `devirtualize` | the `.vtil` cache files, the output file; in memory the routine, the patched image, the code | load, lift, save, find section, patch, optimize, compile, write | caches consistent over crashes, output replaced only when complete, jumps lead to their code |
| Output layout | `src/vmdevirt-vtil.cpp:178-199, 240-263, 282-287` | bytes of the image, the new section header | add header, patch, append | raw data, virtual and file sizes agree; nothing else is overwritten |
| Lifter, control flow | `src/vm-lifter.cpp` | VTIL routine, map of traced blocks, C++ stack | `lift`, `recursive_lifter`, `lift_handler` | each traced block lifted once, in order, completely |
| Lifter, handlers | `src/lifters.cpp` | none (emits VTIL) | one per mnemonic | values and flags of the virtual instruction |
| Compiler, control flow | `src/vtil-compile.cpp` | `routine_state`, code given to asmjit | `compile`, `get_label`, branch handlers | the code goes where the routine goes |
| Compiler, instructions | `src/vtil-compile.cpp` | `reg_map` | one handler per VTIL instruction, `get_reg` | each computes what VTIL defines |
| Image mapping | `src/vmdevirt-vtil.cpp:97-156` | the mapped image | open, allocate, copy sections, relocate, check | mapped inside its allocation, relocated once, and the entry that is lifted is the one that is patched |
| Arguments | `include/cli-parser.hpp` | parsed values, the open argument | `parse` and helpers | values reach their names once and in order, counts are kept |
| Register table | `include/zyreg_to_register_desc.hpp` | constant | `zyreg_to_capreg`, `register_cast` | a row stands at the number of its register |

They are one sequential process: `main` calls `devirtualize`, which runs the emulator (external)
and `lift`; `lift` recurses through the traced blocks; `main` then calls the optimizer (external)
and `compile`, which recurses through the VTIL blocks. The parts share no state but the routine
that is handed on, the image and the code buffer. What is hard is therefore not concurrency but
recursion over cyclic graphs, failures half-way through the loop over the VM entries, files that
outlive a crashed run, addresses computed before what they point to exists, and arithmetic at
boundaries.

## How to run

`tlc -workers 2 -config <cfg> <module>` for the rows of the table below, `tlapm <module>` for
`VmLifterProofs`, `LifterOpsProofs`, `CompiledOpsProofs`, `VirtualContextProofs`, `VmDevirtProofs`,
`VtilCompileProofs`, `PeLayoutProofs` and `ArgParserProofs`. `PROJECT.json` lists components,
runs, mutants (a plausible bug for every property, which the property's run finds), the map from
definitions to source lines, findings, hazards and theorems.

## Modules

**CfgCopy** is the abstract specification of a traversal of a control-flow graph: nodes are copied
when an edge first reaches them, and the copy is complete only when it is closed under successors.
Lifter and compiler both implement it.

**VmLifter** (`src/vm-lifter.cpp`; `MCVmLifter`) is `lift()` and `recursive_lifter`. `stack` is the
C++ call stack, a frame has the traced block, the VTIL block, the instruction and where the call
goes on; `body` and `next` are the VTIL routine; `unexplored` is the map `lift()` fills. `Lift`,
`LiftHandler` (one instruction), `FirstBranch` and `SecondBranch` (with `fork()` and the recursive
call), `Return` and `Unwind` (`return false` through all callers) are the steps. The VTIL of an
instruction is its mnemonic here; what it computes is in LifterOps and VirtualContext. A look-up that
finds nothing is dereferenced by the code; it ends in the status "undefined". `emulated` says whether
`emulate()` succeeded: only then is the trace known to be closed under branches, but `devirtualize`
lifts either way.

**VmLifterProofs** has the proofs about it.

**LifterOps** (`src/lifters.cpp`) is the arithmetic: add, and, or, nand, nor, imul, shl, shr, shld,
shrd. A state has the words the handler pops, memory at the popped address, flags and what is pushed;
an action runs all VTIL of one handler, in the code's order of pops and with the temporaries it
overwrites. `pushf` and the pushed result are separate, as nand and nor have one without the other.
**VtilWords** has VTIL's word operations (external). Its `Pow2[n]`, 2^n, is the number of sets of n bits:
the provers know no exponential, but can count sets. **LifterOpsProofs** proves the handlers right for
every width.

**VirtualContext** (`src/lifters.cpp`, `src/vm-lifter.cpp:56-63`; `MCVirtualContext`) is
`make_virtual_register`, the prologue and every handler that moves words: lconst, lreg, sreg, read,
write, lvsp, svsp, lcr0, writedr7 and vmexit, over virtual registers, memory and the VM stack. An address
is a word; a word that lvsp pushed is a pointer into the stack, so read and write may hit the stack they
pop from. **VmContext** is the abstract machine with a context of bytes, which it implements (external:
what the virtual machine does), access by access: both record the last access. **ZyregToRegister**
(`include/zyreg_to_register_desc.hpp`) is the table that names the registers of the prologue: its rows in
the order of the file, against the numbers that Zydis gives the registers. **VirtualContextProofs** has
the proofs about vmexit, the refinement, the types and the table.

**ArgParser** (`include/cli-parser.hpp`; `MCArgParser`) is `argument_parser_t::parse` with
`_begin_argument`, `_add_value` and `_end_argument`. `argv_index` is the element looked at, `current` the
open argument, `values` and `found` what the arguments hold, `status` where `parse` is. An element is
known by what the parser tells apart in it (`Token`): its kind, the names it may stand for, whether
`=` or another character follows them, and what stands behind that. A value is recorded as the number of its
element and whether the whole of it is kept or that part.

**VmDevirt** (`src/vmdevirt-vtil.cpp`; `MCVmDevirt`) is `main()` and `devirtualize()` as one process
with three kinds of files that outlive it. `pc` names the steps of the loop; `fate` says what the
emulator, the lifter, the section search, asmjit and the handlers make of each routine; `Kill` may
happen at any step and leaves a file that was being written torn; `Rebuild` replaces the input binary
between runs. A run has the VM entries that were found, none included, or the one of `--vmentry`. The code
is the sequence of bytes with their routine; addresses are PeLayout's.

**PeLayout** (`src/vmdevirt-vtil.cpp:178-287`; `MCPeLayout`) is the layout of the output: old size,
the count of sections, the new section header, patch offsets, alignments, raw, virtual and file sizes, modulo
2^32 where the code has `uint32_t`. Bytes are known by where they come from. Its properties read the result by
its section headers (`MappedFrom`), as a disassembler does, for which the output is meant (`README.md:2`). They do
not say that Windows would run it, and it would not: `optional_header.size_image` is never raised to cover the new
section at 0x29420000, and the section's characteristics stay 0, so it is neither readable nor executable.

**ImageMap** (`src/vmdevirt-vtil.cpp:97-156`) is what `main()` does before: opening the file, the vector
and the page the image starts at, the copies, the walk over the relocation blocks, and the check of the
image base, which comes last. It EXTENDS PeLayout and composes the two: once `step` is "mapped", the steps
are PeLayout's, of the same binary. `memory` and `slides` say which file byte an address holds and how
often it was relocated. The walk reads whatever block is at `next` (`ReadBlock`), goes on by its size and ends at
one without base or size, as the code's does; that there is one behind the directory is `Terminated`, on which
what is said of the relocations depends. `MCPeLayout` instantiates the composition. **PeLayoutProofs** has the proofs
about both.

**VtilCompile** (`src/vtil-compile.cpp`) is `compile(routine)`, `compile(basic_block)`, `get_label` and
the handlers of branches, with the recursion that compiles successors inside the handler of a branch.
Then the emitted nodes are run (`ip`) beside the routine (`goal`). Instructions that do not branch are
one node, "body".

**CompiledOps** (`src/vtil-compile.cpp`; `MCCompiledOps`) is what the code of each other instruction
does to the x86 registers and memory: one action per handler, all registers of `Full` bits as `reg_for_size`
makes them, CR0 and DR7 by the `local_id` that `mov` looks at, immediates cut to the operand's size, and `Abort`
where an assertion or `get_reg` ends the program. An operand is a view: some bits of a register. `GetReg` is what
`get_reg` makes of it: a physical register by its id alone, whichever bits are selected, with all flags one
register, and for a virtual register one x86 register per view, since `reg_map` is keyed by the whole
`register_t`. **VtilMachine** (external) is what VTIL means: views of one register share its bits, and a write
to one is seen by the others. The x86 registers stand for VTIL's as `VtilRegisters` says. **CompiledOpsProofs**
has the proofs for views of any offsets and sizes.

## Runs

| Run | Module, cfg | Bounds | Shows |
|---|---|---|---|
| lifter | MCVmLifter | three blocks, any branches, two instruction sequences each (one with an unknown mnemonic), any prefix traced | type, no undefined look-up, prologue once, filled in order, complete, bounded recursion, termination, refinement of CfgCopy |
| ops | LifterOps, MCLifterOps | 3-bit words, all values | add, and, or give x86's result and flags, shld and shrd result, ZF and SF for counts below the width, nand and nor SF |
| context | MCVirtualContext | 2 registers of 2 bytes, 7 instructions, stack of 4, one word of memory | byte array and memory refinement, vmexit undoes the prologue |
| devirt | MCVmDevirt | 2 entries, of which a run has both, one or none, 2 runs, 2 versions, 1 kill, code of 1 or 2 bytes | jumps lead to own code, cache files agree and without `--overwrite` are kept, the output waits for all routines, every run ends, a good run delivers |
| layout | MCPeLayout | alignments 16 and 32, page 64, vector at three addresses, all kinds of remainders, two sections in both orders, relocation directories of one or two blocks, with zeroes or another block behind them, or none, up to two entries | mapped inside the vector, a terminated directory relocated once, patched where it was lifted, jumps reach code, code is mapped, raw data fits, old bytes kept |
| compiler | VtilCompile, MCVtilCompile | three blocks, register jumps with up to two destinations | compiled once, pending labels are ahead, runs like the routine, terminates, refinement of CfgCopy |
| code | MCCompiledOps | two whole registers of 4 bits, both halves of a virtual and of a physical one, a narrow physical one, CR0, DR7, one word of memory, every handler | the code of kept instructions does what VTIL does, to all views |
| args | MCArgParser | five parsers; all lines of 3 elements, and of 4 that take or close values | values reach their names on lines without dashed names, counts are kept |
| devirt_overwrite, compiler_jump, ops_flags, code_flags | see `PROJECT.json` | as above, for code_flags two flags | the findings below |

Why these bounds: three blocks have every shape that matters to the two traversals (self-loop, loop
back to the root, join, both arms to one block, unreachable); with two VM entries one can fail before
or after the other; one kill and two runs leave each file in each state and then read it. The layout's
alignments leave room for every remainder class, 0, 1 and alignment-1 included; the vector begins on a
page, a quarter into it and one byte before the next, which is where the image's first page is moved
most and least. Word operations are uniform in the width: 3 or 4 bits have sign, carry and a count that
is not a power of two; a narrow register of two bits has a low and a high bit below those VTIL does not
have, and of two halves each can be written where the other is read. Bytes of the context and of memory are never computed with, so distinct tokens for bytes stand for
all values; seven instructions are enough to push a stack pointer, write through it and read the slot
back. The parser keeps one open argument and compares counts of at most 2: four elements open an
argument, overfill it and close it by another.

The checks stop at deadlock-free ends: programs end, so `CHECK_DEADLOCK FALSE` is set where a run
of the program or of the bounded machine really stops. A state of LifterOps or CompiledOps starts
from arbitrary values and runs one handler, so nothing is lost by stopping there.

Fairness: `WF_vars(Next)` for lifter and compiler and `WF_vars(Step)` for the driver. Each is a
sequential program in one thread, whose next step is always enabled until it returns; the scheduler
of the operating system runs it. Starting the program, killing it and rebuilding the input have no
fairness. The emulator and the optimizer are assumed to return.

## What does not hold

Each has a run whose trace shows it.

* `--overwrite` is never read; `.vtil` files of an older binary are used (devirt_overwrite).
* A register jump with two destinations falls into the first destination's code before it compares
  with the second (compiler_jump). With one destination per jump, `RunsTheRoutine` holds.
* nand and nor push flags and no result; shl and shr assign SF twice and ZF never; imul pushes no flags
  (ops_flags).
* A compiled test sets the opposite condition, and all flags are one register (code_flags).

Seen while modelling, in the model as the code has it, but stated as no property:

* Driver: the result of `compile()` is not looked at, so a routine that makes no code is still patched and
  its jump leads to whatever follows (`SitesJumpToOwnCode` asks for the others). `--out` is never read. A run that
  finds no VM entry replaces the output all the same. With `--overwrite` complete `.vtil` files are kept as they are
  without it; `ValidCacheIsKept` is about runs without it, where that is meant.
* Output: `size_image` and the new section's characteristics, see PeLayout above. There may be no room for the
  header (the TODO at `:179`); `LayoutAssumption` asks for it.
* Handlers: `lifter_imul` takes the high word of a product with the low word of that product, as the
  source register is overwritten between. nand and nor take ZF from a copy of an operand, and shld and shrd leave
  CF undefined (`:245`, `:271`); `BitwiseMatchesX86` and `DoubleShiftMatchesX86` do not claim these flags.
* Compiler: brol and bror rotate the destination by itself; `ifs` clears its destination before it reads
  its operands (`Kept` asks that they differ) and aborts on an immediate condition; a test with an
  immediate first operand compares the other way round (`:556`); `mov` takes any register with the
  `local_id` of CR0 or DR7 for it (`Clear`). Bit selectors are not handled (the TODO at `:91`): a write to one view of
  a register misses the views of a virtual one and destroys those of a physical one (`Alone`), and a view of higher
  bits of a physical register is read as its low bits (`Low`).
* Parser: an option name with a dash inside ends at the dash, though `cli-parser.hpp:70-72` says it is
  allowed, so that `--bin-x=1` gives `x=1` to `--bin`; `ValuesReachTheirNames` exempts lines with such names. Values before any option are dropped; a repeated option keeps the values of both; the test for a
  missing positional argument compares `argc` with the position off by one (`:387`).
* Mapping: the walk over the relocations does not look at the directory's size. Where no empty block follows the
  directory, or where there is none and the walk starts at the DOS header, it relocates what no directory names,
  wherever that is. The instance has both; `Terminated` exempts them.

`ComputesVtil` is restricted to `Kept(i)`: an instruction whose low bits depend on no high bits, which writes a
view that shares nothing with another (`Alone`) and reads low bits (`Low`). The rest (a narrow right shift, a
widening move, tests, rotations) may differ because `reg_for_size` gives every register 64 bits and `get_reg`
looks at no bit selector, as their TODOs say.

## Proofs

All hold for every value of the constants, under the named assumptions of the modules.

* `VmLifterProofs`: `TypeCorrect`, `PrologueTheorem`, `LookupTheorem`, for every module base, image
  base, set of blocks and of instructions (`LifterAssumption`: rvas are smaller than the image base).
  The invariant `IInv` adds to the type invariant that a lifting call's map is `UnexploredOf`, that a
  traced routine that was emulated is closed under branches, that every link leads to an image-based
  address and that no block known by one holds a prologue. `PrologueRunsOnce` alone is not inductive:
  it says nothing of a block that has no link to it yet. There is one lemma per action (`LiftPreserves`,
  `LiftHandlerPreserves`, `ForkPreserves`, `ResumePreserves`, `PopPreserves`); `Fork` serves both branches.
* `VmLifterProofs`, second half: `FilledTheorem`, `CompleteTheorem`, `RecursionTheorem` and `CopyTheorem`, under the
  same assumption. `CopyInv` says that no two active calls fill the same VTIL block, how far each call on
  the stack has filled its own (`FrameOK`), and that every block no call is active in is complete (`Done`).
  From `Distinct` the depth is bounded by counting blocks; from `Done`, with an empty stack, the routine is
  complete; and the refinement of CfgCopy needs `Done` to see a returned call as one finished node.
  `ProgressTheorem` (`LiftAdvances`) is the safety half of termination: every step lowers the pair of `Stage`
  (ready, lifting, failing, ended) and `ToDo`, which while lifting is the size of `Left`, what is still to be done of
  all blocks the routine can have. A call is as far as its instruction and its branches say (`Reached`), a block without
  a call is untouched or finished (`Position`), and as no two calls share a block (`Distinct`) a step moves one
  position only (`LeftShrinks`). While failing, `ToDo` is the depth of the stack.
* `LifterOpsProofs`: `AddTheorem` (`Half` any positive number: carry and overflow as exact sums; `CutSum` and
  `SignTest` are the arithmetic, `AddStep` the handler), `DoubleShiftTheorem` and `BitwiseTheorem`, for words of
  every width and shift counts of every width (`DoubleShiftTheorem`: result, ZF and SF, for counts below the
  width; `BitwiseTheorem`: all of and and or, SF of nand and nor). The last two speak of single bits of what the handlers
  compute on numbers, so the module first proves what numbers and their bits have to do with each other:
  `Doubled` and `Pow2Step` (a set of n + 1 bits is a set of n bits, with the last one or without, counted with
  FiniteSetTheorems), `Pow2Sum` and `Pow2Divides`; that a word is its high part times a power and its low part
  (`DivDiv`, `BitLow`, `BitHigh`); that every set of bits is the bits of one word and of no other (`BitsExist`,
  `BitsUnique`), which makes `FromBits` well defined; that an or of words without a common bit is their sum
  (`OrDisjoint`, `Joined`); and which bits a shift moves where (`ShiftedIn`, `ShiftedOut`). shld and shrd then come down
  to a case on the count: 0, where the other shift goes by the whole width, or more.
* `CompiledOpsProofs`: `ComputesTheorem`, for any views of any registers, physical or virtual, of any offsets and
  sizes up to `Full` bits, any memory and any instructions (`SizeAssumption`: `Full` is a power of two, control
  registers have their own `local_id`; `InstrAssumption`: the operands that the handlers look at are there, and a
  number is no register; `EntryAssumption`: an x86 register holds a word). The lemmas about words come from `Words`,
  an instance of LifterOpsProofs at width 1: they are about VtilWords for every width, and `WordsApply` proves the
  instance's own assumptions. `ComputesTheorem` has one lemma per handler, and `SetStep` for what they share: a
  write to a view that is alone (`Alone`) changes no other view, in the code and in VTIL. In these lemmas the low
  bits of a sum, a product, a difference, an and, a left shift of x86's words are the sum, product and so on of the
  low bits (`CutArithmetic`, `CutBitwise`, `CutCut`), and where a low bit would come from a high one, `Kept` asks
  for whole registers, of which low bits are all bits.
* `VirtualContextProofs`: `RestoredTheorem`, for every set of registers and push order
  (`ContextAssumption`: no register is pushed twice, and the VM stack has room for the prologue);
  `ContextTheorem`, the refinement of VmContext, and `TypeTheorem`, for registers of any size, a context, a
  memory and a VM stack of any size. `OffsetFacts`, `RangeFacts` and `InRange` are the arithmetic of
  `make_virtual_register`: a range that the assertion lets pass lies within one register, and the bytes of two
  ranges meet exactly where their bits do. `TypeTheorem` needs `Bounded`, that only the return address is on the
  stack before the prologue. Assumed: that addresses and what memory holds are words (`WordAssumption`), and that
  VMENTER pushes registers of classes the table has (`PushedAssumption`). `TableTheorem` compares the whole table
  with Zydis's enumeration: parts that map rows to rows can be appended (`MapsBoth`), however the two lists are
  bracketed (`MapsPart`); it is why the push order, CR0 and DR7 are the registers that are meant.
* `VmDevirtProofs`: `TypeTheorem`, `JumpsTheorem`, `CachesTheorem`, `CachesKeptTheorem`, `OutputTheorem`,
  for any number of VM entries, none included, versions, runs, kills and code sizes (`DevirtAssumption`: the
  entries differ). The invariant says how far the round has come and what that means for the two files (`Round`),
  and what every finished round left (`Rounds`). `Round` is what makes the two file properties inductive:
  a file is written only where the round found none, so `ValidCacheIsKept` and `OptimizedHasPremature` need
  to know at "save_premature" what "load_optimized" saw. `SitesJumpToOwnCode` needs `Home`, that a jump
  that was written leads to its code as soon as that code is there. One lemma per action.
  `ProgressTheorem` (`RunAdvances`) and `DeliveryTheorem` (`GoodRunEndsWell`) are the safety halves of `RunEnds` and
  `GoodRunDelivers`: each step of a process lowers `Left`, at most twelve steps for each entry that is left and
  three for the output, whatever the cache files hold and whatever fails (a file is written in two steps, so `Rank`
  asks whether it is torn); and a run whose routines the tools handle ends with its output written, killed, or over a
  torn optimized file, whose exception `main()` may not catch.
* `VtilCompileProofs`: `TypeTheorem`, `CompiledOnceTheorem`, `PendingTheorem`, `RunsTheorem`, `CopyTheorem`, for routines
  with any finite set of blocks (`CompileAssumption`). `StackOK` says that only the innermost call is of a
  block that has no code yet; `CodeOK` that a block's label, body and jumps follow each other; `Pending`
  that every label without code is ahead of an active call. `PendingIsAhead` itself is not inductive: the
  loop of a register jump asks for the label of the successor it is at, not of the later ones, and a call
  that returned could otherwise have left one behind; `AheadIn` narrows it. When compilation has ended the
  stack is empty, so `Pending` says that all labels are bound, and from there `OnCourse` follows the code
  and the routine step by step. `RunsTheorem` covers routines whose register jumps have one destination;
  `compiler_jump` shows why it must. `CopyTheorem` is the refinement of CfgCopy; `LoopOK`, that no loop over
  successors goes past the last, is what it needs beyond the others. `ProgressTheorem` (`CompileAdvances`) is the
  safety half of termination, with the same argument the other way round: `Work`, what has been done of each block,
  grows with every step, and `Limit` things per block are all there is to do. `ReachTheorem` (`RunGetsOn`) is the
  safety half of `GoalIsReached`: wherever the running code is not at the block the routine goes to, its next step
  keeps that goal and lowers `Hops`, at most three nodes. It is under `OneTarget`, as `RunsTheorem` is.
* `PeLayoutProofs`: `MapTypeTheorem` (memory safety of the copies, and of the relocations of a terminated
  directory), `RawDataTheorem`, `OldBytesTheorem`, `MappedTheorem`, `JumpsTheorem`, `RelocationTheorem` and
  `PatchedTheorem`. As mapping leaves PeLayout's variables alone and is followed by PeLayout's steps
  (`MapRefinesLayout`), what is proved of PeLayout holds of the composition. Assumed: what the PE format asks of
  headers and of relocation directories, and room for one more section header (`LayoutAssumption`,
  `ImageAssumption`), alignments that are powers of two (`AlignmentAssumption`), for `JumpsTheorem` that the VM
  entries share no bytes (`EntriesApart`) and that all is within the 2 GB of a jump (`InReach`), for
  `RelocationTheorem` that the directory names no pointer twice and has no empty block of its own
  (`RelocationsApart`), and for `PatchedTheorem` that no two sections are copied to the same addresses
  (`SectionsApart`); the instance satisfies all of them. `RelocatedOnce` itself asks for `Terminated`, that an empty
  block follows the directory. `WalkInv` counts which pointers were moved: those of the blocks in front of the one
  the walk is at; that the walk stops at blocks of the directory and at its end, and nowhere else, is `MapInv`.
  `ImageInv` says that a section that was copied stays as it is. `Division`, `Remainder`, `AlignFacts`, `AlignedSum`
  and `SignedFacts` are the arithmetic of masks and of 32-bit displacements. `LInv` carries `OldBytesAreKept`
  through the patches; `CountIsKept`, that the count of sections stays one higher, as no patch of a section's raw
  data touches it; `JumpInv` says that the jump of each patched entry holds the offset `start` at which the entry's
  code starts, whichever entries come after, and is what turns an offset that is stored before the code exists into
  `JumpsReachTheirCode`.
* `ArgParserProofs`: `CountsTheorem`, `ValuesTheorem` and `TypeTheorem`, for every parser and command line (`ParserAssumption`). The
  invariant says that no argument holds more values than its count, and that one that was found and is
  no longer open holds exactly as many; the accepted line has no open argument. For the values, `VInv` says that
  the open argument is the one the elements read so far belong to (`CurrentOK`), and that no name belongs to two.
  `ValuesTheorem` is, like its property, about lines without dashed names. `TypeTheorem` adds `TInv`, that values come from the line and that a group of letters leaves nothing open; that
  the index stays within the line while a group is read needs `GroupOK` of `VInv`. `ProgressTheorem` (`ReadsOn`): the parse
  ends on every command line, as each step turns to the next loop, or does one element or one letter of a group.

Every invariant and every safety property of a step that a passing run checks is proved. Only model-checked:
liveness (`LiftReturns`, `RunEnds`, `GoodRunDelivers`, `CompileEnds`, `GoalIsReached`), as fairness and ENABLED are out of
the prover's reach. The hard half of each is proved: that neither recursion goes on for ever (`LiftAdvances`,
`CompileAdvances`), that a run of the driver has a bounded number of steps (`RunAdvances`) and how it may end
(`GoodRunEndsWell`), and that compiled code is not caught among its jumps (`RunGetsOn`). That there is a next step until
the end, and that it is taken, is left to TLC.
The induction theorems of the library take an operator as a parameter, which the provers cannot instantiate: an induction over numbers is made with a set instead (`SetInduction` of LifterOpsProofs: a set
with 0 and the successor of each member has every number, as the least one missing would have a predecessor).
No module has a RECURSIVE operator.

## Not modelled

* The build files. The emulator, VTIL-Core, the optimizer and asmjit are submodules that are not in the
  tree; what they return is chosen freely.
* `print_help` and the stream conversions of `get<T>`, which keep no state. `Start` of VmDevirt stands for
  the parser's result: what `main()` reads of it is `--help`, `--bin` and `--vmentry`.
* `vemit`, which embeds a byte of foreign machine code, and the image base as an operand.
* The `.txt` dumps of `devirtualize`, which nothing reads.
* What Windows asks of an image besides its section headers (see PeLayout), and a header that finds no room.
* What is read behind a relocation directory is any block or none; bytes that the walk itself relocated while they
  are read as blocks are not followed.
* The registers that asmjit's allocator chooses for virtual ones: each is one of its own.
* VTIL operand sizes that differ within one instruction other than as CompiledOps has them.
* Virtual-register bits that no SREG wrote are 0 in VirtualContext; nothing depends on their value.

## Plan

Done in this order: VmLifter and its proofs, VmDevirt, PeLayout, VtilCompile, LifterOps, CompiledOps,
VirtualContext; then the VM stack as memory, ZyregToRegister, ImageMap, ArgParser, and the proofs about
driver, compiler, layout and parser; then the words of every width, and with them the proofs about the
handlers of the lifter and of the compiler, the register table, the remaining type invariants, and the
variants by which the recursions of the lifter and of the compiler, the runs of the driver and of the compiled code,
and the parse come to an end. Left:

1. Flags through the compiled code of a whole handler: lifter_add compiled, with `js` on the result. As it is, all
   flags share one register (code_flags), so that there is nothing to prove before the code tells them apart.
