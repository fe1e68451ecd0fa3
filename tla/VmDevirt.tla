------------------------------ MODULE VmDevirt ------------------------------
(***************************************************************************)
(* main() and devirtualize() of src/src/vmdevirt-vtil.cpp: one process     *)
(* takes the virtualized routines of a binary in turn, keeps the VTIL of   *)
(* each in two files (premature and optimized) that later runs load        *)
(* instead of lifting again, patches the VM entry of each with a jump, and *)
(* when all are done writes the devirtualized binary.                      *)
(*                                                                         *)
(* The process can be killed between any two steps; the files stay.  Where *)
(* the steps lead depends on `fate', what the tools the program calls make *)
(* of each routine.  The layout of the written file is PeLayout's part:    *)
(* here the code is the sequence of its bytes, each known by its routine.  *)
(***************************************************************************)
EXTENDS Integers, Sequences, FiniteSets

CONSTANTS
    VmEntries,    \* the VM entries that get_vm_entries locates, in its order
    CodeSize,     \* how many bytes the code of a routine may have
    MaxVersion,   \* bound: versions of the input binary
    MaxRuns,      \* bound: times the program is started
    MaxKills      \* bound: times it is killed

ASSUME DevirtAssumption ==
    /\ VmEntries \in Seq(Nat)
    /\ \A i, j \in DOMAIN VmEntries : VmEntries[i] = VmEntries[j] => i = j
    /\ CodeSize \subseteq Nat \ {0}
    /\ MaxVersion \in Nat \ {0} /\ MaxRuns \in Nat /\ MaxKills \in Nat

VARIABLES
    bin,        \* version of the binary at --bin
    fate,       \* what becomes of each routine on its way
    premFile, optFile, outFile,    \* the files next to the binary
    pc,         \* where main() is, "off" when no process runs
    args,       \* [entries, overwrite] of the command line
    cur,        \* index of the loop over vm_entry_rvas
    prem, opt,  \* the routine in memory
    site,       \* module_data at each VM entry: the offset jumped to
    assembly,   \* the compiled code
    exit,       \* how the last process ended
    runs, kills

disk == <<premFile, optFile, outFile>>
process == <<pc, args, cur, prem, opt, site, assembly, exit>>
world == <<bin, fate>>
bounds == <<runs, kills>>
vars == <<bin, fate, premFile, optFile, outFile, pc, args, cur, prem, opt, site,
          assembly, exit, runs, kills>>

-----------------------------------------------------------------------------
Entry == {VmEntries[i] : i \in DOMAIN VmEntries}

\* What can become of a routine: vmctx_t or emu_t do not initialise, emulate()
\* or lift() return false, no section holds the entry, compile() returns false
\* or meets an instruction it has no handler for, or all goes well.
Fate == {"no_init", "no_emulation", "no_lift", "no_section", "no_code", "no_handler", "ok"}

\* A routine, as far as anyone can tell: the version of the binary it was
\* lifted from and whether all of its blocks had been traced.
Routine == [version : 1..MaxVersion, whole : BOOLEAN]
NoRoutine == [version |-> 0, whole |-> FALSE]
Unpatched == -1

\* A .vtil file: not there, cut short while it was written, or complete.
Absent == [state |-> "absent", routine |-> NoRoutine]
Torn == [state |-> "torn", routine |-> NoRoutine]
Saved(routine) == [state |-> "saved", routine |-> routine]
VtilFile == {Absent, Torn} \cup {Saved(r) : r \in Routine}

\* The devirtualized binary, with the loop's results it was written from.
NoOutput == [state |-> "absent", entries |-> <<>>, site |-> <<>>, code |-> <<>>]
TornOutput == [NoOutput EXCEPT !.state = "torn"]
Output == [state |-> "written", entries |-> args.entries, site |-> site, code |-> assembly]

vm_entry_rva == args.entries[cur]
Unmodified == [entry \in Entry |-> Unpatched]

Idle ==
    /\ args' = [entries |-> <<>>, overwrite |-> FALSE]
    /\ cur' = 0
    /\ prem' = NoRoutine /\ opt' = NoRoutine
    /\ site' = Unmodified
    /\ assembly' = <<>>

\* The process ends, and its memory with it.
End(how) == pc' = "off" /\ exit' = how /\ Idle
Goto(label) == pc' = label /\ UNCHANGED <<args, cur, exit>>

Init ==
    /\ bin = 1
    /\ fate \in [Entry -> Fate]
    /\ premFile = [entry \in Entry |-> Absent]
    /\ optFile = [entry \in Entry |-> Absent]
    /\ outFile = NoOutput
    /\ pc = "off" /\ exit = "none"
    /\ args = [entries |-> <<>>, overwrite |-> FALSE]
    /\ cur = 0
    /\ prem = NoRoutine /\ opt = NoRoutine
    /\ site = Unmodified
    /\ assembly = <<>>
    /\ runs = 0 /\ kills = 0

-----------------------------------------------------------------------------
\* The user's part: a new version of the binary, and starting the program on
\* one VM entry (--vmentry) or on all that are located.
Runs == {VmEntries} \cup {<<entry>> : entry \in Entry}
Rebuild ==
    /\ pc = "off" /\ bin < MaxVersion
    /\ bin' = bin + 1
    /\ UNCHANGED <<fate, disk, process, bounds>>

\* get_vm_entries may find none; then there is no loop, but an output.
Start ==
    /\ pc = "off" /\ runs < MaxRuns
    /\ \E entries \in Runs \cup {<<>>}, overwrite \in BOOLEAN :
         /\ args' = [entries |-> entries, overwrite |-> overwrite]
         /\ pc' = IF entries = <<>> THEN "remove" ELSE "load_optimized"
    /\ cur' = 1
    /\ exit' = "running"
    /\ runs' = runs + 1
    /\ UNCHANGED <<world, disk, prem, opt, site, assembly, kills>>

Kill ==
    /\ pc # "off" /\ kills < MaxKills
    /\ kills' = kills + 1
    /\ End("killed")
    /\ UNCHANGED <<world, disk, runs>>

-----------------------------------------------------------------------------
\* load_routine throws unless the file is complete.  For the optimized file
\* only a std::exception is caught; anything else ends the process.
UsableNever(file) == FALSE
Usable(file) == file.state = "saved"
LoadOptimized ==
    /\ pc = "load_optimized"
    /\ LET file == optFile[vm_entry_rva] IN
       \/ /\ Usable(file)
          /\ opt' = file.routine
          /\ Goto("find_section")
          /\ UNCHANGED <<prem, site, assembly>>
       \/ /\ ~ Usable(file)
          /\ Goto("load_premature")
          /\ UNCHANGED <<prem, opt, site, assembly>>
       \/ file.state = "torn" /\ End("aborted")
    /\ UNCHANGED <<world, disk, bounds>>

\* For the premature file whatever is thrown leads to devirtualize().
RetryIfTorn(file) == IF file.state = "torn" THEN "load_premature" ELSE "devirtualize"
LiftInstead(file) == "devirtualize"
LoadPremature ==
    /\ pc = "load_premature"
    /\ LET file == premFile[vm_entry_rva] IN
       \/ /\ file.state = "saved"
          /\ prem' = file.routine
          /\ Goto("find_section")
       \/ /\ file.state # "saved"
          /\ Goto(LiftInstead(file))
          /\ UNCHANGED prem
    /\ UNCHANGED <<opt, site, assembly, world, disk, bounds>>

\* devirtualize(): a failed init or lift is a null pointer and ends the
\* program; a failed emulate() is only reported, and what was traced is
\* lifted: to a routine that is not whole, or to nothing, or (VmLifter's
\* undefined look-up) to a crash.
Lifted(outcome) ==
    CASE outcome \in {"no_init", "no_lift"} -> {NoRoutine}
      [] outcome = "no_emulation" -> {NoRoutine, [version |-> bin, whole |-> FALSE]}
      [] OTHER -> {[version |-> bin, whole |-> TRUE]}
NeverNull(routine) == FALSE
Null(routine) == routine = NoRoutine
Devirtualize ==
    /\ pc = "devirtualize"
    /\ \/ \E routine \in Lifted(fate[vm_entry_rva]) :
          \/ Null(routine) /\ End("failed")
          \/ /\ ~ Null(routine)
             /\ prem' = routine
             /\ Goto("save_premature")
             /\ UNCHANGED <<opt, site, assembly>>
       \/ fate[vm_entry_rva] = "no_emulation" /\ End("aborted")
    /\ UNCHANGED <<world, disk, bounds>>

\* save_routine writes the file in place: it is torn before it is complete.
SavePrematureSkipped ==
    /\ pc = "save_premature"
    /\ Goto("find_section")
    /\ UNCHANGED <<prem, opt, site, assembly, world, disk, bounds>>
SavePremature ==
    /\ pc = "save_premature"
    /\ LET file == premFile[vm_entry_rva] IN
       \/ /\ file # Torn
          /\ premFile' = [premFile EXCEPT ![vm_entry_rva] = Torn]
          /\ UNCHANGED <<pc, args, cur, exit>>
       \/ /\ file = Torn
          /\ premFile' = [premFile EXCEPT ![vm_entry_rva] = Saved(prem)]
          /\ Goto("find_section")
    /\ UNCHANGED <<prem, opt, site, assembly, world, optFile, outFile, bounds>>

\* The section of the binary that holds the VM entry.
FindSectionBreaks ==
    /\ pc = "find_section"
    /\ Goto(IF fate[vm_entry_rva] = "no_section" THEN "remove" ELSE "patch")
    /\ UNCHANGED <<prem, opt, site, assembly, world, disk, bounds>>
FindSection ==
    /\ pc = "find_section"
    /\ \/ fate[vm_entry_rva] = "no_section" /\ End("failed")
       \/ /\ fate[vm_entry_rva] # "no_section"
          /\ Goto("patch")
          /\ UNCHANGED <<prem, opt, site, assembly>>
    /\ UNCHANGED <<world, disk, bounds>>

\* The VM entry becomes a jump to the end of the code compiled so far.
JumpToStart == 0
JumpToEnd == Len(assembly)
Patch ==
    /\ pc = "patch"
    /\ site' = [site EXCEPT ![vm_entry_rva] = JumpToEnd]
    /\ Goto(IF opt = NoRoutine THEN "optimize" ELSE "compile")
    /\ UNCHANGED <<prem, opt, assembly, world, disk, bounds>>

\* opt = prem->clone(), optimized in place, then saved like the premature one.
Optimize ==
    /\ pc = "optimize"
    /\ opt' = prem
    /\ Goto("save_optimized")
    /\ UNCHANGED <<prem, site, assembly, world, disk, bounds>>

SaveOptimized ==
    /\ pc = "save_optimized"
    /\ LET file == optFile[vm_entry_rva] IN
       \/ /\ file # Torn
          /\ optFile' = [optFile EXCEPT ![vm_entry_rva] = Torn]
          /\ UNCHANGED <<pc, args, cur, exit>>
       \/ /\ file = Torn
          /\ optFile' = [optFile EXCEPT ![vm_entry_rva] = Saved(opt)]
          /\ Goto("compile")
    /\ UNCHANGED <<prem, opt, site, assembly, world, premFile, outFile, bounds>>

\* compile(opt, assembly): false leaves the code as it was and nobody looks at
\* the result; an instruction without a handler is exit(1).
Compile ==
    /\ pc = "compile"
    /\ LET outcome == fate[vm_entry_rva] IN
       \/ outcome = "no_handler" /\ End("failed")
       \/ /\ outcome # "no_handler"
          /\ \/ outcome = "no_code" /\ UNCHANGED assembly
             \/ /\ outcome # "no_code"
                /\ \E size \in CodeSize : assembly' = assembly \o
                     [i \in 1..size |-> [entry |-> vm_entry_rva, at |-> i - 1, routine |-> opt]]
          /\ Goto("next_entry")
          /\ UNCHANGED <<prem, opt, site>>
    /\ UNCHANGED <<world, disk, bounds>>

\* delete prem; delete opt; and the next VM entry, if there is one.
NextEntry ==
    /\ pc = "next_entry"
    /\ prem' = NoRoutine /\ opt' = NoRoutine
    /\ \/ cur < Len(args.entries) /\ cur' = cur + 1 /\ pc' = "load_optimized"
       \/ cur = Len(args.entries) /\ cur' = cur /\ pc' = "remove"
    /\ UNCHANGED <<args, exit, site, assembly, world, disk, bounds>>

\* fs::remove of the old output, then the new one is opened and written.
RemoveOutput ==
    /\ pc = "remove"
    /\ outFile' = NoOutput
    /\ Goto("write")
    /\ UNCHANGED <<prem, opt, site, assembly, world, premFile, optFile, bounds>>

WriteOutput ==
    /\ pc = "write"
    /\ \/ /\ outFile = NoOutput
          /\ outFile' = TornOutput
          /\ UNCHANGED process
       \/ /\ outFile = TornOutput
          /\ outFile' = Output
          /\ End("done")
    /\ UNCHANGED <<world, premFile, optFile, bounds>>

Step ==
    \/ LoadOptimized \/ LoadPremature \/ Devirtualize \/ SavePremature
    \/ FindSection \/ Patch \/ Optimize \/ SaveOptimized \/ Compile
    \/ NextEntry \/ RemoveOutput \/ WriteOutput
Next == Step \/ Start \/ Rebuild \/ Kill

Spec == Init /\ [][Next]_vars
\* A process that is not killed goes on; nobody has to start or to kill it.
FairSpec == Spec /\ WF_vars(Step)

-----------------------------------------------------------------------------
\* The type invariant.  Where the code dereferences a routine (prem->clone(),
\* compile(opt)), the pointer is not null.
TypeOK ==
    /\ bin \in 1..MaxVersion /\ fate \in [Entry -> Fate]
    /\ premFile \in [Entry -> VtilFile] /\ optFile \in [Entry -> VtilFile]
    /\ outFile.state \in {"absent", "torn", "written"}
    /\ prem \in Routine \cup {NoRoutine} /\ opt \in Routine \cup {NoRoutine}
    /\ site \in [Entry -> Nat \cup {Unpatched}]
    /\ \A i \in DOMAIN assembly : assembly[i].routine \in Routine
    /\ exit \in {"none", "running", "done", "failed", "aborted", "killed"}
    /\ pc = "off" <=> exit # "running"
    /\ pc \notin {"off", "remove", "write"} => cur \in DOMAIN args.entries
    /\ pc \in {"save_premature", "optimize"} => prem \in Routine
    /\ pc \in {"save_optimized", "compile"} => opt \in Routine
    /\ pc \in {"find_section", "patch"} => {prem, opt} \cap Routine # {}

\* The VM entries a written binary was patched for, in the order of the loop.
Patched == {outFile.entries[i] : i \in DOMAIN outFile.entries}
LandsOn(entry, byte) == byte.entry = entry /\ byte.at = 0
JumpsHome(entry) ==
    /\ outFile.site[entry] + 1 \in DOMAIN outFile.code
    /\ LandsOn(entry, outFile.code[outFile.site[entry] + 1])

\* In the binary that is written, the jump that replaces a VM entry leads to
\* the first byte of the code compiled from that entry's routine, although
\* the offset is stored before the code exists and the entries before it may
\* have been cached, lifted or left without code (main:256-272).
SitesJumpToOwnCode ==
    outFile.state = "written" =>
        \A entry \in Patched : fate[entry] # "no_code" => JumpsHome(entry)

\* Of the two caches the optimized one is the later: a complete optimized
\* file has a complete premature file of the same routine beside it, also
\* after a crash between or during the writes (main:236, :265-270).
OptimizedHasPremature ==
    \A entry \in Entry : optFile[entry].state = "saved" =>
        premFile[entry] = Saved(optFile[entry].routine)

\* In a run without --overwrite a complete cache file is never written again:
\* no crash, no failing step and no new version of the binary loses it
\* (main:217-238).  With the option the files should be overwritten; that
\* they are not is OverwriteIsHonoured's part.
ValidCacheIsKept ==
    [][~ args.overwrite => \A entry \in Entry :
          /\ premFile[entry].state = "saved" => premFile'[entry] = premFile[entry]
          /\ optFile[entry].state = "saved" => optFile'[entry] = optFile[entry]]_vars

\* The previous output is not touched before every routine of the run has
\* been lifted, cached, and its VM entry patched: a run that fails on the last
\* routine still leaves the old output alone (main:203-293).
OutputAwaitsEveryRoutine ==
    [][outFile' # outFile =>
          \A i \in DOMAIN args.entries :
             /\ site[args.entries[i]] # Unpatched
             /\ optFile[args.entries[i]].state = "saved"]_vars

\* A run ends, whatever fails on the way.
RunEnds == (pc # "off") ~> (pc = "off")

\* When the tools handle every routine, a run that is not killed writes its
\* output, also when earlier runs were cut short while they wrote a cache
\* file; only an exception that main does not catch can stop it.
GoodRunDelivers ==
    \A entries \in Runs :
        (pc = "load_optimized" /\ args.entries = entries /\ \A entry \in Entry : fate[entry] = "ok")
            ~> \/ exit = "done" /\ outFile.state = "written" /\ outFile.entries = entries
               \/ exit \in {"killed", "aborted"}

-----------------------------------------------------------------------------
\* main's own description of --overwrite (main:83-86): it "deletes and
\* overwrites existing .vtil files...", so that a run with it takes no routine
\* of an older binary from them.
OverwriteIsHonoured ==
    args.overwrite => \A i \in DOMAIN assembly : assembly[i].routine.version = bin
=============================================================================
