--------------------------- MODULE VmDevirtProofs ---------------------------
(***************************************************************************)
(* For any number of VM entries, versions, runs and kills: the cache files *)
(* agree and are kept, the output waits for every routine, and its jumps   *)
(* lead to their code.                                                     *)
(***************************************************************************)
EXTENDS VmDevirt, TLAPS

Byte == [entry : Entry, at : Nat, routine : Routine]
Labels ==
    {"off", "load_optimized", "load_premature", "devirtualize", "save_premature", "find_section",
     "patch", "optimize", "save_optimized", "compile", "next_entry", "remove", "write"}

\* What the proofs need of the types.
Types ==
    /\ bin \in 1..MaxVersion /\ fate \in [Entry -> Fate]
    /\ premFile \in [Entry -> VtilFile] /\ optFile \in [Entry -> VtilFile]
    /\ prem \in Routine \cup {NoRoutine} /\ opt \in Routine \cup {NoRoutine}
    /\ site \in [Entry -> Nat \cup {Unpatched}]
    /\ assembly \in Seq(Byte)
    /\ pc \in Labels
    /\ args.entries \in Seq(Entry)
    /\ \A i, j \in DOMAIN args.entries : args.entries[i] = args.entries[j] => i = j
    /\ pc # "off" => cur \in Nat
    /\ pc \notin {"off", "remove", "write"} => cur \in DOMAIN args.entries

\* How far the routine of this round has come, and its files.
Cached == optFile[vm_entry_rva].state = "saved"
HasPremature(routine) ==
    routine \in Routine /\ premFile[vm_entry_rva] = Saved(routine) /\ ~Cached
Round ==
    /\ pc \in {"off", "load_optimized", "load_premature", "devirtualize", "save_premature"} =>
           opt = NoRoutine
    /\ pc \in {"load_premature", "devirtualize", "save_premature"} => ~Cached
    /\ pc \in {"devirtualize", "save_premature"} => premFile[vm_entry_rva].state # "saved"
    /\ pc = "save_premature" => prem \in Routine
    /\ pc \in {"find_section", "patch"} =>
           (opt \in Routine /\ Cached) \/ (opt = NoRoutine /\ HasPremature(prem))
    /\ pc = "optimize" => HasPremature(prem)
    /\ pc = "save_optimized" => HasPremature(opt)
    /\ pc = "compile" => opt \in Routine /\ Cached
    /\ pc \in {"optimize", "save_optimized", "compile"} => site[vm_entry_rva] = Len(assembly)

\* The entries of the rounds before.
Finished == {"next_entry", "remove", "write"}
Home(entry) ==
    fate[entry] # "no_code" =>
        site[entry] + 1 \in DOMAIN assembly /\ LandsOn(entry, assembly[site[entry] + 1])
Done(entry) ==
    site[entry] \in Nat /\ optFile[entry].state = "saved" /\ Home(entry)
Rounds ==
    /\ pc # "off" =>
         \A i \in DOMAIN args.entries :
             i < cur \/ (i = cur /\ pc \in Finished) => Done(args.entries[i])
    /\ pc \in {"remove", "write"} => Len(args.entries) <= cur

IInv == Types /\ Round /\ Rounds /\ OptimizedHasPremature /\ SitesJumpToOwnCode

-----------------------------------------------------------------------------
LEMMA RoutineTypes ==
    /\ NoRoutine \notin Routine
    /\ \A file \in VtilFile : file.state = "saved" => file.routine \in Routine
                                                   /\ file = Saved(file.routine)
    /\ \A routine \in Routine : Saved(routine) \in VtilFile /\ Saved(routine).state = "saved"
                             /\ Saved(routine).routine = routine
    /\ Torn \in VtilFile /\ Absent \in VtilFile
    /\ Torn.state # "saved" /\ Absent.state # "saved"
<1>1. NoRoutine \notin Routine
    BY DEF Routine, NoRoutine
<1>2. \A routine \in Routine : Saved(routine) \in VtilFile /\ Saved(routine).state = "saved"
                              /\ Saved(routine).routine = routine
    BY DEF VtilFile, Saved
<1>3. Torn \in VtilFile /\ Absent \in VtilFile /\ Torn.state # "saved" /\ Absent.state # "saved"
    BY DEF VtilFile, Torn, Absent
<1>4. ASSUME NEW file \in VtilFile, file.state = "saved"
      PROVE  file.routine \in Routine /\ file = Saved(file.routine)
    <2>1. PICK routine \in Routine : file = Saved(routine)
        BY <1>3, <1>4 DEF VtilFile
    <2> QED BY <1>2, <2>1
<1> QED BY <1>1, <1>2, <1>3, <1>4

LEMMA CurrentEntry ==
    ASSUME Types, pc \notin {"off", "remove", "write"}
    PROVE  /\ vm_entry_rva \in Entry
           /\ premFile[vm_entry_rva] \in VtilFile /\ optFile[vm_entry_rva] \in VtilFile
BY DEF Types, vm_entry_rva

LEMMA InitLemma == Init => IInv
<1> SUFFICES ASSUME Init PROVE IInv
    OBVIOUS
<1>1. Types
    BY DevirtAssumption, RoutineTypes DEF Init, Types, Labels, Unmodified
<1>2. Round /\ Rounds
    BY DEF Init, Round, Rounds, Finished
<1>3. OptimizedHasPremature
    BY RoutineTypes DEF Init, OptimizedHasPremature
<1>4. SitesJumpToOwnCode
    BY DEF Init, SitesJumpToOwnCode, NoOutput
<1> QED BY <1>1, <1>2, <1>3, <1>4 DEF IInv

\* However a process ends, nothing is left of it but its files.
LEMMA EndLemma ==
    ASSUME IInv, NEW how, End(how), UNCHANGED <<world, premFile, optFile>>, SitesJumpToOwnCode'
    PROVE  IInv'
<1>1. Types'
    BY DEF IInv, Types, End, Idle, world, Labels, Unmodified
<1>2. Round' /\ Rounds'
    BY DEF Round, Rounds, End, Idle
<1>3. OptimizedHasPremature'
    BY DEF IInv, OptimizedHasPremature
<1> QED BY <1>1, <1>2, <1>3 DEF IInv

LEMMA OutputKept ==
    ASSUME IInv, UNCHANGED <<fate, outFile>>
    PROVE  SitesJumpToOwnCode'
BY DEF IInv, SitesJumpToOwnCode, Patched, JumpsHome, LandsOn

\* A step within a round leaves the entries of the rounds before alone.
LEMMA RoundsKept ==
    ASSUME IInv, UNCHANGED <<args, cur, fate>>, pc \in Labels \ (Finished \cup {"off"}),
           pc' \notin Finished,
           UNCHANGED assembly,
           \A entry \in Entry : entry # vm_entry_rva => site'[entry] = site[entry],
           \A entry \in Entry : optFile[entry].state = "saved" => optFile'[entry] = optFile[entry]
    PROVE  Rounds'
<1>1. SUFFICES ASSUME NEW i \in DOMAIN args.entries, i < cur PROVE Done(args.entries[i])'
    BY DEF Rounds, IInv, Types, Finished
<1>2. Done(args.entries[i]) /\ args.entries[i] \in Entry
    BY <1>1 DEF IInv, Types, Rounds, Finished, Labels
<1>3. args.entries[i] # vm_entry_rva
    BY <1>1 DEF IInv, Types, vm_entry_rva, Labels, Finished
<1> QED BY <1>2, <1>3 DEF Done, Home, LandsOn

-----------------------------------------------------------------------------
\* The user's steps.
LEMMA RebuildStep == IInv /\ Rebuild => IInv'
<1> SUFFICES ASSUME IInv, Rebuild PROVE IInv'
    OBVIOUS
<1>1. bin' \in 1..MaxVersion /\ UNCHANGED <<fate, disk, process>> /\ pc = "off"
    BY DevirtAssumption DEF Rebuild, IInv, Types
<1>2. Types'
    BY <1>1 DEF IInv, Types, disk, process
<1>3. Round' /\ Rounds' /\ OptimizedHasPremature'
    BY <1>1 DEF IInv, Round, Rounds, OptimizedHasPremature, disk, process
<1>4. SitesJumpToOwnCode'
    BY <1>1, OutputKept DEF disk
<1> QED BY <1>2, <1>3, <1>4 DEF IInv

LEMMA StartStep == IInv /\ Start => IInv'
<1> SUFFICES ASSUME IInv, Start PROVE IInv'
    OBVIOUS
<1>1. /\ UNCHANGED <<world, disk, prem, opt, site, assembly>>
      /\ cur' = 1 /\ pc = "off"
    BY DEF Start
<1>2. PICK entries \in Runs \cup {<<>>}, overwrite \in BOOLEAN :
          /\ args' = [entries |-> entries, overwrite |-> overwrite]
          /\ pc' = IF entries = <<>> THEN "remove" ELSE "load_optimized"
    BY DEF Start
<1>3. /\ entries \in Seq(Entry) /\ (entries # <<>> => 1 \in DOMAIN entries)
      /\ \A i, j \in DOMAIN entries : entries[i] = entries[j] => i = j
    <2>1. CASE entries = VmEntries
        <3>1. VmEntries = [i \in 1..Len(VmEntries) |-> VmEntries[i]] /\ Len(VmEntries) \in Nat
            BY DevirtAssumption
        <3>2. \A i \in 1..Len(VmEntries) : VmEntries[i] \in Entry
            BY DevirtAssumption DEF Entry
        <3>3. VmEntries \in Seq(Entry)
            BY <3>1, <3>2
        <3> QED BY <2>1, <3>1, <3>3, DevirtAssumption
    <2>2. CASE \E entry \in Entry : entries = <<entry>>
        BY <2>2
    <2>3. CASE entries = <<>>
        BY <2>3
    <2> QED BY <2>1, <2>2, <2>3 DEF Runs
<1>4. Types'
    BY <1>1, <1>2, <1>3 DEF IInv, Types, world, disk, Labels
<1>5. Round' /\ Rounds'
    BY <1>1, <1>2, <1>3 DEF IInv, Round, Rounds, Finished
<1>6. OptimizedHasPremature' /\ SitesJumpToOwnCode'
    BY <1>1, OutputKept DEF IInv, OptimizedHasPremature, disk, world
<1> QED BY <1>4, <1>5, <1>6 DEF IInv

LEMMA KillStep == IInv /\ Kill => IInv'
BY EndLemma, OutputKept DEF Kill, disk, world

-----------------------------------------------------------------------------
\* The steps of the loop that write no file.
LEMMA NoFileLemma ==
    ASSUME IInv, UNCHANGED <<world, disk>>, Types', Round', Rounds'
    PROVE  IInv'
<1>1. OptimizedHasPremature'
    BY DEF IInv, OptimizedHasPremature, disk
<1> QED BY <1>1, OutputKept DEF IInv, world, disk

LEMMA LoadOptimizedStep == IInv /\ LoadOptimized => IInv'
<1> SUFFICES ASSUME IInv, LoadOptimized PROVE IInv'
    OBVIOUS
<1> DEFINE file == optFile[vm_entry_rva]
<1>1. UNCHANGED <<world, disk>> /\ pc = "load_optimized"
    BY DEF LoadOptimized
<1>2. CASE End("aborted")
    BY <1>1, <1>2, EndLemma, OutputKept DEF disk, world
<1>3. CASE file.state = "saved" /\ opt' = file.routine /\ Goto("find_section")
           /\ UNCHANGED <<prem, site, assembly>>
    <2>1. opt' \in Routine /\ pc' = "find_section" /\ UNCHANGED <<args, cur>>
        BY <1>1, <1>3, CurrentEntry, RoutineTypes DEF IInv, Goto
    <2>2. Types'
        BY <1>1, <1>3, <2>1 DEF IInv, Types, world, disk, Labels
    <2>3. Round'
        BY <1>1, <1>3, <2>1 DEF Round, Cached, vm_entry_rva, disk
    <2>4. Rounds'
        BY <1>1, <1>3, <2>1, RoundsKept DEF Labels, Finished, world, disk
    <2> QED BY <1>1, <2>2, <2>3, <2>4, NoFileLemma
<1>4. CASE file.state # "saved" /\ Goto("load_premature") /\ UNCHANGED <<prem, opt, site, assembly>>
    <2>1. pc' = "load_premature" /\ UNCHANGED <<args, cur>>
        BY <1>4 DEF Goto
    <2>2. Types'
        BY <1>1, <1>4, <2>1 DEF IInv, Types, world, disk, Labels
    <2>3. Round'
        BY <1>1, <1>4, <2>1 DEF IInv, Round, Cached, vm_entry_rva, disk
    <2>4. Rounds'
        BY <1>1, <1>4, <2>1, RoundsKept DEF Labels, Finished, world, disk
    <2> QED BY <1>1, <2>2, <2>3, <2>4, NoFileLemma
<1> QED BY <1>2, <1>3, <1>4 DEF LoadOptimized, Usable

LEMMA LoadPrematureStep == IInv /\ LoadPremature => IInv'
<1> SUFFICES ASSUME IInv, LoadPremature PROVE IInv'
    OBVIOUS
<1> DEFINE file == premFile[vm_entry_rva]
<1>1. UNCHANGED <<world, disk, opt, site, assembly>> /\ pc = "load_premature"
    BY DEF LoadPremature
<1>2. UNCHANGED <<args, cur>> /\ pc' \in {"find_section", "devirtualize"}
    BY DEF LoadPremature, Goto, LiftInstead
<1>3. prem' \in Routine \cup {NoRoutine}
    BY <1>1, CurrentEntry, RoutineTypes DEF LoadPremature, IInv, Types
<1>4. Types'
    BY <1>1, <1>2, <1>3 DEF IInv, Types, world, disk, Labels
<1>5. Round'
    <2>1. CASE file.state = "saved" /\ prem' = file.routine /\ pc' = "find_section"
        <3>1. prem' \in Routine /\ file = Saved(prem')
            BY <1>1, <2>1, CurrentEntry, RoutineTypes DEF IInv
        <3>2. opt = NoRoutine /\ ~Cached
            BY <1>1 DEF IInv, Round
        <3>3. vm_entry_rva' = vm_entry_rva /\ Cached' = Cached
            BY <1>1, <1>2 DEF Cached, vm_entry_rva, disk
        <3>4. HasPremature(prem)'
            BY <1>1, <3>1, <3>2, <3>3 DEF HasPremature, Saved, disk
        <3> QED BY <1>1, <2>1, <3>2, <3>4 DEF Round
    <2>2. CASE file.state # "saved" /\ pc' = "devirtualize"
        BY <1>1, <1>2, <2>2 DEF IInv, Round, Cached, vm_entry_rva, disk
    <2> QED BY <2>1, <2>2 DEF LoadPremature, Goto, LiftInstead
<1>6. Rounds'
    BY <1>1, <1>2, RoundsKept DEF Labels, Finished, world, disk
<1> QED BY <1>1, <1>4, <1>5, <1>6, NoFileLemma

LEMMA DevirtualizeStep == IInv /\ Devirtualize => IInv'
<1> SUFFICES ASSUME IInv, Devirtualize PROVE IInv'
    OBVIOUS
<1>1. UNCHANGED <<world, disk>> /\ pc = "devirtualize"
    BY DEF Devirtualize
<1>2. ASSUME NEW how, End(how)
      PROVE  IInv'
    BY <1>1, <1>2, EndLemma, OutputKept DEF disk, world
<1>3. ASSUME NEW routine \in Lifted(fate[vm_entry_rva]), routine # NoRoutine, prem' = routine,
             Goto("save_premature"), UNCHANGED <<opt, site, assembly>>
      PROVE  IInv'
    <2>1. prem' \in Routine
        <3> DEFINE outcome == fate[vm_entry_rva]
        <3>1. \E whole \in BOOLEAN : routine = [version |-> bin, whole |-> whole]
            <4>1. CASE outcome \in {"no_init", "no_lift"}
                BY <1>3, <4>1 DEF Lifted
            <4>2. CASE outcome = "no_emulation"
                BY <1>3, <4>2 DEF Lifted
            <4>3. CASE outcome \notin {"no_init", "no_lift", "no_emulation"}
                BY <1>3, <4>3 DEF Lifted
            <4> QED BY <4>1, <4>2, <4>3
        <3> QED BY <1>3, <3>1 DEF Routine, IInv, Types
    <2>2. pc' = "save_premature" /\ UNCHANGED <<args, cur>>
        BY <1>3 DEF Goto
    <2>3. Types'
        BY <1>1, <1>3, <2>1, <2>2 DEF IInv, Types, world, disk, Labels
    <2>4. Round'
        BY <1>1, <1>3, <2>1, <2>2 DEF IInv, Round, Cached, vm_entry_rva, disk
    <2>5. Rounds'
        BY <1>1, <1>3, <2>2, RoundsKept DEF Labels, Finished, world, disk
    <2> QED BY <1>1, <2>3, <2>4, <2>5, NoFileLemma
<1> QED BY <1>2, <1>3 DEF Devirtualize, Null

LEMMA FindSectionStep == IInv /\ FindSection => IInv'
<1> SUFFICES ASSUME IInv, FindSection PROVE IInv'
    OBVIOUS
<1>1. UNCHANGED <<world, disk>> /\ pc = "find_section"
    BY DEF FindSection
<1>2. CASE End("failed")
    BY <1>1, <1>2, EndLemma, OutputKept DEF disk, world
<1>3. CASE Goto("patch") /\ UNCHANGED <<prem, opt, site, assembly>>
    <2>1. pc' = "patch" /\ UNCHANGED <<args, cur>>
        BY <1>3 DEF Goto
    <2>2. Types'
        BY <1>1, <1>3, <2>1 DEF IInv, Types, world, disk, Labels
    <2>3. Round'
        BY <1>1, <1>3, <2>1 DEF IInv, Round, Cached, HasPremature, vm_entry_rva, disk
    <2>4. Rounds'
        BY <1>1, <1>3, <2>1, RoundsKept DEF Labels, Finished, world, disk
    <2> QED BY <1>1, <2>2, <2>3, <2>4, NoFileLemma
<1> QED BY <1>2, <1>3 DEF FindSection

LEMMA PatchStep == IInv /\ Patch => IInv'
<1> SUFFICES ASSUME IInv, Patch PROVE IInv'
    OBVIOUS
<1>1. /\ UNCHANGED <<world, disk, prem, opt, assembly, args, cur>> /\ pc = "patch"
      /\ pc' = (IF opt = NoRoutine THEN "optimize" ELSE "compile")
      /\ site' = [site EXCEPT ![vm_entry_rva] = Len(assembly)]
    BY DEF Patch, Goto, JumpToEnd
<1>2. vm_entry_rva \in Entry /\ Len(assembly) \in Nat
    BY <1>1, CurrentEntry DEF IInv, Types, Labels
<1>3. /\ site' \in [Entry -> Nat \cup {Unpatched}] /\ site'[vm_entry_rva] = Len(assembly)
      /\ \A entry \in Entry : entry # vm_entry_rva => site'[entry] = site[entry]
    BY <1>1, <1>2 DEF IInv, Types
<1>4. Types'
    BY <1>1, <1>3 DEF IInv, Types, world, disk, Labels
<1>5. Round'
    BY <1>1, <1>3, RoutineTypes DEF IInv, Round, Cached, HasPremature, vm_entry_rva, disk
<1>6. Rounds'
    BY <1>1, <1>3, RoundsKept DEF Labels, Finished, world, disk
<1> QED BY <1>1, <1>4, <1>5, <1>6, NoFileLemma

LEMMA OptimizeStep == IInv /\ Optimize => IInv'
<1> SUFFICES ASSUME IInv, Optimize PROVE IInv'
    OBVIOUS
<1>1. /\ UNCHANGED <<world, disk, prem, site, assembly, args, cur>> /\ pc = "optimize"
      /\ pc' = "save_optimized" /\ opt' = prem
    BY DEF Optimize, Goto
<1>2. Types'
    BY <1>1 DEF IInv, Types, world, disk, Labels
<1>3. Round'
    BY <1>1 DEF IInv, Round, Cached, HasPremature, vm_entry_rva, disk
<1>4. Rounds'
    BY <1>1, RoundsKept DEF Labels, Finished, world, disk
<1> QED BY <1>1, <1>2, <1>3, <1>4, NoFileLemma

LEMMA CompileStep == IInv /\ Compile => IInv'
<1> SUFFICES ASSUME IInv, Compile PROVE IInv'
    OBVIOUS
<1>1. UNCHANGED <<world, disk>> /\ pc = "compile"
    BY DEF Compile
<1>2. CASE End("failed")
    BY <1>1, <1>2, EndLemma, OutputKept DEF disk, world
<1>3. ASSUME NEW code \in Seq(Byte), assembly' = assembly \o code,
             fate[vm_entry_rva] # "no_code" => code # <<>> /\ LandsOn(vm_entry_rva, code[1]),
             Goto("next_entry"), UNCHANGED <<prem, opt, site>>
      PROVE  IInv'
    <2>1. pc' = "next_entry" /\ UNCHANGED <<args, cur, fate, bin, optFile, premFile, site>>
        BY <1>1, <1>3 DEF Goto, world, disk
    <2>2. /\ assembly' \in Seq(Byte)
          /\ \A i \in DOMAIN assembly : i \in DOMAIN assembly' /\ assembly'[i] = assembly[i]
          /\ code # <<>> => Len(assembly) + 1 \in DOMAIN assembly'
                             /\ assembly'[Len(assembly) + 1] = code[1]
        BY <1>3 DEF IInv, Types
    <2>3. Types'
        BY <1>1, <1>3, <2>1, <2>2 DEF IInv, Types, world, disk, Labels
    <2>4. Round'
        BY <2>1 DEF Round
    <2>5. \A i \in DOMAIN args.entries : i < cur => Done(args.entries[i])'
        <3>1. SUFFICES ASSUME NEW i \in DOMAIN args.entries, i < cur PROVE Done(args.entries[i])'
            OBVIOUS
        <3>2. Done(args.entries[i])
            BY <1>1, <3>1 DEF IInv, Rounds
        <3> QED BY <2>1, <2>2, <3>2 DEF Done, Home, LandsOn
    <2>6. Done(vm_entry_rva)'
        <3>1. /\ vm_entry_rva \in Entry /\ site[vm_entry_rva] = Len(assembly)
              /\ Cached /\ Len(assembly) \in Nat
            BY <1>1, CurrentEntry DEF IInv, Round, Types
        <3> QED BY <1>3, <2>1, <2>2, <3>1 DEF Done, Home, LandsOn, Cached, vm_entry_rva
    <2>7. Rounds'
        BY <1>1, <2>1, <2>5, <2>6 DEF IInv, Types, Rounds, vm_entry_rva, Finished
    <2> QED BY <1>1, <2>3, <2>4, <2>7, NoFileLemma
<1>4. CASE UNCHANGED assembly /\ fate[vm_entry_rva] = "no_code" /\ Goto("next_entry")
           /\ UNCHANGED <<prem, opt, site>>
    <2>1. <<>> \in Seq(Byte) /\ assembly \o <<>> = assembly
        BY DEF IInv, Types
    <2> QED BY <1>3, <1>4, <2>1
<1>5. ASSUME NEW size \in CodeSize, Goto("next_entry"), UNCHANGED <<prem, opt, site>>,
             assembly' = assembly \o
                 [i \in 1..size |-> [entry |-> vm_entry_rva, at |-> i - 1, routine |-> opt]]
      PROVE  IInv'
    <2> DEFINE code == [i \in 1..size |-> [entry |-> vm_entry_rva, at |-> i - 1, routine |-> opt]]
    <2>1. size \in Nat \ {0}
        BY DevirtAssumption
    <2>2. vm_entry_rva \in Entry /\ opt \in Routine
        BY <1>1, CurrentEntry DEF IInv, Round
    <2>3. \A i \in 1..size : code[i] \in Byte
        BY <2>1, <2>2 DEF Byte
    <2>4. code \in Seq(Byte)
        BY <2>1, <2>3
    <2>5. code # <<>> /\ LandsOn(vm_entry_rva, code[1])
        BY <2>1 DEF LandsOn
    <2> HIDE DEF code
    <2>6. assembly' = assembly \o code
        BY <1>5 DEF code
    <2> QED BY <1>3, <1>5, <2>4, <2>5, <2>6
<1> QED BY <1>2, <1>4, <1>5 DEF Compile

LEMMA NextEntryStep == IInv /\ NextEntry => IInv'
<1> SUFFICES ASSUME IInv, NextEntry PROVE IInv'
    OBVIOUS
<1>1. /\ UNCHANGED <<world, disk, args, site, assembly>> /\ pc = "next_entry"
      /\ prem' = NoRoutine /\ opt' = NoRoutine
      /\ \/ cur < Len(args.entries) /\ cur' = cur + 1 /\ pc' = "load_optimized"
         \/ cur = Len(args.entries) /\ cur' = cur /\ pc' = "remove"
    BY DEF NextEntry
<1>2. Types'
    BY <1>1 DEF IInv, Types, world, disk, Labels
<1>3. Round'
    BY <1>1 DEF Round
<1>4. \A entry \in Entry : Done(entry)' <=> Done(entry)
    BY <1>1 DEF Done, Home, world, disk
<1>5. Rounds'
    BY <1>1, <1>4 DEF IInv, Types, Rounds, Finished
<1> QED BY <1>1, <1>2, <1>3, <1>5, NoFileLemma


-----------------------------------------------------------------------------
\* The steps that write a file.  A cache file that is written was not complete.
LEMMA SavePrematureStep == IInv /\ SavePremature => IInv'
<1> SUFFICES ASSUME IInv, SavePremature PROVE IInv'
    OBVIOUS
<1> DEFINE file == premFile[vm_entry_rva]
<1>1. UNCHANGED <<prem, opt, site, assembly, world, optFile, outFile>> /\ pc = "save_premature"
    BY DEF SavePremature
<1>2. /\ vm_entry_rva \in Entry /\ file.state # "saved" /\ ~Cached
      /\ prem \in Routine /\ opt = NoRoutine
    BY <1>1, CurrentEntry DEF IInv, Round
<1>3. ASSUME NEW content \in VtilFile, premFile' = [premFile EXCEPT ![vm_entry_rva] = content],
             UNCHANGED <<args, cur>>,
             \/ pc' = "save_premature" /\ content.state # "saved"
             \/ pc' = "find_section" /\ content = Saved(prem)
      PROVE  IInv'
    <2>1. /\ premFile' \in [Entry -> VtilFile] /\ premFile'[vm_entry_rva] = content
          /\ \A entry \in Entry : entry # vm_entry_rva => premFile'[entry] = premFile[entry]
        BY <1>2, <1>3 DEF IInv, Types
    <2>2. vm_entry_rva' = vm_entry_rva /\ Cached' = Cached
        BY <1>1, <1>3 DEF Cached, vm_entry_rva
    <2>3. Types'
        BY <1>1, <1>3, <2>1 DEF IInv, Types, world, Labels
    <2>4. Round'
        <3>1. CASE pc' = "save_premature"
            BY <1>1, <1>2, <1>3, <2>1, <2>2, <3>1, RoutineTypes DEF Round
        <3>2. CASE pc' = "find_section"
            <4>1. HasPremature(prem)'
                BY <1>1, <1>2, <1>3, <2>1, <2>2, <3>2 DEF HasPremature, Saved
            <4> QED BY <1>1, <1>2, <3>2, <4>1 DEF Round
        <3> QED BY <1>3, <3>1, <3>2
    <2>5. Rounds'
        BY <1>1, <1>3, RoundsKept DEF Labels, Finished, world
    <2>6. OptimizedHasPremature'
        BY <1>1, <1>2, <2>1 DEF IInv, OptimizedHasPremature, Cached, Saved
    <2>7. SitesJumpToOwnCode'
        BY <1>1, OutputKept DEF world
    <2> QED BY <2>3, <2>4, <2>5, <2>6, <2>7 DEF IInv
<1>4. Saved(prem) \in VtilFile /\ Torn \in VtilFile /\ Torn.state # "saved"
    BY <1>2, RoutineTypes
<1> QED BY <1>1, <1>3, <1>4 DEF SavePremature, Goto

LEMMA SaveOptimizedStep == IInv /\ SaveOptimized => IInv'
<1> SUFFICES ASSUME IInv, SaveOptimized PROVE IInv'
    OBVIOUS
<1>1. UNCHANGED <<prem, opt, site, assembly, world, premFile, outFile>> /\ pc = "save_optimized"
    BY DEF SaveOptimized
<1>2. /\ vm_entry_rva \in Entry /\ HasPremature(opt) /\ opt \in Routine
      /\ site[vm_entry_rva] = Len(assembly)
    BY <1>1, CurrentEntry DEF IInv, Round, HasPremature
<1>3. ASSUME NEW content \in VtilFile, optFile' = [optFile EXCEPT ![vm_entry_rva] = content],
             UNCHANGED <<args, cur>>,
             \/ pc' = "save_optimized" /\ content.state # "saved"
             \/ pc' = "compile" /\ content = Saved(opt)
      PROVE  IInv'
    <2>1. /\ optFile' \in [Entry -> VtilFile] /\ optFile'[vm_entry_rva] = content
          /\ \A entry \in Entry : entry # vm_entry_rva => optFile'[entry] = optFile[entry]
        BY <1>2, <1>3 DEF IInv, Types
    <2>2. vm_entry_rva' = vm_entry_rva
        BY <1>3 DEF vm_entry_rva
    <2>3. Types'
        BY <1>1, <1>3, <2>1 DEF IInv, Types, world, Labels
    <2>4. Round'
        <3>1. CASE pc' = "save_optimized" /\ content.state # "saved"
            <4>1. HasPremature(opt)'
                BY <1>1, <1>2, <2>1, <2>2, <3>1 DEF HasPremature, Cached, Saved
            <4> QED BY <1>1, <1>2, <2>2, <3>1, <4>1 DEF Round
        <3>2. CASE pc' = "compile" /\ content = Saved(opt)
            <4>1. Cached'
                BY <2>1, <2>2, <3>2 DEF Cached, Saved
            <4> QED BY <1>1, <1>2, <2>2, <3>2, <4>1 DEF Round
        <3> QED BY <1>3, <3>1, <3>2
    <2>5. Rounds'
        <3>1. \A entry \in Entry :
                  optFile[entry].state = "saved" => optFile'[entry] = optFile[entry]
            BY <1>2, <2>1 DEF HasPremature, Cached
        <3> QED BY <1>1, <1>3, <3>1, RoundsKept DEF Labels, Finished, world
    <2>6. OptimizedHasPremature'
        BY <1>1, <1>2, <1>3, <2>1, RoutineTypes DEF IInv, OptimizedHasPremature, HasPremature
    <2>7. SitesJumpToOwnCode'
        BY <1>1, OutputKept DEF world
    <2> QED BY <2>3, <2>4, <2>5, <2>6, <2>7 DEF IInv
<1>4. Saved(opt) \in VtilFile /\ Torn \in VtilFile /\ Torn.state # "saved"
    BY <1>2, RoutineTypes
<1> QED BY <1>1, <1>3, <1>4 DEF SaveOptimized, Goto

LEMMA RemoveOutputStep == IInv /\ RemoveOutput => IInv'
<1> SUFFICES ASSUME IInv, RemoveOutput PROVE IInv'
    OBVIOUS
<1>1. /\ UNCHANGED <<prem, opt, site, assembly, world, premFile, optFile, args, cur>>
      /\ pc = "remove" /\ pc' = "write" /\ outFile' = NoOutput
    BY DEF RemoveOutput, Goto
<1>2. Types' /\ Round'
    BY <1>1 DEF IInv, Types, Round, world, Labels
<1>3. Rounds'
    <2>1. \A entry \in Entry : Done(entry)' <=> Done(entry)
        BY <1>1 DEF Done, Home, world
    <2> QED BY <1>1, <2>1 DEF IInv, Types, Rounds, Finished
<1>4. OptimizedHasPremature'
    BY <1>1 DEF IInv, OptimizedHasPremature
<1>5. SitesJumpToOwnCode'
    BY <1>1 DEF SitesJumpToOwnCode, NoOutput
<1> QED BY <1>2, <1>3, <1>4, <1>5 DEF IInv

\* When the output is touched, every entry of the command line has had its
\* round.
LEMMA AllDone ==
    ASSUME IInv, pc \in {"remove", "write"}, NEW i \in DOMAIN args.entries
    PROVE  args.entries[i] \in Entry /\ Done(args.entries[i])
<1>1. /\ Len(args.entries) <= cur /\ cur \in Nat /\ pc # "off"
      /\ i \in 1..Len(args.entries) /\ Len(args.entries) \in Nat
    BY DEF IInv, Types, Rounds
<1>2. i < cur \/ i = cur
    BY <1>1
<1> QED BY <1>1, <1>2 DEF IInv, Types, Rounds, Finished

LEMMA WriteOutputStep == IInv /\ WriteOutput => IInv'
<1> SUFFICES ASSUME IInv, WriteOutput PROVE IInv'
    OBVIOUS
<1>1. UNCHANGED <<world, premFile, optFile>> /\ pc = "write"
    BY DEF WriteOutput
<1>2. CASE outFile' = TornOutput /\ UNCHANGED process
    <2>1. Types' /\ Round'
        BY <1>1, <1>2 DEF IInv, Types, Round, world, process
    <2>2. Rounds'
        <3>1. \A entry \in Entry : Done(entry)' <=> Done(entry)
            BY <1>1, <1>2 DEF Done, Home, world, process
        <3> QED BY <1>1, <1>2, <3>1 DEF IInv, Types, Rounds, Finished, process
    <2>3. OptimizedHasPremature'
        BY <1>1 DEF IInv, OptimizedHasPremature
    <2>4. SitesJumpToOwnCode'
        BY <1>2 DEF SitesJumpToOwnCode, TornOutput, NoOutput
    <2> QED BY <2>1, <2>2, <2>3, <2>4 DEF IInv
<1>3. CASE outFile' = Output /\ End("done")
    <2>1. /\ outFile'.entries = args.entries /\ outFile'.site = site
          /\ outFile'.code = assembly /\ fate' = fate
        BY <1>1, <1>3 DEF Output, world
    <2>2. \A i \in DOMAIN args.entries : Home(args.entries[i])
        BY <1>1, AllDone DEF Done
    <2>3. SitesJumpToOwnCode'
        BY <2>1, <2>2 DEF SitesJumpToOwnCode, Patched, JumpsHome, Home, LandsOn
    <2> QED BY <1>1, <1>3, <2>3, EndLemma
<1> QED BY <1>2, <1>3 DEF WriteOutput

-----------------------------------------------------------------------------
LEMMA StutterStep == IInv /\ UNCHANGED vars => IInv'
<1> SUFFICES ASSUME IInv, UNCHANGED vars PROVE IInv'
    OBVIOUS
<1>1. Types' /\ Round'
    BY DEF IInv, Types, Round, Cached, HasPremature, vm_entry_rva, vars
<1>2. Rounds'
    BY DEF IInv, Rounds, Done, Home, LandsOn, vars
<1>3. OptimizedHasPremature' /\ SitesJumpToOwnCode'
    BY OutputKept DEF IInv, OptimizedHasPremature, vars
<1> QED BY <1>1, <1>2, <1>3 DEF IInv

\* The inductive invariant: what each place of the loop knows of the routine
\* at hand and its files (Round), and of the routines before it (Rounds).
THEOREM Inductive == Spec => []IInv
<1>1. IInv /\ [Next]_vars => IInv'
    BY StutterStep, RebuildStep, StartStep, KillStep, LoadOptimizedStep, LoadPrematureStep,
       DevirtualizeStep, SavePrematureStep, FindSectionStep, PatchStep, OptimizeStep,
       SaveOptimizedStep, CompileStep, NextEntryStep, RemoveOutputStep, WriteOutputStep
       DEF Next, Step
<1> QED BY <1>1, InitLemma, PTL DEF Spec

\* In the binary that is written each patched VM entry jumps to the first byte
\* of its own routine's code, for any number of entries, code of any size, and
\* whichever of them were cached, lifted or left without code (main:256-272).
THEOREM JumpsTheorem == Spec => []SitesJumpToOwnCode
<1>1. IInv => SitesJumpToOwnCode
    BY DEF IInv
<1> QED BY <1>1, Inductive, PTL

\* A complete optimized cache file has the premature file of the same routine
\* beside it, wherever a run is cut short (main:236, :265-270).
THEOREM CachesTheorem == Spec => []OptimizedHasPremature
<1>1. IInv => OptimizedHasPremature
    BY DEF IInv
<1> QED BY <1>1, Inductive, PTL

\* No step of a run without --overwrite, a kill included, rewrites or loses a
\* complete cache file: a file is saved only in the round that found it missing
\* or torn (main:217-238).
THEOREM CachesKeptTheorem == Spec => ValidCacheIsKept
<1> DEFINE Kept == ~ args.overwrite => \A entry \in Entry :
                       /\ premFile[entry].state = "saved" => premFile'[entry] = premFile[entry]
                       /\ optFile[entry].state = "saved" => optFile'[entry] = optFile[entry]
<1>1. IInv /\ [Next]_vars => [Kept]_vars
    <2> SUFFICES ASSUME IInv, Next PROVE Kept
        OBVIOUS
    <2>1. CASE UNCHANGED <<premFile, optFile>>
        BY <2>1
    <2>2. CASE SavePremature
        <3>1. /\ premFile[vm_entry_rva].state # "saved" /\ optFile' = optFile
              /\ \E content : premFile' = [premFile EXCEPT ![vm_entry_rva] = content]
            BY <2>2 DEF SavePremature, IInv, Round
        <3>2. premFile \in [Entry -> VtilFile]
            BY DEF IInv, Types
        <3> QED BY <3>1, <3>2
    <2>3. CASE SaveOptimized
        <3>1. /\ optFile[vm_entry_rva].state # "saved" /\ premFile' = premFile
              /\ \E content : optFile' = [optFile EXCEPT ![vm_entry_rva] = content]
            BY <2>3 DEF SaveOptimized, IInv, Round, HasPremature, Cached
        <3>2. optFile \in [Entry -> VtilFile]
            BY DEF IInv, Types
        <3> QED BY <3>1, <3>2
    <2> QED BY <2>1, <2>2, <2>3
            DEF Next, Step, Start, Rebuild, Kill, LoadOptimized, LoadPremature, Devirtualize,
                FindSection, Patch, Optimize, Compile, NextEntry, RemoveOutput, WriteOutput, disk
<1> QED BY <1>1, Inductive, PTL DEF Spec, ValidCacheIsKept

\* Whatever step touches the output, every routine of the command line has by
\* then been cached and its VM entry patched (main:203-293).
THEOREM OutputTheorem == Spec => OutputAwaitsEveryRoutine
<1> DEFINE Awaited == outFile' # outFile =>
                          \A i \in DOMAIN args.entries :
                             /\ site[args.entries[i]] # Unpatched
                             /\ optFile[args.entries[i]].state = "saved"
<1>1. IInv /\ [Next]_vars => [Awaited]_vars
    <2> SUFFICES ASSUME IInv, Next, outFile' # outFile,
                        NEW i \in DOMAIN args.entries
                 PROVE  /\ site[args.entries[i]] # Unpatched
                        /\ optFile[args.entries[i]].state = "saved"
        OBVIOUS
    <2>1. pc \in {"remove", "write"}
        BY DEF Next, Step, Start, Rebuild, Kill, LoadOptimized, LoadPremature, Devirtualize,
               SavePremature, FindSection, Patch, Optimize, SaveOptimized, Compile, NextEntry,
               RemoveOutput, WriteOutput, disk
    <2> QED BY <2>1, AllDone DEF Done, Unpatched
<1> QED BY <1>1, Inductive, PTL DEF Spec, OutputAwaitsEveryRoutine

\* How a process ended is known exactly when none runs.
Ending ==
    /\ outFile.state \in {"absent", "torn", "written"}
    /\ exit \in {"none", "running", "done", "failed", "aborted", "killed"}
    /\ pc = "off" <=> exit # "running"

LEMMA EndingKept == Ending /\ [Next]_vars => Ending'
<1> SUFFICES ASSUME Ending, [Next]_vars PROVE Ending'
    OBVIOUS
<1>1. ASSUME NEW how \in {"done", "failed", "aborted", "killed"}, End(how),
             outFile'.state \in {"absent", "torn", "written"}
      PROVE  Ending'
    BY <1>1 DEF Ending, End
<1>2. CASE Start \/ Rebuild \/ UNCHANGED vars
    BY <1>2 DEF Ending, Start, Rebuild, disk, process, vars
<1>3. CASE Kill
    BY <1>1, <1>3 DEF Ending, Kill, disk
<1>4. CASE LoadOptimized \/ LoadPremature
    BY <1>1, <1>4 DEF Ending, LoadOptimized, LoadPremature, LiftInstead, Goto, disk
<1>5. CASE Devirtualize \/ FindSection
    BY <1>1, <1>5 DEF Ending, Devirtualize, FindSection, Goto, disk
<1>6. CASE SavePremature \/ SaveOptimized \/ Patch \/ Optimize
    BY <1>6 DEF Ending, SavePremature, SaveOptimized, Patch, Optimize, Goto, disk
<1>7. CASE Compile \/ NextEntry \/ RemoveOutput
    BY <1>1, <1>7 DEF Ending, Compile, NextEntry, RemoveOutput, Goto, NoOutput, disk
<1>8. CASE WriteOutput
    BY <1>1, <1>8 DEF Ending, WriteOutput, TornOutput, NoOutput, Output, process
<1> QED BY <1>2, <1>3, <1>4, <1>5, <1>6, <1>7, <1>8 DEF Next, Step

\* Type correctness; above all, main never copies, compiles or saves a routine
\* it does not have (prem->clone() at main:265, compile(opt) at main:271).
THEOREM TypeTheorem == Spec => []TypeOK
<1>1. Init => Ending
    BY DEF Init, Ending, NoOutput
<1>2. IInv /\ Ending => TypeOK
    <2> SUFFICES ASSUME IInv, Ending PROVE TypeOK
        OBVIOUS
    <2>1. \A i \in DOMAIN assembly : assembly[i].routine \in Routine
        <3>1. \A i \in DOMAIN assembly : assembly[i] \in Byte
            BY DEF IInv, Types
        <3> QED BY <3>1 DEF Byte
    <2>2. pc \in {"find_section", "patch"} => {prem, opt} \cap Routine # {}
        BY DEF IInv, Round, HasPremature
    <2>3. /\ pc \in {"save_premature", "optimize"} => prem \in Routine
          /\ pc \in {"save_optimized", "compile"} => opt \in Routine
        BY DEF IInv, Round, HasPremature
    <2> QED BY <2>1, <2>2, <2>3 DEF IInv, Types, Ending, TypeOK
<1> QED BY <1>1, <1>2, EndingKept, Inductive, PTL DEF Spec

-----------------------------------------------------------------------------
\* What a run has still to do: at most twelve steps for each entry that is
\* left, those of this round by where main is and how far a file is written,
\* and three for the output.
Rank ==
    CASE pc = "load_optimized" -> 14
      [] pc = "load_premature" -> 13
      [] pc = "devirtualize" -> 12
      [] pc = "save_premature" -> IF premFile[vm_entry_rva] = Torn THEN 10 ELSE 11
      [] pc = "find_section" -> 9
      [] pc = "patch" -> 8
      [] pc = "optimize" -> 7
      [] pc = "save_optimized" -> IF optFile[vm_entry_rva] = Torn THEN 5 ELSE 6
      [] pc = "compile" -> 4
      [] pc = "next_entry" -> 3
      [] pc = "remove" -> 2
      [] OTHER -> IF outFile = TornOutput THEN 0 ELSE 1
Ahead == IF cur < Len(args.entries) THEN Len(args.entries) - cur ELSE 0
Left == 12 * Ahead + Rank

LEMMA RankType == Rank \in 0..14
BY DEF Rank

LEMMA LeftType == ASSUME Types, pc # "off" PROVE Left \in Nat
<1>1. Ahead \in Nat
    BY DEF Types, Ahead
<1> QED BY <1>1, RankType DEF Left

\* A step within a round need only lower the rank.
LEMMA LowerRank ==
    ASSUME Types, pc # "off", UNCHANGED <<args, cur>>, Rank' \in Nat, Rank' < Rank
    PROVE  args' = args /\ Left' < Left
<1>1. Ahead \in Nat
    BY DEF Types, Ahead
<1>2. Ahead' = Ahead
    BY DEF Ahead
<1>3. Left' = 12 * Ahead + Rank'
    BY <1>2 DEF Left
<1>4. Left' < Left
    BY <1>1, <1>3, RankType DEF Left
<1> QED BY <1>4

\* The steps within a round, writing the output included.
LEMMA RoundAdvances ==
    ASSUME IInv, Step, pc' # "off", ~ NextEntry
    PROVE  UNCHANGED <<args, cur>> /\ Rank' \in Nat /\ Rank' < Rank
<1>1. CASE LoadOptimized
    BY <1>1 DEF LoadOptimized, Goto, End, Rank
<1>2. CASE LoadPremature
    BY <1>2 DEF LoadPremature, Goto, LiftInstead, Rank
<1>3. CASE Devirtualize
    BY <1>3 DEF Devirtualize, Goto, End, Rank
<1>4. CASE SavePremature
    <2>1. vm_entry_rva \in Entry /\ premFile \in [Entry -> VtilFile] /\ pc = "save_premature"
        BY <1>4, CurrentEntry DEF SavePremature, IInv, Types
    <2>2. ASSUME premFile[vm_entry_rva] # Torn, UNCHANGED <<pc, args, cur>>,
                 premFile' = [premFile EXCEPT ![vm_entry_rva] = Torn]
          PROVE  Rank = 11 /\ Rank' = 10
        <3>1. premFile'[vm_entry_rva'] = Torn
            BY <2>1, <2>2 DEF vm_entry_rva
        <3> QED BY <2>1, <2>2, <3>1 DEF Rank
    <2>3. ASSUME premFile[vm_entry_rva] = Torn, pc' = "find_section"
          PROVE  Rank = 10 /\ Rank' = 9
        BY <2>1, <2>3 DEF Rank
    <2> QED BY <1>4, <2>2, <2>3 DEF SavePremature, Goto
<1>5. CASE FindSection
    BY <1>5 DEF FindSection, Goto, End, Rank
<1>6. CASE Patch
    BY <1>6 DEF Patch, Goto, Rank
<1>7. CASE Optimize
    <2>1. pc = "optimize" /\ pc' = "save_optimized" /\ UNCHANGED <<args, cur>>
        BY <1>7 DEF Optimize, Goto
    <2> QED BY <2>1 DEF Rank
<1>8. CASE SaveOptimized
    <2>1. vm_entry_rva \in Entry /\ optFile \in [Entry -> VtilFile] /\ pc = "save_optimized"
        BY <1>8, CurrentEntry DEF SaveOptimized, IInv, Types
    <2>2. ASSUME optFile[vm_entry_rva] # Torn, UNCHANGED <<pc, args, cur>>,
                 optFile' = [optFile EXCEPT ![vm_entry_rva] = Torn]
          PROVE  Rank = 6 /\ Rank' = 5
        <3>1. optFile'[vm_entry_rva'] = Torn
            BY <2>1, <2>2 DEF vm_entry_rva
        <3> QED BY <2>1, <2>2, <3>1 DEF Rank
    <2>3. ASSUME optFile[vm_entry_rva] = Torn, pc' = "compile"
          PROVE  Rank = 5 /\ Rank' = 4
        BY <2>1, <2>3 DEF Rank
    <2> QED BY <1>8, <2>2, <2>3 DEF SaveOptimized, Goto
<1>9. CASE Compile
    BY <1>9 DEF Compile, Goto, End, Rank
<1>10. CASE RemoveOutput
    <2>1. pc = "remove" /\ pc' = "write" /\ UNCHANGED <<args, cur>>
        BY <1>10 DEF RemoveOutput, Goto
    <2> QED BY <2>1 DEF Rank
<1>11. CASE WriteOutput
    <2>1. pc = "write" /\ outFile = NoOutput /\ outFile' = TornOutput /\ UNCHANGED <<pc, args, cur>>
        BY <1>11 DEF WriteOutput, End, process
    <2>2. NoOutput # TornOutput
        BY DEF NoOutput, TornOutput
    <2>3. Rank = 1 /\ Rank' = 0
        BY <2>1, <2>2 DEF Rank
    <2> QED BY <2>1, <2>3
<1> QED BY <1>1, <1>2, <1>3, <1>4, <1>5, <1>6, <1>7, <1>8, <1>9, <1>10, <1>11 DEF Step

LEMMA NextEntryAdvances ==
    ASSUME Types, NextEntry
    PROVE  args' = args /\ Left' < Left
<1>1. cur \in 1..Len(args.entries) /\ Len(args.entries) \in Nat
    BY DEF NextEntry, Types
<1>2. args' = args /\ Rank = 3
    BY DEF NextEntry, Rank
<1>3. CASE cur < Len(args.entries) /\ cur' = cur + 1 /\ pc' = "load_optimized"
    <2>1. Rank' = 14
        BY <1>3 DEF Rank
    <2> QED BY <1>1, <1>2, <1>3, <2>1 DEF Left, Ahead
<1>4. CASE cur' = cur /\ pc' = "remove"
    <2>1. Rank' = 2
        BY <1>4 DEF Rank
    <2> QED BY <1>1, <1>2, <1>4, <2>1 DEF Left, Ahead
<1> QED BY <1>3, <1>4 DEF NextEntry

\* No run goes round in circles: each step of a process that does not end it
\* lowers a natural number, whatever is found in the cache files and whatever
\* the steps before have failed in.  A run of n entries has thus at most
\* 12 * n + 3 steps (main:203-293).
RunAdvances ==
    [][pc # "off" /\ pc' # "off" => args' = args /\ Left \in Nat /\ Left' < Left]_vars

\* The safety half of RunEnds: a run takes a bounded number of steps.
THEOREM ProgressTheorem == Spec => RunAdvances
<1> DEFINE Lower == pc # "off" /\ pc' # "off" => args' = args /\ Left \in Nat /\ Left' < Left
<1>1. IInv /\ [Next]_vars => [Lower]_vars
    <2> SUFFICES ASSUME IInv, Next, pc # "off", pc' # "off"
                 PROVE  args' = args /\ Left \in Nat /\ Left' < Left
        OBVIOUS
    <2>1. Types
        BY DEF IInv
    <2>2. Step
        BY DEF Next, Start, Rebuild, Kill, End
    <2>3. CASE NextEntry
        BY <2>1, <2>3, LeftType, NextEntryAdvances
    <2>4. CASE ~ NextEntry
        BY <2>1, <2>2, <2>4, LeftType, LowerRank, RoundAdvances
    <2> QED BY <2>3, <2>4
<1> QED BY <1>1, Inductive, PTL DEF Spec, RunAdvances

\* When the tools handle every routine of the command line, a run ends in one
\* of three ways only: with the output written for exactly its entries, killed,
\* or by an exception that main does not catch, over an optimized cache file
\* that an earlier run left torn (main:217-293).
GoodRunEndsWell ==
    [][/\ pc # "off" /\ pc' = "off"
       /\ \A i \in DOMAIN args.entries : fate[args.entries[i]] = "ok"
       => \/ exit' = "done" /\ outFile' = Output
          \/ exit' = "killed"
          \/ exit' = "aborted" /\ pc = "load_optimized" /\ optFile[vm_entry_rva] = Torn]_vars

\* The safety half of GoodRunDelivers.
THEOREM DeliveryTheorem == Spec => GoodRunEndsWell
<1> DEFINE Well == /\ pc # "off" /\ pc' = "off"
                   /\ \A i \in DOMAIN args.entries : fate[args.entries[i]] = "ok"
                   => \/ exit' = "done" /\ outFile' = Output
                      \/ exit' = "killed"
                      \/ exit' = "aborted" /\ pc = "load_optimized" /\ optFile[vm_entry_rva] = Torn
<1>1. IInv /\ [Next]_vars => [Well]_vars
    <2> SUFFICES ASSUME IInv, Next, pc # "off", pc' = "off",
                        \A i \in DOMAIN args.entries : fate[args.entries[i]] = "ok"
                 PROVE  \/ exit' = "done" /\ outFile' = Output
                        \/ exit' = "killed"
                        \/ /\ exit' = "aborted" /\ pc = "load_optimized"
                           /\ optFile[vm_entry_rva] = Torn
        OBVIOUS
    <2>1. pc \notin {"remove", "write"} => fate[vm_entry_rva] = "ok"
        BY DEF IInv, Types, vm_entry_rva
    <2>2. CASE Kill
        BY <2>2 DEF Kill, End
    <2>3. CASE LoadOptimized
        <3>1. pc = "load_optimized" /\ optFile[vm_entry_rva].state = "torn" /\ exit' = "aborted"
            BY <2>3 DEF LoadOptimized, Goto, End
        <3>2. optFile[vm_entry_rva] = Torn
            BY <3>1, CurrentEntry DEF IInv, VtilFile, Absent, Saved
        <3> QED BY <3>1, <3>2
    <2>4. ~ Devirtualize
        <3> SUFFICES ASSUME Devirtualize PROVE FALSE
            OBVIOUS
        <3> pc = "devirtualize" /\ fate[vm_entry_rva] = "ok"
            BY <2>1 DEF Devirtualize
        <3>1. Lifted(fate[vm_entry_rva]) = {[version |-> bin, whole |-> TRUE]}
            BY <2>1 DEF Lifted
        <3>2. [version |-> bin, whole |-> TRUE] # NoRoutine
            BY DEF NoRoutine
        <3> QED BY <2>1, <3>1, <3>2 DEF Devirtualize, Null, Goto
    <2>5. ~ FindSection /\ ~ Compile
        BY <2>1 DEF FindSection, Compile, Goto
    <2>6. CASE WriteOutput
        BY <2>6 DEF WriteOutput, End, process
    <2>7. ~ (Start \/ Rebuild \/ LoadPremature \/ SavePremature \/ Patch \/ Optimize
             \/ SaveOptimized \/ NextEntry \/ RemoveOutput)
        BY DEF Start, Rebuild, LoadPremature, LiftInstead, SavePremature, Patch, Optimize,
               SaveOptimized, NextEntry, RemoveOutput, Goto
    <2> QED BY <2>2, <2>3, <2>4, <2>5, <2>6, <2>7 DEF Next, Step
<1> QED BY <1>1, Inductive, PTL DEF Spec, GoodRunEndsWell
=============================================================================
