---------------------------- MODULE PeLayoutProofs ----------------------------
(***************************************************************************)
(* For binaries of any size with any sections, and for any alignments: no  *)
(* copy leaves the vector, every pointer is relocated once, what is        *)
(* patched is what was lifted, the new section's raw data is where its     *)
(* header says, no byte of the old file is lost, all compiled code is      *)
(* mapped and every jump leads to its own.                                 *)
(***************************************************************************)
EXTENDS ImageMap, TLAPS

-----------------------------------------------------------------------------
\* Arithmetic of the alignments.
LEMMA Division ==
    ASSUME NEW x \in Nat, NEW a \in Nat \ {0}
    PROVE  /\ x \div a \in Nat /\ x % a \in 0..(a - 1)
           /\ x = a * (x \div a) + (x % a)
OBVIOUS

LEMMA Remainder ==
    ASSUME NEW q \in Int, NEW r \in Nat, NEW a \in Nat \ {0}, r < a
    PROVE  (q * a + r) % a = r
OBVIOUS

LEMMA AlignFacts ==
    ASSUME NEW x \in Nat, NEW a \in Nat \ {0}
    PROVE  /\ AlignDown(x, a) \in Nat /\ AlignDown(x, a) % a = 0
           /\ AlignDown(x, a) <= x /\ x < AlignDown(x, a) + a
<1>1. PICK q \in Nat, r \in 0..(a - 1) : x = a * q + r /\ r = x % a
    BY Division
<1>2. AlignDown(x, a) = q * a + 0 /\ q * a \in Nat
    BY <1>1 DEF AlignDown
<1>3. (q * a + 0) % a = 0
    BY Remainder
<1> QED BY <1>1, <1>2, <1>3

\* What is added to an aligned number is aligned separately.
LEMMA AlignedSum ==
    ASSUME NEW x \in Nat, NEW y \in Nat, NEW a \in Nat \ {0}, x % a = 0
    PROVE  AlignDown(x + y, a) = x + AlignDown(y, a)
<1>1. PICK p \in Nat : x = a * p
    <2>1. PICK q \in Nat : x = a * q + (x % a)
        BY Division
    <2>2. a * q \in Nat
        OBVIOUS
    <2> QED BY <2>1, <2>2
<1>2. PICK q \in Nat, r \in 0..(a - 1) : y = a * q + r /\ r = y % a
    BY Division
<1>3. PICK n \in Nat : n = p + q
    OBVIOUS
<1>4. x + y = n * a + r
    <2>1. n * a = p * a + q * a /\ p * a = a * p /\ q * a = a * q
        BY <1>3
    <2>2. a * p \in Nat /\ a * q \in Nat
        OBVIOUS
    <2> QED BY <1>1, <1>2, <2>1, <2>2
<1>5. (x + y) % a = r
    <2>1. (n * a + r) % a = r
        BY Remainder
    <2> QED BY <1>4, <2>1
<1> QED BY <1>2, <1>5 DEF AlignDown

LEMMA ClearBitFacts ==
    ASSUME NEW x \in Nat, NEW bit \in Nat \ {0}
    PROVE  ClearBit(x, bit) \in Nat /\ x <= ClearBit(x, bit) + bit
<1>1. PICK q \in Nat, r \in 0..(bit - 1) : x = bit * q + r /\ q = x \div bit
    BY Division
<1>2. q % 2 = 1 => x >= bit
    <2>1. q % 2 = 1 => q >= 1
        OBVIOUS
    <2>2. q >= 1 => bit * q >= bit
        OBVIOUS
    <2> QED BY <1>1, <2>1, <2>2
<1> QED BY <1>1, <1>2 DEF ClearBit

LEMMA OldSizeFacts ==
    ASSUME NEW b \in Binaries, binary = b
    PROVE  /\ OldSize \in Nat /\ OldSize % FileAlignment = 0
           /\ OldSize = AlignDown(b.size + FileAlignment, FileAlignment)
           /\ b.size < OldSize
<1>1. /\ b.size \in Nat /\ FileAlignment \in Nat \ {0} /\ Word \in Nat \ {0}
      /\ b.size + FileAlignment \in Nat /\ b.size + FileAlignment < Word
    BY LayoutAssumption
<1>2. (0 * Word + (b.size + FileAlignment)) % Word = b.size + FileAlignment
    BY <1>1, Remainder
<1>3. OldSize = AlignDown(b.size + FileAlignment, FileAlignment)
    BY <1>1, <1>2 DEF OldSize
<1>4. PICK n \in Nat : n = b.size + FileAlignment
    BY <1>1
<1>5. /\ AlignDown(n, FileAlignment) \in Nat /\ AlignDown(n, FileAlignment) % FileAlignment = 0
      /\ n < AlignDown(n, FileAlignment) + FileAlignment
    BY <1>1, AlignFacts
<1> QED BY <1>1, <1>3, <1>4, <1>5

-----------------------------------------------------------------------------
\* The inductive invariant of the patching: TypeOK and the two properties, with
\* what they need to know of the steps before the last.
Steps ==
    /\ pc = "header" => cur = 1
    /\ pc \in {"patch", "compile"} => cur \in DOMAIN vm_entry_rvas
    /\ pc # "done" => DOMAIN module_data = 0..(binary.size - 1)
    /\ pc # "header" => old_size = OldSize /\ new_header.ptr_raw_data = old_size

LInv == TypeOK /\ Steps /\ RawDataFitsTheFile /\ OldBytesAreKept

LEMMA InputFacts ==
    ASSUME TypeOK
    PROVE  /\ binary.size \in Nat /\ binary.sections \in Seq(SectionHeader)
           /\ vm_entry_rvas \in Seq(Nat) /\ DOMAIN vm_entry_rvas = 1..Len(vm_entry_rvas)
           /\ Len(assembly) \in Nat /\ FileAlignment \in Nat \ {0} /\ SectionAlignment \in Nat \ {0}
           /\ old_size \in Nat
BY LayoutAssumption DEF TypeOK

LEMMA EntryFacts ==
    ASSUME TypeOK, NEW rva \in Entries, NEW i \in SectionOf(rva)
    PROVE  rva \in Nat /\ FileOffset(rva, binary.sections[i]) \in Int
<1>1. rva \in Nat
    BY InputFacts DEF Entries
<1>2. binary.sections[i] \in SectionHeader
    BY InputFacts DEF SectionOf
<1>3. binary.sections[i].virtual_address \in Nat /\ binary.sections[i].ptr_raw_data \in Nat
    BY <1>2 DEF SectionHeader
<1> QED BY <1>1, <1>3 DEF FileOffset

\* The windows that PatchEntry writes to are those that OldBytesAreKept names.
LEMMA WindowFacts ==
    ASSUME TypeOK,
           NEW rva \in Entries, NEW i \in SectionOf(rva), NEW k \in 0..(VmEnterSize - 1)
    PROVE  FileOffset(rva, binary.sections[i]) + k \in PatchWindows
<1> DEFINE at == FileOffset(rva, binary.sections[i])
<1>1. at \in Int
    BY EntryFacts
<1>2. at + k \in Window(rva, binary.sections[i])
    BY <1>1 DEF Window, VmEnterSize
<1> QED BY <1>2 DEF PatchWindows

LEMMA LInitLemma == Init => LInv
<1> SUFFICES ASSUME Init PROVE LInv
    OBVIOUS
<1>1. binary \in Binaries /\ vm_entry_rvas \in VmEntries /\ binary.size \in Nat
    BY LayoutAssumption DEF Init
<1>2. TypeOK
    BY <1>1 DEF Init, TypeOK, NoHeader, SectionHeader
<1>3. Steps /\ RawDataFitsTheFile
    BY <1>1 DEF Init, Steps, RawDataFitsTheFile
<1>4. OldBytesAreKept
    BY <1>1 DEF Init, OldBytesAreKept
<1> QED BY <1>2, <1>3, <1>4 DEF LInv

LEMMA AddSectionStep == LInv /\ AddSection => LInv'
<1> SUFFICES ASSUME LInv, AddSection PROVE LInv'
    OBVIOUS
<1>1. /\ old_size' = OldSize /\ pc = "header"
      /\ new_header' = [NoHeader EXCEPT !.virtual_address = SectionVa, !.ptr_raw_data = old_size']
      /\ module_data' = [offset \in DOMAIN module_data |->
                            CASE offset \in CountSlot -> CountByte
                              [] offset \in HeaderSlot -> HeaderByte
                              [] OTHER -> module_data[offset]]
      /\ pc' = (IF vm_entry_rvas = <<>> THEN "finish" ELSE "patch")
      /\ UNCHANGED <<binary, vm_entry_rvas, cur, assembly>>
    BY DEF AddSection, input
<1>2. OldSize' = OldSize /\ OldSize \in Nat
    BY <1>1, OldSizeFacts DEF LInv, TypeOK, OldSize
<1>3. new_header' \in SectionHeader /\ new_header'.ptr_raw_data = old_size'
    BY <1>1, <1>2, LayoutAssumption DEF NoHeader, SectionHeader
<1>4. cur = 1
    BY <1>1 DEF LInv, Steps
<1>5. TypeOK'
    BY <1>1, <1>2, <1>3, <1>4, InputFacts DEF LInv, TypeOK
<1>6. Steps'
    BY <1>1, <1>2, <1>3, <1>4, InputFacts DEF LInv, Steps
<1>7. RawDataFitsTheFile'
    BY <1>1 DEF RawDataFitsTheFile
<1>8. OldBytesAreKept'
    <2>1. /\ PatchWindows' = PatchWindows /\ HeaderSlot' = HeaderSlot
          /\ CountSlot' = CountSlot
        BY <1>1 DEF PatchWindows, Entries, SectionOf, FileOffset, Window, InSection,
                     HeaderSlot, CountSlot
    <2> QED BY <1>1, <2>1 DEF LInv, OldBytesAreKept
<1> QED BY <1>5, <1>6, <1>7, <1>8 DEF LInv

LEMMA PatchEntryStep == LInv /\ PatchEntry => LInv'
<1> SUFFICES ASSUME LInv, PatchEntry PROVE LInv'
    OBVIOUS
<1>1. /\ pc = "patch" /\ pc' \in {"failed", "compile"}
      /\ UNCHANGED <<binary, vm_entry_rvas, new_header, old_size, cur, assembly>>
    BY DEF PatchEntry, input
<1>2. /\ cur \in DOMAIN vm_entry_rvas /\ vm_entry_rvas[cur] \in Entries
      /\ DOMAIN module_data = 0..(binary.size - 1)
    BY <1>1 DEF LInv, Steps, Entries
<1>3. DOMAIN module_data' = DOMAIN module_data
    BY <1>1 DEF PatchEntry, Patched
<1>4. TypeOK'
    BY <1>1 DEF LInv, TypeOK
<1>5. Steps'
    BY <1>1, <1>2, <1>3 DEF LInv, Steps, OldSize
<1>6. RawDataFitsTheFile'
    BY <1>1 DEF RawDataFitsTheFile
<1>7. OldBytesAreKept'
    <2>1. /\ PatchWindows' = PatchWindows /\ HeaderSlot' = HeaderSlot
          /\ CountSlot' = CountSlot /\ binary' = binary
        BY <1>1 DEF PatchWindows, Entries, SectionOf, FileOffset, Window, InSection,
                     HeaderSlot, CountSlot
    <2>2. ASSUME NEW offset \in 0..(binary.size - 1), offset \notin PatchWindows
          PROVE  module_data'[offset] = module_data[offset]
        <3>1. CASE module_data' = module_data
            BY <3>1
        <3>2. ASSUME NEW i \in SectionOf(vm_entry_rvas[cur]),
                     module_data' = Patched(vm_entry_rvas[cur],
                                            FileOffset(vm_entry_rvas[cur], binary.sections[i]))
              PROVE  module_data'[offset] = module_data[offset]
            <4>1. PICK at \in Int : at = FileOffset(vm_entry_rvas[cur], binary.sections[i])
                BY <1>2, EntryFacts DEF LInv
            <4>2. offset \notin at..(at + VmEnterSize - 1)
                <5>1. SUFFICES ASSUME offset \in at..(at + VmEnterSize - 1) PROVE FALSE
                    OBVIOUS
                <5>2. offset - at \in 0..(VmEnterSize - 1) /\ offset = at + (offset - at)
                    BY <5>1 DEF VmEnterSize
                <5>3. at + (offset - at) \in PatchWindows
                    BY <1>2, <4>1, <5>2, WindowFacts DEF LInv
                <5> QED BY <2>2, <5>2, <5>3
            <4>3. offset # at /\ offset \notin (at + 1)..(at + JmpSize - 1) /\ offset \notin Nops(at)
                BY <4>1, <4>2 DEF Nops, JmpSize, VmEnterSize
            <4> QED BY <1>2, <3>2, <4>1, <4>3 DEF Patched
        <3> QED BY <3>1, <3>2 DEF PatchEntry
    <2> QED BY <1>2, <1>3, <2>1, <2>2 DEF LInv, OldBytesAreKept
<1> QED BY <1>4, <1>5, <1>6, <1>7 DEF LInv

LEMMA CompileEntryStep == LInv /\ CompileEntry => LInv'
<1> SUFFICES ASSUME LInv, CompileEntry PROVE LInv'
    OBVIOUS
<1>1. /\ pc = "compile" /\ cur' = cur + 1
      /\ pc' = (IF cur >= Len(vm_entry_rvas) THEN "finish" ELSE "patch")
      /\ UNCHANGED <<binary, vm_entry_rvas, module_data, new_header, old_size>>
    BY DEF CompileEntry, input, LastEntry
<1>2. cur \in 1..Len(vm_entry_rvas) /\ vm_entry_rvas[cur] \in Nat
    BY <1>1, InputFacts DEF LInv, Steps
<1>3. assembly' \in Seq([kind : {"code"}, of : Nat, rel : {0}])
    <2>1. PICK size \in CodeSizes :
             assembly' = assembly \o [i \in 1..size |-> Code(vm_entry_rvas[cur])]
        BY DEF CompileEntry
    <2> DEFINE Compiled == [kind : {"code"}, of : Nat, rel : {0}]
               code == [i \in 1..size |-> Code(vm_entry_rvas[cur])]
    <2>2. size \in Nat /\ Code(vm_entry_rvas[cur]) \in Compiled
        BY <1>2, LayoutAssumption DEF Code
    <2>3. assembly \in Seq(Compiled)
        BY DEF LInv, TypeOK
    <2> HIDE DEF Compiled
    <2>4. code \in Seq(Compiled)
        BY <2>2
    <2> HIDE DEF code
    <2>5. assembly \o code \in Seq(Compiled)
        BY <2>3, <2>4
    <2> QED BY <2>1, <2>5 DEF code, Compiled
<1>4. TypeOK'
    BY <1>1, <1>2, <1>3, InputFacts DEF LInv, TypeOK
<1>5. Steps'
    BY <1>1, <1>2, InputFacts DEF LInv, Steps, OldSize
<1>6. RawDataFitsTheFile'
    BY <1>1 DEF RawDataFitsTheFile
<1>7. OldBytesAreKept'
    <2>1. /\ PatchWindows' = PatchWindows /\ HeaderSlot' = HeaderSlot
          /\ CountSlot' = CountSlot
        BY <1>1 DEF PatchWindows, Entries, SectionOf, FileOffset, Window, InSection,
                     HeaderSlot, CountSlot
    <2> QED BY <1>1, <2>1 DEF LInv, OldBytesAreKept
<1> QED BY <1>4, <1>5, <1>6, <1>7 DEF LInv

LEMMA FinishStep == LInv /\ Finish => LInv'
<1> SUFFICES ASSUME LInv, Finish PROVE LInv'
    OBVIOUS
<1>1. /\ pc = "finish" /\ pc' = "done"
      /\ new_header' = [new_header EXCEPT !.virtual_size = VirtualSize, !.size_raw_data = RawSize]
      /\ UNCHANGED <<binary, vm_entry_rvas, old_size, cur, assembly>>
      /\ DOMAIN module_data' = 0..(FileSize - 1)
    BY DEF Finish, input
<1>2. PICK len \in Nat : len = Len(assembly)
    BY InputFacts DEF LInv
<1>3. /\ old_size \in Nat /\ old_size % FileAlignment = 0 /\ binary.size < old_size
      /\ new_header.ptr_raw_data = old_size /\ binary.size \in Nat
      /\ DOMAIN module_data = 0..(binary.size - 1)
      /\ FileAlignment \in Nat \ {0} /\ SectionAlignment \in Nat \ {0}
    BY <1>1, OldSizeFacts, InputFacts DEF LInv, TypeOK, Steps
<1>4. PICK raw \in Nat : raw = AlignDown(len, FileAlignment) /\ raw % FileAlignment = 0
                          /\ len < raw + FileAlignment
    BY <1>3, AlignFacts
<1>5. RawSize = raw + FileAlignment /\ FileSize = old_size + (raw + FileAlignment)
    <2>1. AlignDown(old_size + len, FileAlignment) = old_size + raw
        BY <1>3, <1>4, AlignedSum
    <2> QED BY <1>2, <1>3, <1>4, <2>1 DEF RawSize, FileSize
<1>6. (raw + FileAlignment) % FileAlignment = 0
    <2>1. PICK q \in Nat : raw = FileAlignment * q + (raw % FileAlignment)
        BY <1>3, Division
    <2>2. PICK n \in Nat : n = q + 1
        OBVIOUS
    <2>3. FileAlignment * q \in Nat /\ n * FileAlignment = FileAlignment * q + FileAlignment
        BY <1>3, <2>2
    <2>4. raw + FileAlignment = n * FileAlignment + 0
        <3>1. raw = FileAlignment * q
            BY <1>4, <2>1, <2>3
        <3> QED BY <1>3, <2>3, <3>1
    <2>5. (n * FileAlignment + 0) % FileAlignment = 0
        BY <1>3, Remainder
    <2> QED BY <2>4, <2>5
<1>7. VirtualSize \in Nat
    <2>1. ClearBit(len, SectionAlignment) \in Nat
        BY <1>3, ClearBitFacts
    <2> QED BY <1>2, <1>3, <2>1 DEF VirtualSize
<1>8. /\ new_header' \in SectionHeader
      /\ new_header'.ptr_raw_data = old_size /\ new_header'.size_raw_data = raw + FileAlignment
    <2>1. new_header \in SectionHeader /\ raw + FileAlignment \in Nat
        BY <1>3 DEF LInv, TypeOK
    <2> QED BY <1>1, <1>3, <1>5, <1>7, <2>1 DEF SectionHeader
<1>9. TypeOK' /\ Steps'
    BY <1>1, <1>3, <1>8 DEF LInv, TypeOK, Steps, OldSize
<1>10. RawDataFitsTheFile'
    BY <1>1, <1>3, <1>5, <1>6, <1>8 DEF RawDataFitsTheFile
<1>11. OldBytesAreKept'
    <2>1. /\ PatchWindows' = PatchWindows /\ HeaderSlot' = HeaderSlot
          /\ CountSlot' = CountSlot /\ binary' = binary
        BY <1>1 DEF PatchWindows, Entries, SectionOf, FileOffset, Window, InSection,
                     HeaderSlot, CountSlot
    <2>2. ASSUME NEW offset \in 0..(binary.size - 1)
          PROVE  offset \in DOMAIN module_data' /\ module_data'[offset] = module_data[offset]
        <3>1. /\ offset \in 0..(FileSize - 1) /\ offset \in DOMAIN module_data
              /\ offset \notin old_size..(old_size + Len(assembly) - 1)
            BY <1>2, <1>3, <1>5
        <3> QED BY <3>1 DEF Finish
    <2> QED BY <2>1, <2>2 DEF LInv, OldBytesAreKept
<1> QED BY <1>9, <1>10, <1>11 DEF LInv

-----------------------------------------------------------------------------
LEMMA LStutterLemma == LInv /\ UNCHANGED vars => LInv'
<1> SUFFICES ASSUME LInv, UNCHANGED vars PROVE LInv'
    OBVIOUS
<1>1. UNCHANGED <<binary, vm_entry_rvas, module_data, new_header, old_size, cur, assembly, pc>>
    BY DEF vars
<1>2. TypeOK' /\ Steps'
    BY <1>1 DEF LInv, TypeOK, Steps, OldSize
<1>3. RawDataFitsTheFile'
    BY <1>1 DEF LInv, RawDataFitsTheFile
<1>4. OldBytesAreKept'
    <2>1. /\ PatchWindows' = PatchWindows /\ HeaderSlot' = HeaderSlot
          /\ CountSlot' = CountSlot
        BY <1>1 DEF PatchWindows, Entries, SectionOf, FileOffset, Window, InSection,
                     HeaderSlot, CountSlot
    <2> QED BY <1>1, <2>1 DEF LInv, OldBytesAreKept
<1> QED BY <1>2, <1>3, <1>4 DEF LInv

LEMMA LStepLemma == LInv /\ [Next]_vars => LInv'
BY LStutterLemma, AddSectionStep, PatchEntryStep, CompileEntryStep, FinishStep DEF Next

\* Mapping the image leaves the file's bytes alone: main() as a whole does to
\* them what PeLayout says (the refinement is of the safety part, all there is).
LEMMA MapRefinesLayout == MapSpec => Spec
<1>1. MapInit => Init
    BY DEF MapInit
<1>2. [MapNext]_<<vars, map_vars>> => [Next]_vars
    BY DEF MapNext
<1> QED BY <1>1, <1>2, PTL DEF MapSpec, Spec

\* LInv is an invariant of main().
THEOREM LayoutInductive == MapSpec => []LInv
<1>1. Init => LInv
    BY LInitLemma
<1>2. LInv /\ [Next]_vars => LInv'
    BY LStepLemma
<1>3. Spec => []LInv
    BY <1>1, <1>2, PTL DEF Spec
<1> QED BY <1>3, MapRefinesLayout, PTL

\* For binaries of any size and any alignments that are powers of two, the
\* raw data of the new section is aligned, lies behind every byte of the old
\* file and ends where the new file ends (vmdevirt-vtil.cpp:188-190, :283-287).
THEOREM RawDataTheorem == MapSpec => []RawDataFitsTheFile
<1>1. LInv => RawDataFitsTheFile
    BY DEF LInv
<1> QED BY <1>1, LayoutInductive, PTL

\* Whatever is patched and compiled, in whatever number, and however the run
\* ends: bytes of the old file outside of the VM entries, of the count of
\* sections and of the new section's header are in the output where they were
\* (:180-190, :259-263).
THEOREM OldBytesTheorem == MapSpec => []OldBytesAreKept
<1>1. LInv => OldBytesAreKept
    BY DEF LInv
<1> QED BY <1>1, LayoutInductive, PTL

-----------------------------------------------------------------------------
\* As Init has it.
EntriesHeld ==
    \A i \in DOMAIN vm_entry_rvas : \A j \in DOMAIN binary.sections :
        InSection(vm_entry_rvas[i], binary.sections[j]) =>
            HoldsVmEnter(binary.sections[j], vm_entry_rvas[i])

\* The compiled code is mapped from where Finish puts it.
CodeInv ==
    /\ EntriesHeld
    /\ pc # "header" => new_header.virtual_address = SectionVa /\ Counted
    /\ AllCodeIsMapped

\* The entries and what is written over them lie behind the count of sections.
LEMMA CountStays ==
    ASSUME TypeOK, EntriesHeld, Counted, PatchEntry, cur \in DOMAIN vm_entry_rvas,
           DOMAIN module_data = 0..(binary.size - 1)
    PROVE  Counted'
<1> DEFINE rva == vm_entry_rvas[cur]
<1>1. /\ binary' = binary /\ binary.count_at \in Nat /\ binary.table_end \in Nat
      /\ binary.count_at + 2 <= binary.table_end /\ binary.table_end + 40 <= binary.size
      /\ binary.size \in Nat
    BY LayoutAssumption DEF PatchEntry, input, TypeOK, HeaderSize
<1>2. ASSUME NEW i \in SectionOf(rva), module_data' = Patched(rva, FileOffset(rva, binary.sections[i]))
      PROVE  module_data'[binary.count_at] = module_data[binary.count_at]
    <2>1. /\ rva \in Nat /\ i \in DOMAIN binary.sections /\ binary.sections[i] \in SectionHeader
          /\ HoldsVmEnter(binary.sections[i], rva)
        BY <1>2, InputFacts DEF SectionOf, EntriesHeld
    <2>2. PICK va \in Nat, raw \in Nat, size \in Nat :
             /\ va = binary.sections[i].virtual_address /\ raw = binary.sections[i].ptr_raw_data
             /\ size = binary.sections[i].size_raw_data
        BY <2>1 DEF SectionHeader
    <2>3. va <= rva /\ rva + 10 <= va + size
        BY <2>1, <2>2 DEF HoldsVmEnter, InSection, VmEnterSize
    <2>4. binary.table_end + 40 <= raw
        <3>1. size # 0
            BY <2>1, <2>2, <2>3
        <3>2. binary \in Binaries
            BY DEF TypeOK
        <3>3. binary.table_end + HeaderSize <= binary.sections[i].ptr_raw_data
            BY <2>1, <2>2, <3>1, <3>2, LayoutAssumption
        <3> QED BY <2>2, <3>3 DEF HeaderSize
    <2>5. PICK at \in Nat : at = FileOffset(rva, binary.sections[i]) /\ binary.count_at < at
        <3>1. FileOffset(rva, binary.sections[i]) = rva - va + raw
            BY <2>2 DEF FileOffset
        <3>2. rva - va + raw \in Nat /\ raw <= rva - va + raw
            BY <2>1, <2>3
        <3>3. binary.count_at < raw
            BY <1>1, <2>4
        <3> QED BY <1>1, <3>1, <3>2, <3>3
    <2>6. /\ binary.count_at \in DOMAIN module_data /\ binary.count_at # at
          /\ binary.count_at \notin (at + 1)..(at + JmpSize - 1) /\ binary.count_at \notin Nops(at)
        BY <1>1, <2>5 DEF Nops, JmpSize, VmEnterSize
    <2> QED BY <1>2, <2>5, <2>6 DEF Patched
<1> QED BY <1>1, <1>2 DEF PatchEntry, Counted

\* The new raw data starts behind the old file, so behind its headers too.
LEMMA CountIsKept ==
    ASSUME LInv, Counted, Finish
    PROVE  Counted'
<1>1. /\ pc = "finish" /\ binary' = binary /\ binary.size \in Nat
      /\ binary.count_at \in Nat /\ binary.count_at < binary.size
    <2>1. pc = "finish" /\ binary' = binary
        BY DEF Finish, input
    <2>2. /\ binary.size \in Nat /\ binary.count_at \in Nat /\ binary.table_end \in Nat
          /\ binary.count_at + 2 <= binary.table_end /\ binary.table_end + 40 <= binary.size
        BY LayoutAssumption DEF LInv, TypeOK, HeaderSize
    <2> QED BY <2>1, <2>2
<1>2. /\ DOMAIN module_data = 0..(binary.size - 1) /\ old_size \in Nat /\ binary.size < old_size
      /\ Len(assembly) \in Nat /\ FileAlignment \in Nat \ {0}
    BY <1>1, OldSizeFacts, InputFacts DEF LInv, TypeOK, Steps
<1>3. old_size <= FileSize
    <2>1. PICK n \in Nat : n = old_size + Len(assembly)
        BY <1>2
    <2>2. AlignDown(n, FileAlignment) \in Nat /\ n < AlignDown(n, FileAlignment) + FileAlignment
        BY <1>2, AlignFacts
    <2> QED BY <1>2, <2>1, <2>2 DEF FileSize
<1>4. FileSize \in Int
    <2>1. PICK n \in Nat : n = old_size + Len(assembly)
        BY <1>2
    <2>2. AlignDown(n, FileAlignment) \in Nat
        BY <1>2, AlignFacts
    <2> QED BY <1>2, <2>1, <2>2 DEF FileSize
<1>5. /\ binary.count_at \in 0..(FileSize - 1) /\ binary.count_at \in DOMAIN module_data
      /\ binary.count_at \notin old_size..(old_size + Len(assembly) - 1)
    BY <1>1, <1>2, <1>3, <1>4
<1> QED BY <1>1, <1>5 DEF Finish, Counted

LEMMA FinishMapsCode ==
    ASSUME LInv, new_header.virtual_address = SectionVa, Finish, Counted'
    PROVE  AllCodeIsMapped'
<1>1. /\ pc = "finish" /\ pc' = "done"
      /\ new_header' = [new_header EXCEPT !.virtual_size = VirtualSize, !.size_raw_data = RawSize]
      /\ UNCHANGED <<binary, vm_entry_rvas, old_size, cur, assembly>>
    BY DEF Finish, input
<1>2. PICK len \in Nat : len = Len(assembly) /\ DOMAIN assembly = 1..len
    BY InputFacts DEF LInv, TypeOK
<1>3. /\ old_size \in Nat /\ old_size % FileAlignment = 0 /\ new_header.ptr_raw_data = old_size
      /\ FileAlignment \in Nat \ {0} /\ SectionAlignment \in Nat \ {0} /\ SectionVa \in Nat
      /\ new_header \in SectionHeader
    BY <1>1, OldSizeFacts, InputFacts, LayoutAssumption DEF LInv, TypeOK, Steps
<1>4. PICK raw \in Nat : raw = AlignDown(len, FileAlignment) /\ len < raw + FileAlignment
    BY <1>3, AlignFacts
<1>5. RawSize = raw + FileAlignment /\ FileSize = old_size + (raw + FileAlignment)
    <2>1. AlignDown(old_size + len, FileAlignment) = old_size + raw
        BY <1>3, <1>4, AlignedSum
    <2> QED BY <1>2, <1>3, <1>4, <2>1 DEF RawSize, FileSize
<1>6. PICK vsize \in Nat : vsize = VirtualSize /\ len <= vsize
    <2>1. /\ ClearBit(len, SectionAlignment) \in Nat
          /\ len <= ClearBit(len, SectionAlignment) + SectionAlignment
        BY <1>3, ClearBitFacts
    <2> QED BY <1>2, <1>3, <2>1 DEF VirtualSize
<1>7. PICK h : /\ h = new_header' /\ h.virtual_address = SectionVa /\ h.ptr_raw_data = old_size
               /\ h.virtual_size = vsize /\ h.size_raw_data = raw + FileAlignment
    <2>1. /\ new_header'.virtual_address = SectionVa /\ new_header'.ptr_raw_data = old_size
          /\ new_header'.virtual_size = vsize /\ new_header'.size_raw_data = raw + FileAlignment
        BY <1>1, <1>3, <1>5, <1>6 DEF SectionHeader
    <2> QED BY <2>1
<1>8. ASSUME NEW i \in DOMAIN assembly
      PROVE  Holds(SectionVa + i - 1, assembly[i])'
    <2>1. PICK rva \in Nat : rva = SectionVa + i - 1
        BY <1>2, <1>3
    <2>2. InSection(rva, h) /\ rva < h.virtual_address + h.size_raw_data
        BY <1>2, <1>3, <1>4, <1>6, <1>7, <2>1 DEF InSection
    <2>3. FileOffset(rva, h) = old_size + i - 1
        BY <1>2, <1>3, <1>7, <2>1 DEF FileOffset
    <2>4. PICK last \in DOMAIN Headers' : Headers'[last] = h
        <3>1. binary.sections \in Seq(SectionHeader) /\ Headers' = binary.sections \o <<h>>
            BY <1>1, <1>7, InputFacts DEF LInv, Headers, Counted
        <3>2. Len(binary.sections) + 1 \in DOMAIN Headers' /\ Headers'[Len(binary.sections) + 1] = h
            BY <3>1
        <3> QED BY <3>2
    <2>5. old_size + i - 1 \in MappedFrom(rva)'
        BY <2>2, <2>3, <2>4 DEF MappedFrom
    <2>6. /\ old_size + i - 1 \in 0..(FileSize - 1)
          /\ old_size + i - 1 \in old_size..(old_size + Len(assembly) - 1)
          /\ (old_size + i - 1) - old_size + 1 = i
        <3>1. PICK k \in 1..len : k = i
            BY <1>2
        <3>2. PICK top \in Nat : top = raw + FileAlignment /\ len < top /\ FileSize = old_size + top
            BY <1>3, <1>4, <1>5
        <3> QED BY <1>2, <1>3, <3>1, <3>2
    <2>7. /\ old_size + i - 1 \in DOMAIN module_data'
          /\ module_data'[old_size + i - 1] = assembly[i]
        BY <2>6 DEF Finish
    <2> QED BY <1>1, <2>1, <2>5, <2>7 DEF Holds
<1> QED BY <1>1, <1>8 DEF AllCodeIsMapped

LEMMA CodeStepLemma == LInv /\ CodeInv /\ [Next]_vars => CodeInv'
<1> SUFFICES ASSUME LInv, CodeInv, [Next]_vars PROVE CodeInv'
    OBVIOUS
<1>0. EntriesHeld'
    <2>1. input' = input
        BY DEF Next, AddSection, PatchEntry, CompileEntry, Finish, input, vars
    <2> QED BY <2>1 DEF CodeInv, EntriesHeld, input, InSection, HoldsVmEnter
<1>1. CASE AddSection
    <2>1. /\ new_header'.virtual_address = SectionVa /\ pc' # "done"
          /\ pc = "header" /\ binary' = binary
        BY <1>1 DEF AddSection, NoHeader, input
    <2>2. /\ binary.count_at \in CountSlot /\ binary.count_at \in DOMAIN module_data
          /\ binary.count_at \notin HeaderSlot
        <3>1. /\ DOMAIN module_data = 0..(binary.size - 1) /\ binary.size \in Nat
              /\ binary.count_at \in Nat /\ binary.count_at + 2 <= binary.size
              /\ binary.table_end \in Nat /\ binary.count_at < binary.table_end
            <4>1. /\ binary.size \in Nat /\ binary.count_at \in Nat /\ binary.table_end \in Nat
                  /\ binary.count_at + 2 <= binary.table_end
                  /\ binary.table_end + 40 <= binary.size
                BY LayoutAssumption DEF LInv, TypeOK, HeaderSize
            <4>2. DOMAIN module_data = 0..(binary.size - 1)
                BY <2>1 DEF LInv, Steps
            <4> QED BY <4>1, <4>2
        <3> QED BY <3>1 DEF CountSlot, HeaderSlot
    <2>3. Counted'
        <3>1. module_data'[binary.count_at] = CountByte
            BY <1>1, <2>2 DEF AddSection
        <3> QED BY <2>1, <3>1 DEF Counted, CountByte
    <2> QED BY <1>0, <2>1, <2>3 DEF CodeInv, AllCodeIsMapped
<1>2. CASE PatchEntry
    <2>1. /\ pc = "patch" /\ pc' # "done" /\ new_header' = new_header
        BY <1>2 DEF PatchEntry
    <2>2. Counted'
        BY <1>2, <2>1, CountStays DEF CodeInv, LInv, Steps
    <2> QED BY <1>0, <2>1, <2>2 DEF CodeInv, AllCodeIsMapped
<1>3. CASE CompileEntry
    BY <1>0, <1>3 DEF CompileEntry, CodeInv, AllCodeIsMapped, Counted, input
<1>4. CASE Finish
    <2>1. pc = "finish" /\ new_header \in SectionHeader
        BY <1>4 DEF Finish, LInv, TypeOK
    <2>2. new_header.virtual_address = SectionVa /\ Counted
        BY <2>1 DEF CodeInv
    <2>3. new_header'.virtual_address = new_header.virtual_address
        BY <1>4, <2>1 DEF Finish, SectionHeader
    <2>4. Counted'
        BY <1>4, <2>2, CountIsKept DEF LInv
    <2> QED BY <1>0, <1>4, <2>2, <2>3, <2>4, FinishMapsCode DEF CodeInv
<1>5. CASE UNCHANGED vars
    <2>1. UNCHANGED <<binary, module_data, new_header, assembly, pc>>
        BY <1>5 DEF vars
    <2>2. Counted' = Counted
        BY <2>1 DEF Counted
    <2>3. Headers' = Headers
        BY <2>1, <2>2 DEF Headers
    <2>4. AllCodeIsMapped' = AllCodeIsMapped
        BY <2>1, <2>3 DEF AllCodeIsMapped, Holds, MappedFrom
    <2> QED BY <1>0, <2>1, <2>2, <2>4 DEF CodeInv
<1> QED BY <1>1, <1>2, <1>3, <1>4, <1>5 DEF Next

\* For code of any size and any alignments that are powers of two: every
\* compiled byte is mapped at the address it was compiled for, although the
\* virtual size is rounded by clearing one bit only (vmdevirt-vtil.cpp:283).
THEOREM MappedTheorem == MapSpec => []AllCodeIsMapped
<1>1. Init => CodeInv
    BY DEF Init, CodeInv, AllCodeIsMapped, EntriesHeld
<1>2. LInv /\ CodeInv /\ [Next]_vars => CodeInv'
    BY CodeStepLemma
<1>3. CodeInv => AllCodeIsMapped
    BY DEF CodeInv
<1> QED BY <1>1, <1>2, <1>3, MapRefinesLayout, LayoutInductive, PTL DEF Spec

-----------------------------------------------------------------------------
\* The addresses of the mapped image.
LEMMA BaseFacts ==
    ASSUME NEW t \in Nat
    PROVE  t + (Page - (t % Page)) \in (t + 1)..(t + Page)
<1>1. PICK p \in Nat \ {0} : p = Page
    BY ImageAssumption
<1>2. PICK r \in 0..(p - 1) : r = t % p
    BY Division
<1> QED BY <1>1, <1>2

LEMMA ImageFacts ==
    ASSUME TypeOK, NEW i \in DOMAIN binary.sections
    PROVE  /\ binary.size \in Nat /\ binary.size_image \in Nat
           /\ binary.sections[i] \in SectionHeader
           /\ binary.sections[i].ptr_raw_data + binary.sections[i].size_raw_data <= binary.size
           /\ binary.sections[i].virtual_address + binary.sections[i].size_raw_data
                 <= binary.size_image
<1>1. binary \in Binaries
    BY DEF TypeOK
<1> QED BY <1>1, ImageAssumption, LayoutAssumption

LEMMA RelocatedFacts ==
    ASSUME TypeOK, tmp \in Nat, next \in Directory(binary),
           NEW a \in RelocatedAt(binary.blocks[next])
    PROVE  a..(a + PointerSize - 1) \subseteq ModuleBase..(ModuleBase + binary.size_image - 1)
<1>1. binary \in Binaries /\ binary.size_image \in Nat
    BY ImageAssumption DEF TypeOK
<1>2. binary.blocks[next] \in Relocation
    BY <1>1, ImageAssumption DEF Directory
<1>3. PICK base \in Nat : base = binary.blocks[next].base_rva
    BY <1>2 DEF Relocation
<1>4. PICK j \in DOMAIN binary.blocks[next].entries :
         a = base + binary.blocks[next].entries[j].offset + ModuleBase
    <2> DEFINE block == binary.blocks[next]
               moved == {block.entries[j] : j \in {j \in DOMAIN block.entries :
                                                     Relocates(block.entries[j])}}
    <2>1. PICK entry \in moved : a = block.base_rva + entry.offset + ModuleBase
        BY DEF RelocatedAt
    <2>2. PICK j \in DOMAIN block.entries : entry = block.entries[j]
        BY <2>1
    <2> QED BY <1>3, <2>1, <2>2
<1>5. PICK offset \in Nat : offset = binary.blocks[next].entries[j].offset
    <2> DEFINE EntrySet == [type : STRING, offset : Nat]
    <2>1. PICK entries \in Seq(EntrySet) : entries = binary.blocks[next].entries
        BY <1>2 DEF Relocation
    <2>2. \A e \in EntrySet : e.offset \in Nat
        OBVIOUS
    <2> HIDE DEF EntrySet
    <2>3. j \in 1..Len(entries)
        BY <1>4, <2>1
    <2>4. entries[j] \in EntrySet
        BY <2>1, <2>3
    <2> QED BY <2>1, <2>2, <2>4
<1>6. base + offset + PointerSize <= binary.size_image
    <2>1. <<next, j>> \in EntriesOf(binary)
        <3>1. <<next, j>> \in {<<next, k>> : k \in DOMAIN binary.blocks[next].entries}
            BY <1>4
        <3> QED BY <3>1 DEF EntriesOf
    <2>2. Target(binary, <<next, j>>) = base + offset
        BY <1>3, <1>5 DEF Target, EntryOf
    <2> QED BY <1>1, <2>1, <2>2, ImageAssumption
<1>7. PICK m \in Nat : m = ModuleBase
    <2>1. PICK t \in Nat : t = tmp
        OBVIOUS
    <2>2. t + (Page - (t % Page)) \in (t + 1)..(t + Page) /\ Page \in Nat
        BY BaseFacts, ImageAssumption
    <2> QED BY <2>1, <2>2 DEF ModuleBase
<1>8. a = base + offset + m
    BY <1>4, <1>5, <1>7
<1>9. PICK image \in Nat : image = binary.size_image
    BY <1>1
<1>10. a..(a + 8 - 1) \subseteq m..(m + image - 1)
    BY <1>6, <1>8, <1>9 DEF PointerSize
<1> QED BY <1>7, <1>9, <1>10 DEF PointerSize

\* MapTypeOK; no pointer is moved before there is an image; the walk over the
\* blocks is at one of them, or at their end.
Stops == Directory(binary) \cup {DirectoryEnd(binary)}
MapInv ==
    /\ MapTypeOK
    /\ step = "open" => slides = <<>>
    /\ step = "relocate" /\ Terminated => next \in Stops

LEMMA MapStutterLemma ==
    ASSUME MapInv, TypeOK', UNCHANGED <<binary, map_vars>> PROVE MapInv'
BY DEF MapInv, MapTypeOK, Allocated, map_vars, Terminated, ReadBlock, Stops

LEMMA MapInitLemma == MapInit => MapInv
<1> SUFFICES ASSUME MapInit PROVE MapInv
    OBVIOUS
<1>1. TypeOK
    BY LInitLemma DEF MapInit, LInv
<1> QED BY <1>1 DEF MapInit, MapInv, MapTypeOK

LEMMA FirstPageFacts ==
    ASSUME NEW size \in Nat, NEW image \in Nat, NEW page \in Nat, page <= size, page <= image,
           NEW t \in Nat, NEW m \in (t + 1)..(t + page), NEW a \in m..(m + page - 1)
    PROVE  a \in t..(t + image + page - 1) /\ a - m \in 0..(size - 1)
OBVIOUS

LEMMA OpenStep == MapInv /\ OpenBinary /\ UNCHANGED vars => MapInv'
<1> SUFFICES ASSUME MapInv, OpenBinary, UNCHANGED vars PROVE MapInv'
    OBVIOUS
<1>1. TypeOK' /\ binary' = binary /\ binary \in Binaries
    BY DEF vars, MapInv, MapTypeOK, TypeOK
<1>2. slides = <<>> /\ slides' = <<>> /\ next' = next
    BY DEF OpenBinary, MapInv
<1>3. CASE step' = "failed" /\ UNCHANGED <<tmp, memory>>
    BY <1>1, <1>2, <1>3 DEF MapInv, MapTypeOK, Allocated
<1>4. CASE /\ tmp' \in DataAddresses /\ step' = "sections"
           /\ memory' = [a \in ModuleBase'..(ModuleBase' + Page - 1) |-> a - ModuleBase']
    <2>1. PICK t \in Nat : t = tmp'
        BY <1>4, ImageAssumption
    <2>2. PICK m \in (t + 1)..(t + Page) : m = ModuleBase'
        BY <1>1, <2>1, BaseFacts DEF ModuleBase
    <2>3. /\ Page \in Nat \ {0} /\ binary.size \in Nat /\ binary.size_image \in Nat
          /\ Page <= binary.size /\ Page <= binary.size_image
        BY <1>1, ImageAssumption, LayoutAssumption
    <2>4. \A a \in DOMAIN memory' : a \in Allocated' /\ memory'[a] \in 0..(binary.size - 1)
        <3>1. memory' = [a \in m..(m + Page - 1) |-> a - m]
            BY <1>4, <2>2
        <3>2. Allocated' = t..(t + binary.size_image + Page - 1)
            BY <1>1, <2>1 DEF Allocated
        <3>3. ASSUME NEW a \in m..(m + Page - 1)
              PROVE  /\ a \in t..(t + binary.size_image + Page - 1)
                     /\ a - m \in 0..(binary.size - 1)
            BY <2>3, <3>3, FirstPageFacts
        <3> QED BY <3>1, <3>2, <3>3
    <2> QED BY <1>1, <1>2, <1>4, <2>4 DEF MapInv, MapTypeOK
<1> QED BY <1>3, <1>4 DEF OpenBinary

LEMMA CopyStep == MapInv /\ CopySection /\ UNCHANGED vars => MapInv'
<1> SUFFICES ASSUME MapInv, CopySection, UNCHANGED vars PROVE MapInv'
    OBVIOUS
<1>1. TypeOK /\ TypeOK' /\ binary' = binary /\ UNCHANGED <<tmp, slides>>
    BY DEF vars, CopySection, MapInv, MapTypeOK, TypeOK
<1>2. step = "sections" /\ step' \in {"sections", "relocate"} /\ next' \in Nat
    <2>1. binary.reloc_rva \in Nat
        BY <1>1, ImageAssumption DEF TypeOK
    <2> QED BY <2>1 DEF CopySection, MapInv, MapTypeOK
<1>3. \A a \in DOMAIN memory' : a \in Allocated /\ memory'[a] \in 0..(binary.size - 1)
    <2>1. CASE next \notin DOMAIN binary.sections
        BY <2>1 DEF CopySection, MapInv, MapTypeOK
    <2>2. CASE next \in DOMAIN binary.sections
        <3>1. PICK s \in SectionHeader :
                 /\ s = binary.sections[next]
                 /\ s.ptr_raw_data + s.size_raw_data <= binary.size
                 /\ s.virtual_address + s.size_raw_data <= binary.size_image
            BY <1>1, <2>2, ImageFacts
        <3>2. memory' = Copy(CopyTarget(s), s.ptr_raw_data, s.size_raw_data)
            BY <2>2, <3>1 DEF CopySection
        <3>3. /\ s.ptr_raw_data \in Nat /\ s.size_raw_data \in Nat /\ s.virtual_address \in Nat
              /\ binary.size \in Nat /\ binary.size_image \in Nat /\ Page \in Nat \ {0}
            BY <1>1, <2>2, <3>1, ImageFacts, ImageAssumption DEF SectionHeader
        <3>4. PICK t \in Nat : t = tmp
            BY ImageAssumption DEF MapInv, MapTypeOK
        <3>5. PICK m \in (t + 1)..(t + Page) : m = ModuleBase
            BY <3>4, BaseFacts DEF ModuleBase
        <3>6. ASSUME NEW a \in DOMAIN memory'
              PROVE  a \in Allocated /\ memory'[a] \in 0..(binary.size - 1)
            <4>1. CASE a \in (m + s.virtual_address)..(m + s.virtual_address + s.size_raw_data - 1)
                <5>1. memory'[a] = a - (m + s.virtual_address) + s.ptr_raw_data
                    BY <3>2, <3>5, <3>6, <4>1 DEF Copy, CopyTarget
                <5> QED BY <3>1, <3>3, <3>4, <3>5, <4>1, <5>1 DEF Allocated
            <4>2. CASE a \notin (m + s.virtual_address)..(m + s.virtual_address + s.size_raw_data - 1)
                <5>1. a \in DOMAIN memory /\ memory'[a] = memory[a]
                    BY <3>2, <3>5, <3>6, <4>2 DEF Copy, CopyTarget
                <5> QED BY <5>1 DEF MapInv, MapTypeOK
            <4> QED BY <4>1, <4>2
        <3> QED BY <3>6
    <2> QED BY <2>1, <2>2
<1>4. Allocated' = Allocated
    BY <1>1 DEF Allocated
<1>5. step' = "relocate" => next' \in Stops /\ Stops' = Stops
    <2>1. binary.reloc_rva \in Stops
        BY <1>1, ImageAssumption DEF TypeOK, Stops
    <2>2. step' = "relocate" => next' = binary.reloc_rva
        BY <1>2 DEF CopySection
    <2> QED BY <1>1, <2>1, <2>2 DEF Stops
<1>6. Terminated' = Terminated /\ step' # "open"
    BY <1>1, <1>2 DEF Terminated, ReadBlock
<1> QED BY <1>1, <1>2, <1>3, <1>4, <1>5, <1>6 DEF MapInv, MapTypeOK

LEMMA BlockType ==
    ASSUME TypeOK, NEW rva
    PROVE  ReadBlock(rva) \in Relocation
<1>1. EmptyBlock \in Relocation
    BY DEF EmptyBlock, Relocation
<1>2. rva \in DOMAIN binary.blocks => binary.blocks[rva] \in Relocation
    BY ImageAssumption DEF TypeOK
<1> QED BY <1>1, <1>2 DEF ReadBlock

\* Within a terminated directory the walk goes from block to block.
LEMMA BlockFacts ==
    ASSUME TypeOK, Terminated, NEW rva \in Stops,
           ReadBlock(rva).base_rva # 0, ReadBlock(rva).size_block # 0
    PROVE  /\ rva \in Directory(binary) /\ ReadBlock(rva) = binary.blocks[rva]
           /\ NextBlock(rva) \in Stops
<1>1. rva \in Directory(binary)
    BY DEF Terminated, Stops
<1>2. ReadBlock(rva) = binary.blocks[rva]
    BY <1>1 DEF ReadBlock, Directory
<1>3. rva + binary.blocks[rva].size_block \in Stops
    BY <1>1, ImageAssumption DEF TypeOK, Stops
<1> QED BY <1>1, <1>2, <1>3 DEF NextBlock

LEMMA RelocateStep == MapInv /\ RelocateBlock /\ UNCHANGED vars => MapInv'
<1> SUFFICES ASSUME MapInv, RelocateBlock, UNCHANGED vars PROVE MapInv'
    OBVIOUS
<1>1. /\ TypeOK /\ TypeOK' /\ binary' = binary /\ UNCHANGED <<tmp, memory>> /\ Allocated' = Allocated
    BY DEF vars, RelocateBlock, MapInv, MapTypeOK, TypeOK, Allocated
<1>2. step = "relocate" /\ step' \in {"relocate", "check"} /\ next' \in Nat
    <2>1. ReadBlock(next).size_block \in Nat /\ next \in Nat
        BY <1>1, BlockType DEF Relocation, MapInv, MapTypeOK
    <2> QED BY <2>1 DEF RelocateBlock, NextBlock, MapInv, MapTypeOK
<1>3. (Terminated => next \in Stops) /\ Terminated' = Terminated /\ Stops' = Stops
    BY <1>1, <1>2 DEF MapInv, Terminated, ReadBlock, Stops
<1>4. \A a \in DOMAIN slides' :
         slides'[a] \in Nat /\ (Terminated => a..(a + PointerSize - 1) \subseteq Allocated)
    <2>1. CASE slides' = slides
        BY <2>1 DEF MapInv, MapTypeOK
    <2>2. CASE slides' # slides
        <3>1. /\ slides' = [a \in DOMAIN slides \cup RelocatedAt(ReadBlock(next)) |->
                               Times(a) + (IF a \in RelocatedAt(ReadBlock(next)) THEN 1 ELSE 0)]
              /\ ReadBlock(next).base_rva # 0 /\ ReadBlock(next).size_block # 0
            BY <2>2 DEF RelocateBlock
        <3>2. ASSUME NEW a \in DOMAIN slides'
              PROVE  slides'[a] \in Nat
            <4>1. Times(a) \in Nat
                BY DEF Times, MapInv, MapTypeOK
            <4> QED BY <3>1, <3>2, <4>1
        <3>3. ASSUME Terminated, NEW a \in RelocatedAt(ReadBlock(next))
              PROVE  a..(a + PointerSize - 1) \subseteq Allocated
            <4>1. next \in Directory(binary) /\ ReadBlock(next) = binary.blocks[next]
                BY <1>1, <1>3, <3>1, <3>3, BlockFacts
            <4>2. PICK t \in Nat : t = tmp
                BY ImageAssumption DEF MapInv, MapTypeOK
            <4>3. PICK m \in (t + 1)..(t + Page) : m = ModuleBase
                BY <4>2, BaseFacts DEF ModuleBase
            <4>4. a..(a + PointerSize - 1) \subseteq m..(m + binary.size_image - 1)
                BY <1>1, <3>3, <4>1, <4>2, <4>3, RelocatedFacts
            <4>5. Page \in Nat /\ binary.size_image \in Nat
                BY <1>1, ImageAssumption DEF TypeOK
            <4> QED BY <4>2, <4>3, <4>4, <4>5 DEF Allocated
        <3> QED BY <3>1, <3>2, <3>3 DEF MapInv, MapTypeOK
    <2> QED BY <2>1, <2>2
<1>5. step' = "relocate" /\ Terminated => next' \in Stops
    BY <1>1, <1>3, BlockFacts DEF RelocateBlock
<1> QED BY <1>1, <1>2, <1>3, <1>4, <1>5 DEF MapInv, MapTypeOK

LEMMA MapNextLemma == MapInv /\ LInv /\ [MapNext]_<<vars, map_vars>> => MapInv'
<1> SUFFICES ASSUME MapInv, LInv, [MapNext]_<<vars, map_vars>> PROVE MapInv'
    OBVIOUS
<1>1. CASE OpenBinary /\ UNCHANGED vars
    BY <1>1, OpenStep
<1>2. CASE CopySection /\ UNCHANGED vars
    BY <1>2, CopyStep
<1>3. CASE RelocateBlock /\ UNCHANGED vars
    BY <1>3, RelocateStep
<1>4. CASE CheckImage /\ UNCHANGED vars
    BY <1>4 DEF CheckImage, vars, MapInv, MapTypeOK, TypeOK, Allocated, ModuleBase,
                Terminated, ReadBlock, Stops
<1>5. CASE Next /\ UNCHANGED map_vars
    <2>1. LInv'
        BY <1>5, LStepLemma
    <2>2. binary' = binary
        BY <1>5 DEF Next, AddSection, PatchEntry, CompileEntry, Finish, input
    <2> QED BY <1>5, <2>1, <2>2, MapStutterLemma DEF LInv
<1>6. CASE UNCHANGED <<vars, map_vars>>
    <2>1. LInv' /\ binary' = binary
        BY <1>6, LStutterLemma DEF vars
    <2> QED BY <1>6, <2>1, MapStutterLemma DEF LInv
<1> QED BY <1>1, <1>2, <1>3, <1>4, <1>5, <1>6 DEF MapNext

\* No byte is copied and no pointer is moved outside of the vector, for images
\* of any size, any sections, any relocations and any address the vector gets:
\* the page more than the image that is allocated makes up for the page the
\* image is moved by (vmdevirt-vtil.cpp:108-122, :139-141).
THEOREM MapTypeTheorem == MapSpec => []MapTypeOK
<1>1. MapInv /\ LInv /\ [MapNext]_<<vars, map_vars>> => MapInv'
    BY MapNextLemma
<1>2. MapInit => MapInv
    BY MapInitLemma
<1>3. MapInv => MapTypeOK
    BY DEF MapInv
<1> QED BY <1>1, <1>2, <1>3, LayoutInductive, PTL DEF MapSpec
-----------------------------------------------------------------------------
\* From here on the jumps.  The offset in a jump is the length of the assembly
\* when it was written, which is where the code of its entry starts later.

\* The VM entries given are different ones: none is named twice, and no two
\* share bytes of the file.
EntriesApart ==
    \A i, j \in DOMAIN vm_entry_rvas : i # j =>
        /\ vm_entry_rvas[i] # vm_entry_rvas[j]
        /\ \A k \in SectionOf(vm_entry_rvas[i]), l \in SectionOf(vm_entry_rvas[j]) :
              Window(vm_entry_rvas[i], binary.sections[k])
                  \cap Window(vm_entry_rvas[j], binary.sections[l]) = {}

\* Image and code end within the reach of a jump, 2 GB.
InReach ==
    /\ SectionVa + Len(assembly) < Word \div 2
    /\ \A rva \in Entries : rva + JmpSize <= Word \div 2

\* The code of rva, if there is any, starts behind the first `start' bytes.
StartsBehind(rva, start) ==
    CodeOf(rva) # {} => start + 1 \in CodeOf(rva) /\ \A j \in CodeOf(rva) : start + 1 <= j
RelTo(rva, start) == ((SectionVa - rva) + start - JmpSize) % Word
JumpIsAt(rva, k, start) ==
    /\ k \in SectionOf(rva)
    /\ FileOffset(rva, binary.sections[k]) \in 0..(binary.size - 1)
    /\ module_data[FileOffset(rva, binary.sections[k])] = Jmp(RelTo(rva, start))
Handled == 1..(IF pc = "compile" THEN cur ELSE cur - 1)

JumpInv ==
    /\ EntriesApart /\ EntriesHeld
    /\ pc \in {"finish", "done"} => cur = Len(vm_entry_rvas) + 1
    /\ cur \in 1..(Len(vm_entry_rvas) + 1)
    /\ \A n \in DOMAIN assembly : \E i \in 1..(cur - 1) : assembly[n] = Code(vm_entry_rvas[i])
    /\ \A i \in Handled : \E k \in SectionOf(vm_entry_rvas[i]), start \in 0..Len(assembly) :
          /\ JumpIsAt(vm_entry_rvas[i], k, start)
          /\ StartsBehind(vm_entry_rvas[i], start)
          /\ i = cur => start = Len(assembly)

\* What the entry's section keeps of it in the file.
LEMMA HeldFacts ==
    ASSUME TypeOK, EntriesHeld, NEW i \in DOMAIN vm_entry_rvas, NEW k \in SectionOf(vm_entry_rvas[i])
    PROVE  /\ vm_entry_rvas[i] \in Nat /\ k \in DOMAIN binary.sections
           /\ binary.sections[k] \in SectionHeader
           /\ InSection(vm_entry_rvas[i], binary.sections[k])
           /\ vm_entry_rvas[i] < binary.sections[k].virtual_address + binary.sections[k].size_raw_data
           /\ FileOffset(vm_entry_rvas[i], binary.sections[k]) \in 0..(binary.size - 1)
<1>1. /\ vm_entry_rvas[i] \in Nat /\ k \in DOMAIN binary.sections
      /\ binary.sections[k] \in SectionHeader /\ InSection(vm_entry_rvas[i], binary.sections[k])
    BY InputFacts DEF SectionOf
<1>2. HoldsVmEnter(binary.sections[k], vm_entry_rvas[i])
    BY <1>1 DEF EntriesHeld
<1>3. /\ binary.sections[k].ptr_raw_data + binary.sections[k].size_raw_data <= binary.size
      /\ binary.size \in Nat
    BY <1>1, ImageFacts
<1>4. /\ binary.sections[k].ptr_raw_data \in Nat /\ binary.sections[k].size_raw_data \in Nat
      /\ binary.sections[k].virtual_address \in Nat /\ binary.sections[k].virtual_size \in Nat
    BY <1>1 DEF SectionHeader
<1>5. /\ vm_entry_rvas[i] + 10 <= binary.sections[k].virtual_address + binary.sections[k].size_raw_data
      /\ vm_entry_rvas[i] >= binary.sections[k].virtual_address
    BY <1>2 DEF HoldsVmEnter, InSection, VmEnterSize
<1> QED BY <1>1, <1>3, <1>4, <1>5 DEF FileOffset

LEMMA JumpInputLemma ==
    ASSUME UNCHANGED input
    PROVE  /\ EntriesApart' = EntriesApart /\ EntriesHeld' = EntriesHeld
           /\ \A rva : SectionOf(rva)' = SectionOf(rva)
BY DEF input, EntriesApart, EntriesHeld, SectionOf, Window, FileOffset, InSection, HoldsVmEnter

\* The old jumps stay where module_data does, for the bytes of the file.
LEMMA JumpsStayLemma ==
    ASSUME UNCHANGED input, NEW rva, NEW k, NEW start, JumpIsAt(rva, k, start),
           module_data'[FileOffset(rva, binary.sections[k])]
               = module_data[FileOffset(rva, binary.sections[k])]
    PROVE  JumpIsAt(rva, k, start)'
BY DEF input, JumpIsAt, SectionOf, FileOffset, InSection

\* Nothing is compiled for an entry before its turn.
LEMMA NoCodeYet ==
    ASSUME EntriesApart, cur \in DOMAIN vm_entry_rvas, DOMAIN vm_entry_rvas = 1..Len(vm_entry_rvas),
           Len(vm_entry_rvas) \in Nat,
           \A n \in DOMAIN assembly : \E i \in 1..(cur - 1) : assembly[n] = Code(vm_entry_rvas[i])
    PROVE  CodeOf(vm_entry_rvas[cur]) = {}
<1>1. SUFFICES ASSUME NEW n \in DOMAIN assembly, assembly[n] = Code(vm_entry_rvas[cur])
               PROVE FALSE
    BY DEF CodeOf
<1>2. PICK i \in 1..(cur - 1) : assembly[n] = Code(vm_entry_rvas[i])
    OBVIOUS
<1>3. vm_entry_rvas[i] = vm_entry_rvas[cur]
    BY <1>1, <1>2 DEF Code
<1>4. i \in DOMAIN vm_entry_rvas /\ i # cur
    OBVIOUS
<1> QED BY <1>3, <1>4 DEF EntriesApart

LEMMA JumpAddStep == LInv /\ JumpInv /\ AddSection => JumpInv'
<1> SUFFICES ASSUME LInv, JumpInv, AddSection PROVE JumpInv'
    OBVIOUS
<1>1. pc = "header" /\ cur = 1 /\ UNCHANGED <<input, cur, assembly>>
    BY DEF AddSection, LInv, Steps
<1>2. pc' = (IF vm_entry_rvas = <<>> THEN "finish" ELSE "patch") /\ UNCHANGED vm_entry_rvas
    BY DEF AddSection, input
<1>3. vm_entry_rvas = <<>> => Len(vm_entry_rvas) = 0
    OBVIOUS
<1>4. Handled' = {}
    BY <1>1, <1>2 DEF Handled
<1> QED BY <1>1, <1>2, <1>3, <1>4, JumpInputLemma DEF JumpInv

LEMMA JumpPatchStep == LInv /\ JumpInv /\ PatchEntry => JumpInv'
<1> SUFFICES ASSUME LInv, JumpInv, PatchEntry PROVE JumpInv'
    OBVIOUS
<1>1. /\ pc = "patch" /\ cur \in DOMAIN vm_entry_rvas /\ pc' \in {"compile", "failed"}
      /\ UNCHANGED <<input, cur, assembly>> /\ UNCHANGED vm_entry_rvas
      /\ DOMAIN module_data = 0..(binary.size - 1)
    BY DEF PatchEntry, LInv, Steps, input
<1>2. cur \in 1..Len(vm_entry_rvas) /\ TypeOK /\ EntriesHeld /\ EntriesApart
    BY <1>1, InputFacts DEF LInv, JumpInv
<1>3. ASSUME NEW i \in 1..(cur - 1)
      PROVE  \E k \in SectionOf(vm_entry_rvas[i]), start \in 0..Len(assembly) :
                /\ JumpIsAt(vm_entry_rvas[i], k, start)'
                /\ StartsBehind(vm_entry_rvas[i], start)
    <2>1. PICK k \in SectionOf(vm_entry_rvas[i]), start \in 0..Len(assembly) :
             JumpIsAt(vm_entry_rvas[i], k, start) /\ StartsBehind(vm_entry_rvas[i], start)
        BY <1>1 DEF JumpInv, Handled
    <2>2. i \in DOMAIN vm_entry_rvas /\ i # cur
        BY <1>2, InputFacts
    <2>3. PICK at \in 0..(binary.size - 1) : at = FileOffset(vm_entry_rvas[i], binary.sections[k])
        BY <1>2, <2>2, HeldFacts
    <2>4. binary.size \in Nat
        BY <1>2, InputFacts
    <2>5. module_data'[at] = module_data[at]
        <3>1. CASE pc' = "failed"
            BY <1>1, <3>1 DEF PatchEntry
        <3>2. ASSUME NEW l \in SectionOf(vm_entry_rvas[cur]),
                     module_data' = Patched(vm_entry_rvas[cur],
                                            FileOffset(vm_entry_rvas[cur], binary.sections[l]))
              PROVE  module_data'[at] = module_data[at]
            <4>1. PICK to \in 0..(binary.size - 1) :
                     to = FileOffset(vm_entry_rvas[cur], binary.sections[l])
                BY <1>1, <1>2, HeldFacts
            <4>2. Window(vm_entry_rvas[i], binary.sections[k])
                     \cap Window(vm_entry_rvas[cur], binary.sections[l]) = {}
                BY <1>1, <1>2, <2>2 DEF EntriesApart
            <4>3. at \in Window(vm_entry_rvas[i], binary.sections[k])
                BY <2>3, <2>4 DEF Window, VmEnterSize
            <4>4. at \notin to..(to + VmEnterSize - 1)
                BY <4>1, <4>2, <4>3 DEF Window
            <4>5. at # to /\ at \notin (to + 1)..(to + JmpSize - 1) /\ at \notin Nops(to)
                BY <2>4, <4>1, <4>4 DEF Nops, JmpSize, VmEnterSize
            <4> QED BY <1>1, <2>3, <3>2, <4>1, <4>5 DEF Patched
        <3> QED BY <1>1, <3>1, <3>2 DEF PatchEntry
    <2> QED BY <1>1, <2>1, <2>3, <2>5, JumpsStayLemma
<1>4. ASSUME pc' = "compile"
      PROVE  \E k \in SectionOf(vm_entry_rvas[cur]) :
                /\ JumpIsAt(vm_entry_rvas[cur], k, Len(assembly))'
                /\ StartsBehind(vm_entry_rvas[cur], Len(assembly))
    <2>1. PICK k \in SectionOf(vm_entry_rvas[cur]) :
             module_data' = Patched(vm_entry_rvas[cur],
                                    FileOffset(vm_entry_rvas[cur], binary.sections[k]))
        BY <1>4 DEF PatchEntry
    <2>2. PICK at \in 0..(binary.size - 1) :
             at = FileOffset(vm_entry_rvas[cur], binary.sections[k])
        BY <1>1, <1>2, HeldFacts
    <2>3. module_data'[at] = Jmp(RelTo(vm_entry_rvas[cur], Len(assembly)))
        <3>1. module_data' = Patched(vm_entry_rvas[cur], at) /\ at \in DOMAIN module_data
            BY <1>1, <2>1, <2>2
        <3>2. at \notin (at + 1)..(at + JmpSize - 1) /\ at \notin Nops(at)
            BY <2>2 DEF Nops, JmpSize, VmEnterSize
        <3>3. module_data'[at] = Jmp(RelativeOffset(vm_entry_rvas[cur]))
            BY <3>1, <3>2 DEF Patched
        <3>4. RelativeOffset(vm_entry_rvas[cur]) = RelTo(vm_entry_rvas[cur], Len(assembly))
            BY DEF RelativeOffset, RelTo
        <3> QED BY <3>3, <3>4
    <2>4. JumpIsAt(vm_entry_rvas[cur], k, Len(assembly))'
        BY <1>1, <2>2, <2>3 DEF JumpIsAt, input, SectionOf, FileOffset, InSection, RelTo
    <2>5. CodeOf(vm_entry_rvas[cur]) = {}
        BY <1>1, <1>2, InputFacts, NoCodeYet DEF JumpInv
    <2> QED BY <2>4, <2>5 DEF StartsBehind
<1>5. UNCHANGED CodeOf(vm_entry_rvas[cur]) /\ \A rva : CodeOf(rva)' = CodeOf(rva)
    BY <1>1 DEF CodeOf
<1>6. ASSUME NEW i \in Handled'
      PROVE  \E k \in SectionOf(vm_entry_rvas[i]), start \in 0..Len(assembly) :
                /\ JumpIsAt(vm_entry_rvas[i], k, start)'
                /\ StartsBehind(vm_entry_rvas[i], start)
                /\ i = cur => start = Len(assembly)
    <2>1. i \in 1..(cur - 1) \/ (i = cur /\ pc' = "compile")
        BY <1>1, <1>2 DEF Handled
    <2>2. i \in 1..(cur - 1) => i # cur
        BY <1>2
    <2>3. Len(assembly) \in 0..Len(assembly)
        BY <1>2, InputFacts
    <2>4. CASE i \in 1..(cur - 1)
        BY <1>3, <2>2, <2>4
    <2>5. CASE i = cur /\ pc' = "compile"
        <3>1. cur' = i /\ cur = i
            BY <1>1, <2>5
        <3> QED BY <1>1, <1>4, <2>3, <2>5, <3>1
    <2> QED BY <2>1, <2>4, <2>5
<1>7. \A i \in Handled' : \E k \in SectionOf(vm_entry_rvas[i])', start \in 0..Len(assembly') :
          /\ JumpIsAt(vm_entry_rvas[i], k, start)'
          /\ StartsBehind(vm_entry_rvas[i], start)'
          /\ i = cur' => start = Len(assembly')
    BY <1>1, <1>5, <1>6, JumpInputLemma DEF StartsBehind
<1> QED BY <1>1, <1>2, <1>7, JumpInputLemma DEF JumpInv

LEMMA JumpCompileStep == LInv /\ JumpInv /\ CompileEntry => JumpInv'
<1> SUFFICES ASSUME LInv, JumpInv, CompileEntry PROVE JumpInv'
    OBVIOUS
<1>1. /\ pc = "compile" /\ cur' = cur + 1
      /\ pc' = (IF cur >= Len(vm_entry_rvas) THEN "finish" ELSE "patch")
      /\ UNCHANGED <<input, module_data>> /\ UNCHANGED <<binary, vm_entry_rvas>>
    BY DEF CompileEntry, input, LastEntry
<1>2. cur \in 1..Len(vm_entry_rvas) /\ TypeOK /\ EntriesApart /\ Len(vm_entry_rvas) \in Nat
    BY <1>1, InputFacts DEF LInv, Steps, JumpInv
<1>3. PICK len \in Nat : len = Len(assembly)
    BY <1>2, InputFacts
<1>4. PICK size \in CodeSizes :
         assembly' = assembly \o [i \in 1..size |-> Code(vm_entry_rvas[cur])]
    BY DEF CompileEntry
<1>5. /\ size \in Nat /\ DOMAIN assembly = 1..len /\ Len(assembly') = len + size
      /\ DOMAIN assembly' = 1..(len + size)
      /\ \A n \in 1..len : assembly'[n] = assembly[n]
      /\ \A n \in (len + 1)..(len + size) : assembly'[n] = Code(vm_entry_rvas[cur])
    <2>1. size \in Nat /\ assembly \in Seq([kind : {"code"}, of : Nat, rel : {0}])
        BY <1>2, LayoutAssumption DEF TypeOK
    <2> DEFINE code == [i \in 1..size |-> Code(vm_entry_rvas[cur])]
               Any == [kind : {"code"}, of : Nat, rel : {0}]
    <2>2. vm_entry_rvas[cur] \in Nat
        BY <1>2, InputFacts
    <2>3. Code(vm_entry_rvas[cur]) \in Any
        BY <2>2 DEF Code
    <2>4. code \in Seq(Any) /\ Len(code) = size
        BY <2>1, <2>3
    <2>5. \A n \in 1..size : code[n] = Code(vm_entry_rvas[cur])
        OBVIOUS
    <2> HIDE DEF code, Any
    <2>6. assembly \in Seq(Any)
        BY <2>1 DEF Any
    <2>7. assembly' = assembly \o code
        BY <1>4 DEF code
    <2>8. Len(assembly') = len + size /\ DOMAIN assembly' = 1..(len + size)
        <3>1. assembly \o code \in Seq(Any) /\ Len(assembly \o code) = len + size
            BY <1>3, <2>4, <2>6
        <3>2. DOMAIN (assembly \o code) = 1..(len + size)
            BY <3>1
        <3> QED BY <2>7, <3>1, <3>2
    <2>9. \A n \in 1..len : assembly'[n] = assembly[n]
        BY <1>3, <2>1, <2>4, <2>6, <2>7
    <2>10. ASSUME NEW n \in (len + 1)..(len + size)
           PROVE  assembly'[n] = Code(vm_entry_rvas[cur])
        <3>1. n - len \in 1..size /\ n \in 1..(len + size) /\ n > len
            BY <1>3, <2>1
        <3>2. assembly'[n] = code[n - len]
            BY <1>3, <2>1, <2>4, <2>6, <2>7, <3>1
        <3> QED BY <2>5, <3>1, <3>2
    <2> QED BY <1>3, <2>1, <2>6, <2>8, <2>9, <2>10
<1>6. \A n \in DOMAIN assembly' : \E i \in 1..(cur' - 1) : assembly'[n] = Code(vm_entry_rvas'[i])
    <2>1. ASSUME NEW n \in 1..len
          PROVE  \E i \in 1..cur : assembly'[n] = Code(vm_entry_rvas[i])
        <3>1. PICK i \in 1..(cur - 1) : assembly[n] = Code(vm_entry_rvas[i])
            BY <1>5 DEF JumpInv
        <3>2. i \in 1..cur
            BY <1>2
        <3> QED BY <1>5, <3>1, <3>2
    <2>2. \A n \in (len + 1)..(len + size) : assembly'[n] = Code(vm_entry_rvas[cur]) /\ cur \in 1..cur
        BY <1>2, <1>5
    <2>3. \A n \in 1..(len + size) : n \in 1..len \/ n \in (len + 1)..(len + size)
        BY <1>3, <1>5
    <2>4. cur' - 1 = cur /\ vm_entry_rvas' = vm_entry_rvas
        BY <1>1, <1>2
    <2> QED BY <1>5, <2>1, <2>2, <2>3, <2>4
<1>7. ASSUME NEW i \in 1..cur
      PROVE  \E k \in SectionOf(vm_entry_rvas[i]), start \in 0..(len + size) :
                /\ JumpIsAt(vm_entry_rvas[i], k, start)'
                /\ StartsBehind(vm_entry_rvas[i], start)'
    <2>1. PICK k \in SectionOf(vm_entry_rvas[i]), start \in 0..len :
             /\ JumpIsAt(vm_entry_rvas[i], k, start) /\ StartsBehind(vm_entry_rvas[i], start)
             /\ i = cur => start = len
        BY <1>1, <1>3 DEF JumpInv, Handled
    <2>2. JumpIsAt(vm_entry_rvas[i], k, start)'
        BY <1>1, <2>1, JumpsStayLemma
    <2>3. i \in DOMAIN vm_entry_rvas /\ cur \in DOMAIN vm_entry_rvas
        BY <1>2, InputFacts
    <2>4. ASSUME i # cur, NEW n \in DOMAIN assembly', assembly'[n] = Code(vm_entry_rvas[i])
          PROVE  n \in DOMAIN assembly /\ assembly[n] = Code(vm_entry_rvas[i])
        <3>1. vm_entry_rvas[i] # vm_entry_rvas[cur]
            BY <1>2, <2>3, <2>4 DEF EntriesApart
        <3>2. Code(vm_entry_rvas[i]) # Code(vm_entry_rvas[cur])
            BY <3>1 DEF Code
        <3>3. n \notin (len + 1)..(len + size)
            BY <1>5, <2>4, <3>2
        <3>4. n \in 1..len
            BY <1>3, <1>5, <3>3
        <3> QED BY <1>5, <2>4, <3>4
    <2>5. CASE i # cur
        <3>1. CodeOf(vm_entry_rvas[i])' \subseteq CodeOf(vm_entry_rvas[i])
            BY <1>1, <2>4, <2>5 DEF CodeOf
        <3>2. CodeOf(vm_entry_rvas[i]) \subseteq CodeOf(vm_entry_rvas[i])'
            BY <1>1, <1>3, <1>5 DEF CodeOf
        <3>3. StartsBehind(vm_entry_rvas[i], start)'
            BY <2>1, <3>1, <3>2 DEF StartsBehind
        <3> QED BY <1>3, <1>5, <2>1, <2>2, <3>3
    <2>6. CASE i = cur
        <3>1. CodeOf(vm_entry_rvas[cur]) = {}
            BY <1>2, <2>3, NoCodeYet DEF JumpInv
        <3>2. \A n \in CodeOf(vm_entry_rvas[i])' : n \in (len + 1)..(len + size)
            BY <1>1, <1>3, <1>5, <2>6, <3>1 DEF CodeOf
        <3>3. \A n \in (len + 1)..(len + size) : n \in CodeOf(vm_entry_rvas[i])'
            BY <1>1, <1>3, <1>5, <2>6 DEF CodeOf
        <3>4. StartsBehind(vm_entry_rvas[i], start)'
            <4>1. SUFFICES ASSUME NEW n \in CodeOf(vm_entry_rvas[i])'
                           PROVE  start + 1 \in (len + 1)..(len + size) /\ start + 1 <= n
                BY <3>2, <3>3 DEF StartsBehind
            <4>2. start = len /\ n \in (len + 1)..(len + size)
                BY <2>1, <2>6, <3>2
            <4> QED BY <1>3, <1>5, <4>2
        <3> QED BY <1>3, <1>5, <2>1, <2>2, <3>4
    <2> QED BY <2>5, <2>6
<1>8. Handled' = 1..cur /\ cur' \notin Handled'
    BY <1>1, <1>2 DEF Handled
<1>9. \A i \in Handled' : \E k \in SectionOf(vm_entry_rvas[i])', start \in 0..Len(assembly') :
          /\ JumpIsAt(vm_entry_rvas[i], k, start)'
          /\ StartsBehind(vm_entry_rvas[i], start)'
          /\ i = cur' => start = Len(assembly')
    BY <1>1, <1>5, <1>7, <1>8, JumpInputLemma
<1>10. /\ pc' \in {"finish", "done"} => cur' = Len(vm_entry_rvas') + 1
       /\ cur' \in 1..(Len(vm_entry_rvas') + 1)
    BY <1>1, <1>2
<1> QED BY <1>1, <1>6, <1>9, <1>10, JumpInputLemma DEF JumpInv

LEMMA JumpFinishStep == LInv /\ JumpInv /\ Finish => JumpInv'
<1> SUFFICES ASSUME LInv, JumpInv, Finish PROVE JumpInv'
    OBVIOUS
<1>1. /\ pc = "finish" /\ pc' = "done"
      /\ UNCHANGED <<input, cur, assembly>> /\ UNCHANGED <<binary, vm_entry_rvas>>
    BY DEF Finish, input
<1>2. Handled' = Handled /\ cur = Len(vm_entry_rvas) + 1 /\ Handled = 1..(cur - 1)
    BY <1>1 DEF Handled, JumpInv
<1>3. PICK len \in Nat : len = Len(assembly)
    BY InputFacts DEF LInv
<1>4. /\ old_size \in Nat /\ old_size % FileAlignment = 0 /\ binary.size < old_size
      /\ binary.size \in Nat /\ FileAlignment \in Nat \ {0}
      /\ DOMAIN module_data = 0..(binary.size - 1)
    BY <1>1, OldSizeFacts, InputFacts DEF LInv, TypeOK, Steps
<1>5. FileSize \in Nat /\ old_size <= FileSize
    <2>1. PICK raw \in Nat : raw = AlignDown(len, FileAlignment)
        BY <1>3, <1>4, AlignFacts
    <2>2. AlignDown(old_size + len, FileAlignment) = old_size + AlignDown(len, FileAlignment)
        BY <1>4, AlignedSum
    <2> QED BY <1>3, <1>4, <2>1, <2>2 DEF FileSize
<1>6. ASSUME NEW at \in 0..(binary.size - 1)
      PROVE  module_data'[at] = module_data[at]
    <2>1. /\ at \in 0..(FileSize - 1) /\ at \in DOMAIN module_data
          /\ at \notin old_size..(old_size + Len(assembly) - 1)
        BY <1>3, <1>4, <1>5
    <2> QED BY <2>1 DEF Finish
<1>7. ASSUME NEW i \in Handled
      PROVE  \E k \in SectionOf(vm_entry_rvas[i]), start \in 0..len :
                /\ JumpIsAt(vm_entry_rvas[i], k, start)'
                /\ StartsBehind(vm_entry_rvas[i], start)'
                /\ i = cur => start = len
    <2>1. PICK k \in SectionOf(vm_entry_rvas[i]), start \in 0..len :
             /\ JumpIsAt(vm_entry_rvas[i], k, start) /\ StartsBehind(vm_entry_rvas[i], start)
             /\ i = cur => start = len
        BY <1>3 DEF JumpInv
    <2>2. JumpIsAt(vm_entry_rvas[i], k, start)'
        BY <1>1, <1>6, <2>1, JumpsStayLemma DEF JumpIsAt
    <2>3. StartsBehind(vm_entry_rvas[i], start)'
        BY <1>1, <2>1 DEF StartsBehind, CodeOf
    <2> QED BY <2>1, <2>2, <2>3
<1>8. \A i \in Handled' : \E k \in SectionOf(vm_entry_rvas[i])', start \in 0..Len(assembly') :
          /\ JumpIsAt(vm_entry_rvas[i], k, start)'
          /\ StartsBehind(vm_entry_rvas[i], start)'
          /\ i = cur' => start = Len(assembly')
    BY <1>1, <1>2, <1>3, <1>7, JumpInputLemma
<1> QED BY <1>1, <1>2, <1>8, JumpInputLemma DEF JumpInv

LEMMA JumpStepLemma == LInv /\ JumpInv /\ [Next]_vars => JumpInv'
<1> SUFFICES ASSUME LInv, JumpInv, UNCHANGED vars PROVE JumpInv'
    BY JumpAddStep, JumpPatchStep, JumpCompileStep, JumpFinishStep DEF Next
<1>1. UNCHANGED input /\ UNCHANGED <<binary, vm_entry_rvas, module_data, cur, assembly, pc>>
    BY DEF vars, input
<1>2. \A i \in Handled : \A k \in SectionOf(vm_entry_rvas[i]), start \in 0..Len(assembly) :
          /\ JumpIsAt(vm_entry_rvas[i], k, start)' = JumpIsAt(vm_entry_rvas[i], k, start)
          /\ StartsBehind(vm_entry_rvas[i], start)' = StartsBehind(vm_entry_rvas[i], start)
    BY <1>1 DEF JumpIsAt, StartsBehind, CodeOf, SectionOf, FileOffset, InSection
<1>3. Handled' = Handled
    BY <1>1 DEF Handled
<1>4. \A i \in Handled : \E k \in SectionOf(vm_entry_rvas[i]), start \in 0..Len(assembly) :
          /\ JumpIsAt(vm_entry_rvas[i], k, start)'
          /\ StartsBehind(vm_entry_rvas[i], start)'
          /\ i = cur => start = Len(assembly)
    BY <1>2 DEF JumpInv
<1>5. \A i \in Handled' : \E k \in SectionOf(vm_entry_rvas[i])', start \in 0..Len(assembly') :
          /\ JumpIsAt(vm_entry_rvas[i], k, start)'
          /\ StartsBehind(vm_entry_rvas[i], start)'
          /\ i = cur' => start = Len(assembly')
    BY <1>1, <1>3, <1>4, JumpInputLemma
<1> QED BY <1>1, <1>5, JumpInputLemma DEF JumpInv

LEMMA JumpInitLemma == Init /\ EntriesApart => JumpInv
<1> SUFFICES ASSUME Init, EntriesApart PROVE JumpInv
    OBVIOUS
<1>1. TypeOK /\ pc = "header" /\ cur = 1 /\ assembly = <<>>
    BY LInitLemma DEF Init, LInv
<1>2. EntriesHeld /\ Handled = {} /\ Len(vm_entry_rvas) \in Nat
    BY <1>1, InputFacts DEF Init, EntriesHeld, Handled
<1> QED BY <1>1, <1>2 DEF JumpInv

\* The displacement is read back as it was meant.
LEMMA SignedFacts ==
    ASSUME NEW w \in Nat \ {0}, Word = w, NEW x \in Int, 0 - (w \div 2) <= x, x < w \div 2
    PROVE  Signed(x % w) = x
<1>1. w \div 2 \in Nat /\ 2 * (w \div 2) <= w
    OBVIOUS
<1>2. CASE x >= 0
    <2>1. (0 * w + x) % w = x
        BY <1>1, <1>2, Remainder
    <2> QED BY <1>1, <1>2, <2>1 DEF Signed
<1>3. CASE x < 0
    <2>1. PICK r \in Nat : r = x + w /\ r < w
        BY <1>1, <1>3
    <2>2. PICK q \in Int : q = 0 - 1
        OBVIOUS
    <2>3. (q * w + r) % w = r
        BY <2>1, <2>2, Remainder
    <2>4. q * w = 0 - w
        BY <2>2
    <2>5. q * w + r = x
        BY <2>1, <2>4
    <2>6. x % w = r /\ r >= w \div 2
        BY <1>1, <2>1, <2>3, <2>5
    <2> QED BY <1>1, <1>3, <2>1, <2>6 DEF Signed
<1> QED BY <1>2, <1>3

LEMMA JumpsLand ==
    ASSUME LInv, JumpInv, InReach, AllCodeIsMapped PROVE JumpsReachTheirCode
<1> SUFFICES ASSUME pc = "done", NEW rva \in Entries, CodeOf(rva) # {}
             PROVE  \E target \in SectionVa..(SectionVa + Len(assembly)) :
                       /\ JumpsTo(rva, target)
                       /\ Holds(target, Code(rva))
                       /\ target - SectionVa + 1 =
                             CHOOSE i \in CodeOf(rva) : \A j \in CodeOf(rva) : i <= j
    BY DEF JumpsReachTheirCode
<1>1. TypeOK /\ EntriesHeld /\ SectionVa \in Nat /\ Word \in Nat \ {0}
    BY LayoutAssumption DEF LInv, JumpInv
<1>2. PICK i \in DOMAIN vm_entry_rvas : rva = vm_entry_rvas[i]
    BY DEF Entries
<1>3. i \in Handled
    BY <1>1, <1>2, InputFacts DEF Handled, JumpInv
<1>4. PICK k \in SectionOf(rva), start \in 0..Len(assembly) :
         JumpIsAt(rva, k, start) /\ StartsBehind(rva, start)
    BY <1>2, <1>3 DEF JumpInv
<1>5. PICK len \in Nat : len = Len(assembly) /\ DOMAIN assembly = 1..len
    BY <1>1, InputFacts DEF TypeOK
<1>6. start + 1 \in CodeOf(rva) /\ \A j \in CodeOf(rva) : start + 1 <= j
    BY <1>4 DEF StartsBehind
<1>7. start + 1 \in 1..len /\ assembly[start + 1] = Code(rva)
    BY <1>5, <1>6 DEF CodeOf
<1>8. rva \in Nat
    BY <1>1, <1>2, InputFacts
<1>9. PICK target \in Nat : target = SectionVa + start
    BY <1>1, <1>5, <1>7
<1>10. JumpsTo(rva, target)
    <2>1. PICK at \in 0..(binary.size - 1) : at = FileOffset(rva, binary.sections[k])
        BY <1>4 DEF JumpIsAt
    <2>2. at \in MappedFrom(rva)
        <3>1. /\ k \in DOMAIN binary.sections /\ InSection(rva, binary.sections[k])
              /\ rva < binary.sections[k].virtual_address + binary.sections[k].size_raw_data
            BY <1>1, <1>2, <1>4, HeldFacts
        <3>2. PICK sections \in Seq(SectionHeader) : sections = binary.sections
            BY <1>1, InputFacts
        <3>3. k \in DOMAIN Headers /\ Headers[k] = binary.sections[k]
            <4>1. CASE Counted
                BY <3>1, <3>2, <4>1 DEF Headers
            <4>2. CASE ~ Counted
                BY <3>1, <3>2, <4>2 DEF Headers
            <4> QED BY <4>1, <4>2
        <3> QED BY <2>1, <3>1, <3>3 DEF MappedFrom
    <2>3. at \in DOMAIN module_data /\ module_data[at] = Jmp(RelTo(rva, start))
        <3>1. /\ 0..(binary.size - 1) \subseteq DOMAIN module_data
            <4>1. PICK old \in Nat, ptr \in Nat, raw \in Nat :
                     /\ old = binary.size
                     /\ ptr = new_header.ptr_raw_data /\ raw = new_header.size_raw_data
                BY <1>1, InputFacts DEF TypeOK, SectionHeader
            <4>2. old <= ptr /\ DOMAIN module_data = 0..(ptr + raw - 1)
                BY <4>1 DEF LInv, RawDataFitsTheFile
            <4>3. 0..(old - 1) \subseteq 0..(ptr + raw - 1)
                BY <4>2
            <4> QED BY <4>1, <4>2, <4>3
        <3> QED BY <1>4, <2>1, <3>1 DEF JumpIsAt
    <2>4. target = rva + JmpSize + Signed(RelTo(rva, start))
        <3>1. PICK x \in Int : x = (SectionVa - rva) + start - JmpSize
            BY <1>1, <1>5, <1>7, <1>8 DEF JmpSize
        <3>2. PICK half \in Nat : half = Word \div 2 /\ SectionVa + len < half /\ rva + JmpSize <= half
            BY <1>1, <1>5 DEF InReach
        <3>3. 0 - half <= x /\ x < half
            BY <1>1, <1>5, <1>7, <1>8, <3>1, <3>2 DEF JmpSize
        <3>4. Signed(x % Word) = x
            BY <1>1, <3>2, <3>3, SignedFacts
        <3> QED BY <1>1, <1>5, <1>7, <1>8, <1>9, <3>1, <3>4 DEF RelTo, JmpSize
    <2> QED BY <2>2, <2>3, <2>4 DEF JumpsTo, Jmp
<1>11. Holds(target, Code(rva))
    <2>1. Holds(SectionVa + (start + 1) - 1, assembly[start + 1])
        BY <1>5, <1>7 DEF AllCodeIsMapped
    <2>2. SectionVa + (start + 1) - 1 = target
        BY <1>1, <1>5, <1>7, <1>9
    <2> QED BY <1>7, <2>1, <2>2
<1>12. target - SectionVa + 1 = CHOOSE j \in CodeOf(rva) : \A n \in CodeOf(rva) : j <= n
    <2>1. CodeOf(rva) \subseteq Nat
        BY <1>5 DEF CodeOf
    <2>2. ASSUME NEW j \in CodeOf(rva), \A n \in CodeOf(rva) : j <= n
          PROVE  j = start + 1
        BY <1>6, <2>1, <2>2
    <2>3. start + 1 = CHOOSE j \in CodeOf(rva) : \A n \in CodeOf(rva) : j <= n
        BY <1>6, <2>2
    <2> QED BY <1>1, <1>5, <1>7, <1>9, <2>3
<1>13. target \in SectionVa..(SectionVa + Len(assembly))
    BY <1>1, <1>5, <1>7, <1>9
<1> QED BY <1>10, <1>11, <1>12, <1>13

\* For any number of VM entries that share no bytes, in any sections, and any
\* code: read from a VM entry, the output as its section headers lay it out
\* shows a jump to the first byte compiled for that entry, as long as everything
\* is within the reach of a jump (vmdevirt-vtil.cpp:256-263 against :182-190 and
\* :283-287).
THEOREM JumpsTheorem == EntriesApart /\ MapSpec /\ []InReach => []JumpsReachTheirCode
<1>1. Init /\ EntriesApart => JumpInv
    BY JumpInitLemma
<1>2. LInv /\ JumpInv /\ [Next]_vars => JumpInv'
    BY JumpStepLemma
<1>3. LInv /\ JumpInv /\ InReach /\ AllCodeIsMapped => JumpsReachTheirCode
    BY JumpsLand
<1> QED BY <1>1, <1>2, <1>3, MapRefinesLayout, LayoutInductive, MappedTheorem, PTL DEF Spec

-----------------------------------------------------------------------------
\* The relocations.  A directory as linkers write it: no block before the end
\* looks like the end, and no pointer is named twice.
RelocationsApart ==
    /\ \A rva \in Directory(binary) :
         binary.blocks[rva].base_rva # 0 /\ binary.blocks[rva].size_block # 0
    /\ \A at, other \in EntriesOf(binary) :
         Relocates(EntryOf(binary, at)) /\ Relocates(EntryOf(binary, other))
             /\ Target(binary, at) = Target(binary, other) => at = other

\* The pointers that the blocks in front of rva n name have been moved, once.
NamedBefore(n) == {at \in EntriesOf(binary) : at[1] < n /\ Relocates(EntryOf(binary, at))}
MovedBefore(n) ==
    /\ DOMAIN slides = {Target(binary, at) + ModuleBase : at \in NamedBefore(n)}
    /\ \A a \in DOMAIN slides : slides[a] = 1
WalkInv ==
    /\ RelocationsApart /\ Terminated
    /\ step \in {"open", "sections"} => DOMAIN slides = {}
    /\ step = "relocate" => MovedBefore(next)
    /\ step \in {"check", "mapped"} => MovedBefore(DirectoryEnd(binary))

LEMMA DirectoryFacts ==
    ASSUME TypeOK
    PROVE  /\ DirectoryEnd(binary) \in Nat /\ binary.reloc_rva \in Nat
           /\ \A rva \in Directory(binary) :
                /\ rva \in Nat /\ binary.reloc_rva <= rva /\ rva < DirectoryEnd(binary)
                /\ binary.blocks[rva].base_rva \in Nat /\ binary.blocks[rva].size_block \in Nat
                /\ \A j \in DOMAIN binary.blocks[rva].entries :
                     /\ <<rva, j>> \in EntriesOf(binary)
                     /\ EntryOf(binary, <<rva, j>>) = binary.blocks[rva].entries[j]
                     /\ Target(binary, <<rva, j>>)
                          = binary.blocks[rva].base_rva + binary.blocks[rva].entries[j].offset
                     /\ Target(binary, <<rva, j>>) \in Nat
           /\ \A at \in EntriesOf(binary) :
                /\ at[1] \in Directory(binary)
                /\ at[2] \in DOMAIN binary.blocks[at[1]].entries /\ at = <<at[1], at[2]>>
<1>1. /\ binary.reloc_rva \in Nat /\ binary.reloc_size \in Nat
      /\ DOMAIN binary.blocks \subseteq Nat
      /\ \A rva \in DOMAIN binary.blocks : binary.blocks[rva] \in Relocation
    BY ImageAssumption DEF TypeOK
<1>2. DirectoryEnd(binary) \in Nat /\ binary.reloc_rva \in Nat
    BY <1>1 DEF DirectoryEnd
<1>3. ASSUME NEW rva \in Directory(binary)
      PROVE  /\ rva \in Nat /\ binary.reloc_rva <= rva /\ rva < DirectoryEnd(binary)
             /\ binary.blocks[rva].base_rva \in Nat /\ binary.blocks[rva].size_block \in Nat
             /\ \A j \in DOMAIN binary.blocks[rva].entries :
                     /\ <<rva, j>> \in EntriesOf(binary)
                     /\ EntryOf(binary, <<rva, j>>) = binary.blocks[rva].entries[j]
                     /\ Target(binary, <<rva, j>>)
                          = binary.blocks[rva].base_rva + binary.blocks[rva].entries[j].offset
                     /\ Target(binary, <<rva, j>>) \in Nat
    <2>1. /\ rva \in Nat /\ binary.reloc_rva <= rva /\ rva < DirectoryEnd(binary)
          /\ binary.blocks[rva] \in Relocation
        BY <1>1, <1>3 DEF Directory
    <2>2. /\ binary.blocks[rva].base_rva \in Nat /\ binary.blocks[rva].size_block \in Nat
          /\ binary.blocks[rva].entries \in Seq([type : STRING, offset : Nat])
        BY <2>1 DEF Relocation
    <2>3. \A j \in DOMAIN binary.blocks[rva].entries : binary.blocks[rva].entries[j].offset \in Nat
        <3> DEFINE EntrySet == [type : STRING, offset : Nat]
        <3>1. PICK entries \in Seq(EntrySet) : entries = binary.blocks[rva].entries
            BY <2>2
        <3>2. \A e \in EntrySet : e.offset \in Nat
            OBVIOUS
        <3> HIDE DEF EntrySet
        <3>3. \A j \in DOMAIN entries : entries[j] \in EntrySet
            OBVIOUS
        <3> QED BY <3>1, <3>2, <3>3
    <2>4. \A j \in DOMAIN binary.blocks[rva].entries : <<rva, j>> \in EntriesOf(binary)
        BY <1>3 DEF EntriesOf
    <2>5. ASSUME NEW j \in DOMAIN binary.blocks[rva].entries
          PROVE  /\ EntryOf(binary, <<rva, j>>) = binary.blocks[rva].entries[j]
                 /\ Target(binary, <<rva, j>>)
                      = binary.blocks[rva].base_rva + binary.blocks[rva].entries[j].offset
        BY DEF EntryOf, Target
    <2>6. ASSUME NEW j \in DOMAIN binary.blocks[rva].entries
          PROVE  Target(binary, <<rva, j>>) \in Nat
        <3>1. PICK base \in Nat, offset \in Nat :
                 base = binary.blocks[rva].base_rva /\ offset = binary.blocks[rva].entries[j].offset
            BY <2>2, <2>3
        <3> QED BY <2>5, <3>1
    <2> QED BY <2>1, <2>2, <2>4, <2>5, <2>6
<1>4. ASSUME NEW at \in EntriesOf(binary)
      PROVE  /\ at[1] \in Directory(binary)
             /\ at[2] \in DOMAIN binary.blocks[at[1]].entries /\ at = <<at[1], at[2]>>
    <2>1. PICK rva \in Directory(binary) :
              at \in {<<rva, j>> : j \in DOMAIN binary.blocks[rva].entries}
        BY DEF EntriesOf
    <2>2. PICK j \in DOMAIN binary.blocks[rva].entries : at = <<rva, j>>
        BY <2>1
    <2> QED BY <2>2
<1> QED BY <1>2, <1>3, <1>4

\* One block: the pointers it names are new ones.
LEMMA BlockMoves ==
    ASSUME MapInv, WalkInv, step = "relocate", next \in Directory(binary),
           slides' = [a \in DOMAIN slides \cup RelocatedAt(binary.blocks[next]) |->
                        Times(a) + (IF a \in RelocatedAt(binary.blocks[next]) THEN 1 ELSE 0)],
           UNCHANGED <<binary, tmp>>, NEW to, to = next + binary.blocks[next].size_block
    PROVE  MovedBefore(to)'
<1> DEFINE block == binary.blocks[next]
           indices == {j \in DOMAIN block.entries : Relocates(block.entries[j])}
<1>0. TypeOK
    BY DEF MapInv, MapTypeOK
<1>1. PICK n : /\ n = next /\ n \in Nat /\ n \in Directory(binary)
               /\ to \in Nat /\ n < to
    <2>1. next \in Nat /\ block.size_block \in Nat /\ block.size_block # 0
        BY <1>0, DirectoryFacts DEF WalkInv, RelocationsApart
    <2> QED BY <2>1
<1>2. PICK m \in Nat : m = ModuleBase
    <2>1. tmp \in Nat
        BY ImageAssumption DEF MapInv, MapTypeOK
    <2>2. PICK t \in Nat : t = tmp
        BY <2>1
    <2>3. t + (Page - (t % Page)) \in Nat
        BY <2>2, BaseFacts, ImageAssumption
    <2> QED BY <2>2, <2>3 DEF ModuleBase
<1>3. RelocatedAt(block) = {Target(binary, <<n, j>>) + m : j \in indices}
    <2>1. RelocatedAt(block) = {block.base_rva + block.entries[j].offset + m : j \in indices}
        BY <1>2 DEF RelocatedAt
    <2>2. \A j \in indices : Target(binary, <<n, j>>) = block.base_rva + block.entries[j].offset
        BY <1>0, <1>1, DirectoryFacts
    <2> QED BY <2>1, <2>2
<1>4. NamedBefore(to) = NamedBefore(n) \cup {<<n, j>> : j \in indices}
    <2>1. ASSUME NEW at \in NamedBefore(to), at \notin NamedBefore(n)
          PROVE  at \in {<<n, j>> : j \in indices}
        <3>1. at \in EntriesOf(binary) /\ at[1] < to /\ ~ (at[1] < n) /\ Relocates(EntryOf(binary, at))
            BY <2>1 DEF NamedBefore
        <3>2. /\ at[1] \in Directory(binary) /\ at[1] \in Nat
              /\ at[2] \in DOMAIN binary.blocks[at[1]].entries /\ at = <<at[1], at[2]>>
            BY <1>0, <3>1, DirectoryFacts
        <3>3. n < at[1] => to <= at[1]
            BY <1>0, <1>1, <3>2, ImageAssumption DEF TypeOK
        <3>4. at[1] = n
            BY <1>1, <3>1, <3>2, <3>3
        <3> QED BY <1>1, <3>1, <3>2, <3>4 DEF EntryOf
    <2>2. ASSUME NEW j \in indices
          PROVE  <<n, j>> \in NamedBefore(to)
        BY <1>0, <1>1, DirectoryFacts DEF NamedBefore
    <2>3. NamedBefore(n) \subseteq NamedBefore(to)
        <3> SUFFICES ASSUME NEW at \in EntriesOf(binary), at[1] < n PROVE at[1] < to
            BY DEF NamedBefore
        <3> QED BY <1>0, <1>1, DirectoryFacts
    <2> QED BY <2>1, <2>2, <2>3
<1>5. /\ DOMAIN slides = {Target(binary, at) + m : at \in NamedBefore(n)}
      /\ \A a \in DOMAIN slides : slides[a] = 1
    BY <1>1, <1>2 DEF WalkInv, MovedBefore
<1>6. \A a \in RelocatedAt(block) : a \notin DOMAIN slides
    <2> SUFFICES ASSUME NEW j \in indices, NEW at \in NamedBefore(n),
                        Target(binary, <<n, j>>) + m = Target(binary, at) + m
                 PROVE  FALSE
        BY <1>3, <1>5
    <2>1. /\ <<n, j>> \in EntriesOf(binary) /\ Relocates(EntryOf(binary, <<n, j>>))
          /\ Target(binary, <<n, j>>) \in Nat
        BY <1>0, <1>1, DirectoryFacts
    <2>2. at \in EntriesOf(binary) /\ at[1] < n /\ Relocates(EntryOf(binary, at))
        BY DEF NamedBefore
    <2>3. Target(binary, at) \in Nat
        BY <1>0, <2>2, DirectoryFacts
    <2>4. Target(binary, <<n, j>>) = Target(binary, at)
        BY <1>2, <2>1, <2>3
    <2>5. <<n, j>> = at
        BY <2>1, <2>2, <2>4 DEF WalkInv, RelocationsApart
    <2> QED BY <1>1, <2>2, <2>5
<1>7. DOMAIN slides' = {Target(binary, at) + m : at \in NamedBefore(to)}
    <2>1. DOMAIN slides' = DOMAIN slides \cup RelocatedAt(block)
        OBVIOUS
    <2> HIDE DEF block, indices
    <2>2. {Target(binary, at) + m : at \in NamedBefore(to)}
            = {Target(binary, at) + m : at \in NamedBefore(n)}
                \cup {Target(binary, at) + m : at \in {<<n, j>> : j \in indices}}
        BY <1>4
    <2>3. {Target(binary, at) + m : at \in {<<n, j>> : j \in indices}}
            = {Target(binary, <<n, j>>) + m : j \in indices}
        OBVIOUS
    <2> QED BY <1>3, <1>5, <2>1, <2>2, <2>3
<1>8. \A a \in DOMAIN slides' : slides'[a] = 1
    <2> SUFFICES ASSUME NEW a \in DOMAIN slides' PROVE slides'[a] = 1
        OBVIOUS
    <2>1. CASE a \in RelocatedAt(block)
        BY <1>6, <2>1 DEF Times
    <2>2. CASE a \notin RelocatedAt(block)
        BY <1>5, <2>2 DEF Times
    <2> QED BY <2>1, <2>2
<1>10. NamedBefore(to)' = NamedBefore(to)
    BY DEF NamedBefore, EntryOf, EntriesOf, Directory, DirectoryEnd
<1>11. ModuleBase' = ModuleBase
    BY DEF ModuleBase
<1> HIDE DEF block, indices
<1>12. MovedBefore(to)'
    <2>1. {Target(binary, at) + m : at \in NamedBefore(to)}
            = {Target(binary', at) + ModuleBase' : at \in NamedBefore(to)'}
        BY <1>2, <1>10, <1>11
    <2> QED BY <1>7, <1>8, <2>1 DEF MovedBefore
<1> QED BY <1>12

LEMMA WalkInitLemma == MapInit /\ RelocationsApart /\ Terminated => WalkInv
BY DEF MapInit, WalkInv

LEMMA ApartStays ==
    ASSUME RelocationsApart, binary' = binary
    PROVE  RelocationsApart' /\ Terminated' = Terminated
<1>1. EntriesOf(binary)' = EntriesOf(binary) /\ Directory(binary)' = Directory(binary)
    BY DEF EntriesOf, Directory, DirectoryEnd
<1>2. \A at : EntryOf(binary, at)' = EntryOf(binary, at) /\ Target(binary, at)' = Target(binary, at)
    BY DEF EntryOf, Target
<1>3. RelocationsApart'
    BY <1>1, <1>2 DEF RelocationsApart
<1>4. Terminated' = Terminated
    BY DEF Terminated, ReadBlock, DirectoryEnd
<1> QED BY <1>3, <1>4

LEMMA MovedStays ==
    ASSUME UNCHANGED <<binary, tmp, slides>>, NEW n, MovedBefore(n), NEW to, to = n
    PROVE  MovedBefore(to)'
<1>1. NamedBefore(to)' = NamedBefore(n)
    BY DEF NamedBefore, EntryOf, EntriesOf, Directory, DirectoryEnd
<1>2. ModuleBase' = ModuleBase
    BY DEF ModuleBase
<1>3. DOMAIN slides' = {Target(binary', at) + ModuleBase' : at \in NamedBefore(to)'}
    <2>1. DOMAIN slides = {Target(binary, at) + ModuleBase : at \in NamedBefore(n)}
        BY DEF MovedBefore
    <2> QED BY <1>1, <1>2, <2>1
<1>4. \A a \in DOMAIN slides' : slides'[a] = 1
    BY DEF MovedBefore
<1> QED BY <1>3, <1>4 DEF MovedBefore

LEMMA NothingMoved ==
    ASSUME TypeOK, DOMAIN slides = {} PROVE MovedBefore(binary.reloc_rva)
<1>1. ASSUME NEW at \in NamedBefore(binary.reloc_rva) PROVE FALSE
    <2>1. at \in EntriesOf(binary) /\ at[1] < binary.reloc_rva
        BY DEF NamedBefore
    <2> QED BY <2>1, DirectoryFacts
<1> QED BY <1>1 DEF MovedBefore

LEMMA WalkStep == MapInv /\ WalkInv /\ RelocateBlock /\ UNCHANGED vars => WalkInv'
<1> SUFFICES ASSUME MapInv, WalkInv, RelocateBlock, UNCHANGED vars PROVE WalkInv'
    OBVIOUS
<1>1. TypeOK /\ binary' = binary /\ tmp' = tmp /\ step = "relocate"
    BY DEF MapInv, MapTypeOK, RelocateBlock, vars
<1>2. RelocationsApart' /\ Terminated' /\ Terminated /\ RelocationsApart
    BY <1>1, ApartStays DEF WalkInv
<1>3. next \in Stops
    BY <1>1, <1>2 DEF MapInv
<1>4. CASE next \in Directory(binary)
    <2>1. ReadBlock(next) = binary.blocks[next]
        BY <1>4 DEF ReadBlock, Directory
    <2>2. ReadBlock(next).base_rva # 0 /\ ReadBlock(next).size_block # 0
        BY <1>2, <1>4, <2>1 DEF RelocationsApart
    <2>3. /\ slides' = [a \in DOMAIN slides \cup RelocatedAt(binary.blocks[next]) |->
                 Times(a) + (IF a \in RelocatedAt(binary.blocks[next]) THEN 1 ELSE 0)]
          /\ next' = next + binary.blocks[next].size_block /\ step' = "relocate"
        BY <1>1, <2>1, <2>2 DEF RelocateBlock, NextBlock
    <2>4. PICK to : to = next + binary.blocks[next].size_block
        OBVIOUS
    <2>5. MovedBefore(to)'
        BY <1>1, <1>4, <2>3, <2>4, BlockMoves
    <2>6. MovedBefore(next)'
        BY <2>3, <2>4, <2>5 DEF MovedBefore, NamedBefore
    <2> QED BY <1>2, <2>3, <2>6 DEF WalkInv
<1>5. CASE next = DirectoryEnd(binary)
    <2>1. step' = "check" /\ slides' = slides
        BY <1>2, <1>5 DEF RelocateBlock, Terminated
    <2>2. MovedBefore(DirectoryEnd(binary))
        BY <1>1, <1>5 DEF WalkInv
    <2>3. MovedBefore(DirectoryEnd(binary))'
        <3>1. PICK n : n = DirectoryEnd(binary)
            OBVIOUS
        <3>2. MovedBefore(n)'
            BY <1>1, <2>1, <2>2, <3>1, MovedStays
        <3> QED BY <1>1, <3>1, <3>2 DEF MovedBefore, NamedBefore, DirectoryEnd
    <2> QED BY <1>2, <2>1, <2>3 DEF WalkInv
<1> QED BY <1>3, <1>4, <1>5 DEF Stops

LEMMA WalkNextLemma == MapInv /\ WalkInv /\ [MapNext]_<<vars, map_vars>> => WalkInv'
<1> SUFFICES ASSUME MapInv, WalkInv, [MapNext]_<<vars, map_vars>> PROVE WalkInv'
    OBVIOUS
<1>1. binary' = binary
    BY DEF MapNext, vars, Next, AddSection, PatchEntry, CompileEntry, Finish, input
<1>2. RelocationsApart' /\ Terminated'
    BY <1>1, ApartStays DEF WalkInv
<1>3. CASE OpenBinary /\ UNCHANGED vars
    BY <1>2, <1>3 DEF OpenBinary, WalkInv
<1>4. CASE CopySection /\ UNCHANGED vars
    <2>1. TypeOK /\ DOMAIN slides = {} /\ UNCHANGED <<tmp, slides>>
        BY <1>4 DEF CopySection, WalkInv, MapInv, MapTypeOK
    <2>2. CASE step' = "relocate" /\ next' = binary.reloc_rva
        <3>1. PICK first : first = binary.reloc_rva /\ MovedBefore(first)
            BY <2>1, NothingMoved
        <3>2. MovedBefore(first)'
            BY <1>1, <2>1, <3>1, MovedStays
        <3>3. MovedBefore(next)'
            BY <2>2, <3>1, <3>2 DEF MovedBefore, NamedBefore
        <3> QED BY <1>2, <2>2, <3>3 DEF WalkInv
    <2>3. CASE step' = "sections"
        BY <1>2, <2>1, <2>3 DEF WalkInv
    <2> QED BY <1>4, <2>2, <2>3 DEF CopySection
<1>5. CASE RelocateBlock /\ UNCHANGED vars
    BY <1>5, WalkStep
<1>6. CASE CheckImage /\ UNCHANGED vars
    <2>1. step = "check" /\ step' \in {"failed", "mapped"} /\ UNCHANGED <<tmp, slides>>
        BY <1>6 DEF CheckImage
    <2>2. MovedBefore(DirectoryEnd(binary))
        BY <2>1 DEF WalkInv
    <2>3. MovedBefore(DirectoryEnd(binary))'
        <3>1. PICK n : n = DirectoryEnd(binary)
            OBVIOUS
        <3>2. MovedBefore(n)'
            BY <1>1, <2>1, <2>2, <3>1, MovedStays
        <3> QED BY <1>1, <3>1, <3>2 DEF MovedBefore, NamedBefore, DirectoryEnd
    <2> QED BY <1>2, <2>1, <2>3 DEF WalkInv
<1>7. CASE UNCHANGED map_vars
    <2>1. UNCHANGED <<tmp, slides, next, step>>
        BY <1>7 DEF map_vars
    <2>2. \A n : MovedBefore(n) => MovedBefore(n)'
        BY <1>1, <2>1, MovedStays
    <2>3. step = "relocate" => MovedBefore(next)'
        <3>1. PICK n : n = next
            OBVIOUS
        <3> QED BY <2>1, <2>2, <3>1 DEF WalkInv
    <2>4. step \in {"check", "mapped"} => MovedBefore(DirectoryEnd(binary))'
        <3>1. PICK n : n = DirectoryEnd(binary)
            OBVIOUS
        <3> QED BY <1>1, <2>1, <2>2, <3>1 DEF WalkInv, MovedBefore, NamedBefore, DirectoryEnd
    <2> QED BY <1>2, <2>1, <2>3, <2>4 DEF WalkInv
<1> QED BY <1>3, <1>4, <1>5, <1>6, <1>7 DEF MapNext, map_vars

\* When the emulator gets an image with any relocation directory that zeroes
\* follow and that names no pointer twice, each pointer it names has been moved
\* once, and nothing else has (vmdevirt-vtil.cpp:130-149).
THEOREM RelocationTheorem == RelocationsApart /\ MapSpec => []RelocatedOnce
<1>1. MapInv /\ LInv /\ [MapNext]_<<vars, map_vars>> => MapInv'
    BY MapNextLemma
<1>2. MapInit => MapInv
    BY MapInitLemma
<1>3. MapInit /\ RelocationsApart => (Terminated => WalkInv)
    BY WalkInitLemma
<1>4. MapInv /\ (Terminated => WalkInv) /\ [MapNext]_<<vars, map_vars>> => (Terminated => WalkInv)'
    <2>1. [MapNext]_<<vars, map_vars>> => binary' = binary
        BY DEF MapNext, vars, Next, AddSection, PatchEntry, CompileEntry, Finish, input
    <2>2. binary' = binary => Terminated' = Terminated
        BY DEF Terminated, ReadBlock, DirectoryEnd
    <2> QED BY <2>1, <2>2, WalkNextLemma
<1>5. MapInv /\ (Terminated => WalkInv) => RelocatedOnce
    <2> SUFFICES ASSUME MapInv, WalkInv, step = "mapped" PROVE RelocatedOnce
        BY DEF RelocatedOnce
    <2>1. TypeOK
        BY DEF MapInv, MapTypeOK
    <2>2. PICK m \in Nat : m = ModuleBase
        <3>1. tmp \in Nat
            BY ImageAssumption DEF MapInv, MapTypeOK
        <3>2. PICK t \in Nat : t = tmp
            BY <3>1
        <3>3. t + (Page - (t % Page)) \in Nat
            BY <3>2, BaseFacts, ImageAssumption
        <3> QED BY <3>2, <3>3 DEF ModuleBase
    <2>3. PICK named : named = NamedBefore(DirectoryEnd(binary))
        OBVIOUS
    <2>4. named = {at \in EntriesOf(binary) :
                      EntryOf(binary, at).type = Dir64}
        <3>1. \A at \in EntriesOf(binary) : at[1] < DirectoryEnd(binary)
            BY <2>1, DirectoryFacts
        <3> QED BY <2>3, <3>1 DEF NamedBefore, Relocates, EntryOf
    <2>5. \A at \in named : Target(binary, at) \in Nat
        <3> TAKE at \in named
        <3>1. at \in EntriesOf(binary)
            BY <2>4
        <3> QED BY <2>1, <3>1, DirectoryFacts
    <2>6. /\ DOMAIN slides = {Target(binary, at) + m : at \in named}
          /\ \A a \in DOMAIN slides : slides[a] = 1
        BY <2>2, <2>3 DEF WalkInv, MovedBefore
    <2>7. {a - m : a \in DOMAIN slides} = {Target(binary, at) : at \in named}
        <3>1. ASSUME NEW at \in named PROVE (Target(binary, at) + m) - m = Target(binary, at)
            BY <2>2, <2>5
        <3> QED BY <2>6, <3>1
    <2> QED BY <2>2, <2>4, <2>6, <2>7 DEF RelocatedOnce
<1> QED BY <1>1, <1>2, <1>3, <1>4, <1>5, LayoutInductive, PTL DEF MapSpec

-----------------------------------------------------------------------------
\* The mapped image and the file.  No two sections' raw data share addresses.
RawRange(s) == s.virtual_address..(s.virtual_address + s.size_raw_data - 1)
SectionsApart ==
    \A i, j \in DOMAIN binary.sections : i # j =>
        RawRange(binary.sections[i]) \cap RawRange(binary.sections[j]) = {}

\* The copies that are made stay as they are.
CopiedTo(base, s) ==
    \A x \in 0..(s.size_raw_data - 1) :
        /\ base + s.virtual_address + x \in DOMAIN memory
        /\ memory[base + s.virtual_address + x] = s.ptr_raw_data + x
CopiedBefore(n) ==
    \A i \in DOMAIN binary.sections : i < n => CopiedTo(ModuleBase, binary.sections[i])
ImageInv ==
    /\ SectionsApart /\ EntriesHeld
    /\ step = "open" => next = 1
    /\ step = "sections" => next # 0 /\ CopiedBefore(next)
    /\ step \in {"relocate", "check", "mapped"} => CopiedBefore(Len(binary.sections) + 1)
    /\ step # "mapped" => pc = "header"
    /\ PatchedWhereLifted

LEMMA SectionFacts ==
    ASSUME NEW s \in SectionHeader
    PROVE  /\ s.virtual_address \in Nat /\ s.virtual_size \in Nat
           /\ s.ptr_raw_data \in Nat /\ s.size_raw_data \in Nat
BY DEF SectionHeader

LEMMA ModuleBaseFacts ==
    ASSUME tmp \in Nat PROVE ModuleBase \in Nat
<1>1. PICK t \in Nat : t = tmp
    OBVIOUS
<1>2. t + (Page - (t % Page)) \in Nat
    BY <1>1, BaseFacts, ImageAssumption
<1> QED BY <1>1, <1>2 DEF ModuleBase

LEMMA CopyDoes ==
    ASSUME NEW m \in Nat, NEW s \in SectionHeader,
           memory' = Copy(m + s.virtual_address, s.ptr_raw_data, s.size_raw_data)
    PROVE  CopiedTo(m, s)'
<1>1. PICK va \in Nat, ptr \in Nat, raw \in Nat :
         va = s.virtual_address /\ ptr = s.ptr_raw_data /\ raw = s.size_raw_data
    BY SectionFacts
<1>2. ASSUME NEW x \in 0..(raw - 1)
      PROVE  m + va + x \in DOMAIN memory' /\ memory'[m + va + x] = ptr + x
    <2>1. m + va + x \in (m + va)..(m + va + raw - 1)
        OBVIOUS
    <2>2. (m + va + x) - (m + va) + ptr = ptr + x
        OBVIOUS
    <2>3. memory' = [a \in DOMAIN memory \cup (m + va)..(m + va + raw - 1) |->
                        IF a \in (m + va)..(m + va + raw - 1) THEN a - (m + va) + ptr ELSE memory[a]]
        BY <1>1 DEF Copy
    <2> QED BY <2>1, <2>2, <2>3
<1> QED BY <1>1, <1>2 DEF CopiedTo

LEMMA CopyKeeps ==
    ASSUME NEW m \in Nat, NEW s \in SectionHeader, NEW other \in SectionHeader,
           RawRange(s) \cap RawRange(other) = {}, CopiedTo(m, other),
           memory' = Copy(m + s.virtual_address, s.ptr_raw_data, s.size_raw_data)
    PROVE  CopiedTo(m, other)'
<1>1. PICK va \in Nat, ptr \in Nat, raw \in Nat :
         va = s.virtual_address /\ ptr = s.ptr_raw_data /\ raw = s.size_raw_data
    BY SectionFacts
<1>2. PICK va2 \in Nat, ptr2 \in Nat, raw2 \in Nat :
         va2 = other.virtual_address /\ ptr2 = other.ptr_raw_data /\ raw2 = other.size_raw_data
    BY SectionFacts
<1>3. ASSUME NEW x \in 0..(raw2 - 1)
      PROVE  m + va2 + x \in DOMAIN memory' /\ memory'[m + va2 + x] = ptr2 + x
    <2>1. va2 + x \in RawRange(other)
        BY <1>2 DEF RawRange
    <2>2. va2 + x \notin va..(va + raw - 1)
        BY <1>1, <2>1 DEF RawRange
    <2>3. m + va2 + x \notin (m + va)..(m + va + raw - 1)
        BY <2>2
    <2>4. m + va2 + x \in DOMAIN memory /\ memory[m + va2 + x] = ptr2 + x
        BY <1>2 DEF CopiedTo
    <2>5. memory' = [a \in DOMAIN memory \cup (m + va)..(m + va + raw - 1) |->
                        IF a \in (m + va)..(m + va + raw - 1) THEN a - (m + va) + ptr ELSE memory[a]]
        BY <1>1 DEF Copy
    <2> QED BY <2>3, <2>4, <2>5
<1> QED BY <1>2, <1>3 DEF CopiedTo

LEMMA CopiedStays ==
    ASSUME UNCHANGED <<binary, tmp, memory>>, NEW n, CopiedBefore(n)
    PROVE  CopiedBefore(n)'
BY DEF CopiedBefore, CopiedTo, ModuleBase

LEMMA CopiedNext ==
    ASSUME TypeOK, SectionsApart, tmp \in Nat, NEW n \in DOMAIN binary.sections, CopiedBefore(n),
           UNCHANGED <<binary, tmp>>,
           memory' = Copy(CopyTarget(binary.sections[n]), binary.sections[n].ptr_raw_data,
                          binary.sections[n].size_raw_data)
    PROVE  CopiedBefore(n + 1)'
<1>1. PICK m \in Nat : m = ModuleBase
    BY ModuleBaseFacts
<1>2. ModuleBase' = m
    BY <1>1 DEF ModuleBase
<1>3. /\ DOMAIN binary.sections = 1..Len(binary.sections) /\ Len(binary.sections) \in Nat
      /\ \A i \in DOMAIN binary.sections : binary.sections[i] \in SectionHeader
    BY InputFacts
<1>4. PICK s \in SectionHeader : s = binary.sections[n]
    BY <1>3
<1>5. memory' = Copy(m + s.virtual_address, s.ptr_raw_data, s.size_raw_data)
    BY <1>1, <1>4 DEF CopyTarget
<1>6. ASSUME NEW i \in DOMAIN binary.sections, i < n + 1
      PROVE  CopiedTo(m, binary.sections[i])'
    <2>1. PICK t \in SectionHeader : t = binary.sections[i]
        BY <1>3
    <2>2. CASE i = n
        <3>1. CopiedTo(m, s)'
            BY <1>5, CopyDoes
        <3> QED BY <1>4, <2>2, <3>1 DEF CopiedTo
    <2>3. CASE i # n
        <3>1. i < n
            BY <1>3, <1>6, <2>3
        <3>2. CopiedTo(m, t)
            BY <1>1, <2>1, <3>1 DEF CopiedBefore
        <3>3. RawRange(s) \cap RawRange(t) = {}
            BY <1>4, <2>1, <2>3 DEF SectionsApart
        <3>4. CopiedTo(m, t)'
            BY <1>5, <3>2, <3>3, CopyKeeps
        <3> QED BY <2>1, <3>4 DEF CopiedTo
    <2> QED BY <2>2, <2>3
<1> QED BY <1>2, <1>6 DEF CopiedBefore

\* What is patched was copied to where it was lifted.
LEMMA PatchLands ==
    ASSUME MapInv, LInv, ImageInv, step = "mapped", PatchEntry, UNCHANGED map_vars
    PROVE  PatchedWhereLifted'
<1>1. /\ TypeOK /\ pc = "patch" /\ cur \in DOMAIN vm_entry_rvas
      /\ UNCHANGED <<input, cur, assembly, tmp, memory>>
      /\ UNCHANGED <<binary, vm_entry_rvas>>
      /\ DOMAIN module_data = 0..(binary.size - 1)
    BY DEF PatchEntry, LInv, Steps, input, map_vars
<1> SUFFICES ASSUME pc' = "compile" PROVE PatchedWhereLifted'
    BY DEF PatchedWhereLifted
<1>2. PICK rva : rva = vm_entry_rvas[cur]
    OBVIOUS
<1>3. PICK i \in SectionOf(rva) : module_data' = Patched(rva, FileOffset(rva, binary.sections[i]))
    BY <1>1, <1>2 DEF PatchEntry
<1>4. /\ rva \in Nat /\ i \in DOMAIN binary.sections /\ binary.sections[i] \in SectionHeader
      /\ FileOffset(rva, binary.sections[i]) \in 0..(binary.size - 1)
      /\ InSection(rva, binary.sections[i])
    BY <1>1, <1>2, <1>3, HeldFacts DEF ImageInv
<1>5. PICK s \in SectionHeader : s = binary.sections[i]
    BY <1>4
<1>6. PICK va \in Nat, ptr \in Nat, raw \in Nat :
         va = s.virtual_address /\ ptr = s.ptr_raw_data /\ raw = s.size_raw_data
    BY SectionFacts
<1>7. va <= rva /\ rva + 10 <= va + raw
    <2>1. HoldsVmEnter(s, rva)
        BY <1>1, <1>2, <1>4, <1>5 DEF ImageInv, EntriesHeld
    <2> QED BY <1>6, <2>1 DEF HoldsVmEnter, InSection, VmEnterSize
<1>8. PICK at \in Nat : at = rva - va + ptr
    BY <1>4, <1>7
<1>9. at = FileOffset(rva, s)
    BY <1>6, <1>8 DEF FileOffset
<1>10. PICK size \in Nat : size = binary.size /\ at + 10 <= size
    <2>1. s.ptr_raw_data + s.size_raw_data <= binary.size /\ binary.size \in Nat
        BY <1>1, <1>4, <1>5, ImageFacts
    <2> QED BY <1>4, <1>6, <1>7, <1>8, <2>1
<1>11. /\ at \in DOMAIN module_data'
       /\ module_data'[at] = Jmp(RelativeOffset(rva))
       /\ \A k \in JmpSize..(VmEnterSize - 1) : module_data'[at + k] = Nop
    <2>1. DOMAIN module_data = 0..(size - 1)
        BY <1>1, <1>10
    <2>2. module_data' = Patched(rva, at)
        BY <1>3, <1>5, <1>9
    <2>3. at \in DOMAIN module_data
        BY <1>10, <2>1
    <2>4. ASSUME NEW k \in JmpSize..(VmEnterSize - 1)
          PROVE  module_data'[at + k] = Nop
        <3>1. PICK b : b = at + k
            OBVIOUS
        <3>2. /\ b \in DOMAIN module_data /\ b # at
              /\ b \notin (at + 1)..(at + JmpSize - 1) /\ b \in Nops(at)
            BY <1>10, <2>1, <2>4, <3>1 DEF Nops, JmpSize, VmEnterSize
        <3>3. module_data'[b] = Nop
            BY <2>2, <3>2 DEF Patched
        <3> QED BY <3>1, <3>3
    <2>5. at \in DOMAIN module_data' /\ module_data'[at] = Jmp(RelativeOffset(rva))
        <3>1. at \notin (at + 1)..(at + JmpSize - 1) /\ at \notin Nops(at)
            BY DEF Nops, JmpSize, VmEnterSize
        <3> QED BY <2>2, <2>3, <3>1 DEF Patched
    <2> QED BY <2>4, <2>5
<1>12. PICK m \in Nat : m = ModuleBase
    <2>1. tmp \in DataAddresses \cup {0}
        BY DEF MapInv, MapTypeOK
    <2>2. tmp \in Nat
        BY <2>1, ImageAssumption
    <2> QED BY <2>2, ModuleBaseFacts
<1>13. \A k \in 0..(VmEnterSize - 1) : m + rva + k \in DOMAIN memory /\ memory[m + rva + k] = at + k
    <2>1. CopiedTo(m, s)
        <3>1. DOMAIN binary.sections = 1..Len(binary.sections) /\ Len(binary.sections) \in Nat
            BY <1>1, InputFacts
        <3>2. i < Len(binary.sections) + 1
            BY <1>4, <3>1
        <3> QED BY <1>4, <1>5, <1>12, <3>2 DEF ImageInv, CopiedBefore
    <2>2. ASSUME NEW k \in 0..(VmEnterSize - 1)
          PROVE  m + rva + k \in DOMAIN memory /\ memory[m + rva + k] = at + k
        <3>1. PICK x \in 0..(raw - 1) : x = rva - va + k
            BY <1>4, <1>7, <2>2 DEF VmEnterSize
        <3>2. m + va + x = m + rva + k /\ ptr + x = at + k
            BY <1>4, <1>8, <2>2, <3>1
        <3>3. m + va + x \in DOMAIN memory /\ memory[m + va + x] = ptr + x
            BY <1>6, <2>1, <3>1 DEF CopiedTo
        <3> QED BY <3>2, <3>3
    <2> QED BY <2>2
<1>14. /\ vm_entry_rvas'[cur'] = rva /\ ModuleBase' = m /\ memory' = memory
       /\ RelativeOffset(rva)' = RelativeOffset(rva)
    BY <1>1, <1>2, <1>12 DEF ModuleBase, RelativeOffset
<1> QED BY <1>11, <1>13, <1>14 DEF PatchedWhereLifted

LEMMA ImageInitLemma == MapInit /\ SectionsApart => ImageInv
BY DEF MapInit, Init, ImageInv, EntriesHeld, PatchedWhereLifted

LEMMA ImageStays ==
    ASSUME ImageInv, UNCHANGED <<binary, vm_entry_rvas>>
    PROVE  SectionsApart' /\ EntriesHeld'
BY DEF ImageInv, SectionsApart, EntriesHeld, RawRange, InSection, HoldsVmEnter

LEMMA ImageNextLemma ==
    MapInv /\ LInv /\ ImageInv /\ [MapNext]_<<vars, map_vars>> => ImageInv'
<1> SUFFICES ASSUME MapInv, LInv, ImageInv, [MapNext]_<<vars, map_vars>> PROVE ImageInv'
    OBVIOUS
<1>1. UNCHANGED <<binary, vm_entry_rvas>>
    BY DEF MapNext, vars, Next, AddSection, PatchEntry, CompileEntry, Finish, input
<1>2. SectionsApart' /\ EntriesHeld'
    BY <1>1, ImageStays
<1>3. /\ TypeOK /\ tmp \in Nat
      /\ DOMAIN binary.sections = 1..Len(binary.sections) /\ Len(binary.sections) \in Nat
      /\ next \in Nat
    BY InputFacts, ImageAssumption DEF MapInv, MapTypeOK
<1>4. ASSUME UNCHANGED vars, step # "mapped" PROVE PatchedWhereLifted' /\ pc' = "header"
    BY <1>4 DEF ImageInv, vars, PatchedWhereLifted
<1>5. CASE OpenBinary /\ UNCHANGED vars
    <2>1. step = "open" /\ step' \in {"failed", "sections"} /\ next' = 1
        BY <1>5 DEF OpenBinary, ImageInv
    <2>2. CopiedBefore(1)'
        BY <1>1, <1>3 DEF CopiedBefore
    <2>3. CopiedBefore(next)'
        BY <2>1, <2>2 DEF CopiedBefore
    <2> QED BY <1>2, <1>4, <1>5, <2>1, <2>3 DEF ImageInv
<1>6. CASE CopySection /\ UNCHANGED vars
    <2>1. step = "sections" /\ tmp' = tmp
        BY <1>6 DEF CopySection
    <2>2. PICK n : n = next /\ n # 0 /\ CopiedBefore(n)
        BY <2>1 DEF ImageInv
    <2>3. CASE next \in DOMAIN binary.sections
        <3>1. /\ memory' = Copy(CopyTarget(binary.sections[n]), binary.sections[n].ptr_raw_data,
                                binary.sections[n].size_raw_data)
              /\ next' = n + 1 /\ step' = "sections"
            BY <1>6, <2>1, <2>2, <2>3 DEF CopySection
        <3>2. CopiedBefore(n + 1)'
            BY <1>1, <1>3, <2>1, <2>2, <2>3, <3>1, CopiedNext DEF ImageInv
        <3>3. CopiedBefore(next)'
            BY <3>1, <3>2 DEF CopiedBefore
        <3>4. next' # 0
            BY <1>3, <2>2, <3>1
        <3> QED BY <1>2, <1>4, <1>6, <2>1, <3>1, <3>3, <3>4 DEF ImageInv
    <2>4. CASE next \notin DOMAIN binary.sections
        <3>1. UNCHANGED memory /\ step' = "relocate"
            BY <1>6, <2>4 DEF CopySection
        <3>2. CopiedBefore(n)'
            BY <1>1, <2>1, <2>2, <3>1, CopiedStays
        <3>3. \A i \in DOMAIN binary.sections : i < n
            BY <1>3, <2>2, <2>4
        <3>4. CopiedBefore(Len(binary.sections) + 1)'
            BY <1>1, <3>2, <3>3 DEF CopiedBefore
        <3> QED BY <1>2, <1>4, <1>6, <2>1, <3>1, <3>4 DEF ImageInv
    <2> QED BY <2>3, <2>4
<1>7. ASSUME UNCHANGED <<tmp, memory>>, step \in {"relocate", "check", "mapped"}
      PROVE  CopiedBefore(Len(binary.sections) + 1)'
    <2>1. PICK n : n = Len(binary.sections) + 1 /\ CopiedBefore(n)
        BY <1>7 DEF ImageInv
    <2>2. CopiedBefore(n)'
        BY <1>1, <1>7, <2>1, CopiedStays
    <2> QED BY <1>1, <2>1, <2>2
<1>8. CASE (RelocateBlock \/ CheckImage) /\ UNCHANGED vars
    <2>1. /\ step \in {"relocate", "check"} /\ step' \in {"relocate", "check", "mapped", "failed"}
          /\ UNCHANGED <<tmp, memory>>
        BY <1>8 DEF RelocateBlock, CheckImage
    <2> QED BY <1>2, <1>4, <1>7, <1>8, <2>1 DEF ImageInv
<1>9. ASSUME step = "mapped", UNCHANGED map_vars, PatchedWhereLifted' PROVE ImageInv'
    <2>1. UNCHANGED <<tmp, memory, next, step>>
        BY <1>9 DEF map_vars
    <2> QED BY <1>2, <1>7, <1>9, <2>1 DEF ImageInv
<1>10. CASE step = "mapped" /\ Next /\ UNCHANGED map_vars
    <2>1. CASE PatchEntry
        BY <1>9, <1>10, <2>1, PatchLands
    <2>2. CASE AddSection \/ CompileEntry \/ Finish
        <3>1. pc' # "compile"
            BY <2>2 DEF AddSection, CompileEntry, Finish
        <3> QED BY <1>9, <1>10, <3>1 DEF PatchedWhereLifted
    <2> QED BY <1>10, <2>1, <2>2 DEF Next
<1>11. CASE UNCHANGED <<vars, map_vars>>
    <2>1. UNCHANGED <<tmp, memory, next, step>> /\ UNCHANGED <<pc, cur, module_data, assembly>>
        BY <1>11 DEF vars, map_vars
    <2>2. PatchedWhereLifted'
        BY <1>1, <2>1 DEF ImageInv, PatchedWhereLifted, ModuleBase, RelativeOffset
    <2>3. step = "sections" => CopiedBefore(next)'
        <3>1. PICK n : n = next
            OBVIOUS
        <3>2. step = "sections" => CopiedBefore(n)'
            BY <1>1, <2>1, <3>1, CopiedStays DEF ImageInv
        <3> QED BY <2>1, <3>1, <3>2
    <2> QED BY <1>2, <1>7, <2>1, <2>2, <2>3 DEF ImageInv
<1> QED BY <1>5, <1>6, <1>8, <1>10, <1>11 DEF MapNext

\* For any image whose sections share no addresses, the bytes that become a
\* jump are those of the file that were mapped at the rva the routine was
\* lifted from (vmdevirt-vtil.cpp:113-122, :242-263).
THEOREM PatchedTheorem == SectionsApart /\ MapSpec => []PatchedWhereLifted
<1>1. MapInv /\ LInv /\ [MapNext]_<<vars, map_vars>> => MapInv'
    BY MapNextLemma
<1>2. MapInit => MapInv
    BY MapInitLemma
<1>3. MapInit /\ SectionsApart => ImageInv
    BY ImageInitLemma
<1>4. MapInv /\ LInv /\ ImageInv /\ [MapNext]_<<vars, map_vars>> => ImageInv'
    BY ImageNextLemma
<1>5. ImageInv => PatchedWhereLifted
    BY DEF ImageInv
<1> QED BY <1>1, <1>2, <1>3, <1>4, <1>5, LayoutInductive, PTL DEF MapSpec
=============================================================================
