------------------------------ MODULE PeLayout ------------------------------
(***************************************************************************)
(* What main() of src/src/vmdevirt-vtil.cpp does to the bytes of the       *)
(* binary: a section header is added behind the last one, every VM entry   *)
(* is overwritten with a jump into the new section, and at the end the     *)
(* compiled code is appended as that section's raw data.  VmDevirt has the *)
(* steps between; here are the addresses, offsets, sizes and alignments.   *)
(***************************************************************************)
EXTENDS Integers, Sequences, FiniteSets

CONSTANTS
    FileAlignment, SectionAlignment,  \* of the optional header
    SectionVa,    \* where the new section is put, 0x29420000 in the code
    Word,         \* 2^32: offsets and header fields are uint32_t
    Binaries,     \* the binaries: [size, count_at, table_end, sections]
    VmEntries,    \* the sequences of VM entry rvas to devirtualize
    CodeSizes     \* how many bytes compile() may append, 0 when it fails

VmEnterSize == 10  \* PUSH imm32, CALL rel32
JmpSize == 5       \* JMP rel32
HeaderSize == 40   \* sizeof(win::section_header_t)

PowersOfTwo == {2^n : n \in 0..20}
SectionHeader ==
    [virtual_address : Nat, virtual_size : Nat, ptr_raw_data : Nat, size_raw_data : Nat,
     characteristics : Nat]

\* count_at is the offset of file_header.num_sections, two bytes; the section
\* headers end at table_end.  One more finds room in front of the sections'
\* raw data: the code leaves open what to do if not (:179).
ASSUME LayoutAssumption ==
    /\ FileAlignment \in Nat \ {0} /\ SectionAlignment \in Nat \ {0}
    /\ SectionVa \in Nat /\ Word \in Nat \ {0}
    /\ \A b \in Binaries :
         /\ b.size \in Nat /\ b.count_at \in Nat /\ b.table_end \in Nat
         /\ b.sections \in Seq(SectionHeader)
         /\ b.count_at + 2 <= b.table_end /\ b.table_end + HeaderSize <= b.size
         /\ \A i \in DOMAIN b.sections : b.sections[i].size_raw_data # 0 =>
              b.table_end + HeaderSize <= b.sections[i].ptr_raw_data
         /\ b.size + FileAlignment < Word
    /\ VmEntries \subseteq Seq(Nat)
    /\ CodeSizes \subseteq Nat

\* The masks of the code round down only for powers of two, which the PE
\* format demands of both alignments.
ASSUME AlignmentAssumption == {FileAlignment, SectionAlignment} \subseteq PowersOfTwo

VARIABLES
    binary,       \* the file that was opened
    vm_entry_rvas,
    module_data,  \* its bytes in memory: file offset -> what is there
    new_header,   \* the section header behind the others
    old_size,     \* where the new raw data will start
    cur,          \* index of the loop
    assembly,     \* the bytes compiled so far
    pc            \* "header", "patch", "compile", "finish", "done", "failed"

vars == <<binary, vm_entry_rvas, module_data, new_header, old_size, cur, assembly, pc>>
input == <<binary, vm_entry_rvas>>

-----------------------------------------------------------------------------
AlignDown(x, alignment) == x - (x % alignment)
\* x & ~alignment: one bit is cleared.
ClearBit(x, bit) == IF (x \div bit) % 2 = 1 THEN x - bit ELSE x

\* A byte, by where it comes from; the four bytes of a jump's offset are kept
\* as the offset, with the opcode.
Original(offset) == [kind |-> "original", of |-> offset, rel |-> 0]
HeaderByte == [kind |-> "header", of |-> 0, rel |-> 0]
CountByte == [kind |-> "count", of |-> 0, rel |-> 0]    \* of a number one higher
Nop == [kind |-> "nop", of |-> 0, rel |-> 0]
Zero == [kind |-> "zero", of |-> 0, rel |-> 0]
Rel32 == [kind |-> "rel32", of |-> 0, rel |-> 0]
Jmp(rel) == [kind |-> "jmp", of |-> 0, rel |-> rel]
Code(entry) == [kind |-> "code", of |-> entry, rel |-> 0]

NoHeader ==
    [virtual_address |-> 0, virtual_size |-> 0, ptr_raw_data |-> 0, size_raw_data |-> 0,
     characteristics |-> 0]

\* The VM entry is code of the image: all its bytes are raw data of a section.
InSection(rva, s) ==
    /\ rva >= s.virtual_address
    /\ rva < s.virtual_address + s.virtual_size
HoldsVmEnter(s, rva) ==
    /\ InSection(rva, s)
    /\ rva + VmEnterSize <= s.virtual_address + s.size_raw_data

Init ==
    /\ binary \in Binaries
    /\ vm_entry_rvas \in {rvas \in VmEntries : \A i \in DOMAIN rvas :
           \A j \in DOMAIN binary.sections :
               InSection(rvas[i], binary.sections[j]) => HoldsVmEnter(binary.sections[j], rvas[i])}
    /\ module_data = [offset \in 0..(binary.size - 1) |-> Original(offset)]
    /\ new_header = NoHeader
    /\ old_size = 0
    /\ cur = 1
    /\ assembly = <<>>
    /\ pc = "header"

-----------------------------------------------------------------------------
\* Lines 180-190: the sections are one more, and the header behind them is
\* cleared and filled, but for its characteristics.
CountSlot == binary.count_at..(binary.count_at + 1)
HeaderSlot == binary.table_end..(binary.table_end + HeaderSize - 1)
OldSizeDown == AlignDown(binary.size % Word, FileAlignment)
OldSize == AlignDown((binary.size + FileAlignment) % Word, FileAlignment)
AddSection ==
    /\ pc = "header"
    /\ old_size' = OldSize
    /\ new_header' = [NoHeader EXCEPT !.virtual_address = SectionVa, !.ptr_raw_data = old_size']
    /\ module_data' = [offset \in DOMAIN module_data |->
                          CASE offset \in CountSlot -> CountByte
                            [] offset \in HeaderSlot -> HeaderByte
                            [] OTHER -> module_data[offset]]
    /\ pc' = IF vm_entry_rvas = <<>> THEN "finish" ELSE "patch"
    /\ UNCHANGED <<input, cur, assembly>>

\* Lines 240-257: the first old section that spans the rva.
SectionOf(rva) ==
    {i \in DOMAIN binary.sections :
        /\ InSection(rva, binary.sections[i])
        /\ \A j \in 1..(i - 1) : ~ InSection(rva, binary.sections[j])}
FileOffset(rva, s) == rva - s.virtual_address + s.ptr_raw_data

\* Lines 259-263, in uint32_t: nops over the VM entry, the jump over the nops.
RelativeOffsetFromEntry(rva) == ((SectionVa - rva) + Len(assembly)) % Word
RelativeOffset(rva) == ((SectionVa - rva) + Len(assembly) - JmpSize) % Word
Nops(at) == (at + JmpSize)..(at + VmEnterSize - 1)
Patched(rva, at) ==
    [offset \in DOMAIN module_data |->
        CASE offset = at -> Jmp(RelativeOffset(rva))
          [] offset \in (at + 1)..(at + JmpSize - 1) -> Rel32
          [] offset \in Nops(at) -> Nop
          [] OTHER -> module_data[offset]]
PatchEntry ==
    /\ pc = "patch"
    /\ LET rva == vm_entry_rvas[cur] IN
       \/ /\ SectionOf(rva) = {}
          /\ pc' = "failed"
          /\ UNCHANGED module_data
       \/ \E i \in SectionOf(rva) :
          /\ module_data' = Patched(rva, FileOffset(rva, binary.sections[i]))
          /\ pc' = "compile"
    /\ UNCHANGED <<input, new_header, old_size, cur, assembly>>

\* Line 272 and the end of the loop: the code is appended, if there is any.
PastLastEntry == cur > Len(vm_entry_rvas)
LastEntry == cur >= Len(vm_entry_rvas)
CompileEntry ==
    /\ pc = "compile"
    /\ \E size \in CodeSizes : assembly' = assembly \o [i \in 1..size |-> Code(vm_entry_rvas[cur])]
    /\ cur' = cur + 1
    /\ pc' = IF LastEntry THEN "finish" ELSE "patch"
    /\ UNCHANGED <<input, module_data, new_header, old_size>>

\* Lines 283-287: the sizes of the new section, and its raw data.
RawSizeTight == AlignDown(Len(assembly), FileAlignment)
RawSize == AlignDown(Len(assembly), FileAlignment) + FileAlignment
VirtualSizeMasked == AlignDown(Len(assembly), SectionAlignment)
VirtualSize == ClearBit(Len(assembly), SectionAlignment) + SectionAlignment
FileSize == AlignDown(old_size + Len(assembly), FileAlignment) + FileAlignment
Finish ==
    /\ pc = "finish"
    /\ new_header' = [new_header EXCEPT !.virtual_size = VirtualSize, !.size_raw_data = RawSize]
    /\ module_data' = [offset \in 0..(FileSize - 1) |->
           CASE offset \in old_size..(old_size + Len(assembly) - 1) -> assembly[offset - old_size + 1]
             [] offset \in DOMAIN module_data \ (old_size..(old_size + Len(assembly) - 1)) ->
                    module_data[offset]
             [] OTHER -> Zero]
    /\ pc' = "done"
    /\ UNCHANGED <<input, old_size, cur, assembly>>

Next == AddSection \/ PatchEntry \/ CompileEntry \/ Finish

Spec == Init /\ [][Next]_vars

-----------------------------------------------------------------------------
\* What a disassembler makes of the output, for which it is meant (README.md:2):
\* as many section headers as are counted, the raw data of each at its virtual
\* address, as far as its virtual size goes.  Windows looks at more: the code
\* never raises optional_header.size_image to SectionVa, and the new section
\* has no characteristics that make it readable or executable (:183-190,
\* :283-287), so it would not run the output.
Counted == module_data[binary.count_at] = CountByte
Headers == binary.sections \o (IF Counted THEN <<new_header>> ELSE <<>>)
MappedFrom(rva) ==
    {FileOffset(rva, Headers[i]) : i \in
        {i \in DOMAIN Headers :
            /\ InSection(rva, Headers[i])
            /\ rva < Headers[i].virtual_address + Headers[i].size_raw_data}}
Holds(rva, byte) ==
    \E offset \in MappedFrom(rva) \cap DOMAIN module_data : module_data[offset] = byte
Signed(word) == IF word >= Word \div 2 THEN word - Word ELSE word
JumpsTo(rva, target) ==
    \E offset \in MappedFrom(rva) \cap DOMAIN module_data :
        /\ module_data[offset].kind = "jmp"
        /\ target = rva + JmpSize + Signed(module_data[offset].rel)

\* The part of the assembly that was compiled for an entry, and where the
\* patches and the header went.
CodeOf(rva) == {i \in DOMAIN assembly : assembly[i] = Code(rva)}
Entries == {vm_entry_rvas[i] : i \in DOMAIN vm_entry_rvas}
Window(rva, s) == FileOffset(rva, s)..(FileOffset(rva, s) + VmEnterSize - 1)
PatchWindows ==
    UNION {UNION {Window(rva, binary.sections[i]) : i \in SectionOf(rva)} : rva \in Entries}

\* The type invariant.
TypeOK ==
    /\ binary \in Binaries /\ vm_entry_rvas \in VmEntries
    /\ new_header \in SectionHeader
    /\ old_size \in Nat /\ cur \in Nat \ {0}
    /\ assembly \in Seq([kind : {"code"}, of : Nat, rel : {0}])
    /\ pc \in {"header", "patch", "compile", "finish", "done", "failed"}
    /\ pc = "patch" => cur \in DOMAIN vm_entry_rvas

\* Read from any of its VM entries, the output shows a jump to the first byte
\* that was compiled for that entry: the jump was written before the code was
\* there, relative to an address the image was never laid out for, and the code
\* is found only if the count of sections, header, file offset and raw data
\* agree (:182-190, :256-263, :283-287).
JumpsReachTheirCode ==
    pc = "done" =>
        \A rva \in Entries : CodeOf(rva) # {} =>
            \E target \in SectionVa..(SectionVa + Len(assembly)) :
                /\ JumpsTo(rva, target)
                /\ Holds(target, Code(rva))
                /\ target - SectionVa + 1 = CHOOSE i \in CodeOf(rva) : \A j \in CodeOf(rva) : i <= j

\* All compiled bytes are mapped where they were compiled to be: none lies
\* beyond the section's virtual size, which is rounded with the mask of one
\* bit, or beyond its raw data.
AllCodeIsMapped ==
    pc = "done" =>
        \A i \in DOMAIN assembly : Holds(SectionVa + i - 1, assembly[i])

\* The new section's raw data is where headers may say so: aligned, behind
\* every byte of the old file, and exactly up to the end of the new one, for
\* every remainder of the old size and of the code size (:188-190, :285-286).
RawDataFitsTheFile ==
    pc = "done" =>
        /\ new_header.ptr_raw_data % FileAlignment = 0
        /\ new_header.size_raw_data % FileAlignment = 0
        /\ binary.size <= new_header.ptr_raw_data
        /\ DOMAIN module_data = 0..(new_header.ptr_raw_data + new_header.size_raw_data - 1)

\* Nothing else of the old file is lost: but for the VM entries, the count of
\* sections and the header behind the last one, every byte keeps its value and
\* its offset, whatever is compiled and however often (:180-190, :259-263,
\* :286-287).
OldBytesAreKept ==
    \A offset \in 0..(binary.size - 1) :
        \/ offset \in DOMAIN module_data /\ module_data[offset] = Original(offset)
        \/ offset \in PatchWindows \cup CountSlot \cup HeaderSlot
=============================================================================
