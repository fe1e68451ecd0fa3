------------------------------ MODULE ImageMap ------------------------------
(***************************************************************************)
(* The first part of main() in src/src/vmdevirt-vtil.cpp: the file is laid *)
(* out and relocated in memory as the Windows loader would, for the        *)
(* emulator and for the search for VM entries.  Then PeLayout goes on with *)
(* the unmapped file, and its steps are those of PeLayout here too.        *)
(***************************************************************************)
EXTENDS PeLayout

CONSTANTS
    Page,          \* PAGE_4KB
    DataAddresses  \* where tmp.resize() may put tmp's bytes

\* A binary also has an image_base, a size_image and a directory of base
\* relocations, the bytes from reloc_rva on, reloc_size of them.  blocks is
\* what the mapped image reads as where a block of relocations can start: a
\* function from rvas; anywhere else the code reads zeroes.
Dir64 == "dir64"   \* win::rel_based_dir64
PointerSize == 8
EmptyBlock == [base_rva |-> 0, size_block |-> 0, entries |-> <<>>]
Relocation == [base_rva : Nat, size_block : Nat, entries : Seq([type : STRING, offset : Nat])]
DirectoryEnd(b) == b.reloc_rva + b.reloc_size
Directory(b) == {rva \in DOMAIN b.blocks : b.reloc_rva <= rva /\ rva < DirectoryEnd(b)}
EntryOf(b, at) == b.blocks[at[1]].entries[at[2]]
EntriesOf(b) ==
    UNION {{<<rva, j>> : j \in DOMAIN b.blocks[rva].entries} : rva \in Directory(b)}
Target(b, at) == b.blocks[at[1]].base_rva + EntryOf(b, at).offset

\* What the PE format asks of an image: raw data lies in the file and ends
\* within the pages of its section, the image spans them, the blocks fill the
\* directory, and the pointers they name are inside the image and outside of
\* the directory.  It does not ask for anything behind the directory.
ASSUME ImageAssumption ==
    /\ Page \in Nat \ {0} /\ DataAddresses \subseteq Nat \ {0}
    /\ \A b \in Binaries :
         /\ b.image_base \in Nat /\ b.size_image \in Nat
         /\ b.reloc_rva \in Nat /\ b.reloc_size \in Nat
         /\ DOMAIN b.blocks \subseteq Nat /\ b.blocks \in [DOMAIN b.blocks -> Relocation]
         /\ Page <= b.size /\ Page <= b.size_image
         /\ \A i \in DOMAIN b.sections : LET s == b.sections[i] IN
              /\ s.virtual_address >= Page
              /\ s.ptr_raw_data + s.size_raw_data <= b.size
              /\ s.virtual_address + s.size_raw_data <= b.size_image
              /\ s.virtual_address + s.virtual_size <= b.size_image
         /\ b.reloc_rva \in Directory(b) \cup {DirectoryEnd(b)}
         /\ \A rva \in Directory(b) : LET behind == rva + b.blocks[rva].size_block IN
              /\ behind \in Directory(b) \cup {DirectoryEnd(b)}
              /\ Len(b.blocks[rva].entries) = (b.blocks[rva].size_block - 8) \div 2
              /\ \A other \in Directory(b) : rva < other => behind <= other
         /\ \A at \in EntriesOf(b) :
              /\ Target(b, at) + PointerSize <= b.size_image
              /\ Target(b, at) + PointerSize <= b.reloc_rva \/ DirectoryEnd(b) <= Target(b, at)

VARIABLES
    tmp,     \* the address of tmp's bytes, 0 before they are allocated
    memory,  \* what was copied: address -> file offset
    slides,  \* address -> how often the image's displacement was added there
    next,    \* index of the section, then rva of the block, of the two loops
    step     \* "open", "sections", "relocate", "check", "mapped", "failed"

map_vars == <<tmp, memory, slides, next, step>>

MapInit ==
    /\ Init
    /\ tmp = 0
    /\ memory = <<>> /\ slides = <<>>
    /\ next = 1
    /\ step = "open"

-----------------------------------------------------------------------------
\* Line 108: resize(image_size + PAGE_4KB).  Lines 109-111: the first multiple
\* of the page size behind the first byte.
AllocatedExactly == tmp..(tmp + binary.size_image - 1)
Allocated == tmp..(tmp + binary.size_image + Page - 1)
ModuleBase == tmp + (Page - (tmp % Page))

\* memcpy of size bytes from the file; what was there is overwritten.
Copy(to, from, size) ==
    [a \in DOMAIN memory \cup to..(to + size - 1) |->
        IF a \in to..(to + size - 1) THEN a - to + from ELSE memory[a]]

\* Lines 97-112.
OpenBinary ==
    /\ step = "open"
    /\ \/ /\ step' = "failed"
          /\ UNCHANGED <<tmp, memory>>
       \/ /\ tmp' \in DataAddresses
          /\ memory' = [a \in ModuleBase'..(ModuleBase' + Page - 1) |-> a - ModuleBase']
          /\ step' = "sections"
    /\ UNCHANGED <<slides, next>>

\* Lines 113-122.
FlatTarget(s) == ModuleBase + s.ptr_raw_data
CopyTarget(s) == ModuleBase + s.virtual_address
CopySection ==
    /\ step = "sections"
    /\ \/ /\ next \in DOMAIN binary.sections
          /\ LET s == binary.sections[next] IN
             memory' = Copy(CopyTarget(s), s.ptr_raw_data, s.size_raw_data)
          /\ next' = next + 1
          /\ UNCHANGED step
       \/ /\ next \notin DOMAIN binary.sections
          /\ next' = binary.reloc_rva
          /\ step' = "relocate"
          /\ UNCHANGED memory
    /\ UNCHANGED <<tmp, slides>>

\* Lines 128-149: the walk goes on by the size of each block and ends where it
\* reads a block without base or size; the directory's size is not read.
ReadBlock(rva) == IF rva \in DOMAIN binary.blocks THEN binary.blocks[rva] ELSE EmptyBlock
EntriesBehind(rva) == rva + 2 * Len(ReadBlock(rva).entries)
NextBlock(rva) == rva + ReadBlock(rva).size_block
Relocates(entry) == entry.type = Dir64
RelocatedAt(block) ==
    {block.base_rva + entry.offset + ModuleBase :
        entry \in {block.entries[i] : i \in {i \in DOMAIN block.entries : Relocates(block.entries[i])}}}
Times(a) == IF a \in DOMAIN slides THEN slides[a] ELSE 0
RelocateBlock ==
    /\ step = "relocate"
    /\ LET block == ReadBlock(next) IN
       IF block.base_rva # 0 /\ block.size_block # 0
       THEN /\ slides' = [a \in DOMAIN slides \cup RelocatedAt(block) |->
                             Times(a) + (IF a \in RelocatedAt(block) THEN 1 ELSE 0)]
            /\ next' = NextBlock(next)
            /\ UNCHANGED step
       ELSE step' = "check" /\ UNCHANGED <<slides, next>>
    /\ UNCHANGED <<tmp, memory>>

\* Lines 150-156: only now is the image looked at.
CheckImage ==
    /\ step = "check"
    /\ step' = IF binary.image_base = 0 \/ binary.size_image = 0 THEN "failed" ELSE "mapped"
    /\ UNCHANGED <<tmp, memory, slides, next>>

MapNext ==
    \/ (OpenBinary \/ CopySection \/ RelocateBlock \/ CheckImage) /\ UNCHANGED vars
    \/ step = "mapped" /\ Next /\ UNCHANGED map_vars

MapSpec == MapInit /\ [][MapNext]_<<vars, map_vars>>

-----------------------------------------------------------------------------
\* Where the directory ends, the image reads as zeroes.  The code needs this
\* and the format does not promise it: where another block can be read there,
\* or where there is no directory and the walk starts at the image's first
\* byte, it relocates what no directory names.
Terminated == LET behind == ReadBlock(DirectoryEnd(binary)) IN
    behind.base_rva = 0 \/ behind.size_block = 0

\* The type invariant, also of PeLayout's part.  Every byte the copies write is
\* a byte of the vector, and every byte the relocations write if the directory
\* is terminated, although the image starts up to a page behind the vector's
\* first byte and nothing in the code compares a write with its end (:108-112,
\* :118-121, :139-141).
MapTypeOK ==
    /\ TypeOK
    /\ tmp \in DataAddresses \cup {0}
    /\ \A a \in DOMAIN memory : a \in Allocated /\ memory[a] \in 0..(binary.size - 1)
    /\ \A a \in DOMAIN slides :
         slides[a] \in Nat /\ (Terminated => a..(a + PointerSize - 1) \subseteq Allocated)
    /\ next \in Nat
    /\ step \in {"open", "sections", "relocate", "check", "mapped", "failed"}

\* The VM entry that was lifted, at its rva in the mapped image, is the one
\* that is patched, at its offset in the file: the copy of the sections
\* (:113-122) and the look-up of the section that holds the rva (:242-257) are
\* inverse to each other, for all ten bytes of the entry.
PatchedWhereLifted ==
    pc = "compile" =>
        LET rva == vm_entry_rvas[cur] IN
        \E at \in DOMAIN module_data :
            /\ module_data[at] = Jmp(RelativeOffset(rva))
            /\ \A k \in JmpSize..(VmEnterSize - 1) : module_data[at + k] = Nop
            /\ \A k \in 0..(VmEnterSize - 1) :
                 LET a == ModuleBase + rva + k IN a \in DOMAIN memory /\ memory[a] = at + k

\* When the image is handed to the emulator, each 64-bit pointer that a
\* terminated relocation directory names was moved by the displacement once,
\* and no other byte was, whatever padding and entries of other types the
\* blocks have: the walk by block sizes meets every block of the directory
\* (:130-149).
RelocatedOnce ==
    step = "mapped" /\ Terminated =>
        /\ {a - ModuleBase : a \in DOMAIN slides} =
               {Target(binary, at) : at \in
                   {at \in EntriesOf(binary) : EntryOf(binary, at).type = Dir64}}
        /\ \A a \in DOMAIN slides : slides[a] = 1
=============================================================================
