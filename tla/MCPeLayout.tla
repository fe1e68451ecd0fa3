----------------------------- MODULE MCPeLayout -----------------------------
(* Small binaries of two sections, with and without bytes behind the last   *)
(* one, with up to two blocks of relocations, the last of them followed by  *)
(* zeroes or not, and with up to two VM entries, for TLC.                   *)
EXTENDS ImageMap, TLC

Section(va, vsize, ptr, raw) ==
    [virtual_address |-> va, virtual_size |-> vsize, ptr_raw_data |-> ptr, size_raw_data |-> raw,
     characteristics |-> 1]
MCSections ==
    {<<Section(64, vsize, 64, 32), Section(128, 24, 96, 32)>> : vsize \in {20, 32, 48}}
        \cup {<<Section(192, 32, 96, 32), Section(64, 40, 64, 32)>>}

Entry(type, offset) == [type |-> type, offset |-> offset]
RelocBlock(rva, entries) ==
    [base_rva |-> rva, size_block |-> 8 + 2 * Len(entries), entries |-> entries]
\* The blocks at and behind an rva, and the size of the directory; the third
\* directory has a block behind its end, the fourth is none.
MCBlocks(rva, name) ==
    CASE name = "padded" ->
           rva :> RelocBlock(64, <<Entry(Dir64, 0), Entry(Dir64, 24), Entry("absolute", 0)>>)
             @@ rva + 14 :> RelocBlock(72, <<Entry("highlow", 0), Entry(Dir64, 8)>>)
      [] name = "empty_block" ->
           rva :> RelocBlock(64, <<>>) @@ rva + 8 :> RelocBlock(80, <<Entry(Dir64, 8)>>)
      [] name = "unterminated" ->
           rva :> RelocBlock(64, <<Entry(Dir64, 0)>>) @@ rva + 10 :> RelocBlock(512, <<Entry(Dir64, 0)>>)
      [] OTHER -> 0 :> RelocBlock(512, <<Entry(Dir64, 0)>>)
MCRelocSize(name) ==
    CASE name = "padded" -> 26 [] name = "empty_block" -> 18 [] name = "unterminated" -> 10 [] OTHER -> 0

Binary(size, table_end, sections, directory) ==
    LET relocs == IF sections[1].virtual_address = 64 THEN 128 ELSE 192
        reloc_rva == IF directory = "none" THEN 0 ELSE relocs
    IN [size |-> size, count_at |-> 2, table_end |-> table_end, sections |-> sections,
        reloc_rva |-> reloc_rva, reloc_size |-> MCRelocSize(directory),
        blocks |-> MCBlocks(reloc_rva, directory),
        image_base |-> IF size = 142 THEN 0 ELSE 4096, size_image |-> relocs + 32]
MCBinaries ==
    {Binary(size, table_end, sections, directory) :
        size \in {128, 129, 142, 143}, table_end \in {20, 24}, sections \in MCSections,
        directory \in {"padded", "empty_block", "unterminated", "none"}}
MCVmEntries == {<<64, 74>>, <<74, 64>>, <<64, 134>>, <<200, 64>>, <<86>>, <<>>, <<66, 300>>}
MCCodeSizes == {0, 1, 15, 16, 33}
MCDataAddresses == {128, 144, 191}
=============================================================================
