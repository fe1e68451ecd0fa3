-------------------------- MODULE ZyregToRegister --------------------------
(***************************************************************************)
(* zyreg_to_capreg_map of src/include/zyreg_to_register_desc.hpp: a Zydis  *)
(* register, given by its number, is looked up in an array of Capstone     *)
(* registers that must follow the order of another library's enumeration.  *)
(* A register is known by its class and its number within it.              *)
(***************************************************************************)
EXTENDS Integers, Sequences

Row(class, count) == [k \in 1..count |-> <<class, k - 1>>]

-----------------------------------------------------------------------------
\* enum ZydisRegister.
ZydisRegister ==
    Row("none", 1)
      \o Row("gp8", 20) \o Row("gp16", 16) \o Row("gp32", 16) \o Row("gp64", 16)
      \o Row("st", 8) \o Row("x87", 3) \o Row("mm", 8)
      \o Row("xmm", 32) \o Row("ymm", 32) \o Row("zmm", 32)
      \o Row("flags", 3) \o Row("ip", 3) \o Row("segment", 6)
      \o Row("table", 4) \o Row("test", 8) \o Row("cr", 16) \o Row("dr", 16)
      \o Row("mask", 8) \o Row("bound", 6) \o Row("other", 3)
Number(zyreg) == (CHOOSE i \in DOMAIN ZydisRegister : ZydisRegister[i] = zyreg) - 1

\* The register of the processor that VTIL's code accesses for it: flags are
\* one register, whatever the part of it that is named.
EFLAGS == <<"flags", 1>>
Meant(zyreg) == IF zyreg[1] = "flags" THEN EFLAGS ELSE zyreg

-----------------------------------------------------------------------------
\* zyreg_to_capreg_map, part by part.
INVALID == <<"none", 0>>
Invalid(count) == [k \in 1..count |-> INVALID]
GeneralPurpose == Row("gp8", 20) \o Row("gp16", 16) \o Row("gp32", 16) \o Row("gp64", 16)
FloatingPoint == Row("st", 8) \o Invalid(3) \o Row("mm", 8)
Vector == Row("xmm", 32) \o Row("ymm", 32) \o Row("zmm", 32)
Flags == <<EFLAGS, EFLAGS, EFLAGS>>
InstructionPointer == Row("ip", 3)
Segment == Row("segment", 6)
TableAndTest == Invalid(4) \o Invalid(8)
Control == Row("cr", 16)
Debug == Row("dr", 16)
Rest == Row("mask", 8) \o Invalid(6) \o Invalid(3)
zyreg_to_capreg_map ==
    <<INVALID>> \o GeneralPurpose \o FloatingPoint \o Vector \o Flags
      \o InstructionPointer \o Segment \o TableAndTest \o Control \o Debug \o Rest

\* zyreg_to_capreg and register_cast.
Cast(zyreg) == zyreg_to_capreg_map[Number(zyreg) + 1]
=============================================================================
