-------------------------- MODULE MCVirtualContext --------------------------
(***************************************************************************)
(* Two virtual registers of two bytes, two processor registers and one     *)
(* word of memory, all of whose bytes differ: the code never looks into a  *)
(* byte.                                                                   *)
(***************************************************************************)
EXTENDS VirtualContext

MCPushOrder == << <<"gp64", 3>>, <<"flags", 2>> >>
MCEntryNative == [r \in {<<"gp64", 3>>, EFLAGS} |-> IF r = EFLAGS THEN <<1, 2>> ELSE <<3, 4>>]
MCReturn == <<5, 5>>
MCAddress == <<6, 6>>
MCEntryMemory == [a \in {MCAddress} |-> <<7, 7>>]
MCEntrySpecial == [r \in {CR0, DR7} |-> IF r = CR0 THEN <<8, 8>> ELSE <<9, 9>>]
MCConsts == {<<0>>, MCAddress}
MCStackPointer(d) == <<10 + d, 9>>
=============================================================================
