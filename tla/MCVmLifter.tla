---------------------------- MODULE MCVmLifter ----------------------------
(* Three traced blocks with every branch structure, for TLC.               *)
EXTENDS VmLifter

MCBlockRva == <<1, 2, 3>>
MCVInstrs == {<<"add", "jmp">>, <<"sreg", "unknown">>}
===========================================================================
