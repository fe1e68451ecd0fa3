---------------------------- MODULE MCVmDevirt ----------------------------
(* Two VM entries, two versions of the binary and two runs, for TLC.       *)
EXTENDS VmDevirt

MCVmEntries == <<1, 2>>
===========================================================================
