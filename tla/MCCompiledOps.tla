--------------------------- MODULE MCCompiledOps ---------------------------
(***************************************************************************)
(* Two whole virtual registers, both halves of a third and of a physical   *)
(* one, a narrow physical register that is alone, CR0 and DR7 and a        *)
(* temporary with the local_id of CR0; every instruction over some of      *)
(* them, the tests with one destination and the rotations as the others.   *)
(* For the tests: two flags and a virtual register.                        *)
(***************************************************************************)
EXTENDS CompiledOps, TLC

CONSTANTS w1, w2, n1, n2, a1, a2, p1, f1, f2, cr0, dr7

MCSize ==
    (w1 :> 4) @@ (w2 :> 4) @@ (cr0 :> 4) @@ (dr7 :> 4)
    @@ [r \in {n1, n2, a1, a2, p1} |-> 2]
MCId ==
    (w1 :> "w1") @@ (w2 :> "w2") @@ (cr0 :> "cr0") @@ (dr7 :> "dr7")
    @@ [r \in {n1, n2} |-> "n"] @@ [r \in {a1, a2} |-> "a"] @@ (p1 :> "p")
MCOffset == [r \in DOMAIN MCSize |-> IF r \in {n2, a2} THEN 2 ELSE 0]
\* w2 is a temporary that has the number of CR0.
MCLocalId ==
    [r \in DOMAIN MCSize |-> CASE r \in {cr0, w2} -> "cr0" [] r = dr7 -> "dr7" [] OTHER -> "none"]
MCEntryControl == [cr0 |-> 6, dr7 |-> 9]
MCEntryGp ==
    {(w1 :> x) @@ (w2 :> y) @@ (n1 :> z) @@ (n2 :> 6) @@ ("a" :> 9) @@ ("p" :> 15 - z) :
        x, y \in 0..15, z \in {1, 6, 15}}

MCFlagSize == (w1 :> 4) @@ (f1 :> 1) @@ (f2 :> 1)
MCFlagId == (w1 :> "w1") @@ [r \in {f1, f2} |-> "flags"]
MCFlagOffset == (w1 :> 0) @@ (f1 :> 0) @@ (f2 :> 1)
MCFlagLocalId == [r \in DOMAIN MCFlagSize |-> "none"]
MCFlagEntryGp == [{w1, "flags"} -> 0..15]

Binaries ==
    {"mov", "sub", "add", "imul", "bshl", "bshr", "band", "bor", "bxor", "brol", "bror"}
MCInstr ==
    [ins : Binaries, dst : {w1, n1, p1}, src : {w1, w2, n2, a1, 1, 3}, res : {0}]
    \cup [ins : {"mov", "add"}, dst : {n2, a1, a2, p1}, src : {n1, a2, 3}, res : {0}]
    \cup [ins : {"mov"}, dst : {cr0, dr7, w1, w2}, src : {cr0, dr7, w1, 3}, res : {0}]
    \cup [ins : {"bnot", "neg"}, dst : {w1, p1}, src : {0}, res : {0}]
    \cup [ins : {"ldd"}, dst : {w1, p1}, src : {w1, w2}, res : {0, 15}]
    \cup [ins : {"str"}, dst : {w1, w2}, src : {w1, n1, a2, p1}, res : {0, 1}]
    \cup [ins : {"str"}, dst : {w1}, src : {5}, res : {0, 1}, bits : {2, 3, 4}]
    \cup [ins : DOMAIN Opposite, dst : {p1}, src : {w1, p1}, res : {0, w2}]
    \cup [ins : DOMAIN Opposite, dst : {p1}, src : {3}, res : {w1}]
    \cup [ins : {"ifs"}, dst : {w1, p1}, src : {w1, w2, 1}, res : {w1, p1, 3}]
    \cup [ins : {"vpinr", "vpinwm"}, dst : {w1}, src : {0}, res : {0}]

\* The tests of lifter_add: an operand or the result against 0, into a flag.
MCTestInstr == [ins : {"tl", "te"}, dst : {f1, f2}, src : {w1}, res : {0}]
=============================================================================
