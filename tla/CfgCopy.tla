------------------------------ MODULE CfgCopy ------------------------------
(***************************************************************************)
(* What a control-flow traversal of this program promises: starting from a *)
(* root, it copies a graph whose successor relation it can look up.  Nodes *)
(* are copied when an edge first reaches them, edges are recorded as they  *)
(* are followed, and the copy may be declared complete only when it is     *)
(* closed under the successor relation.                                    *)
(***************************************************************************)
VARIABLES
    succ,   \* the graph being copied: node -> set of its successors
    nodes,  \* the nodes copied so far
    edges,  \* the edges copied so far
    phase   \* "idle", "copying", "complete" or "abandoned"

vars == <<succ, nodes, edges, phase>>

Init == nodes = {} /\ edges = {} /\ phase = "idle"

\* The traversal starts at one node of the graph ...
Begin(root) ==
    /\ phase = "idle"
    /\ root \in DOMAIN succ
    /\ nodes' = {root}
    /\ phase' = "copying"
    /\ UNCHANGED <<succ, edges>>

\* ... follows one edge of a node it has copied ...
Follow(from, to) ==
    /\ phase = "copying"
    /\ from \in nodes \cap DOMAIN succ
    /\ to \in succ[from]
    /\ nodes' = nodes \cup {to}
    /\ edges' = edges \cup {<<from, to>>}
    /\ UNCHANGED succ

\* ... is complete when nothing is left to follow ...
Finish ==
    /\ phase = "copying"
    /\ \A from \in nodes : from \in DOMAIN succ /\ \A to \in succ[from] : <<from, to>> \in edges
    /\ phase' = "complete"
    /\ UNCHANGED <<succ, nodes, edges>>

\* ... and may be given up at any time.
Abandon ==
    /\ phase \in {"idle", "copying"}
    /\ phase' = "abandoned"
    /\ UNCHANGED <<succ, nodes, edges>>

Next ==
    \/ \E root \in DOMAIN succ : Begin(root)
    \/ \E from \in nodes \cap DOMAIN succ : \E to \in succ[from] :
            Follow(from, to) /\ phase' \in {"copying", "abandoned"}
    \/ Finish
    \/ Abandon

Spec == Init /\ [][Next]_vars
=============================================================================
