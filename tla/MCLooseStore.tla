---------------------------- MODULE MCLooseStore ----------------------------
(* Small instances of LooseStore: two writers, two temporary names, two    *)
(* directories that the keys share.                                        *)
EXTENDS LooseStore, TLC

CONSTANTS w1, w2, o1, o2, o3, k1, k2, k3, d1, d2

MCHashOf   == (o1 :> k1) @@ (o2 :> k2) @@ (o3 :> k3)
MCPrefixOf == (k1 :> d1) @@ (k2 :> d1) @@ (k3 :> d2) @@ (NullKey :> d2)

\* restricted to the objects of the run
MCHash   == [o \in Objects |-> MCHashOf[o]]
MCPrefix == [k \in Keys |-> MCPrefixOf[k]]

Symmetry == Permutations(Writers) \cup Permutations(Names)
=============================================================================
