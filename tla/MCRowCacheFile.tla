----------------------------- MODULE MCRowCacheFile -----------------------------
(* Small instances of RowCacheFile for TLC. *)
EXTENDS RowCacheFile, TLC

CONSTANTS p1, p2, w1, w2, k1, k2, k3

MCPutter == {p1, p2}
MCWriter == {w1, w2}
MCKey == {k1, k2}
MCThreeKeys == {k1, k2, k3}

Symmetry == UNION {Permutations(S) : S \in {MCPutter, MCWriter, MCThreeKeys}}
=============================================================================
