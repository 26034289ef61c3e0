-------------------------- MODULE MCProjectServer --------------------------
(* Small instances of ProjectServer: k1 is also a native id. *)
EXTENDS ProjectServer, TLC

CONSTANTS k1, k2, n1, n2, c1, c2, t1

Symmetry == Permutations(Contents) \cup Permutations({n1, n2})

=============================================================================
