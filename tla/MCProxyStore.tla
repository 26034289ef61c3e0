---------------------------- MODULE MCProxyStore ----------------------------
(* Small instances of ProxyStore. *)
EXTENDS ProxyStore, TLC

CONSTANTS x1, x2, c1, c2, p1

Symmetry == Permutations(Proxies) \cup Permutations(Configs)

=============================================================================
