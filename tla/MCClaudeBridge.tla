--------------------------- MODULE MCClaudeBridge ---------------------------
(* Small instances of ClaudeBridge. *)
EXTENDS ClaudeBridge, TLC

CONSTANTS p1, p2, f1, f2

\* Profiles are interchangeable, and so are folders.
Symmetry == Permutations(Profiles) \cup Permutations(Folders)

=============================================================================
