--------------------------- MODULE MCProjectGroup --------------------------
(* Small instances of ProjectGroup. *)
EXTENDS ProjectGroup, TLC

CONSTANTS base, copy1, appdeck, server, p1, x, y, z

TwoProfiles == {base, copy1}
ServiceWriters == {appdeck, server}
TwoAndService == TwoProfiles \cup ServiceWriters

\* Byte order of the ids: "appdeck" < "base" < "codex-server", and copies are
\* UUIDs: copy1 sorts before "base".
IdOrder2 == (appdeck :> 1) @@ (base :> 2) @@ (server :> 3) @@ (copy1 :> 0)

\* The contents of projects are interchangeable.
ContentSymmetry == Permutations(Contents)

\* A group set up from a base with one project and an empty copy, all stopped.
FoundedInit ==
  /\ Init
  /\ registry = [p \in Profiles |->
                   [id \in Projects |-> IF p = base THEN x ELSE Absent]]
  /\ running = [p \in Profiles |-> FALSE]

FoundedFairSpec == FoundedInit /\ [][Next]_vars /\ Fairness
============================================================================
