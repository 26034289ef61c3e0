------------------------- MODULE MCAutomationGroup -------------------------
(* Small instances of AutomationGroup. *)
EXTENDS AutomationGroup, TLC

CONSTANTS base, copy1, a1, b1, b2

TwoProfiles == {base, copy1}

\* The base is the first of the participants.
Rank2 == (base :> 0) @@ (copy1 :> 1)

\* The bodies of definitions are interchangeable.
BodySymmetry == Permutations(Bodies)

=============================================================================
