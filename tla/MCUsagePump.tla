---------------------------- MODULE MCUsagePump ----------------------------
(* Small instances of UsagePump.  One tick stands for some 15 seconds up to *)
(* Lost and for minutes above it: only the order of the limits matters.     *)
EXTENDS UsagePump, TLC

CONSTANTS p1, p2, codex, claude

Rank2 == (p1 :> 0) @@ (p2 :> 1)

GroupOf2 == (p1 :> codex) @@ (p2 :> claude)

\* A Codex helper has one exchange of usageProbeTimeout and four seconds to
\* leave, Claude Code has that twice (usage_probe.hpp:64-84): 24 and 48 seconds.
Longest2 == (p1 :> 2) @@ (p2 :> 4)

SetBackByTwo == {2}
=============================================================================
