-------------------------- MODULE MCClaudeSettings --------------------------
(* Small instances of ClaudeSettings. *)
EXTENDS ClaudeSettings

CONSTANTS a1, a2

=============================================================================
