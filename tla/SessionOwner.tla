---------------------------- MODULE SessionOwner ----------------------------
(***************************************************************************)
(* What the session bridge promises about a session continued in another   *)
(* profile (ARCHITECTURE.md:101): it is a lock held by a window.  Only a   *)
(* window that is alone is given the session; nothing but the end of that  *)
(* window ends its hold; and until then no other shared profile opens one. *)
(* Reservation files, their marks, requests, timers and crashes are hidden.*)
(***************************************************************************)
CONSTANTS
  Profiles,  \* the shared profiles
  Foreign    \* any other Claude window, which AppDeck cannot hold back

VARIABLES
  open,      \* the windows there are
  owners     \* the profile whose window continues the session, if any

vars == <<open, owners>>

Init == open = {} /\ owners = {}

Open(w) ==
  /\ w \notin open
  /\ w \in Profiles => owners = {}
  /\ open' = open \cup {w}
  /\ UNCHANGED owners

Close(w) ==
  /\ w \in open
  /\ open' = open \ {w}
  /\ owners' = owners \ {w}

Grant(p) ==
  /\ open = {p}
  /\ owners' = {p}
  /\ UNCHANGED open

Next ==
  \/ \E w \in Profiles \cup {Foreign} : Open(w) \/ Close(w)
  \/ \E p \in Profiles : Grant(p)

Spec == Init /\ [][Next]_vars

=============================================================================
