---------------------------- MODULE SettingsStore ----------------------------
(***************************************************************************)
(* What AppDeck promises about a file of Claude that it changes            *)
(* (claude_profile.hpp:38, 67-101): it looks at the file while a copy of   *)
(* it is in the backup, and replaces it by what it saw with nothing but    *)
(* its own keys changed.  Everything else that happens to the file is an   *)
(* edit from outside.  Temporary files, renames and failures are hidden.   *)
(***************************************************************************)
EXTENDS Naturals

CONSTANTS
  Addresses,  \* what AppDeck's own keys may say
  None        \* no file, or no keys of AppDeck

VARIABLES
  settings,   \* the file, or None
  previous,   \* the backup, or None
  edits,      \* edits from outside so far
  seen        \* what AppDeck is about to replace

vars == <<settings, previous, edits, seen>>

\* A document: the edit from outside that its other keys come from, AppDeck's
\* keys, and its form.  Only a sound one is changed.
Docs ==
  [edit : Nat, own : Addresses \cup {None}, form : {"sound", "malformed", "linked"}]

Nothing == [looked |-> FALSE, doc |-> None]

EditOf(doc) == IF doc = None THEN 0 ELSE doc.edit

Init ==
  /\ settings \in Docs \cup {None} /\ previous \in Docs \cup {None}
  /\ edits = 0 /\ EditOf(settings) = 0
  /\ seen = Nothing

\* From outside: every document is a new one; the file may be removed.
Edit ==
  /\ edits' = edits + 1
  /\ settings' \in {d \in Docs : d.edit = edits'} \cup {None}
  /\ UNCHANGED <<previous, seen>>

\* The backup is written, by AppDeck or another.
Save ==
  /\ previous' \in Docs \cup {None}
  /\ UNCHANGED <<settings, edits, seen>>

Look ==
  /\ settings # None => settings.form = "sound" /\ previous = settings
  /\ seen' = [looked |-> TRUE, doc |-> settings]
  /\ UNCHANGED <<settings, previous, edits>>

Replace(own) ==
  /\ seen.looked
  /\ settings' = [edit |-> EditOf(seen.doc), own |-> own, form |-> "sound"]
  /\ seen' = Nothing
  /\ UNCHANGED <<previous, edits>>

Forget ==
  /\ seen' = Nothing
  /\ UNCHANGED <<settings, previous, edits>>

Next ==
  \/ Edit \/ Save \/ Look \/ Forget
  \/ \E own \in Addresses \cup {None} : Replace(own)

Spec == Init /\ [][Next]_vars

=============================================================================
