--------------------------- MODULE ClaudeSettings ---------------------------
(***************************************************************************)
(* claudeConfigureSettings (claude_profile.hpp:39-101): before the launch  *)
(* of a clean Claude profile AppDeck puts the address of the profile's     *)
(* bridge in settings.json, keeping the replaced file beside it.  Nothing  *)
(* locks the two files: Claude's workers and the user write them at any    *)
(* time, and AppDeck may die between any two steps.                        *)
(*                                                                         *)
(* A step reads or writes the directory once; reads that follow each other *)
(* are one step, since what changes between them is found by the next      *)
(* check just as a change after them.                                      *)
(***************************************************************************)
EXTENDS Naturals

CONSTANTS
  Addresses,  \* of bridges; a launch without a proxy has none
  None,
  MaxEdits,   \* bound on changes of settings.json from outside
  MaxTouches, \* bound on changes of the backup from outside
  MaxLaunches \* bound on launches

ASSUME Constants ==
  /\ {MaxEdits, MaxTouches, MaxLaunches} \subseteq Nat
  /\ None \notin Addresses

VARIABLES
  settings,  \* settings.json: its identity (inode, size and times) and its
             \* document; or None
  previous,  \* settings.json.appdeck-previous, in the same way
  writes,    \* identities given so far
  work,      \* the launch under way
  result,    \* how the last launch ended: "none", "ok" or "cancelled"
  bounds,    \* edits of settings.json, touches of the backup and launches
  history    \* edit: the last edit from outside; raced: it came after the
             \* last check of a launch; disturbed: the files that are not
             \* what the launch saw, or were not for a while

vars == <<settings, previous, writes, work, result, bounds, history>>

\* What AppDeck tells apart in a file: the edit from outside that its other
\* keys come from, its own keys, and whether it is a plain file ("linked" when
\* it is not) that says what settings may say ("malformed" when it does not).
Docs ==
  [edit : 0 .. MaxEdits, own : Addresses \cup {None},
   form : {"sound", "malformed", "linked"}]

File == [id : Nat, doc : Docs]

ASSUME NoneIsNoFile == None \notin File \cup Docs

Idle == [step |-> "idle"]

Init ==
  /\ settings \in [id : {0}, doc : {d \in Docs : d.edit = 0}] \cup {None}
  /\ previous \in {settings, None}
  /\ writes = 0
  /\ work = Idle /\ result = "none"
  /\ bounds = [edits |-> 0, touches |-> 0, launches |-> 0]
  /\ history = [edit |-> 0, raced |-> FALSE, disturbed |-> {}]

-----------------------------------------------------------------------------
(* Claude, its workers and the user.                                        *)

At(steps) == work # Idle /\ work.step \in steps

\* What a launch must notice; nothing tells a file that was not there and is
\* not there again from one that never was.
Noticed(file, gone) ==
  IF gone /\ (IF file = "settings" THEN work.original ELSE work.saved) = None
  THEN history.disturbed \ {file} ELSE history.disturbed \cup {file}

\* An edit of settings.json is noticed until the last check of the launch.
Edited(edit, gone) ==
  history' = [edit |-> edit, raced |-> At({"rechecked"}),
              disturbed |-> IF At({"same", "staged", "checked", "backed", "saved"})
                            THEN Noticed("settings", gone) ELSE history.disturbed]

\* The file is written, truncated to be written, or made a link.
Edit(own, form) ==
  /\ bounds.edits < MaxEdits
  /\ bounds' = [bounds EXCEPT !.edits = @ + 1]
  /\ writes' = writes + 1
  /\ settings' = [id |-> writes + 1,
                  doc |-> [edit |-> bounds.edits + 1, own |-> own, form |-> form]]
  /\ Edited(bounds.edits + 1, FALSE)
  /\ UNCHANGED <<previous, work, result>>

Erase ==
  /\ settings # None /\ bounds.edits < MaxEdits
  /\ bounds' = [bounds EXCEPT !.edits = @ + 1]
  /\ settings' = None
  /\ Edited(0, TRUE)
  /\ UNCHANGED <<previous, writes, work, result>>

\* A touch of the backup is noticed, unless the launch is replacing it.
Touched(gone) ==
  history' = IF At({"same", "staged", "saved"})
             THEN [history EXCEPT !.disturbed = Noticed("previous", gone)]
             ELSE history

Touch(doc) ==
  /\ bounds.touches < MaxTouches
  /\ bounds' = [bounds EXCEPT !.touches = @ + 1]
  /\ writes' = writes + 1
  /\ previous' = [id |-> writes + 1, doc |-> doc]
  /\ Touched(FALSE)
  /\ UNCHANGED <<settings, work, result>>

Discard ==
  /\ previous # None /\ bounds.touches < MaxTouches
  /\ bounds' = [bounds EXCEPT !.touches = @ + 1]
  /\ previous' = None
  /\ Touched(TRUE)
  /\ UNCHANGED <<settings, writes, work, result>>

-----------------------------------------------------------------------------
(* The launch.                                                              *)

\* Mutant: the file is written anew with AppDeck's keys.
MergedMutant(file, own) == [edit |-> 0, own |-> own, form |-> "sound"]

\* Only AppDeck's keys are changed; no file counts as an empty one.
Merged(file, own) ==
  IF file = None THEN [edit |-> 0, own |-> own, form |-> "sound"]
  ELSE [file.doc EXCEPT !.own = own]

\* Nothing to change.
Says(file, own) == IF file = None THEN own = None ELSE file.doc.own = own

\* claudeSettingsRead takes no links.
Readable(file) == file = None \/ file.doc.form # "linked"

Parsed(file) == file = None \/ file.doc.form = "sound"

Finish(outcome) == work' = Idle /\ result' = outcome

\* The snapshots of both files; the backup is not parsed.
Begin(own) ==
  /\ work = Idle /\ bounds.launches < MaxLaunches
  /\ bounds' = [bounds EXCEPT !.launches = @ + 1]
  /\ history' = [history EXCEPT !.disturbed = {}]
  /\ IF Parsed(settings) /\ Readable(previous)
     THEN /\ work' = [step |-> IF Says(settings, own) THEN "same" ELSE "staged",
                      own |-> own, original |-> settings, saved |-> previous]
          /\ result' = "none"
     ELSE Finish("cancelled")
  /\ UNCHANGED <<settings, previous, writes>>

\* Mutant: the bytes are compared and not the identities.
MatchesMutant ==
  LET Doc(file) == IF file = None THEN None ELSE file.doc IN
  Doc(settings) = Doc(work.original) /\ Doc(previous) = Doc(work.saved)

\* claudeSettingsStillMatches of both files.
Matches == settings = work.original /\ previous = work.saved

\* A file changed, a temporary file was not written or a rename failed; or
\* AppDeck dies.
GiveUp ==
  /\ work # Idle
  /\ Finish("cancelled")
  /\ UNCHANGED <<settings, previous, writes, bounds, history>>

\* Nothing to write, if the files are still what they were.
Keep ==
  /\ At({"same"}) /\ Matches
  /\ Finish("ok")
  /\ UNCHANGED <<settings, previous, writes, bounds, history>>

Advance(to) ==
  /\ work' = [work EXCEPT !.step = to]
  /\ UNCHANGED <<settings, previous, writes, result, bounds, history>>

\* The first check, before anything is replaced; there is no backup to write
\* of a file that does not exist.
Check ==
  /\ At({"staged"}) /\ Matches
  /\ Advance(IF work.original = None THEN "saved" ELSE "checked")

\* The copy of the original takes the place of the backup.
SaveBackup ==
  /\ At({"checked"})
  /\ writes' = writes + 1
  /\ previous' = [id |-> writes + 1, doc |-> work.original.doc]
  /\ work' = [work EXCEPT !.step = "backed"]
  /\ UNCHANGED <<settings, result, bounds, history>>

\* The backup must be found to hold the bytes of the original.
ReadBack ==
  /\ At({"backed"})
  /\ previous # None /\ previous.doc = work.original.doc
  /\ work' = [work EXCEPT !.step = "saved", !.saved = previous]
  /\ UNCHANGED <<settings, previous, writes, result, bounds, history>>

\* Mutant: the second check is left out.
RecheckMutant == At({"saved"}) /\ Advance("rechecked")

Recheck == At({"saved"}) /\ Matches /\ Advance("rechecked")

\* The merged file takes the place of whatever is there now; a failure of fsync
\* cancels the launch all the same.
Replace ==
  /\ At({"rechecked"})
  /\ writes' = writes + 1
  /\ settings' = [id |-> writes + 1, doc |-> Merged(work.original, work.own)]
  /\ \E outcome \in {"ok", "cancelled"} : Finish(outcome)
  /\ UNCHANGED <<previous, bounds, history>>

Next ==
  \/ \E own \in Addresses \cup {None}, form \in {"sound", "malformed", "linked"} :
       Edit(own, form)
  \/ \E doc \in Docs : Touch(doc)
  \/ \E own \in Addresses \cup {None} : Begin(own)
  \/ Erase \/ Discard
  \/ Keep \/ Check \/ SaveBackup \/ ReadBack \/ Recheck \/ Replace \/ GiveUp

Spec == Init /\ [][Next]_vars

-----------------------------------------------------------------------------
(* Properties.                                                              *)

Steps == {"same", "staged", "checked", "backed", "saved", "rechecked"}

Works ==
  [step : Steps, own : Addresses \cup {None},
   original : File \cup {None}, saved : File \cup {None}]

\* Every variable has its type.
TypeOK ==
  /\ settings \in File \cup {None} /\ previous \in File \cup {None}
  /\ writes \in Nat
  /\ work \in Works \cup {Idle} /\ result \in {"none", "ok", "cancelled"}
  /\ bounds \in [edits : 0 .. MaxEdits, touches : 0 .. MaxTouches, launches : 0 .. MaxLaunches]
  /\ history \in [edit : 0 .. MaxEdits, raced : BOOLEAN, disturbed : SUBSET {"settings", "previous"}]

\* claude_profile.hpp:78-86: what Claude or the user wrote last is what
\* settings.json holds beside AppDeck's keys, whatever launches, failures and
\* crashes came since.  Only an edit that falls between the last check and the
\* rename of a launch (lines 83 and 84) can be lost.
EditsSurvive ==
  ~history.raced =>
    history.edit = IF settings = None THEN 0 ELSE settings.doc.edit

\* docs/CLAUDE_NETWORK.md:24, "malformed, linked or concurrently changed files
\* cancel launch": a launch goes on only if settings.json did not change from
\* its first look to its last check, not even to the same bytes, and the backup
\* did not except while the launch itself was replacing it (lines 79-81).
DisturbedIsCancelled == result = "ok" => history.disturbed = {}

DocOf(file) == IF file = None THEN None ELSE file.doc

\* What a launch that passed its last check is about to replace.
Seen ==
  IF At({"rechecked"})
  THEN [looked |-> TRUE, doc |-> DocOf(work.original)]
  ELSE [looked |-> FALSE, doc |-> None]

Store ==
  INSTANCE SettingsStore WITH
    settings <- DocOf(settings), previous <- DocOf(previous),
    edits <- bounds.edits, seen <- Seen

\* claude_profile.hpp:38, "Only AppDeck's explicit Code settings keys are
\* reconciled": the whole exchange is one replacement of a file that was looked
\* at, and backed up as it was then, by the same file with AppDeck's keys.
ReplacesWhatItSaw == Store!Spec

=============================================================================
