------------------------ MODULE ClaudeSettingsProofs ------------------------
(***************************************************************************)
(* The properties of ClaudeSettings, and that it implements SettingsStore, *)
(* for every set of addresses and every bound.  The inductive invariant    *)
(* IndInv adds to the types that identities grow (Fresh), that a disturbed *)
(* file is not the one the launch saw (Marked), what the launch knows at   *)
(* each of its steps (Known), and that it works without a result (Open).   *)
(***************************************************************************)
EXTENDS ClaudeSettings, TLAPS

Older(file) == file # None => file.id <= writes

Fresh ==
  /\ Older(settings) /\ Older(previous)
  /\ work # Idle => Older(work.original) /\ Older(work.saved)

Marked ==
  /\ At({"same", "staged", "checked", "backed", "saved"}) /\ "settings" \in history.disturbed
       => settings # work.original
  /\ At({"same", "staged", "saved"}) /\ "previous" \in history.disturbed
       => previous # work.saved
  /\ At({"checked", "backed"}) => "previous" \notin history.disturbed
  /\ At({"rechecked"}) => history.disturbed = {}

Known ==
  /\ At(Steps) => Parsed(work.original)
  /\ At({"checked", "backed"}) => work.original # None
  /\ At({"saved", "rechecked"}) /\ work.original # None =>
       work.saved # None /\ work.saved.doc = work.original.doc
  /\ At({"rechecked"}) /\ ~history.raced => settings = work.original

Open == work # Idle => result = "none"

IndInv ==
  /\ TypeOK
  /\ Fresh /\ Marked /\ Known /\ Open
  /\ EditsSurvive /\ DisturbedIsCancelled

-----------------------------------------------------------------------------
(* The values of the steps.                                                 *)

LEMMA IdleIsNoWork == Idle \notin Works
BY DEF Idle, Works

LEMMA AtIsStep ==
  ASSUME TypeOK, NEW S \in SUBSET Steps
  PROVE  /\ At(S) <=> work \in Works /\ work.step \in S
         /\ work # Idle => work \in Works /\ At(Steps)
BY IdleIsNoWork DEF At, TypeOK, Works, Steps

LEMMA InitHolds == Init => IndInv
<1> SUFFICES ASSUME Init PROVE IndInv
  OBVIOUS
<1>1. TypeOK
  BY Constants DEF Init, TypeOK, File, Docs
<1>2. work = Idle
  BY DEF Init
<1>3. EditsSurvive /\ DisturbedIsCancelled
  BY NoneIsNoFile DEF Init, EditsSurvive, DisturbedIsCancelled, Docs
<1>4. Older(settings) /\ Older(previous)
  BY NoneIsNoFile DEF Init, Older, Docs
<1>5. QED
  BY <1>1, <1>2, <1>3, <1>4 DEF IndInv, Fresh, Marked, Known, Open, At

-----------------------------------------------------------------------------
(* Changes from outside.                                                    *)

LEMMA EditKeeps ==
  ASSUME IndInv, NEW own \in Addresses \cup {None},
         NEW form \in {"sound", "malformed", "linked"}, Edit(own, form)
  PROVE  IndInv'
<1> DEFINE file == [id |-> writes + 1,
                    doc |-> [edit |-> bounds.edits + 1, own |-> own, form |-> form]]
<1>1. /\ bounds.edits \in Nat /\ bounds.edits < MaxEdits /\ writes \in Nat
      /\ history.disturbed \in SUBSET {"settings", "previous"} /\ MaxEdits \in Nat
  BY Constants DEF Edit, IndInv, TypeOK
<1>2. settings' = file /\ file \in File /\ file # None
  BY <1>1, NoneIsNoFile DEF Edit, File, Docs
<1>3. UNCHANGED <<previous, work, result>> /\ writes' = writes + 1
  BY DEF Edit
<1>4. /\ history'.edit = bounds.edits + 1 /\ history'.raced = At({"rechecked"})
      /\ history'.disturbed = IF At({"same", "staged", "checked", "backed", "saved"})
                              THEN history.disturbed \cup {"settings"} ELSE history.disturbed
      /\ history' = [edit |-> history'.edit, raced |-> history'.raced,
                     disturbed |-> history'.disturbed]
  BY DEF Edit, Edited, Noticed
<1>5. At({"rechecked"}) \in BOOLEAN
  BY DEF At
<1>6. bounds' \in [edits : 0 .. MaxEdits, touches : 0 .. MaxTouches, launches : 0 .. MaxLaunches]
  BY <1>1 DEF Edit, IndInv, TypeOK
<1>7. history' \in [edit : 0 .. MaxEdits, raced : BOOLEAN, disturbed : SUBSET {"settings", "previous"}]
  BY <1>1, <1>4, <1>5
<1>8. TypeOK'
  BY <1>1, <1>2, <1>3, <1>6, <1>7 DEF IndInv, TypeOK
<1>9. Fresh'
  BY <1>1, <1>2, <1>3, AtIsStep DEF IndInv, TypeOK, Fresh, Older, Works, File
<1>10. Marked'
  <2>1. settings' # work.original \/ work = Idle
    BY <1>1, <1>2 DEF IndInv, Fresh, Older
  <2>2. QED
    BY <1>3, <1>4, <2>1 DEF IndInv, Marked, At
<1>11. Known' /\ Open'
  BY <1>3, <1>4 DEF IndInv, Known, Open, At, Parsed
<1>12. EditsSurvive'
  BY <1>2, <1>4 DEF EditsSurvive
<1>13. DisturbedIsCancelled'
  BY <1>3, <1>4 DEF IndInv, DisturbedIsCancelled, Open, At
<1>14. QED
  BY <1>8, <1>9, <1>10, <1>11, <1>12, <1>13 DEF IndInv

LEMMA EraseKeeps ==
  ASSUME IndInv, Erase
  PROVE  IndInv'
<1>1. /\ bounds.edits \in Nat /\ bounds.edits < MaxEdits /\ MaxEdits \in Nat
      /\ history.disturbed \in SUBSET {"settings", "previous"}
  BY Constants DEF Erase, IndInv, TypeOK
<1>2. settings' = None /\ UNCHANGED <<previous, writes, work, result>>
  BY DEF Erase
<1>3. /\ history'.edit = 0 /\ history'.raced = At({"rechecked"})
      /\ history'.disturbed =
           IF ~At({"same", "staged", "checked", "backed", "saved"}) THEN history.disturbed
           ELSE IF work.original = None THEN history.disturbed \ {"settings"}
           ELSE history.disturbed \cup {"settings"}
      /\ history' = [edit |-> history'.edit, raced |-> history'.raced,
                     disturbed |-> history'.disturbed]
  BY DEF Erase, Edited, Noticed
<1>4. At({"rechecked"}) \in BOOLEAN
  BY DEF At
<1>5. bounds' \in [edits : 0 .. MaxEdits, touches : 0 .. MaxTouches, launches : 0 .. MaxLaunches]
  BY <1>1 DEF Erase, IndInv, TypeOK
<1>6. history' \in [edit : 0 .. MaxEdits, raced : BOOLEAN, disturbed : SUBSET {"settings", "previous"}]
  BY <1>1, <1>3, <1>4
<1>7. TypeOK'
  BY <1>1, <1>2, <1>5, <1>6 DEF IndInv, TypeOK
<1>8. Fresh' /\ Open'
  BY <1>2 DEF IndInv, Fresh, Older, Open
<1>9. Marked'
  BY <1>2, <1>3 DEF IndInv, Marked, At
<1>10. Known'
  BY <1>2, <1>3 DEF IndInv, Known, At, Parsed
<1>11. EditsSurvive'
  BY <1>2, <1>3 DEF EditsSurvive
<1>12. DisturbedIsCancelled'
  BY <1>2, <1>3 DEF IndInv, DisturbedIsCancelled, Open, At
<1>13. QED
  BY <1>7, <1>8, <1>9, <1>10, <1>11, <1>12 DEF IndInv

\* A touch of the backup, given what it leaves there.
LEMMA TouchedKeeps ==
  ASSUME IndInv, NEW gone \in BOOLEAN, Touched(gone),
         previous' \in File \cup {None}, gone <=> previous' = None,
         writes' \in {writes, writes + 1}, ~gone => previous'.id = writes + 1 /\ writes' = writes + 1,
         UNCHANGED <<settings, work, result>>,
         bounds' \in [edits : 0 .. MaxEdits, touches : 0 .. MaxTouches, launches : 0 .. MaxLaunches]
  PROVE  IndInv'
<1>1. writes \in Nat /\ writes' \in Nat /\ writes' >= writes
  BY DEF IndInv, TypeOK
<1>2. /\ history'.edit = history.edit /\ history'.raced = history.raced
      /\ history'.disturbed =
           IF ~At({"same", "staged", "saved"}) THEN history.disturbed
           ELSE IF gone /\ work.saved = None THEN history.disturbed \ {"previous"}
           ELSE history.disturbed \cup {"previous"}
      /\ history' \in [edit : 0 .. MaxEdits, raced : BOOLEAN,
                        disturbed : SUBSET {"settings", "previous"}]
  BY DEF IndInv, TypeOK, Touched, Noticed
<1>3. TypeOK'
  BY <1>1, <1>2 DEF IndInv, TypeOK
<1>4. Fresh'
  <2>1. Older(settings)' /\ Older(previous)'
    BY <1>1 DEF IndInv, TypeOK, Fresh, Older, File
  <2>2. work # Idle => Older(work.original)' /\ Older(work.saved)'
    BY <1>1, AtIsStep DEF IndInv, TypeOK, Fresh, Older, File, Works
  <2>3. QED
    BY <2>1, <2>2 DEF Fresh
<1>5. Marked'
  <2>1. work # Idle /\ previous' # None => previous' # work.saved
    BY <1>1 DEF IndInv, Fresh, Older
  <2>2. QED
    BY <1>2, <2>1 DEF IndInv, Marked, At
<1>6. Known' /\ Open' /\ EditsSurvive'
  BY <1>2 DEF IndInv, Known, Open, At, Parsed, EditsSurvive
<1>7. DisturbedIsCancelled'
  BY <1>2 DEF IndInv, DisturbedIsCancelled, Open, At
<1>8. QED
  BY <1>3, <1>4, <1>5, <1>6, <1>7 DEF IndInv

LEMMA TouchKeeps ==
  ASSUME IndInv, NEW doc \in Docs, Touch(doc)
  PROVE  IndInv'
<1>1. previous' \in File /\ previous' # None /\ previous'.id = writes + 1
  BY NoneIsNoFile DEF Touch, File, IndInv, TypeOK
<1>2. bounds' \in [edits : 0 .. MaxEdits, touches : 0 .. MaxTouches, launches : 0 .. MaxLaunches]
  BY Constants DEF Touch, IndInv, TypeOK
<1>3. QED
  BY <1>1, <1>2, TouchedKeeps DEF Touch

LEMMA DiscardKeeps ==
  ASSUME IndInv, Discard
  PROVE  IndInv'
<1>1. bounds' \in [edits : 0 .. MaxEdits, touches : 0 .. MaxTouches, launches : 0 .. MaxLaunches]
  BY Constants DEF Discard, IndInv, TypeOK
<1>2. QED
  BY <1>1, TouchedKeeps DEF Discard

-----------------------------------------------------------------------------
(* The launch.                                                              *)

LEMMA BeginKeeps ==
  ASSUME IndInv, NEW own \in Addresses \cup {None}, Begin(own)
  PROVE  IndInv'
<1>1. /\ history'.edit = history.edit /\ history'.raced = history.raced
      /\ history'.disturbed = {}
      /\ history' \in [edit : 0 .. MaxEdits, raced : BOOLEAN,
                        disturbed : SUBSET {"settings", "previous"}]
  BY DEF Begin, IndInv, TypeOK
<1>2. UNCHANGED <<settings, previous, writes>>
  BY DEF Begin
<1>3. bounds' \in [edits : 0 .. MaxEdits, touches : 0 .. MaxTouches, launches : 0 .. MaxLaunches]
  BY Constants DEF Begin, IndInv, TypeOK
<1>4. EditsSurvive' /\ DisturbedIsCancelled'
  BY <1>1, <1>2 DEF IndInv, EditsSurvive, DisturbedIsCancelled
<1>5. CASE ~(Parsed(settings) /\ Readable(previous))
  <2>1. work' = Idle /\ result' = "cancelled"
    BY <1>5 DEF Begin, Finish
  <2>2. QED
    BY <1>1, <1>2, <1>3, <1>4, <2>1 DEF IndInv, TypeOK, Fresh, Older, Marked, Known, Open, At
<1>6. CASE Parsed(settings) /\ Readable(previous)
  <2>1. /\ work' = [step |-> IF Says(settings, own) THEN "same" ELSE "staged",
                    own |-> own, original |-> settings, saved |-> previous]
        /\ result' = "none"
    BY <1>6 DEF Begin
  <2>2. work' \in Works /\ work'.original = settings /\ work'.saved = previous
        /\ work'.step \in {"same", "staged"}
    BY <2>1 DEF Works, Steps, IndInv, TypeOK
  <2>3. TypeOK'
    BY <1>1, <1>2, <1>3, <2>1, <2>2 DEF IndInv, TypeOK
  <2>4. Fresh' /\ Open'
    BY <1>2, <2>1, <2>2 DEF IndInv, Fresh, Older, Open
  <2>5. Marked' /\ Known'
    BY <1>1, <1>2, <1>6, <2>2 DEF Marked, Known, At, Parsed
  <2>6. QED
    BY <1>4, <2>3, <2>4, <2>5 DEF IndInv
<1>7. QED
  BY <1>5, <1>6

\* The launch ends and leaves the files alone.
LEMMA FinishKeeps ==
  ASSUME IndInv, NEW outcome \in {"ok", "cancelled"}, Finish(outcome),
         outcome = "ok" => history.disturbed = {},
         UNCHANGED <<settings, previous, writes, bounds, history>>
  PROVE  IndInv'
<1>1. work' = Idle /\ result' = outcome
  BY DEF Finish
<1>2. QED
  BY <1>1 DEF IndInv, TypeOK, Fresh, Older, Marked, Known, Open, At, EditsSurvive,
    DisturbedIsCancelled

LEMMA UndisturbedIfMatching ==
  ASSUME IndInv, Matches, At({"same", "staged", "saved"})
  PROVE  history.disturbed = {}
BY DEF IndInv, TypeOK, Matches, Marked, At

LEMMA KeepKeeps ==
  ASSUME IndInv, Keep \/ GiveUp
  PROVE  IndInv'
<1>1. CASE Keep
  <2>1. At({"same", "staged", "saved"})
    BY <1>1 DEF Keep, At
  <2>2. QED
    BY <1>1, <2>1, UndisturbedIfMatching, FinishKeeps DEF Keep
<1>2. CASE GiveUp
  BY <1>2, FinishKeeps DEF GiveUp
<1>3. QED
  BY <1>1, <1>2

LEMMA CheckKeeps ==
  ASSUME IndInv, Check \/ Recheck
  PROVE  IndInv'
<1>1. PICK to \in {"checked", "saved", "rechecked"} :
        /\ work' = [work EXCEPT !.step = to]
        /\ to = "checked" => work.original # None
        /\ to = "saved" => work.original = None
        /\ to = "rechecked" => At({"saved"})
  BY DEF Check, Recheck, Advance
<1>2. At({"same", "staged", "saved"}) /\ Matches
  BY DEF Check, Recheck, At
<1>3. history.disturbed = {}
  BY <1>2, UndisturbedIfMatching
<1>4. UNCHANGED <<settings, previous, writes, result, bounds, history>>
  BY DEF Check, Recheck, Advance
<1>5. work \in Works /\ work # Idle
  BY <1>2, AtIsStep DEF IndInv, Steps, At
<1>6. /\ work' \in Works /\ work'.step = to
      /\ work'.original = work.original /\ work'.saved = work.saved
  BY <1>1, <1>5 DEF Works, Steps
<1>7. TypeOK'
  BY <1>4, <1>6 DEF IndInv, TypeOK
<1>8. Fresh' /\ Marked' /\ Open' /\ EditsSurvive' /\ DisturbedIsCancelled'
  BY <1>3, <1>4, <1>5, <1>6
  DEF IndInv, Fresh, Older, Marked, Open, EditsSurvive, DisturbedIsCancelled
<1>9. Known'
  <2>1. Parsed(work.original)
    BY <1>2 DEF IndInv, Known, At, Steps
  <2>2. to = "rechecked" /\ work.original # None =>
          work.saved # None /\ work.saved.doc = work.original.doc
    BY <1>1 DEF IndInv, Known, At
  <2>3. settings = work.original
    BY <1>2 DEF Matches
  <2>4. QED
    BY <1>1, <1>4, <1>6, <2>1, <2>2, <2>3 DEF Known, At, Parsed
<1>10. QED
  BY <1>7, <1>8, <1>9 DEF IndInv

LEMMA SaveBackupKeeps ==
  ASSUME IndInv, SaveBackup
  PROVE  IndInv'
<1>1. /\ At({"checked"}) /\ work \in Works /\ work # Idle
      /\ work.original \in File /\ work.original # None /\ writes \in Nat
  BY AtIsStep DEF SaveBackup, IndInv, TypeOK, Known, Works, At
<1>2. /\ work' = [work EXCEPT !.step = "backed"] /\ writes' = writes + 1
      /\ previous' = [id |-> writes + 1, doc |-> work.original.doc]
      /\ UNCHANGED <<settings, result, bounds, history>>
  BY DEF SaveBackup
<1>3. /\ work' \in Works /\ work'.step = "backed"
      /\ work'.original = work.original /\ work'.saved = work.saved
  BY <1>1, <1>2 DEF Works, Steps
<1>4. previous' \in File /\ previous'.id = writes + 1
  BY <1>1, <1>2 DEF File
<1>5. TypeOK'
  BY <1>1, <1>2, <1>3, <1>4 DEF IndInv, TypeOK
<1>6. Fresh'
  BY <1>1, <1>2, <1>3, <1>4 DEF IndInv, TypeOK, Fresh, Older, Works, File
<1>7. Marked' /\ Known' /\ Open'
  BY <1>1, <1>2, <1>3 DEF IndInv, Marked, Known, Open, At, Steps, Parsed
<1>8. EditsSurvive' /\ DisturbedIsCancelled'
  BY <1>2 DEF IndInv, EditsSurvive, DisturbedIsCancelled
<1>9. QED
  BY <1>5, <1>6, <1>7, <1>8 DEF IndInv

LEMMA ReadBackKeeps ==
  ASSUME IndInv, ReadBack
  PROVE  IndInv'
<1>1. At({"backed"}) /\ work \in Works /\ work # Idle
  BY AtIsStep DEF ReadBack, IndInv, At
<1>2. /\ work' = [work EXCEPT !.step = "saved", !.saved = previous]
      /\ previous # None /\ previous.doc = work.original.doc
      /\ UNCHANGED <<settings, previous, writes, result, bounds, history>>
  BY DEF ReadBack
<1>3. /\ work' \in Works /\ work'.step = "saved"
      /\ work'.original = work.original /\ work'.saved = previous
  BY <1>1, <1>2 DEF Works, Steps, IndInv, TypeOK
<1>4. TypeOK'
  BY <1>2, <1>3 DEF IndInv, TypeOK
<1>5. Fresh' /\ Marked' /\ Known' /\ Open'
  BY <1>1, <1>2, <1>3 DEF IndInv, Fresh, Older, Marked, Known, Open, At, Steps, Parsed
<1>6. EditsSurvive' /\ DisturbedIsCancelled'
  BY <1>2 DEF IndInv, EditsSurvive, DisturbedIsCancelled
<1>7. QED
  BY <1>4, <1>5, <1>6 DEF IndInv

\* Only AppDeck's keys differ from what was there.
LEMMA MergedIsLike ==
  ASSUME NEW file \in File \cup {None}, Parsed(file), NEW own \in Addresses \cup {None}
  PROVE  /\ Merged(file, own) =
              [edit |-> IF file = None THEN 0 ELSE file.doc.edit, own |-> own, form |-> "sound"]
         /\ Merged(file, own) \in Docs
BY Constants DEF Merged, Parsed, File, Docs

LEMMA ReplaceKeeps ==
  ASSUME IndInv, Replace
  PROVE  IndInv'
<1>1. /\ At({"rechecked"}) /\ work \in Works /\ writes \in Nat
      /\ Parsed(work.original) /\ history.disturbed = {}
  BY AtIsStep DEF Replace, IndInv, TypeOK, Marked, Known, At, Steps
<1>2. /\ settings' = [id |-> writes + 1, doc |-> Merged(work.original, work.own)]
      /\ writes' = writes + 1 /\ work' = Idle /\ result' \in {"ok", "cancelled"}
      /\ UNCHANGED <<previous, bounds, history>>
  BY DEF Replace, Finish
<1>3. /\ Merged(work.original, work.own) \in Docs
      /\ Merged(work.original, work.own).edit =
           IF work.original = None THEN 0 ELSE work.original.doc.edit
  BY <1>1, MergedIsLike DEF Works
<1>4. settings' \in File /\ settings' # None /\ settings'.id = writes + 1
  BY <1>1, <1>2, <1>3, NoneIsNoFile DEF File
<1>5. TypeOK'
  BY <1>1, <1>2, <1>4 DEF IndInv, TypeOK
<1>6. Fresh'
  BY <1>1, <1>2, <1>4 DEF IndInv, TypeOK, Fresh, Older, File
<1>7. Marked' /\ Known' /\ Open' /\ DisturbedIsCancelled'
  BY <1>1, <1>2 DEF Marked, Known, Open, DisturbedIsCancelled, At
<1>8. EditsSurvive'
  BY <1>1, <1>2, <1>3, <1>4 DEF IndInv, Known, EditsSurvive
<1>9. QED
  BY <1>5, <1>6, <1>7, <1>8 DEF IndInv

LEMMA NextKeeps == IndInv /\ [Next]_vars => IndInv'
<1> SUFFICES ASSUME IndInv, [Next]_vars PROVE IndInv'
  OBVIOUS
<1>1. CASE Next
  BY <1>1, EditKeeps, EraseKeeps, TouchKeeps, DiscardKeeps, BeginKeeps, KeepKeeps, CheckKeeps,
    SaveBackupKeeps, ReadBackKeeps, ReplaceKeeps DEF Next
<1>2. CASE UNCHANGED vars
  BY <1>2 DEF vars, IndInv, TypeOK, Fresh, Older, Marked, Known, Open, At, Parsed,
    EditsSurvive, DisturbedIsCancelled
<1>3. QED
  BY <1>1, <1>2

\* What the settings file, the work under way and the forms that are open have to
\* do with each other in every reachable state: the inductive invariant.
THEOREM Invariance == Spec => []IndInv
BY InitHolds, NextKeeps, PTL DEF Spec

-----------------------------------------------------------------------------
(* What a reader should know of.                                            *)

\* Every variable keeps its type (claude_profile.hpp:41-101).
THEOREM TypeCorrect == Spec => []TypeOK
<1>1. IndInv => TypeOK
  BY DEF IndInv
<1>2. QED
  BY <1>1, Invariance, PTL

\* No launch, failure or death of AppDeck loses an edit of settings.json that
\* did not fall between the last check and the rename
\* (claude_profile.hpp:78-86).
THEOREM NoEditIsLost == Spec => []EditsSurvive
<1>1. IndInv => EditsSurvive
  BY DEF IndInv
<1>2. QED
  BY <1>1, Invariance, PTL

\* A launch goes on only if nobody disturbed the files it looked at
\* (claude_profile.hpp:64-67, docs/CLAUDE_NETWORK.md:24).
THEOREM DisturbedLaunchesEnd == Spec => []DisturbedIsCancelled
<1>1. IndInv => DisturbedIsCancelled
  BY DEF IndInv
<1>2. QED
  BY <1>1, Invariance, PTL

-----------------------------------------------------------------------------
(* The exchange implements SettingsStore: Recheck is its Look and Replace    *)
(* its Replace; what AppDeck and others write to the backup is its Save.     *)

LEMMA DocOfFile ==
  ASSUME NEW file \in File \cup {None}
  PROVE  /\ DocOf(file) \in Docs \cup {None}
         /\ DocOf(file) = None <=> file = None
         /\ file # None => DocOf(file) = file.doc
BY NoneIsNoFile DEF DocOf, File

LEMMA DocsAreDocs == Docs \subseteq Store!Docs
BY Constants DEF Docs, Store!Docs

LEMMA InitRefines == Init => Store!Init
<1> SUFFICES ASSUME Init PROVE Store!Init
  OBVIOUS
<1>1. settings \in File \cup {None} /\ previous \in File \cup {None}
  BY Constants DEF Init, File, Docs
<1>2. DocOf(settings) \in Store!Docs \cup {None} /\ DocOf(previous) \in Store!Docs \cup {None}
  BY <1>1, DocOfFile, DocsAreDocs
<1>3. Store!EditOf(DocOf(settings)) = 0
  BY <1>1, DocOfFile DEF Init, Store!EditOf
<1>4. Seen = Store!Nothing /\ bounds.edits = 0
  BY DEF Init, Seen, Store!Nothing, At
<1>5. QED
  BY <1>2, <1>3, <1>4 DEF Store!Init, Seen

\* The steps that leave the files and what AppDeck is about to replace alone.
LEMMA StutterRefines ==
  ASSUME UNCHANGED <<settings, previous>>, bounds'.edits = bounds.edits, Seen' = Seen
  PROVE  UNCHANGED Store!vars
BY DEF Store!vars, DocOf, Seen

\* The writes to the backup.
LEMMA SaveRefines ==
  ASSUME previous' \in File \cup {None}, settings' = settings,
         bounds'.edits = bounds.edits, Seen' = Seen
  PROVE  Store!Save
<1>1. DocOf(previous)' \in Store!Docs \cup {None}
  BY DocOfFile, DocsAreDocs DEF DocOf
<1>2. QED
  BY <1>1 DEF Store!Save, DocOf, Seen

LEMMA OutsideRefines ==
  ASSUME IndInv, IndInv'
  PROVE  /\ \A own \in Addresses \cup {None}, form \in {"sound", "malformed", "linked"} :
              Edit(own, form) => Store!Edit
         /\ Erase => Store!Edit
         /\ \A doc \in Docs : Touch(doc) => Store!Save
         /\ Discard => Store!Save
<1>1. ASSUME NEW own \in Addresses \cup {None}, NEW form \in {"sound", "malformed", "linked"},
             Edit(own, form)
      PROVE  Store!Edit
  <2>1. bounds'.edits = bounds.edits + 1 /\ UNCHANGED <<previous, work>>
    BY <1>1 DEF Edit, IndInv, TypeOK
  <2>2. settings' \in File /\ settings'.doc.edit = bounds.edits + 1
    <3>1. /\ bounds.edits \in Nat /\ bounds.edits < MaxEdits /\ writes \in Nat
          /\ MaxEdits \in Nat
      BY <1>1, Constants DEF Edit, IndInv, TypeOK
    <3>2. settings' = [id |-> writes + 1,
                       doc |-> [edit |-> bounds.edits + 1, own |-> own, form |-> form]]
      BY <1>1 DEF Edit
    <3>3. QED
      BY <3>1, <3>2 DEF File, Docs
  <2>3. DocOf(settings)' = settings'.doc /\ settings'.doc \in Store!Docs
    BY <2>2, DocsAreDocs, NoneIsNoFile DEF DocOf, File
  <2>4. QED
    BY <2>1, <2>2, <2>3 DEF Store!Edit, DocOf, At, Seen
<1>2. ASSUME Erase
      PROVE  Store!Edit
  <2>1. bounds'.edits = bounds.edits + 1 /\ UNCHANGED <<previous, work>> /\ settings' = None
    BY <1>2 DEF Erase, IndInv, TypeOK
  <2>2. QED
    BY <2>1 DEF Store!Edit, DocOf, At, Seen
<1>3. ASSUME NEW doc \in Docs, Touch(doc)
      PROVE  Store!Save
  <2>1. UNCHANGED <<settings, work>> /\ bounds'.edits = bounds.edits
    BY <1>3 DEF Touch, IndInv, TypeOK
  <2>2. QED
    BY <2>1, SaveRefines DEF Seen, At, IndInv, TypeOK
<1>4. ASSUME Discard
      PROVE  Store!Save
  <2>1. UNCHANGED <<settings, work>> /\ bounds'.edits = bounds.edits
    BY <1>4 DEF Discard, IndInv, TypeOK
  <2>2. QED
    BY <2>1, SaveRefines DEF Seen, At, IndInv, TypeOK
<1>5. QED
  BY <1>1, <1>2, <1>3, <1>4

LEMMA RecheckRefines ==
  ASSUME IndInv, Recheck
  PROVE  Store!Look
<1>1. /\ At({"saved"}) /\ work \in Works /\ Matches
      /\ work' = [work EXCEPT !.step = "rechecked"]
      /\ UNCHANGED <<settings, previous, bounds>>
  BY AtIsStep DEF Recheck, Advance, IndInv, At
<1>2. /\ settings = work.original /\ previous = work.saved
      /\ settings \in File \cup {None} /\ previous \in File \cup {None}
  BY <1>1 DEF Matches, IndInv, TypeOK
<1>3. settings # None => /\ settings.doc.form = "sound"
                         /\ previous # None /\ previous.doc = settings.doc
  BY <1>1, <1>2 DEF IndInv, Known, At, Steps, Parsed
<1>4. DocOf(settings) # None => DocOf(settings).form = "sound" /\ DocOf(previous) = DocOf(settings)
  BY <1>2, <1>3, DocOfFile
<1>5. At({"rechecked"})' /\ work'.original = work.original
  <2>1. work'.step = "rechecked" /\ work'.original = work.original
    BY <1>1 DEF Works
  <2>2. work' # Idle
    BY <2>1 DEF Idle
  <2>3. QED
    BY <2>1, <2>2 DEF At
<1>6. Seen' = [looked |-> TRUE, doc |-> DocOf(settings)]
  BY <1>2, <1>5 DEF Seen, DocOf
<1>7. QED
  BY <1>1, <1>4, <1>6 DEF Store!Look, Seen, DocOf

LEMMA ReplaceRefines ==
  ASSUME IndInv, Replace
  PROVE  \E own \in Addresses \cup {None} : Store!Replace(own)
<1>1. /\ At({"rechecked"}) /\ work \in Works /\ Parsed(work.original)
  BY AtIsStep DEF Replace, IndInv, Known, At, Steps
<1>2. /\ settings' = [id |-> writes + 1, doc |-> Merged(work.original, work.own)]
      /\ work' = Idle /\ UNCHANGED <<previous, bounds>>
  BY DEF Replace, Finish
<1>3. /\ work.original \in File \cup {None} /\ work.own \in Addresses \cup {None}
  BY <1>1 DEF Works
<1>4. /\ Merged(work.original, work.own) =
           [edit |-> IF work.original = None THEN 0 ELSE work.original.doc.edit,
            own |-> work.own, form |-> "sound"]
      /\ Merged(work.original, work.own) \in Docs
  BY <1>1, <1>3, MergedIsLike
<1>5. settings' # None
  BY <1>2, <1>4, NoneIsNoFile, Constants DEF IndInv, TypeOK, File
<1>6. DocOf(settings)' = [edit |-> Store!EditOf(DocOf(work.original)), own |-> work.own,
                          form |-> "sound"]
  BY <1>2, <1>3, <1>4, <1>5, DocOfFile DEF DocOf, Store!EditOf
<1>7. Seen = [looked |-> TRUE, doc |-> DocOf(work.original)] /\ Seen' = Store!Nothing
  BY <1>1, <1>2 DEF Seen, Store!Nothing, At
<1>8. Store!Replace(work.own)
  BY <1>2, <1>6, <1>7 DEF Store!Replace, Seen, DocOf
<1>9. QED
  BY <1>3, <1>8

LEMMA OtherStepsRefine ==
  ASSUME IndInv, IndInv'
  PROVE  /\ \A own \in Addresses \cup {None} : Begin(own) => UNCHANGED Store!vars
         /\ Keep \/ Check \/ ReadBack => UNCHANGED Store!vars
         /\ GiveUp => Store!Forget
         /\ SaveBackup => Store!Save
<1>1. ASSUME NEW own \in Addresses \cup {None}, Begin(own)
      PROVE  UNCHANGED Store!vars
  <2>1. ~At({"rechecked"}) /\ ~At({"rechecked"})'
    BY <1>1, AtIsStep DEF Begin, Finish, At, Idle
  <2>2. UNCHANGED <<settings, previous>> /\ bounds'.edits = bounds.edits
    BY <1>1 DEF Begin, IndInv, TypeOK
  <2>3. QED
    BY <2>1, <2>2, StutterRefines DEF Seen
<1>2. ASSUME Keep \/ Check \/ ReadBack
      PROVE  UNCHANGED Store!vars
  <2>1. ~At({"rechecked"}) /\ work \in Works
    BY <1>2, AtIsStep DEF Keep, Check, ReadBack, At, Steps, IndInv
  <2>2. ~At({"rechecked"})'
    BY <1>2, <2>1 DEF Keep, Check, ReadBack, Advance, Finish, At, Works
  <2>3. QED
    BY <1>2, <2>1, <2>2, StutterRefines DEF Keep, Check, ReadBack, Advance, Seen
<1>3. ASSUME GiveUp
      PROVE  Store!Forget
  <2>1. UNCHANGED <<settings, previous, bounds>> /\ ~At({"rechecked"})'
    BY <1>3 DEF GiveUp, Finish, At
  <2>2. QED
    BY <2>1 DEF Store!Forget, Store!Nothing, DocOf, Seen
<1>4. ASSUME SaveBackup
      PROVE  Store!Save
  <2>1. ~At({"rechecked"}) /\ work \in Works
    BY <1>4, AtIsStep DEF SaveBackup, At, Steps, IndInv
  <2>2. ~At({"rechecked"})' /\ UNCHANGED <<settings, bounds>>
    BY <1>4, <2>1 DEF SaveBackup, At, Works
  <2>3. QED
    BY <2>1, <2>2, SaveRefines DEF Seen, IndInv, TypeOK
<1>5. QED
  BY <1>1, <1>2, <1>3, <1>4

LEMMA NextRefines == IndInv /\ IndInv' /\ [Next]_vars => [Store!Next]_(Store!vars)
<1> SUFFICES ASSUME IndInv, IndInv', [Next]_vars
             PROVE  Store!Next \/ UNCHANGED Store!vars
  OBVIOUS
<1>1. CASE Next
  BY <1>1, OutsideRefines, RecheckRefines, ReplaceRefines, OtherStepsRefine DEF Next, Store!Next
<1>2. CASE UNCHANGED vars
  BY <1>2 DEF vars, Store!vars, DocOf, At, Seen
<1>3. QED
  BY <1>1, <1>2

\* The exchange of settings.json, with its temporary files, its checks, its
\* failures and everything others do meanwhile, is one replacement of a file
\* that was looked at and backed up, with only AppDeck's keys changed
\* (claude_profile.hpp:38-101).
THEOREM ExchangeIsOneReplacement == Spec => ReplacesWhatItSaw
BY InitRefines, NextRefines, Invariance, PTL DEF Spec, ReplacesWhatItSaw, Store!Spec

=============================================================================
