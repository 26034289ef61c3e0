---------------------------- MODULE ClaudeBridge ----------------------------
(***************************************************************************)
(* The bridge of local Claude Code sessions (claude_sessions.hpp,          *)
(* claude_session_views.hpp): opening a saved session in the window of a   *)
(* chosen profile, and the reservation that keeps AppDeck from launching   *)
(* another shared profile next to it.                                      *)
(*                                                                         *)
(* One group and one session.  AppDeck has one main thread; its steps are  *)
(* cut where it writes a file, shows the confirmation, or waits for a      *)
(* launched process in a run loop that fires its 2-second timer.  Windows  *)
(* and the descriptors of Claude change at any time.                       *)
(***************************************************************************)
EXTENDS Integers, Sequences, FiniteSets

CONSTANTS
  Profiles,    \* the shared profiles of the group
  Foreign,     \* any other Claude window: a clean profile, or one opened
               \* outside AppDeck
  Folders,     \* project folders
  None,
  Damaged,     \* a reservation file that does not parse
  Deadline,    \* the 45 seconds a registration may take, in ticks
  MaxStarts,   \* bound on windows opened, for model checking
  MaxWrites,   \* bound on descriptors written by Claude
  MaxLosses    \* bound on reservation files lost or damaged

ASSUME Constants ==
  /\ Foreign \notin Profiles /\ None # Damaged
  /\ {Deadline, MaxStarts, MaxWrites, MaxLosses} \subseteq Nat
  /\ None \notin [folder : Folders, generation : 0 .. MaxWrites]

VARIABLES
  window,      \* window[w]: the number of w's process, 0 when there is none
  started,     \* processes started so far
  descriptor,  \* descriptor[p]: p's own record of the session, its folder
               \* and its generation, or None
  lease,       \* the reservation file
  recorded,    \* claudeBridgeLeaseRecorded, in memory
  kept,        \* ... and in the saved state.plist
  opening,     \* the open request AppDeck is working on, or None
  launching,   \* the launches that wait for their process, innermost last
  pending,     \* restartPending: profiles to launch once their window closed
  resumed,     \* history: the resume events sent
  writes, losses

vars == <<window, started, descriptor, lease, recorded, kept, opening,
          launching, pending, resumed, writes, losses>>

bounds == <<started, writes, losses>>

Windows == Profiles \cup {Foreign}

Lease ==
  [profile : Profiles, process : 1 .. MaxStarts, folder : Folders,
   before : 0 .. MaxWrites, age : 0 .. Deadline + 1,
   status : {"pending", "confirmed", "timeout", "transport-error"}]

ASSUME NotALease == {None, Damaged} \cap Lease = {}

Init ==
  /\ window = [w \in Windows |-> 0]
  /\ started = 0 /\ writes = 0 /\ losses = 0
  /\ descriptor \in [Profiles -> {None} \cup [folder : Folders, generation : {0}]]
  /\ lease = None
  /\ recorded = FALSE /\ kept = FALSE
  /\ opening = None
  /\ launching = <<>>
  /\ pending = {}
  /\ resumed = {}

-----------------------------------------------------------------------------
(* What AppDeck reads.                                                      *)

\* The folders of the session in the merged catalogue.
Catalogue == {descriptor[p].folder : p \in {q \in Profiles : descriptor[q] # None}}

\* The one folder of the session; a session whose records disagree is not
\* offered.
Listed(f) == Catalogue = {f}

\* A file that was recorded and is gone does not count as never written.
Readable == lease \in Lease \/ (lease = None /\ ~recorded)

LeaseProcess == lease \in Lease /\ window[lease.profile] = lease.process

Competing(p) == \E w \in Windows \ {p} : window[w] # 0

\* Mutant: a registration that was not confirmed frees the reservation.
GateMutant(p) ==
  Readable /\ (LeaseProcess /\ lease.status # "timeout" => lease.profile = p)

\* claudeLaunchGate.
Gate(p) == Readable /\ (LeaseProcess => lease.profile = p)

Generation(p) == IF descriptor[p] = None THEN 0 ELSE descriptor[p].generation

\* Mutant: any record of the target will do.
AcknowledgedMutant ==
  /\ descriptor[lease.profile] # None
  /\ descriptor[lease.profile].folder = lease.folder

\* claudeAcknowledged: a new or changed record of the target itself.
Acknowledged ==
  /\ descriptor[lease.profile] # None
  /\ descriptor[lease.profile].folder = lease.folder
  /\ Generation(lease.profile) # lease.before

-----------------------------------------------------------------------------
(* Windows, Claude, and the file system.                                    *)

OpenWindow(w) ==
  /\ started < MaxStarts
  /\ started' = started + 1
  /\ window' = [window EXCEPT ![w] = started + 1]

OpenForeign ==
  /\ window[Foreign] = 0
  /\ OpenWindow(Foreign)
  /\ UNCHANGED <<descriptor, lease, recorded, kept, opening, launching,
                 pending, resumed, writes, losses>>

Close(w) ==
  /\ window[w] # 0
  /\ window' = [window EXCEPT ![w] = 0]
  /\ UNCHANGED <<descriptor, lease, recorded, kept, opening, launching,
                 pending, resumed, bounds>>

\* The Claude of p's window writes its record of the session.
WriteDescriptor(p, f) ==
  /\ window[p] # 0
  /\ writes < MaxWrites
  /\ writes' = writes + 1
  /\ descriptor' = [descriptor EXCEPT
                      ![p] = [folder |-> f, generation |-> writes + 1]]
  /\ UNCHANGED <<window, lease, recorded, kept, opening, launching, pending,
                 resumed, started, losses>>

Lose(remains) ==
  /\ lease \in Lease
  /\ losses < MaxLosses
  /\ losses' = losses + 1
  /\ lease' = remains
  /\ UNCHANGED <<window, descriptor, recorded, kept, opening, launching,
                 pending, resumed, started, writes>>

-----------------------------------------------------------------------------
(* Launches.                                                                *)

Asking == opening # None /\ opening.phase = "asked"

\* The main thread is in a run loop: idle, or in a launch that waits.
Ticking == launching # <<>> \/ opening = None

Wait(p) == launching' = Append(launching, p)

InProgress(p) == \E i \in 1 .. Len(launching) : launching[i] = p

\* A launch from the interface; the hot keys work under the confirmation too.
Launch(p) ==
  /\ launching = <<>> /\ (opening = None \/ Asking)
  /\ window[p] = 0 /\ Gate(p)
  /\ Wait(p)
  /\ UNCHANGED <<window, descriptor, lease, recorded, kept, opening, pending,
                 resumed, bounds>>

\* restartAction: the window is asked to quit.
Restart(p) ==
  /\ opening = None /\ launching = <<>> /\ window[p] # 0
  /\ pending' = pending \cup {p}
  /\ UNCHANGED <<window, descriptor, lease, recorded, kept, opening,
                 launching, resumed, bounds>>

\* restartPump: the window is gone, or it was waited for long enough.
RestartPump(p) ==
  /\ Ticking /\ p \in pending
  /\ pending' = pending \ {p}
  /\ IF window[p] = 0 /\ Gate(p) /\ ~InProgress(p)
     THEN Wait(p) ELSE UNCHANGED launching
  /\ UNCHANGED <<window, descriptor, lease, recorded, kept, opening, resumed,
                 bounds>>

\* The innermost launch returns: its process registered, or it did not.
Launched ==
  /\ launching # <<>>
  /\ launching' = SubSeq(launching, 1, Len(launching) - 1)
  /\ \/ OpenWindow(launching[Len(launching)])
     \/ UNCHANGED <<window, started>>
  /\ UNCHANGED <<descriptor, lease, recorded, kept, opening, pending, resumed,
                 writes, losses>>

-----------------------------------------------------------------------------
(* claudeSessionOpenAction, from the choice of a profile to the event.      *)

Ask(p, f) ==
  /\ opening = None /\ launching = <<>>
  /\ Listed(f) /\ ~Competing(p) /\ Gate(p)
  /\ opening' = [profile |-> p, folder |-> f, process |-> 0,
                 phase |-> "asked"]
  /\ UNCHANGED <<window, descriptor, lease, recorded, kept, launching,
                 pending, resumed, bounds>>

GiveUp ==
  /\ opening' = None
  /\ UNCHANGED <<window, descriptor, lease, recorded, kept, launching,
                 pending, resumed, bounds>>

Cancel == Asking /\ launching = <<>> /\ GiveUp

\* What must still hold once the user has agreed.
StillValid == Listed(opening.folder) /\ ~Competing(opening.profile)

Confirm ==
  /\ Asking /\ launching = <<>>
  /\ IF StillValid /\ Gate(opening.profile)
     THEN /\ opening' = [opening EXCEPT !.phase = "launched"]
          /\ IF window[opening.profile] = 0
             THEN Wait(opening.profile) ELSE UNCHANGED launching
          /\ UNCHANGED <<window, descriptor, lease, recorded, kept, pending,
                         resumed, bounds>>
     ELSE GiveUp

\* The reservation of the launched process.
Reservation ==
  [profile |-> opening.profile, process |-> window[opening.profile],
   folder |-> opening.folder, before |-> Generation(opening.profile),
   age |-> 0, status |-> "pending"]

\* Mutant: the mark is saved first, and the write may fail.
ReserveMutant ==
  /\ opening # None /\ opening.phase = "launched" /\ launching = <<>>
  /\ window[opening.profile] # 0 /\ ~Competing(opening.profile) /\ Readable
  /\ recorded' = TRUE /\ kept' = TRUE
  /\ \/ /\ lease' = Reservation
        /\ opening' = [opening EXCEPT !.phase = "reserved",
                                      !.process = window[opening.profile]]
     \/ opening' = None /\ UNCHANGED lease
  /\ UNCHANGED <<window, descriptor, launching, pending, resumed, bounds>>

\* The process must be the only one; an unreadable reservation is never
\* overwritten, and a write may fail.
Reserve ==
  /\ opening # None /\ opening.phase = "launched" /\ launching = <<>>
  /\ \/ /\ window[opening.profile] # 0 /\ ~Competing(opening.profile)
        /\ Readable
        /\ lease' = Reservation
        /\ opening' = [opening EXCEPT !.phase = "reserved",
                                      !.process = window[opening.profile]]
        /\ UNCHANGED <<window, descriptor, recorded, kept, launching,
                       pending, resumed, bounds>>
     \/ GiveUp

\* The mark that a reservation exists must be saved before anything is sent.
Record ==
  /\ opening # None /\ opening.phase = "reserved"
  /\ recorded' = TRUE
  /\ \/ kept' = TRUE /\ opening' = [opening EXCEPT !.phase = "recorded"]
     \/ opening' = None /\ UNCHANGED kept
  /\ UNCHANGED <<window, descriptor, lease, launching, pending, resumed,
                 bounds>>

Resume == [profile |-> opening.profile, process |-> opening.process]

\* A failed delivery is uncertain, so the reservation stays.
MarkFailed ==
  lease' = IF lease \in Lease /\ lease.status = "pending"
           THEN [lease EXCEPT !.status = "transport-error"] ELSE lease

\* Mutant: who else has a window is not looked at again before the event.
SendMutant ==
  /\ opening # None /\ opening.phase = "recorded"
  /\ opening' = None
  /\ window[opening.profile] = opening.process
  /\ resumed' = resumed \cup {Resume}
  /\ UNCHANGED <<window, descriptor, lease, recorded, kept, launching, pending, bounds>>

\* The event goes to the process that is reserved, if it is still there and
\* still alone.
Send ==
  /\ opening # None /\ opening.phase = "recorded"
  /\ opening' = None
  /\ \/ /\ window[opening.profile] = opening.process
        /\ ~Competing(opening.profile)
        /\ resumed' = resumed \cup {Resume}
        /\ UNCHANGED lease \/ MarkFailed
     \/ MarkFailed /\ UNCHANGED resumed
  /\ UNCHANGED <<window, descriptor, recorded, kept, launching, pending,
                 bounds>>

\* claudeSessionPump, on the timer; the target's records may not be readable
\* completely.
SessionPump ==
  /\ Ticking /\ LeaseProcess /\ lease.status = "pending"
  /\ \E seen \in {Acknowledged, FALSE} :
       lease' = IF seen THEN [lease EXCEPT !.status = "confirmed"]
                ELSE IF lease.age > Deadline
                THEN [lease EXCEPT !.status = "timeout"]
                ELSE [lease EXCEPT !.age = @ + 1]
  /\ UNCHANGED <<window, descriptor, recorded, kept, opening, launching,
                 pending, resumed, bounds>>

\* AppDeck dies and starts again; a process it was waiting for lives on.
Crash ==
  /\ opening' = None /\ launching' = <<>> /\ pending' = {}
  /\ recorded' = kept
  /\ \/ UNCHANGED <<window, started>>
     \/ /\ launching # <<>>
        /\ OpenWindow(launching[Len(launching)])
  /\ UNCHANGED <<descriptor, lease, kept, resumed, writes, losses>>

Next ==
  \/ OpenForeign
  \/ \E w \in Windows : Close(w)
  \/ \E p \in Profiles, f \in Folders : WriteDescriptor(p, f) \/ Ask(p, f)
  \/ \E remains \in {None, Damaged} : Lose(remains)
  \/ \E p \in Profiles : Launch(p) \/ Restart(p) \/ RestartPump(p)
  \/ Launched \/ Cancel \/ Confirm \/ Reserve \/ Record \/ Send
  \/ SessionPump \/ Crash

Spec == Init /\ [][Next]_vars

-----------------------------------------------------------------------------
(* Properties.                                                              *)

Requests ==
  [profile : Profiles, folder : Folders, process : 0 .. MaxStarts,
   phase : {"asked", "launched", "reserved", "recorded"}]

\* Every variable has its type, no profile is launched twice at a time, and
\* the saved mark of a reservation is never ahead of the one in memory.
TypeOK ==
  /\ window \in [Windows -> 0 .. MaxStarts]
  /\ descriptor \in [Profiles ->
       {None} \cup [folder : Folders, generation : 0 .. MaxWrites]]
  /\ lease \in Lease \cup {None, Damaged}
  /\ recorded \in BOOLEAN /\ kept \in BOOLEAN /\ (kept => recorded)
  /\ opening \in Requests \cup {None}
  /\ launching \in Seq(Profiles)
  /\ \A i, j \in 1 .. Len(launching) : launching[i] = launching[j] => i = j
  /\ pending \subseteq Profiles
  /\ started \in 0 .. MaxStarts /\ writes \in 0 .. MaxWrites
  /\ losses \in 0 .. MaxLosses

\* The windows that continue the session and are still open.
Owning == {r \in resumed : window[r.profile] = r.process}

\* ARCHITECTURE.md:101, "AppDeck restricts other shared-Code profile launches
\* while the process owns this reservation": from the resume event to the end
\* of the process that got it no other shared profile has a window, whatever
\* was launched while the user was asked or the chosen profile started, and in
\* spite of crashes, unconfirmed registrations and lost reservation files.
NoRivalWindow ==
  \A r \in Owning : \A p \in Profiles \ {r.profile} : window[p] = 0

\* claude_session_views.hpp:43-44: a crash between writing the reservation and
\* saving its mark never looks like a reservation that went missing, which
\* would block every later launch.
NeverBlocksItself == losses = 0 => Readable

\* USER_GUIDE.md:174, "An old descriptor is not confirmation": a reservation is
\* confirmed only if the target's own record changed after the request.
OldRecordIsNoEvidence ==
  lease \in Lease /\ lease.status = "confirmed"
    => Generation(lease.profile) > lease.before

Session ==
  INSTANCE SessionOwner WITH
    open <- {w \in Windows : window[w] # 0},
    owners <- {r.profile : r \in Owning}

\* claude_sessions.hpp and claude_session_views.hpp:36-46: with its file, its
\* mark, its recovery and its launches in between, the reservation works like a
\* lock: given to a window that is alone, kept as long as it, and shutting every
\* other shared profile out.
OwnedLikeALock == Session!Spec

=============================================================================
