-------------------------- MODULE AutomationGroup --------------------------
(***************************************************************************)
(* Automation definitions of a group of profiles: each participant keeps   *)
(* its own files, of which a running Desktop executes the ACTIVE ones.     *)
(* AppDeck's passes (group_sync.hpp) reconcile the files into the journal  *)
(* through AutomationSync, write the projections into stopped participants *)
(* one file at a time, and decide whether a launch is safe.                *)
(*                                                                         *)
(* A pass is cut at every journal save and file write: users act, Desktops *)
(* start and quit, and AppDeck may die, between any two of these steps.    *)
(***************************************************************************)
EXTENDS AutomationSync

CONSTANT MaxChanges  \* bound on edits and choices of an owner, for model checking

ASSUME MaxChangesAssumption == MaxChanges \in Nat

VARIABLES
  file,     \* file[p][id]: the definition in p's home
  desktop,  \* desktop[p]: p's Desktop is stopped, launched by AppDeck, or
            \* opened by the user outside AppDeck
  state,    \* the automation part of the saved journal
  pass,     \* the pass in progress: its phase, what it is for, the writes it
            \* has left, whether a step of it failed, the homes it read again
  changes   \* edits and choices of an owner so far

vars == <<file, desktop, state, pass, changes>>

Idle == [phase |-> "idle", purpose |-> "sync", todo |-> {}, failed |-> FALSE,
         read |-> {}]

Stopped(p) == desktop[p] = "stopped"

\* The batch in which the participants in P can be read completely.
ObservationOf(P) ==
  [p \in Profiles |-> IF p \in P THEN file[p] ELSE Unavailable]

Init ==
  /\ file \in [Profiles -> [Automations -> File]]
  /\ desktop = [p \in Profiles |-> "stopped"]
  /\ state = EmptyState
  /\ pass = Idle
  /\ changes = 0

-----------------------------------------------------------------------------
(* Users and their Desktops.                                                *)

UserChange(p, id, f) ==
  /\ ~Stopped(p)
  /\ changes < MaxChanges
  /\ f # file[p][id]
  /\ file' = [file EXCEPT ![p][id] = f]
  /\ changes' = changes + 1
  /\ UNCHANGED <<desktop, state, pass>>

OpenOutside(p) ==
  /\ Stopped(p)
  /\ desktop' = [desktop EXCEPT ![p] = "opened"]
  /\ UNCHANGED <<file, state, pass, changes>>

Quit(p) ==
  /\ ~Stopped(p)
  /\ desktop' = [desktop EXCEPT ![p] = "stopped"]
  /\ UNCHANGED <<file, state, pass, changes>>

-----------------------------------------------------------------------------
(* AppDeck's passes.                                                        *)

\* groupSyncPump: observe, reconcile, save; nothing is written.
Poll(P) ==
  /\ pass.phase = "idle"
  /\ state' = Reconcile(state, ObservationOf(P))
  /\ UNCHANGED <<file, desktop, pass, changes>>

\* An applying pass up to the first save; every home has to be readable for it
\* to succeed.  A change of owner starts only with every Desktop stopped.
Begin(P, purpose) ==
  /\ pass.phase = "idle"
  /\ purpose = "owner" => \A p \in Profiles : Stopped(p)
  /\ state' = Reconcile(state, ObservationOf(P))
  /\ pass' = [phase |-> "writing", purpose |-> purpose,
              todo |-> {w \in Writes(state, ObservationOf(P)) : Stopped(w[1])},
              failed |-> P # Profiles, read |-> {}]
  /\ UNCHANGED <<file, desktop, changes>>

Target(p, id) == Wanted(state.records[id], p)

\* Every write that does not arm a schedule comes first.
Turn(p, id) ==
  /\ pass.phase = "writing"
  /\ <<p, id>> \in pass.todo
  /\ IsActive(Target(p, id)) =>
       \A w \in pass.todo : IsActive(Target(w[1], w[2]))

\* Defect for the runs to detect: unparsed and unpaused copies are overlooked.
OthersDisarmedMutant(p, id) == p = state.records[id].owner

\* Read again right before arming: no other home has the schedule switched on.
OthersDisarmed(p, id) ==
  \A q \in Profiles \ {p} : file[q][id] # Unsupported /\ ~IsActive(file[q][id])

\* The participant is still stopped and its file is still the observed one.
Writable(p, id) ==
  /\ Turn(p, id)
  /\ Stopped(p)
  /\ file[p][id] = state.profiles[p][id]
  /\ IsActive(Target(p, id)) => OthersDisarmed(p, id)

Write(p, id) ==
  /\ Writable(p, id)
  /\ file' = [file EXCEPT ![p][id] = Target(p, id)]
  /\ state' = Marked(state, p, id, Target(p, id))
  /\ pass' = [pass EXCEPT !.todo = @ \ {<<p, id>>}]
  /\ UNCHANGED <<desktop, changes>>

\* The file is written, then AppDeck dies before the journal is saved.
WriteUnacknowledged(p, id) ==
  /\ Writable(p, id)
  /\ file' = [file EXCEPT ![p][id] = Target(p, id)]
  /\ pass' = Idle
  /\ UNCHANGED <<desktop, state, changes>>

\* The Desktop was started meanwhile: its files wait for the next pass.
Postpone(p, id) ==
  /\ Turn(p, id)
  /\ ~Stopped(p)
  /\ pass' = [pass EXCEPT !.todo = @ \ {<<p, id>>}]
  /\ UNCHANGED <<file, desktop, state, changes>>

\* A re-check or the write itself fails; the pass goes on and reports it.
Fail(p, id) ==
  /\ Turn(p, id)
  /\ Stopped(p)
  /\ pass' = [pass EXCEPT !.todo = @ \ {<<p, id>>}, !.failed = TRUE]
  /\ UNCHANGED <<file, desktop, state, changes>>

\* Read the files again: a launch needs to find nothing unsafe.  A home that
\* cannot be read this time does not count.
Finish(P) ==
  /\ pass.phase = "writing"
  /\ pass.todo = {}
  /\ pass' = IF \/ pass.failed
                \/ pass.purpose = "sync" /\ UnsafeIds(state, ObservationOf(P)) # {}
               THEN Idle
               ELSE [pass EXCEPT !.phase = "checked", !.read = P]
  /\ UNCHANGED <<file, desktop, state, changes>>

\* launch: the pass succeeded and syncUnsafe is clear.
Launch(p) ==
  /\ pass.phase = "checked" /\ pass.purpose = "sync"
  /\ Stopped(p)
  /\ desktop' = [desktop EXCEPT ![p] = "launched"]
  /\ pass' = Idle
  /\ UNCHANGED <<file, state, changes>>

\* automationOwnerAction, after its pass; the choice is saved and projected by
\* the next pass.
SetOwner(id, p) ==
  /\ pass.phase = "checked" /\ pass.purpose = "owner"
  /\ IsLive(state.records[id])
  /\ changes < MaxChanges
  /\ state' = Assigned(state, id, p)
  /\ pass' = Idle
  /\ changes' = changes + 1
  /\ UNCHANGED <<file, desktop>>

\* The pass was run for its own sake, or AppDeck dies.
Abandon ==
  /\ pass.phase # "idle"
  /\ pass' = Idle
  /\ UNCHANGED <<file, desktop, state, changes>>

PassStep ==
  \/ \E P \in SUBSET Profiles : Poll(P) \/ Finish(P)
  \/ \E P \in SUBSET Profiles, purpose \in {"sync", "owner"} : Begin(P, purpose)
  \/ \E p \in Profiles, id \in Automations :
       \/ Write(p, id) \/ WriteUnacknowledged(p, id)
       \/ Postpone(p, id) \/ Fail(p, id)
  \/ \E p \in Profiles : Launch(p)
  \/ \E p \in Profiles, id \in Automations : SetOwner(id, p)
  \/ Abandon

DesktopStep == \E p \in Profiles : OpenOutside(p) \/ Quit(p)

Next ==
  \/ PassStep
  \/ DesktopStep
  \/ \E p \in Profiles, id \in Automations, f \in File : UserChange(p, id, f)

Spec == Init /\ [][Next]_vars

-----------------------------------------------------------------------------
(* AppDeck cannot stop a user who switches a copy on in a running Desktop.  *)
(* Careful users switch a schedule on only where AppDeck tells them to: in  *)
(* the owner's Desktop, started by AppDeck, or when they create it.         *)

Armed(id) == {p \in Profiles : IsActive(file[p][id])}

CarefulInit ==
  /\ Init
  /\ \A p \in Profiles, id \in Automations : file[p][id] # Unsupported
  /\ \A id \in Automations : Cardinality(Armed(id)) <= 1

\* A new id: nobody has a definition of it, on disk or in the journal.
Unused(id) ==
  state.records[id] = None /\ \A p \in Profiles : file[p][id] = None

CarefulChange(p, id, f) ==
  /\ UserChange(p, id, f)
  /\ file[p][id] = None => Unused(id)
  /\ IsActive(f) => \/ IsActive(file[p][id])
                    \/ file[p][id] = None
                    \/ /\ desktop[p] = "launched"
                       /\ IsLive(state.records[id])
                       /\ state.records[id].owner = p

\* Their definitions parse.
CarefulNext ==
  \/ PassStep
  \/ DesktopStep
  \/ \E p \in Profiles, id \in Automations, f \in File \ {Unsupported} :
       CarefulChange(p, id, f)

\* A home that could be read before the writes can be read again after them.
FullReread == pass.phase = "checked" => pass.read = Profiles

SteadySpec ==
  /\ CarefulInit
  /\ [][CarefulNext /\ FullReread']_vars

\* A Desktop is fully stopped again and again, for long enough that a new pass finds
\* it stopped; synchronizations keep being asked for, a pass goes on to its end, and
\* a file that can be written again and again is written at last.
Fairness ==
  /\ \A p \in Profiles :
       /\ []<>(Stopped(p) /\ pass.phase = "idle")
       /\ SF_vars(Stopped(p) /\ Begin(Profiles, "sync"))
       /\ \A id \in Automations : SF_vars(Write(p, id))
  /\ WF_vars(pass.phase # "idle" /\ PassStep)

SteadyFairSpec == SteadySpec /\ Fairness

-----------------------------------------------------------------------------
(* Properties.                                                              *)

\* The types of the variables.
TypeOK ==
  /\ file \in [Profiles -> [Automations -> File]]
  /\ desktop \in [Profiles -> {"stopped", "opened", "launched"}]
  /\ state \in State
  /\ pass \in [phase : {"idle", "writing", "checked"},
               purpose : {"sync", "owner"},
               todo : SUBSET (Profiles \X Automations), failed : BOOLEAN,
               read : SUBSET Profiles]
  /\ changes \in 0 .. MaxChanges

\* Through edits, changes of owner, failed pauses and crashes, careful users
\* never get a schedule switched on in two homes.
SingleExecutor == \A id \in Automations : Cardinality(Armed(id)) <= 1

\* The profiles that would run id next to its owner.
Rivals(id) == {p \in Armed(id) : state.records[id] # None
                                 /\ p # state.records[id].owner}

LaunchesBesideNoRival ==
  \A p \in Profiles :
    Stopped(p) /\ desktop'[p] = "launched" => \A id \in Automations : Rivals(id) = {}

\* Between careful users and homes that stay readable and well formed, AppDeck
\* starts a Desktop only while no home but the owner's has a schedule switched on.
LaunchIsSafe == [][LaunchesBesideNoRival]_vars

OwnerMovesStatus ==
  \A id \in Automations :
    LET r == state.records[id]
        s == state'.records[id]
    IN  /\ r # None
        /\ s.text.status # r.text.status
        => /\ file[r.owner][id] = s.text
           /\ state.profiles[r.owner][id] # s.text

\* The group's schedule is switched on or off only by a change made in its
\* owner's home; a change of owner never switches anything on.
StatusFollowsOwner == [][OwnerMovesStatus]_vars

\* In one batch no edit is lost without a reported conflict: it becomes the
\* definition of the group, unless the automation was already deleted.
BatchKeepsEdits ==
  pass.phase = "idle" => \A P \in SUBSET Profiles :
    LET obs == ObservationOf(P)
        next == Reconcile(state, obs)
    IN  \A p \in P, id \in Automations :
          /\ state.profiles[p][id] # None
          /\ file[p][id] \in Text
          /\ file[p][id].body # state.profiles[p][id].body
          /\ file[p][id].status # "DELETED"
          /\ IsLive(state.records[id])
          => \/ id \in Disputes(state, obs)
             \/ next.records[id].text.body = file[p][id].body

\* Every home ends with the projection of the group's definition, or the conflict
\* stays reported: crashes, failures and restarted Desktops only delay it.
Settled(id) ==
  \/ id \in Disputes(state, ObservationOf(Profiles))
  \/ \A p \in Profiles :
       IF state.records[id] = None THEN file[p][id] = None
       ELSE file[p][id] = Wanted(state.records[id], p)

Converges == \A id \in Automations : <>[]Settled(id)

=============================================================================
