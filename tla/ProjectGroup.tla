---------------------------- MODULE ProjectGroup ---------------------------
(***************************************************************************)
(* The project lists of a group of profiles, synchronized through the      *)
(* engine of ProjectSync.  Each participant keeps its own registry file,   *)
(* changed by the user while its Desktop runs; AppDeck's passes            *)
(* (group_sync.hpp) observe the registries, reconcile them into the        *)
(* journal, and write the canonical list into stopped participants.        *)
(*                                                                         *)
(* A pass is cut at the points where the journal or a registry changes:    *)
(* Observe records the batch, every Apply is one participant's write with  *)
(* its acknowledgement.  Users act between any two of these steps.         *)
(***************************************************************************)
EXTENDS ProjectSync

CONSTANTS
  Profiles,  \* participants that have a registry file
  AppDeck,   \* writer of the edits made on AppDeck's Projects page
  Server,    \* writer of deletions confirmed by the native registry
  MaxEdits   \* bound on user changes, for model checking

ASSUME GroupAssumption ==
  /\ Profiles \subseteq Writers
  /\ AppDeck \in Writers \ Profiles
  /\ Server \in Writers \ Profiles
  /\ AppDeck # Server
  /\ MaxEdits \in Nat

VARIABLES
  registry,  \* registry[p]: p's local-projects file
  running,   \* running[p]: p's Desktop process is alive
  state,     \* the project part of the saved journal
  pass,      \* participants of the current pass still to be written
  edits,     \* user changes so far
  dropped    \* history: dropped[p] is the set of projects p's file has been
             \* without since they were recorded as deleted

vars == <<registry, running, state, pass, edits, dropped>>

\* The batch in which exactly the participants in P are readable.
ObservationOf(P) ==
  [w \in Writers |-> IF w \in P THEN registry[w] ELSE Unavailable]

OnlyFrom(w, shown) ==
  [v \in Writers |-> IF v = w THEN shown ELSE Unavailable]

IsTombstone(r) == r # NoRecord /\ r.deleted

Init ==
  /\ registry \in [Profiles -> Registry]
  /\ running \in [Profiles -> BOOLEAN]
  /\ state = EmptyState
  /\ pass = {}
  /\ edits = 0
  /\ dropped = [p \in Profiles |-> {}]

\* The user adds, edits or removes a project in a running Desktop.
UserChange(p, id, c) ==
  /\ running[p]
  /\ edits < MaxEdits
  /\ c # registry[p][id]
  /\ registry' = [registry EXCEPT ![p][id] = c]
  /\ edits' = edits + 1
  /\ UNCHANGED <<running, state, pass>>

Open(p) ==
  /\ ~running[p]
  /\ running' = [running EXCEPT ![p] = TRUE]
  /\ UNCHANGED <<registry, state, pass, edits>>

Quit(p) ==
  /\ running[p]
  /\ running' = [running EXCEPT ![p] = FALSE]
  /\ UNCHANGED <<registry, state, pass, edits>>

\* syncGroupPass up to the first journal save: observe the readable
\* participants, reconcile, save.
Observe(P) ==
  /\ Accepts(state, ObservationOf(P))
  /\ state' = Reconcile(state, ObservationOf(P))
  /\ pass' = P
  /\ UNCHANGED <<registry, running, edits>>

\* Defect for the runs to detect: the file is compared with the list to write.
WritableMutant(p) ==
  /\ p \in pass
  /\ ~running[p]
  /\ state.profiles[p] # NoProfile
  /\ registry[p] = Canonical(state)
  /\ CanMark(state, p, Canonical(state))

\* A participant of the pass is stopped and its file is still the observed one.
Writable(p) ==
  /\ p \in pass
  /\ ~running[p]
  /\ state.profiles[p] # NoProfile
  /\ registry[p] = state.profiles[p].observed
  /\ CanMark(state, p, Canonical(state))

\* Write p's registry, acknowledge it, save the journal.
Apply(p) ==
  /\ Writable(p)
  /\ registry' = [registry EXCEPT ![p] = Canonical(state)]
  /\ state' = Marked(state, p, Canonical(state))
  /\ pass' = pass \ {p}
  /\ UNCHANGED <<running, edits>>

\* The registry is written, but AppDeck dies or cannot save the journal: the
\* pass ends without the acknowledgement.
ApplyUnacknowledged(p) ==
  /\ Writable(p)
  /\ registry' = [registry EXCEPT ![p] = Canonical(state)]
  /\ pass' = {}
  /\ UNCHANGED <<running, state, edits>>

\* A service writer acknowledges the canonical list and submits a changed one.
Submit(w, list) ==
  LET marked == Marked(state, w, Canonical(state))
  IN  /\ CanMark(state, w, Canonical(state))
      /\ Accepts(marked, OnlyFrom(w, list))
      /\ state' = Reconcile(marked, OnlyFrom(w, list))

\* groupSyncEditProject: a project added under a fresh id, whose folder is not
\* in the list yet, or an entry removed.
AppDeckAdd(id, c) ==
  /\ edits < MaxEdits
  /\ state.records[id] = NoRecord
  /\ \A p \in Profiles : registry[p][id] = Absent
  /\ \A i \in Live(state) : state.records[i].project # c
  /\ Submit(AppDeck, [Canonical(state) EXCEPT ![id] = c])
  /\ pass' = {}
  /\ edits' = edits + 1
  /\ UNCHANGED <<registry, running>>

AppDeckRemove(id) ==
  /\ edits < MaxEdits
  /\ id \in Live(state)
  /\ Submit(AppDeck, [Canonical(state) EXCEPT ![id] = Absent])
  /\ pass' = {}
  /\ edits' = edits + 1
  /\ UNCHANGED <<registry, running>>

\* groupAcceptNativeDeletes: a pass found mapped projects missing from the
\* native registry; they become deletions and the pass starts over.
NativeDelete(missing) ==
  /\ pass # {}
  /\ edits < MaxEdits
  /\ missing # {} /\ missing \subseteq Live(state)
  /\ Submit(Server, [id \in Projects |-> IF id \in missing THEN Absent
                                         ELSE Canonical(state)[id]])
  /\ pass' = {}
  /\ edits' = edits + 1
  /\ UNCHANGED <<registry, running>>

\* Keeps the history variable: a new tombstone starts with the participants
\* that lack the project at that moment.
RecordDropped ==
  dropped' = [p \in Profiles |->
    {id \in Projects :
       /\ IsTombstone(state'.records[id])
       /\ \/ registry'[p][id] = Absent
          \/ id \in dropped[p] /\ state'.records[id] = state.records[id]}]

Step ==
  \/ \E p \in Profiles, id \in Projects, c \in Contents \cup {Absent} :
       UserChange(p, id, c)
  \/ \E p \in Profiles : Open(p) \/ Quit(p)
  \/ \E P \in SUBSET Profiles : Observe(P)
  \/ \E p \in Profiles : Apply(p) \/ ApplyUnacknowledged(p)
  \/ \E id \in Projects, c \in Contents : AppDeckAdd(id, c)
  \/ \E id \in Projects : AppDeckRemove(id)
  \/ \E missing \in SUBSET Projects : NativeDelete(missing)

Next == Step /\ RecordDropped

Spec == Init /\ [][Next]_vars

\* AppDeck keeps observing everyone and writing whoever it may write.  Passes
\* run every ten seconds and on request, and retries are the user's or the
\* launch path's; a participant is written only if it stays stopped.
Fairness ==
  /\ WF_vars(Observe(Profiles) /\ RecordDropped)
  /\ \A p \in Profiles : SF_vars(Apply(p) /\ RecordDropped)

FairSpec == Spec /\ Fairness

-----------------------------------------------------------------------------
(* Properties.                                                              *)

\* Every variable has its type.
TypeOK ==
  /\ registry \in [Profiles -> Registry]
  /\ running \in [Profiles -> BOOLEAN]
  /\ state \in State
  /\ pass \subseteq Profiles
  /\ edits \in 0 .. MaxEdits
  /\ dropped \in [Profiles -> SUBSET Projects]

\* The engine never produces a journal that its own check projectSyncStateValid
\* refuses: a refused journal would stop synchronization for good.
JournalValid == StateValid(state)

\* A profile is credited with the current revision of a project only if the
\* list it last showed has exactly that content (or lacks it, for a deletion).
\* All the rules of reconciliation rest on these credits.
AcknowledgedMatches ==
  \A w \in Owners(state), id \in Recorded(state) :
    Seen(state, w, id) = state.records[id].revision
      => Previous(state, w, id) = Canonical(state)[id]

\* A deleted project comes back only through a participant whose own file has
\* been without it since the deletion: a stale copy never resurrects it.
NoStaleResurrection ==
  [][\A id \in Projects :
       /\ IsTombstone(state.records[id])
       /\ IsLive(state'.records[id])
       => \E p \in Profiles : /\ p = state'.records[id].writer
                             /\ id \in dropped[p]]_vars

\* The journal forgets nothing: no record disappears, revisions and generations
\* never go back, and a record that changes gets a revision of its own.
JournalAdvances ==
  [][\A id \in Recorded(state) :
       LET r == state.records[id]
           s == state'.records[id]
       IN  /\ s # NoRecord
           /\ s.generation >= r.generation
           /\ s # r => s.revision > state.revision]_vars

\* A pass over unchanged files changes nothing: rejected edits are not retried
\* and acknowledgements do not oscillate.
PassIsIdempotent ==
  \A P \in SUBSET Profiles :
    LET batch == ObservationOf(P)
        once == Reconcile(state, batch)
    IN  Accepts(state, batch) => Reconcile(once, batch) = once

\* Concurrent edits and deletions of a project in the list have the same outcome
\* whether their two participants are observed in one batch or one after the
\* other, in either order.
StaggeredBatchesAgree ==
  \A p, q \in Profiles \cap Owners(state), id \in Live(state) :
    LET first == Reconcile(state, ObservationOf({p}))
        together == Reconcile(state, ObservationOf({p, q}))
        staggered == Reconcile(first, ObservationOf({q}))
    IN  /\ Accepts(state, ObservationOf({p, q}))
        /\ Accepts(first, ObservationOf({q}))
        => Canonical(together)[id] = Canonical(staggered)[id]

\* A user change that does not make it into the list is reported as a conflict.
LostChangesAreReported ==
  \A P \in SUBSET Profiles :
    LET batch == ObservationOf(P)
        after == Canonical(Reconcile(state, batch))
    IN  Accepts(state, batch) =>
          \A p \in P, id \in Projects :
            /\ Changed(state, batch, p, id)
            /\ after[id] # registry[p][id]
            => \E conflict \in Conflicts(state, batch) :
                 conflict[1] = id /\ conflict[2] = p

\* Once users are done and their Desktops are closed, every participant ends up
\* with the same list, the canonical one.
Converges ==
  <>[](\A p \in Profiles : ~running[p]) /\ <>[][UNCHANGED edits]_vars
    => <>[](\A p \in Profiles : registry[p] = Canonical(state))

=============================================================================
