--------------------------- MODULE ProjectServer ---------------------------
(***************************************************************************)
(* One stopped participant's talk with Codex's own project registry        *)
(* (project_server_sync.hpp) and what the group pass does with the reply   *)
(* (group_sync.hpp:79-86, 128-133).                                        *)
(*                                                                         *)
(* The group's list (wanted) only changes between talks: AppDeck's one     *)
(* thread waits for the helper.  The registry is shared with every other   *)
(* Codex window of the group, so native projects and task memberships      *)
(* change between any two calls.  A call may fail before or after the      *)
(* server acted, and AppDeck may stop at any call.                         *)
(***************************************************************************)
EXTENDS Naturals, FiniteSets

CONSTANTS
  Keys,        \* local ("legacy") project ids of the group
  Natives,     \* ids of native projects; a native id may also be a key
  Contents,    \* name and roots of a project
  Tasks,
  None,
  MaxChanges,  \* bound on the steps of users and of other windows
  MaxFailures  \* bound on failed calls, failed saves and stops of AppDeck

ASSUME Constants ==
  /\ None \notin Keys \cup Natives \cup Contents
  /\ Contents \cap {"unborn", "gone", "never", "deleted"} = {}
  /\ {MaxChanges, MaxFailures} \subseteq Nat

VARIABLES
  native,    \* the registry: contents, or "unborn" / "gone" (ids are not reused)
  known,     \* the server's memory of the idempotency keys it has imported
  task,      \* the project of a task, or None
  wanted,    \* the group's records: contents, "deleted" (a tombstone) or "never"
  mapping,   \* serverMapping of the saved journal
  talk,      \* the running talk, or None
  history,   \* what the properties remember
  budget

vars == <<native, known, task, wanted, mapping, talk, history, budget>>

Talk ==
  [stage : {"list", "push", "delete", "done"},
   map : [Keys -> Natives \cup {None}],
   view : [Natives -> Contents \cup {None}],
   left : SUBSET Keys,            \* keys still to write, or to delete
   current : Keys \cup {None},    \* imported, its content yet to be updated;
                                  \* or to be deleted, its members listed
   freeing : SUBSET Tasks]        \* members listed, yet to be made projectless

Init ==
  /\ native = [n \in Natives |-> "unborn"]
  /\ known = [k \in Keys |-> None]
  /\ task = [t \in Tasks |-> None]
  /\ wanted = [k \in Keys |-> "never"]
  /\ mapping = [k \in Keys |-> None]
  /\ talk = None
  /\ history = [imported |-> [n \in Natives |-> None], removed |-> {},
                recovered |-> {}, readded |-> {}, touched |-> {}, late |-> {}]
  /\ budget = [changes |-> 0, failures |-> 0]

Exists(n) == n \in Natives /\ native[n] \in Contents

Live == {k \in Keys : wanted[k] \in Contents}
Deleted == {k \in Keys : wanted[k] = "deleted"}

Fresh == {n \in Natives : native[n] = "unborn"}

-----------------------------------------------------------------------------
(* The group's records and the other windows.                               *)

Changed ==
  /\ budget.changes < MaxChanges
  /\ budget' = [budget EXCEPT !.changes = @ + 1]

\* The reconciled list changes between talks (ProjectGroup models how).
Reconciled(k, value) ==
  /\ talk = None /\ Changed
  /\ wanted' = [wanted EXCEPT ![k] = value]

Add(k, c) ==
  /\ wanted[k] = "never" /\ Reconciled(k, c)
  /\ UNCHANGED <<native, known, task, mapping, talk, history>>

\* Codex adds the project to its cache and to the registry; the pass learns
\* the mapping from the cache.
DesktopAdd(k, n, c) ==
  /\ wanted[k] = "never" /\ n \in Fresh /\ Reconciled(k, c)
  /\ native' = [native EXCEPT ![n] = c]
  /\ mapping' = [mapping EXCEPT ![k] = n]
  /\ UNCHANGED <<known, task, talk, history>>

Edit(k, c) ==
  /\ k \in Live /\ c # wanted[k] /\ Reconciled(k, c)
  /\ UNCHANGED <<native, known, task, mapping, talk, history>>

Drop(k) ==
  /\ k \in Live /\ Reconciled(k, "deleted")
  /\ UNCHANGED <<native, known, task, mapping, talk, history>>

Readd(k, c) ==
  /\ k \in Deleted /\ Reconciled(k, c)
  /\ history' = [history EXCEPT !.readded = @ \cup {k}]
  /\ UNCHANGED <<native, known, task, mapping, talk>>

\* Another window deletes or edits a native project, or moves a task.
NativeChange(n, value) ==
  /\ Exists(n) /\ value # native[n] /\ Changed
  /\ native' = [native EXCEPT ![n] = value]
  /\ task' = IF value = "gone"
             THEN [t \in Tasks |-> IF task[t] = n THEN None ELSE task[t]]
             ELSE task
  /\ history' = [history EXCEPT !.touched = @ \cup {n}]
  /\ UNCHANGED <<known, wanted, mapping, talk>>

TaskJoins(t, n) ==
  /\ Exists(n) /\ task[t] # n /\ Changed
  /\ task' = [task EXCEPT ![t] = n]
  /\ history' = [history EXCEPT !.late = @ \cup {t}]
  /\ UNCHANGED <<native, known, wanted, mapping, talk>>

-----------------------------------------------------------------------------
(* Calls.                                                                   *)

\* An error reply, a timeout, a closed pipe or a stop of AppDeck ends the
\* talk; the mapping learned so far is saved, unless that fails too.
Ended == talk' = None /\ mapping' \in {mapping, talk.map}

Broken ==
  /\ budget.failures < MaxFailures
  /\ budget' = [budget EXCEPT !.failures = @ + 1]
  /\ Ended

\* The server acted: the talk goes on as t, or the reply is lost.
Answered(t) == (talk' = t /\ UNCHANGED <<mapping, budget>>) \/ Broken

Start ==
  /\ talk = None /\ Live \cup Deleted # {}
  /\ talk' = [stage |-> "list", map |-> mapping, left |-> {},
              view |-> [n \in Natives |-> None], current |-> None,
              freeing |-> {}]
  /\ history' = [history EXCEPT !.touched = {}, !.late = {}]
  /\ UNCHANGED <<native, known, task, wanted, mapping, budget>>

Listing == [n \in Natives |-> IF Exists(n) THEN native[n] ELSE None]

\* Mutant: an id of its own counts although the list does not hold it.
IdentifiedMutant(map, view, keys) ==
  [k \in Keys |-> IF k \in keys /\ map[k] = None /\ k \in Natives THEN k ELSE map[k]]

\* A project whose id is itself native needs no mapping.
Identified(map, view, keys) ==
  [k \in Keys |-> IF k \in keys /\ map[k] = None /\ k \in Natives
                  THEN IF view[k] # None THEN k ELSE None
                  ELSE map[k]]

\* Live projects with a known native id the list does not hold.
Missing(map, view) == {k \in Live : map[k] # None /\ view[map[k]] = None}

Conflict(map) ==
  \E k \in Live, d \in Deleted : map[d] # None /\ map[d] = map[k]

\* Records the deletion confirmed by the list, once the mapping is saved.
AcceptNativeDeletes(map, missing) ==
  /\ talk' = None
  /\ \/ /\ mapping' = map
        /\ wanted' = [k \in Keys |-> IF k \in missing THEN "deleted" ELSE wanted[k]]
        /\ UNCHANGED budget
     \/ /\ budget.failures < MaxFailures
        /\ budget' = [budget EXCEPT !.failures = @ + 1]
        /\ mapping' \in {mapping, map}
        /\ UNCHANGED wanted

\* project/list, and the checks made before anything is written.
List ==
  LET view == Listing
      map == Identified(talk.map, view, Live)
      both == Identified(map, view, Deleted)
      missing == Missing(map, view)
  IN /\ talk # None /\ talk.stage = "list"
     /\ \/ missing # {} /\ AcceptNativeDeletes(map, missing)
        \/ /\ missing = {} /\ Conflict(both)
           /\ talk' = None /\ mapping' \in {mapping, map, both}
           /\ UNCHANGED <<wanted, budget>>
        \/ /\ missing = {} /\ ~Conflict(both)
           /\ Answered([talk EXCEPT !.stage = "push", !.view = view,
                                    !.map = both, !.left = Live])
           /\ UNCHANGED wanted
     /\ UNCHANGED <<native, known, task, history>>

Pushing(k) == talk # None /\ talk.stage = "push" /\ k \in talk.left
              /\ talk.current \in {None, k}

Current(k) == talk.map[k] # None /\ talk.view[talk.map[k]] = wanted[k]

Skip(k) ==
  /\ Pushing(k) /\ Current(k)
  /\ talk' = [talk EXCEPT !.left = @ \ {k}]
  /\ UNCHANGED <<native, known, task, wanted, mapping, history, budget>>

\* Mutant: the content an import comes back with is not compared.
WrittenMutant(k, n, c) ==
  [talk EXCEPT !.map[k] = n, !.view[n] = c, !.left = @ \ {k}, !.current = None]

\* What the talk knows after the server confirmed the content c of k.
Written(k, n, c) ==
  IF c = wanted[k]
  THEN [talk EXCEPT !.map[k] = n, !.view[n] = c, !.left = @ \ {k}, !.current = None]
  ELSE [talk EXCEPT !.map[k] = n, !.view[n] = c, !.current = k]

Update(k) ==
  LET n == talk.map[k] IN
  /\ Pushing(k) /\ n # None /\ ~Current(k)
  /\ \/ /\ Exists(n)
        /\ native' = [native EXCEPT ![n] = wanted[k]]
        /\ Answered(Written(k, n, wanted[k]))
     \/ ~Exists(n) /\ Ended /\ UNCHANGED <<native, budget>>
  /\ UNCHANGED <<known, task, wanted, history>>

\* Mutant: every import has a key of its own.
ImportTargetsMutant(k) == Fresh

\* The project an import of k answers with: the one an earlier import made.
ImportTargets(k) == IF Exists(known[k]) THEN {known[k]} ELSE Fresh

\* project/import under k's idempotency key; an earlier import comes back with
\* its earlier content, which is then updated.  The server may refuse.
Import(k) ==
  /\ Pushing(k) /\ talk.map[k] = None
  /\ \/ \E n \in ImportTargets(k) :
          LET c == IF Exists(n) THEN native[n] ELSE wanted[k] IN
          /\ native' = [native EXCEPT ![n] = c]
          /\ known' = [known EXCEPT ![k] = n]
          /\ history' = IF Exists(n)
                        THEN [history EXCEPT !.recovered = @ \cup {n}]
                        ELSE [history EXCEPT !.imported[n] = k]
          /\ Answered(Written(k, n, c))
     \/ ~Exists(known[k]) /\ Ended /\ UNCHANGED <<native, known, history, budget>>
  /\ UNCHANGED <<task, wanted>>

\* Every live project is written: the tombstones with a project in the list
\* are next.
Pushed ==
  /\ talk # None /\ talk.stage = "push" /\ talk.left = {}
  /\ talk' = [talk EXCEPT !.stage = "delete",
                          !.left = {k \in Deleted : talk.map[k] # None}]
  /\ UNCHANGED <<native, known, task, wanted, mapping, history, budget>>

Deleting(k) == talk # None /\ talk.stage = "delete" /\ k \in talk.left

Listed(k) == talk.view[talk.map[k]] # None

\* Mutant: the members are not listed before the deletion.
MembersMutant(k) ==
  /\ Deleting(k) /\ talk.current = None /\ Listed(k)
  /\ Answered([talk EXCEPT !.current = k])
  /\ history' = [history EXCEPT !.late = {}]
  /\ UNCHANGED <<native, known, task, wanted>>

\* thread/list: the ids are fetched before any membership changes.
Members(k) ==
  /\ Deleting(k) /\ talk.current = None /\ Listed(k)
  /\ Answered([talk EXCEPT !.freeing = {t \in Tasks : task[t] = talk.map[k]},
                           !.current = k])
  /\ history' = [history EXCEPT !.late = {}]
  /\ UNCHANGED <<native, known, task, wanted>>

\* thread/metadata/update with an empty project, whatever the task's is now.
Free(t) ==
  /\ talk # None /\ t \in talk.freeing
  /\ task' = [task EXCEPT ![t] = None]
  /\ Answered([talk EXCEPT !.freeing = @ \ {t}])
  /\ UNCHANGED <<native, known, wanted, history>>

Remove(k) ==
  LET n == talk.map[k] IN
  /\ Deleting(k) /\ talk.current = k /\ talk.freeing = {}
  /\ \/ /\ Exists(n)
        /\ native' = [native EXCEPT ![n] = "gone"]
        /\ task' = [t \in Tasks |-> IF task[t] = n THEN None ELSE task[t]]
        /\ history' = [history EXCEPT !.removed = @ \cup {n}]
        /\ Answered([talk EXCEPT !.view[n] = None, !.left = @ \ {k},
                                 !.current = None])
     \/ ~Exists(n) /\ Ended /\ UNCHANGED <<native, task, history, budget>>
  /\ UNCHANGED <<known, wanted>>

SkipDeleted(k) ==
  /\ Deleting(k) /\ ~Listed(k)
  /\ talk' = [talk EXCEPT !.left = @ \ {k}]
  /\ UNCHANGED <<native, known, task, wanted, mapping, history, budget>>

\* A tombstone no native project is known for keeps the talk from succeeding.
Finish ==
  /\ talk # None /\ talk.stage = "delete" /\ talk.left = {}
  /\ IF \A k \in Deleted : talk.map[k] # None
     THEN talk' = [talk EXCEPT !.stage = "done"] /\ UNCHANGED <<mapping, budget>>
     ELSE Ended /\ UNCHANGED budget
  /\ UNCHANGED <<native, known, task, wanted, history>>

\* The mapping is saved, and the pass goes on.
Save ==
  /\ talk # None /\ talk.stage = "done"
  /\ \/ talk' = None /\ mapping' = talk.map /\ UNCHANGED budget
     \/ Broken
  /\ UNCHANGED <<native, known, task, wanted, history>>

-----------------------------------------------------------------------------

Others ==
  \/ \E k \in Keys, c \in Contents : Add(k, c) \/ Edit(k, c) \/ Readd(k, c)
  \/ \E k \in Keys, n \in Natives, c \in Contents : DesktopAdd(k, n, c)
  \/ \E k \in Keys : Drop(k)
  \/ \E n \in Natives, v \in Contents \cup {"gone"} : NativeChange(n, v)
  \/ \E t \in Tasks, n \in Natives : TaskJoins(t, n)

AppDeck ==
  \/ Start \/ List \/ Pushed \/ Finish \/ Save
  \/ \E k \in Keys :
       \/ Skip(k) \/ Update(k) \/ Import(k)
       \/ Members(k) \/ Remove(k) \/ SkipDeleted(k)
  \/ \E t \in Tasks : Free(t)

Next == Others \/ AppDeck

Spec == Init /\ [][Next]_vars

-----------------------------------------------------------------------------
(* Properties.                                                              *)

\* Every variable has its type; a talk writes only to projects the list held
\* or the server answered with (project_server_sync.hpp:95-127).
TypeOK ==
  /\ native \in [Natives -> Contents \cup {"unborn", "gone"}]
  /\ known \in [Keys -> Natives \cup {None}]
  /\ task \in [Tasks -> Natives \cup {None}]
  /\ wanted \in [Keys -> Contents \cup {"never", "deleted"}]
  /\ mapping \in [Keys -> Natives \cup {None}]
  /\ talk = None \/ talk \in Talk
  /\ history \in [imported : [Natives -> Keys \cup {None}], removed : SUBSET Natives,
                  recovered : SUBSET Natives, readded : SUBSET Keys,
                  touched : SUBSET Natives, late : SUBSET Tasks]
  /\ budget \in [changes : 0 .. MaxChanges, failures : 0 .. MaxFailures]

\* Two imports never leave one project of the group in two native copies,
\* whatever reply or save was lost in between (project_server_sync.hpp:112:
\* a stable idempotency key).
ImportedOnce ==
  \A m, n \in Natives :
    /\ Exists(m) /\ Exists(n) /\ m # n
    => history.imported[m] = None \/ history.imported[m] # history.imported[n]

\* A live record is turned into a tombstone (group_sync.hpp:77-86) only because another window
\* deleted the very project it is mapped to: never for a list cut short, an
\* import not yet made, or AppDeck's own deletions of other records.  (Left
\* out: a record re-added after its deletion, whose old mapping is kept, and the
\* projects RemovalIsSafe leaves out.)
NativeEvidence ==
  [][\A k \in Keys \ history.readded :
       talk # None /\ wanted[k] \in Contents /\ wanted'[k] = "deleted"
       => /\ talk.stage = "list"
          /\ talk.map[k] # None \/ k \in Natives
          /\ native[mapping'[k]] = "gone"
          /\ mapping'[k] \notin history.removed \ history.recovered]_vars

\* When the talk claims success, the registry holds every live record's
\* contents and no tombstone's project (project_server_sync.hpp:109-124), except for projects another window
\* changed since the talk began, records that share one project, and the
\* projects RemovalIsSafe leaves out.
Undone == history.recovered \cap history.removed

Shared(k) == \E j \in Live \ {k} : talk.map[j] = talk.map[k]

ConfirmedAgrees ==
  talk # None /\ talk.stage = "done" =>
    /\ \A k \in Live :
         \/ Shared(k) \/ talk.map[k] \in history.touched \cup Undone
         \/ talk.map[k] # None /\ native[talk.map[k]] = wanted[k]
    /\ \A k \in Deleted : ~Exists(talk.map[k])

Removes(n) == n \in history'.removed \ history.removed

\* What AppDeck deletes it may delete.  The project has no tasks: they were made
\* projectless, but for those that joined after they were listed
\* (project_server_sync.hpp:121-124).  And it is the native project of no live
\* record, by whatever record AppDeck knows it (:106-108), but for a project an
\* import came back with, which is learned after the conflict check.
RemovalIsSafe ==
  [][/\ \A t \in Tasks : Removes(task[t]) => t \in history.late
     /\ talk # None => \A k \in Live :
          Removes(talk.map[k]) => talk.map[k] \in history.recovered]_vars

=============================================================================
