---------------------------- MODULE ProjectSync ----------------------------
(***************************************************************************)
(* The in-memory project reconciliation engine (project_sync.hpp): what    *)
(* one call of projectSyncReconcile and projectSyncMarkApplied computes    *)
(* from the journal's project state and a batch of observations.           *)
(*                                                                         *)
(* A project's data is its name and roots, compared as one value           *)
(* (workspaceSameProject), so it is a member of Contents.  The order of    *)
(* the sidebar, timestamps and the write-only "applied"/"appliedRevision"  *)
(* receipts are left out.                                                  *)
(***************************************************************************)
EXTENDS Integers, FiniteSets

CONSTANTS
  Projects,    \* project ids
  Contents,    \* (name, roots) values a project can have
  Writers,     \* participants and the two service writers, by profile id
  Precedence,  \* Precedence[w]: rank of w's id in the byte order of ids
  Absent,      \* what a registry says of a project it does not list
  NoRecord,    \* an id the journal has never recorded
  NoProfile,   \* a writer without a baseline in the journal
  Unavailable, \* an observation that is missing, unreadable or malformed
  MaxIds,      \* 20000: ids the journal may hold, tombstones included
  MaxLive,     \* 4096: ids that may be live at once
  MaxOwners,   \* 256: writers with a baseline
  MaxRevision  \* 2^53 - 2: the last revision the journal can hold

ASSUME PrecedenceAssumption ==
  /\ Precedence \in [Writers -> Nat]
  /\ \A v, w \in Writers : Precedence[v] = Precedence[w] => v = w

ASSUME FiniteAssumption == IsFiniteSet(Projects) /\ IsFiniteSet(Writers)

ASSUME LimitAssumption ==
  MaxIds \in Nat /\ MaxLive \in Nat /\ MaxOwners \in Nat /\ MaxRevision \in Nat

ASSUME SentinelAssumption ==
  /\ Absent \notin Contents
  /\ NoRecord \notin [project : Contents, deleted : BOOLEAN, revision : Nat,
                      baseRevision : Nat, generation : Nat, writer : Writers]
  /\ NoProfile \notin [observed : [Projects -> Contents \cup {Absent}],
                       seen : [Projects -> Nat]]
  /\ Unavailable \notin [Projects -> Contents \cup {Absent}]

Registry == [Projects -> Contents \cup {Absent}]

Record == [project : Contents, deleted : BOOLEAN, revision : Nat,
           baseRevision : Nat, generation : Nat, writer : Writers]

\* What the journal remembers of a writer: the registry it last showed and the
\* record revisions it is known to have had (0: none).
Baseline == [observed : Registry, seen : [Projects -> Nat]]

State == [initialized : BOOLEAN, revision : Nat,
          records : [Projects -> Record \cup {NoRecord}],
          profiles : [Writers -> Baseline \cup {NoProfile}]]

EmptyState == [initialized |-> FALSE, revision |-> 0,
               records |-> [id \in Projects |-> NoRecord],
               profiles |-> [w \in Writers |-> NoProfile]]

IsLive(r) == r # NoRecord /\ ~r.deleted

Recorded(st) == {id \in Projects : st.records[id] # NoRecord}

Live(st) == {id \in Projects : IsLive(st.records[id])}

Owners(st) == {w \in Writers : st.profiles[w] # NoProfile}

\* projectSyncSnapshot: the registry every participant should end up with.
Canonical(st) ==
  [id \in Projects |->
     IF IsLive(st.records[id]) THEN st.records[id].project ELSE Absent]

\* projectSyncStateValid: a journal that fails this is refused by every pass,
\* so reconciliation stops for good.
StateValid(st) ==
  /\ ~st.initialized => st = EmptyState
  /\ st.revision <= MaxRevision
  /\ Cardinality(Recorded(st)) <= MaxIds
  /\ Cardinality(Live(st)) <= MaxLive
  /\ Cardinality(Owners(st)) <= MaxOwners
  /\ \A id \in Recorded(st) :
       LET r == st.records[id]
       IN  /\ r.revision \in 1 .. st.revision
           /\ r.baseRevision < r.revision
           /\ r.generation \in 1 .. r.revision
  /\ \A w \in Owners(st), id \in Projects :
       LET seen == st.profiles[w].seen[id]
       IN  seen > 0 => /\ id \in Recorded(st)
                       /\ seen <= st.records[id].revision

-----------------------------------------------------------------------------
(* The changes a batch of observations contains.  obs[w] is w's registry or *)
(* Unavailable.                                                             *)

Valid(obs) == {w \in Writers : obs[w] # Unavailable}

Previous(st, w, id) ==
  IF st.profiles[w] = NoProfile THEN Absent ELSE st.profiles[w].observed[id]

Seen(st, w, id) ==
  IF st.profiles[w] = NoProfile THEN 0 ELSE st.profiles[w].seen[id]

\* A writer that joins an initialized group never overwrites known ids.
Newcomer(st, w, id) ==
  /\ st.profiles[w] = NoProfile
  /\ st.initialized
  /\ st.records[id] # NoRecord

Changed(st, obs, w, id) ==
  /\ w \in Valid(obs)
  /\ obs[w][id] # Previous(st, w, id)
  /\ ~Newcomer(st, w, id)

\* projectSyncCandidate: w's change of id, with the revision it was based on.
Change(st, obs, w, id) ==
  LET deleted == obs[w][id] = Absent
  IN [project |-> IF deleted THEN Previous(st, w, id) ELSE obs[w][id],
      writer |-> w,
      baseRevision |-> Seen(st, w, id),
      deleted |-> deleted,
      restore |-> /\ ~deleted
                  /\ st.profiles[w] # NoProfile
                  /\ Previous(st, w, id) = Absent]

Changes(st, obs, id) ==
  {Change(st, obs, w, id) : w \in {v \in Writers : Changed(st, obs, v, id)}}

\* projectSyncHigherRank: causal revision first, then the writer's id.
HigherRank(e, f) ==
  \/ e.baseRevision > f.baseRevision
  \/ /\ e.baseRevision = f.baseRevision
     /\ Precedence[e.writer] > Precedence[f.writer]

\* A deletion of a known tombstone is neither a change nor a conflict.
Repeated(old, e) == old # NoRecord /\ old.deleted /\ e.deleted

\* Defect for the runs to detect: one of the two conditions suffices.
StaleResurrectionMutant(old, e) ==
  /\ old # NoRecord /\ old.deleted /\ ~e.deleted
  /\ ~e.restore /\ e.baseRevision < old.generation

StaleResurrection(old, e) ==
  /\ old # NoRecord /\ old.deleted /\ ~e.deleted
  /\ ~e.restore \/ e.baseRevision < old.revision

UnacknowledgedGeneration(old, e) ==
  IsLive(old) /\ e.baseRevision < old.generation

Admissible(old, e) ==
  /\ ~Repeated(old, e)
  /\ ~StaleResurrection(old, e)
  /\ ~UnacknowledgedGeneration(old, e)

\* A deletion beats every edit; otherwise the higher rank wins.
Beats(e, f) ==
  \/ e.deleted /\ ~f.deleted
  \/ e.deleted = f.deleted /\ HigherRank(e, f)

Contenders(st, obs, id) ==
  {e \in Changes(st, obs, id) : Admissible(st.records[id], e)}

Winner(st, obs, id) ==
  CHOOSE e \in Contenders(st, obs, id) :
    \A f \in Contenders(st, obs, id) \ {e} : Beats(e, f)

\* Defect for the runs to detect: a later batch loses whatever its rank.
OutrankedMutant(old, e) ==
  IsLive(old) /\ ~e.deleted /\ e.baseRevision < old.revision

\* A concurrent edit that was recorded by an earlier batch keeps its place.
Outranked(old, e) ==
  /\ IsLive(old)
  /\ ~e.deleted
  /\ e.baseRevision < old.revision
  /\ ~HigherRank(e, old)

SameAsRecord(old, e) ==
  /\ old # NoRecord
  /\ old.deleted = e.deleted
  /\ old.project = e.project

\* The record of id changes in this batch.
Rewrites(st, obs, id) ==
  /\ Contenders(st, obs, id) # {}
  /\ ~Outranked(st.records[id], Winner(st, obs, id))
  /\ ~SameAsRecord(st.records[id], Winner(st, obs, id))

Rewritten(old, e, next) ==
  [project |-> IF e.deleted /\ old # NoRecord THEN old.project ELSE e.project,
   deleted |-> e.deleted,
   revision |-> next,
   baseRevision |-> e.baseRevision,
   generation |-> IF old = NoRecord \/ (old.deleted /\ ~e.deleted)
                    THEN next ELSE old.generation,
   writer |-> e.writer]

\* Defect for the runs to detect: a deletion leaves no tombstone.
NextRecordsMutant(st, obs) ==
  [id \in Projects |->
     IF ~Rewrites(st, obs, id) THEN st.records[id]
     ELSE IF Winner(st, obs, id).deleted THEN NoRecord
     ELSE Rewritten(st.records[id], Winner(st, obs, id), st.revision + 1)]

NextRecords(st, obs) ==
  [id \in Projects |->
     IF Rewrites(st, obs, id)
       THEN Rewritten(st.records[id], Winner(st, obs, id), st.revision + 1)
       ELSE st.records[id]]

\* Defect for the runs to detect: presence alone counts.
MatchesMutant(r, shown) ==
  r # NoRecord /\ r.deleted = (shown = Absent)

\* Presence of a live record's content, or absence of a tombstone, counts as
\* having had that revision.
Matches(r, shown) ==
  /\ r # NoRecord
  /\ IF r.deleted THEN shown = Absent ELSE shown = r.project

\* Defect for the runs to detect: credits are given before the records change.
NextProfilesMutant(st, obs) ==
  [w \in Writers |->
     IF w \notin Valid(obs) THEN st.profiles[w]
     ELSE [observed |-> obs[w],
           seen |-> [id \in Projects |->
                       IF Matches(st.records[id], obs[w][id])
                         THEN st.records[id].revision
                         ELSE Seen(st, w, id)]]]

NextProfiles(st, obs) ==
  LET records == NextRecords(st, obs)
  IN [w \in Writers |->
        IF w \notin Valid(obs) THEN st.profiles[w]
        ELSE [observed |-> obs[w],
              seen |-> [id \in Projects |->
                          IF Matches(records[id], obs[w][id])
                            THEN records[id].revision
                            ELSE Seen(st, w, id)]]]

\* Changes of a batch that are refused whatever else the batch contains.
Refusals(st, obs, id) ==
  LET old == st.records[id]
      all == Changes(st, obs, id)
  IN  {<<id, e.writer, "stale-resurrection">> :
         e \in {f \in all : StaleResurrection(old, f)}} \cup
      {<<id, e.writer, "unacknowledged-generation">> :
         e \in {f \in all : UnacknowledgedGeneration(old, f)}}

\* Defect for the runs to detect: only deletions are compared.
LosersMutant(st, obs, id) ==
  LET w == Winner(st, obs, id)
  IN  {e \in Changes(st, obs, id) : e.deleted # w.deleted}

\* Changes that differ from the winner of their batch.
Losers(st, obs, id) ==
  LET w == Winner(st, obs, id)
  IN  {e \in Changes(st, obs, id) :
         e.deleted # w.deleted \/ e.project # w.project}

\* The conflicts a batch reports, as <<project, profile, reason>>.
Conflicts(st, obs) ==
  LET Reported(id) ==
        LET old == st.records[id]
            w == Winner(st, obs, id)
            lost == IF w.deleted THEN "delete-wins" ELSE "concurrent-edit"
        IN  IF Contenders(st, obs, id) = {} THEN {}
            ELSE IF Outranked(old, w)
              THEN {<<id, e.writer, "concurrent-edit">> :
                      e \in {f \in {w} : f.project # old.project}}
              ELSE {<<id, e.writer, lost>> : e \in Losers(st, obs, id)}
  IN UNION {Refusals(st, obs, id) \cup Reported(id) : id \in Projects}

-----------------------------------------------------------------------------
(* The two calls.                                                           *)

\* Defect for the runs to detect: what the journal already holds is not counted.
WithinCapacityMutant(st, obs) ==
  LET shown == {id \in Projects : \E w \in Valid(obs) : obs[w][id] # Absent}
  IN  /\ Cardinality(shown) <= MaxIds
      /\ Cardinality(shown) <= MaxLive
      /\ Cardinality(Valid(obs)) <= MaxOwners

\* The size limits, checked before anything is changed.
WithinCapacity(st, obs) ==
  LET shown == {id \in Projects : \E w \in Valid(obs) : obs[w][id] # Absent}
  IN  /\ Cardinality(Recorded(st) \cup shown) <= MaxIds
      /\ Cardinality(Live(st) \cup shown) <= MaxLive
      /\ Cardinality(Owners(st) \cup Valid(obs)) <= MaxOwners

Accepts(st, obs) ==
  /\ StateValid(st)
  /\ st.revision < MaxRevision
  /\ Valid(obs) = {} \/ WithinCapacity(st, obs)

\* projectSyncReconcile of an accepted batch.
Reconcile(st, obs) ==
  IF Valid(obs) = {} THEN st
  ELSE [initialized |-> TRUE,
        revision |-> IF \E id \in Projects : Rewrites(st, obs, id)
                       THEN st.revision + 1 ELSE st.revision,
        records |-> NextRecords(st, obs),
        profiles |-> NextProfiles(st, obs)]

\* projectSyncMarkApplied refuses a snapshot other than the canonical one, and
\* a new writer once MaxOwners have a baseline.
CanMark(st, w, registry) ==
  /\ StateValid(st)
  /\ st.initialized
  /\ registry = Canonical(st)
  /\ w \in Owners(st) \/ Cardinality(Owners(st)) < MaxOwners

Marked(st, w, registry) ==
  [st EXCEPT !.profiles[w] =
     [observed |-> registry,
      seen |-> [id \in Projects |->
                  IF st.records[id] = NoRecord THEN 0
                  ELSE st.records[id].revision]]]

=============================================================================
