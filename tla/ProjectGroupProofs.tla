------------------------- MODULE ProjectGroupProofs ------------------------
(***************************************************************************)
(* The reconciliation engine and the passes of a group, for every group,   *)
(* every set of projects and every limit.  The first part is about the     *)
(* engine: both of its calls keep the journal sound and within its limits  *)
(* (ReconcileSound, MarkedSound, ReconcileValid, MarkedValid), and a       *)
(* tombstone is revived only by a writer credited with it                  *)
(* (RevivalNeedsCredit).  The second part is about ProjectGroup.  Its      *)
(* inductive invariant is IndInv: besides the types it needs the soundness *)
(* of the journal (Sound, with the credits of AcknowledgedMatches), its    *)
(* limits, and the link between a credit for a tombstone and the           *)
(* participant's own file (DroppedSound).  The last part is about whole    *)
(* batches: repeating one, what it loses, and cutting it in two; for that  *)
(* the invariant also says who has the last edit of a project              *)
(* (WriterHasIt).                                                          *)
(***************************************************************************)
EXTENDS ProjectGroup, FiniteSetTheorems, WellFoundedInduction, TLAPS

-----------------------------------------------------------------------------
(* The reconciliation engine.                                               *)

Observations == [Writers -> Registry \cup {Unavailable}]

\* A change as Change builds it.
Event == [project : Contents \cup {Absent}, writer : Writers,
          baseRevision : Nat, deleted : BOOLEAN, restore : BOOLEAN]

LEMMA ChangeType ==
  ASSUME NEW st \in State, NEW obs \in Observations, NEW id \in Projects,
         NEW w \in Writers, Changed(st, obs, w, id)
  PROVE  /\ Change(st, obs, w, id) \in Event
         /\ Change(st, obs, w, id).project \in Contents
         /\ obs[w] \in Registry
<1>1. obs[w] \in Registry /\ obs[w][id] \in Contents \cup {Absent}
  BY DEF Observations, Changed, Valid, Registry
<1>2. Previous(st, w, id) \in Contents \cup {Absent}
  BY DEF State, Baseline, Registry, Previous
<1>3. Seen(st, w, id) \in Nat
  BY DEF State, Baseline, Seen
<1>4. obs[w][id] # Previous(st, w, id)
  BY DEF Changed
<1>5. QED
  BY <1>1, <1>2, <1>3, <1>4 DEF Change, Event

LEMMA ChangesType ==
  ASSUME NEW st \in State, NEW obs \in Observations, NEW id \in Projects,
         NEW e \in Changes(st, obs, id)
  PROVE  /\ e \in Event
         /\ e.project \in Contents
         /\ e.writer \in Writers
         /\ Changed(st, obs, e.writer, id)
         /\ e = Change(st, obs, e.writer, id)
         /\ e.baseRevision = Seen(st, e.writer, id)
         /\ e.deleted <=> obs[e.writer][id] = Absent
         /\ ~e.deleted => e.project = obs[e.writer][id]
<1>1. PICK w \in Writers : Changed(st, obs, w, id) /\ e = Change(st, obs, w, id)
  BY DEF Changes
<1>2. /\ e.writer = w
      /\ e.baseRevision = Seen(st, w, id)
      /\ e.deleted <=> obs[w][id] = Absent
      /\ ~e.deleted => e.project = obs[w][id]
  BY <1>1 DEF Change
<1>3. QED
  BY <1>1, <1>2, ChangeType

\* The precedence of changes is a strict total order on changes by different
\* writers.
LEMMA BeatsOrder ==
  ASSUME NEW d \in Event, NEW e \in Event, NEW f \in Event
  PROVE  /\ ~Beats(e, e)
         /\ Beats(d, e) /\ Beats(e, f) => Beats(d, f)
         /\ e.writer # f.writer => Beats(e, f) \/ Beats(f, e)
<1>1. /\ d.baseRevision \in Nat /\ e.baseRevision \in Nat /\ f.baseRevision \in Nat
      /\ d.deleted \in BOOLEAN /\ e.deleted \in BOOLEAN /\ f.deleted \in BOOLEAN
      /\ d.writer \in Writers /\ e.writer \in Writers /\ f.writer \in Writers
  BY DEF Event
<1>2. /\ Precedence[d.writer] \in Nat /\ Precedence[e.writer] \in Nat
      /\ Precedence[f.writer] \in Nat
  BY <1>1, PrecedenceAssumption
<1>3. e.writer # f.writer => Precedence[e.writer] # Precedence[f.writer]
  BY <1>1, PrecedenceAssumption
<1> HIDE DEF Event
<1>4. /\ ~HigherRank(e, e)
      /\ HigherRank(d, e) /\ HigherRank(e, f) => HigherRank(d, f)
      /\ e.writer # f.writer => HigherRank(e, f) \/ HigherRank(f, e)
  BY <1>1, <1>2, <1>3 DEF HigherRank
<1>5. QED
  BY <1>1, <1>4 DEF Beats

LEMMA ChangesFinite ==
  ASSUME NEW st \in State, NEW obs \in Observations, NEW id \in Projects
  PROVE  IsFiniteSet(Changes(st, obs, id))
<1> DEFINE W == {v \in Writers : Changed(st, obs, v, id)}
           F == [w \in W |-> Change(st, obs, w, id)]
<1>1. IsFiniteSet(W)
  BY FiniteAssumption, FS_Subset
<1>2. F \in Surjection(W, Changes(st, obs, id))
  BY DEF Surjection, Changes
<1>3. QED
  BY <1>1, <1>2, FS_Surjection

\* Whenever a project has contenders, the winner is one of them and beats all
\* the others: the outcome does not depend on the order of the batch.
THEOREM WinnerWins ==
  ASSUME NEW st \in State, NEW obs \in Observations, NEW id \in Projects,
         Contenders(st, obs, id) # {}
  PROVE  /\ Winner(st, obs, id) \in Contenders(st, obs, id)
         /\ \A f \in Contenders(st, obs, id) \ {Winner(st, obs, id)} :
              Beats(Winner(st, obs, id), f)
<1> DEFINE C == Contenders(st, obs, id)
           Above(e) == {f \in C : Beats(f, e)}
           T == {Above(e) : e \in C}
<1>1. C \subseteq Changes(st, obs, id) /\ C # {}
  BY DEF Contenders
<1>2. IsFiniteSet(C)
  BY <1>1, ChangesFinite, FS_Subset
<1>3. \A e \in C : e \in Event
  BY <1>1, ChangesType
<1>4. \A e, f \in C : e # f => e.writer # f.writer
  BY <1>1, ChangesType
<1> HIDE DEF C
<1>5. T \subseteq FiniteSubsetsOf(C) /\ T # {}
  <2>1. ASSUME NEW e \in C PROVE Above(e) \in SUBSET C /\ IsFiniteSet(Above(e))
    <3>1. Above(e) \in SUBSET C
      OBVIOUS
    <3>2. QED
      BY ONLY <3>1, <1>2, FS_Subset
  <2>2. QED
    BY <1>1, <2>1 DEF FiniteSubsetsOf
<1>6. PICK t \in T : \A u \in T : ~(<<u, t>> \in StrictSubsetOrdering(C))
  BY <1>5, FS_StrictSubsetOrderingWellFounded, WFMin
<1>7. PICK e \in C : t = Above(e)
  OBVIOUS
<1>8. Above(e) = {}
  <2>1. SUFFICES ASSUME NEW f \in C, Beats(f, e)
                 PROVE  FALSE
    OBVIOUS
  <2>2. Above(f) \subseteq Above(e)
    BY <1>3, <2>1, BeatsOrder
  <2>3. f \in Above(e) /\ f \notin Above(f)
    BY <1>3, <2>1, BeatsOrder
  <2>4. <<Above(f), Above(e)>> \in StrictSubsetOrdering(C)
    BY <2>2, <2>3 DEF StrictSubsetOrdering
  <2>5. QED
    BY <1>6, <1>7, <2>4
<1>9. \A f \in C \ {e} : Beats(e, f)
  <2>1. SUFFICES ASSUME NEW f \in C \ {e}
                 PROVE  Beats(e, f)
    OBVIOUS
  <2>2. ~Beats(f, e)
    BY <1>8
  <2>3. QED
    BY <1>3, <1>4, <2>2, BeatsOrder
<1>10. QED
  BY <1>9 DEF Winner, C

-----------------------------------------------------------------------------
(* What every journal the engine produces satisfies.                        *)

RecordsSound(st) ==
  \A id \in Recorded(st) :
    LET r == st.records[id]
    IN  /\ r.revision \in 1 .. st.revision
        /\ r.baseRevision < r.revision
        /\ r.generation \in 1 .. r.revision

SeenSound(st) ==
  \A w \in Writers, id \in Projects :
    Seen(st, w, id) > 0 => /\ id \in Recorded(st)
                           /\ Seen(st, w, id) <= st.records[id].revision

ShownRecorded(st) ==
  \A w \in Writers, id \in Projects :
    Previous(st, w, id) # Absent => id \in Recorded(st)

Acknowledged(st) ==
  \A w \in Owners(st), id \in Recorded(st) :
    Seen(st, w, id) = st.records[id].revision
      => Previous(st, w, id) = Canonical(st)[id]

Sound(st) ==
  /\ RecordsSound(st)
  /\ SeenSound(st)
  /\ ShownRecorded(st)
  /\ Acknowledged(st)
  /\ ~st.initialized => st = EmptyState

LEMMA StateFacts ==
  ASSUME NEW st \in State, NEW id \in Projects
  PROVE  /\ st.revision \in Nat
         /\ st.records[id] # NoRecord => st.records[id] \in Record
         /\ id \in Recorded(st) <=> st.records[id] # NoRecord
         /\ \A w \in Writers : /\ Seen(st, w, id) \in Nat
                               /\ Previous(st, w, id) \in Contents \cup {Absent}
  BY DEF State, Baseline, Registry, Seen, Previous, Recorded

\* What the record of a project is after a batch.
LEMMA RewrittenFacts ==
  ASSUME NEW st \in State, NEW obs \in Observations, NEW id \in Projects,
         RecordsSound(st), SeenSound(st), Rewrites(st, obs, id)
  PROVE  LET r == NextRecords(st, obs)[id]
             e == Winner(st, obs, id)
         IN  /\ r \in Record
             /\ r # NoRecord
             /\ r.revision = st.revision + 1
             /\ r.baseRevision < r.revision
             /\ r.generation \in 1 .. r.revision
             /\ r.deleted = e.deleted
             /\ r.writer = e.writer
             /\ e \in Contenders(st, obs, id)
<1> DEFINE old == st.records[id]
           e == Winner(st, obs, id)
           r == NextRecords(st, obs)[id]
<1>1. e \in Contenders(st, obs, id)
  BY WinnerWins DEF Rewrites
<1>2. e \in Changes(st, obs, id)
  BY <1>1 DEF Contenders
<1>3. e \in Event /\ e.project \in Contents /\ e.writer \in Writers
  BY <1>2, ChangesType
<1>4. e.baseRevision = Seen(st, e.writer, id)
  BY <1>2, ChangesType
<1>5. st.revision \in Nat /\ e.baseRevision \in Nat /\ e.deleted \in BOOLEAN
  BY <1>3, StateFacts DEF Event
<1>6. old # NoRecord => /\ old \in Record
                        /\ old.revision \in 1 .. st.revision
                        /\ old.generation \in 1 .. old.revision
  BY StateFacts DEF RecordsSound
<1>7. e.baseRevision <= st.revision
  <2>1. CASE e.baseRevision = 0
    BY <1>5, <2>1
  <2>2. CASE e.baseRevision > 0
    <3>1. old # NoRecord /\ e.baseRevision <= old.revision
      BY <1>3, <1>4, <2>2 DEF SeenSound, Recorded
    <3>2. QED
      BY <1>5, <1>6, <3>1
  <2>3. QED
    BY <1>5, <2>1, <2>2
<1>8. r = Rewritten(old, e, st.revision + 1)
  BY DEF NextRecords
<1>9. r \in Record /\ r.generation \in 1 .. r.revision
  <2>1. old # NoRecord => old.project \in Contents /\ old.generation \in Nat
    BY <1>6 DEF Record
  <2>2. QED
    BY <1>3, <1>5, <1>6, <1>8, <2>1 DEF Rewritten, Record
<1>10. r # NoRecord
  BY <1>9, SentinelAssumption DEF Record
<1>11. QED
  BY <1>1, <1>5, <1>7, <1>8, <1>9, <1>10 DEF Rewritten

\* A change based on the current revision of a project is never dropped in
\* favour of what the journal holds: it, or a change that beats it, is recorded.
THEOREM CurrentChangeIsRecorded ==
  ASSUME NEW st \in State, NEW obs \in Observations, NEW id \in Projects,
         NEW w \in Writers, Sound(st), Changed(st, obs, w, id),
         st.records[id] # NoRecord,
         Seen(st, w, id) = st.records[id].revision
  PROVE  Rewrites(st, obs, id)
<1> DEFINE r == st.records[id]
           e == Change(st, obs, w, id)
           win == Winner(st, obs, id)
<1>1. /\ r \in Record /\ id \in Recorded(st)
      /\ r.revision \in Nat /\ r.revision > 0 /\ r.generation \in Nat
      /\ r.generation <= r.revision /\ r.deleted \in BOOLEAN
  BY StateFacts DEF Sound, RecordsSound, Recorded, Record
<1>2. w \in Owners(st)
  BY <1>1 DEF Seen, Owners
<1>3. Previous(st, w, id) = Canonical(st)[id]
  BY <1>1, <1>2 DEF Sound, Acknowledged
<1>4. e \in Changes(st, obs, id) /\ e \in Event
  BY ChangeType DEF Changes
<1>5. e.baseRevision = r.revision
  BY DEF Change
<1>6. Admissible(r, e)
  <2>1. CASE r.deleted
    <3>1. Previous(st, w, id) = Absent
      BY <1>3, <2>1 DEF Canonical, IsLive
    <3>2. obs[w][id] # Absent
      BY <3>1 DEF Changed
    <3>3. ~e.deleted /\ e.restore
      BY <1>2, <3>1, <3>2 DEF Change, Owners
    <3>4. QED
      BY <1>1, <1>5, <2>1, <3>3
      DEF Admissible, Repeated, StaleResurrection, UnacknowledgedGeneration, IsLive
  <2>2. CASE ~r.deleted
    BY <1>1, <1>5, <2>2
    DEF Admissible, Repeated, StaleResurrection, UnacknowledgedGeneration
  <2>3. QED
    BY <2>1, <2>2
<1>7. e \in Contenders(st, obs, id)
  BY <1>4, <1>6 DEF Contenders
<1>8. /\ win \in Contenders(st, obs, id)
      /\ win = e \/ Beats(win, e)
  BY <1>7, WinnerWins
<1>9. /\ win \in Changes(st, obs, id) /\ Admissible(r, win)
  BY <1>8 DEF Contenders
<1>10. /\ win \in Event /\ win.writer \in Writers
       /\ Changed(st, obs, win.writer, id)
       /\ win.baseRevision = Seen(st, win.writer, id)
       /\ ~win.deleted => win.project = obs[win.writer][id]
  BY <1>9, ChangesType
<1>11. win.baseRevision \in Nat /\ win.deleted \in BOOLEAN
       /\ e.baseRevision \in Nat /\ e.deleted \in BOOLEAN
  BY <1>4, <1>10 DEF Event
<1>12. ~Outranked(r, win)
  <2>1. CASE win.deleted
    BY <2>1 DEF Outranked
  <2>2. CASE ~win.deleted
    <3>1. win.baseRevision >= e.baseRevision
      BY <1>8, <1>11, <2>2 DEF Beats, HigherRank
    <3>2. QED
      BY <1>1, <1>5, <1>11, <3>1 DEF Outranked
  <2>3. QED
    BY <2>1, <2>2
<1>13. ~SameAsRecord(r, win)
  <2>1. SUFFICES ASSUME SameAsRecord(r, win)
                 PROVE  FALSE
    OBVIOUS
  <2>2. ~win.deleted /\ ~r.deleted /\ win.project = r.project
    BY <1>1, <1>9, <2>1 DEF SameAsRecord, Admissible, Repeated
  <2>3. win.baseRevision >= r.revision
    BY <1>5, <1>8, <1>11, <2>2 DEF Beats, HigherRank
  <2>5. Seen(st, win.writer, id) = r.revision
    BY <1>1, <1>10, <1>11, <2>3 DEF Sound, SeenSound
  <2>6. win.writer \in Owners(st)
    BY <1>1, <1>10, <2>5 DEF Seen, Owners
  <2>7. Previous(st, win.writer, id) = r.project
    BY <1>1, <2>2, <2>5, <2>6 DEF Sound, Acknowledged, Canonical, IsLive
  <2>8. obs[win.writer][id] # r.project
    BY <1>10, <2>7 DEF Changed
  <2>9. QED
    BY <1>10, <2>2, <2>8
<1>14. QED
  BY <1>8, <1>12, <1>13 DEF Rewrites

-----------------------------------------------------------------------------
(* One batch keeps the journal sound.                                       *)

\* What a batch leaves of a project's record.
LEMMA NextRecordFacts ==
  ASSUME NEW st \in State, NEW obs \in Observations, NEW id \in Projects,
         RecordsSound(st), SeenSound(st)
  PROVE  LET r == NextRecords(st, obs)[id]
         IN  /\ ~Rewrites(st, obs, id) => r = st.records[id]
             /\ Rewrites(st, obs, id) => r.revision = st.revision + 1
             /\ r # NoRecord => /\ r \in Record
                                /\ r.revision \in 1 .. st.revision + 1
                                /\ r.baseRevision < r.revision
                                /\ r.generation \in 1 .. r.revision
             /\ st.records[id] # NoRecord => r # NoRecord
<1>1. CASE Rewrites(st, obs, id)
  BY <1>1, RewrittenFacts, StateFacts
<1>2. CASE ~Rewrites(st, obs, id)
  <2>1. NextRecords(st, obs)[id] = st.records[id]
    BY <1>2 DEF NextRecords
  <2>2. QED
    BY <1>2, <2>1, StateFacts DEF RecordsSound, Record
<1>3. QED
  BY <1>1, <1>2

\* What a writer's baseline is after a batch.
LEMMA BaselineFacts ==
  ASSUME NEW st \in State, NEW obs \in Observations, Valid(obs) # {},
         RecordsSound(st), SeenSound(st),
         NEW w \in Writers, NEW id \in Projects
  PROVE  LET next == Reconcile(st, obs)
             r == NextRecords(st, obs)[id]
         IN  /\ next.profiles[w] \in Baseline \cup {NoProfile}
             /\ w \in Owners(next) <=> w \in Owners(st) \cup Valid(obs)
             /\ Previous(next, w, id) = IF w \in Valid(obs) THEN obs[w][id]
                                       ELSE Previous(st, w, id)
             /\ Seen(next, w, id) =
                  IF w \in Valid(obs) /\ Matches(r, obs[w][id])
                    THEN r.revision ELSE Seen(st, w, id)
<1> DEFINE next == Reconcile(st, obs)
           fresh == [observed |-> obs[w],
                     seen |-> [i \in Projects |->
                                 IF Matches(NextRecords(st, obs)[i], obs[w][i])
                                   THEN NextRecords(st, obs)[i].revision
                                   ELSE Seen(st, w, i)]]
<1>1. next.profiles = NextProfiles(st, obs)
  BY DEF Reconcile
<1>2. CASE w \in Valid(obs)
  <2>1. next.profiles[w] = fresh
    BY <1>1, <1>2 DEF NextProfiles
  <2>2. obs[w] \in Registry
    BY <1>2 DEF Valid, Observations
  <2>3. fresh \in Baseline /\ fresh # NoProfile
    <3>1. \A i \in Projects : Seen(st, w, i) \in Nat
      BY StateFacts
    <3>2. \A i \in Projects :
            Matches(NextRecords(st, obs)[i], obs[w][i])
              => NextRecords(st, obs)[i].revision \in Nat
      BY NextRecordFacts DEF Matches
    <3>3. fresh \in Baseline
      BY <2>2, <3>1, <3>2 DEF Baseline
    <3>4. QED
      BY <3>3, SentinelAssumption DEF Baseline, Registry
  <2>4. QED
    BY <1>2, <2>1, <2>3 DEF Owners, Previous, Seen
<1>3. CASE w \notin Valid(obs)
  <2>1. next.profiles[w] = st.profiles[w]
    BY <1>1, <1>3 DEF NextProfiles
  <2>2. QED
    BY <1>3, <2>1 DEF State, Owners, Previous, Seen
<1>4. QED
  BY <1>2, <1>3

\* A project that some readable registry lists is recorded.
LEMMA ShownIsRecorded ==
  ASSUME NEW st \in State, NEW obs \in Observations, Sound(st),
         NEW w \in Valid(obs), NEW id \in Projects, obs[w][id] # Absent
  PROVE  NextRecords(st, obs)[id] # NoRecord
<1>1. CASE st.records[id] # NoRecord
  BY <1>1, NextRecordFacts DEF Sound
<1>2. CASE st.records[id] = NoRecord
  <2> DEFINE e == Change(st, obs, w, id)
  <2>1. w \in Writers /\ Previous(st, w, id) = Absent
    BY <1>2 DEF Sound, ShownRecorded, Recorded, Valid
  <2>2. Changed(st, obs, w, id)
    BY <1>2, <2>1 DEF Changed, Newcomer
  <2>3. e \in Changes(st, obs, id)
    BY <2>1, <2>2 DEF Changes
  <2>4. e \in Contenders(st, obs, id)
    BY <1>2, <2>3
    DEF Contenders, Admissible, Repeated, StaleResurrection,
        UnacknowledgedGeneration, IsLive
  <2>5. Rewrites(st, obs, id)
    BY <1>2, <2>4 DEF Rewrites, Outranked, SameAsRecord, IsLive
  <2>6. QED
    BY <2>5, RewrittenFacts DEF Sound
<1>3. QED
  BY <1>1, <1>2

\* After a batch a writer is credited with the current revision of a project
\* only if it just showed that content, or if nothing changed.
LEMMA CurrentCredit ==
  ASSUME NEW st \in State, NEW obs \in Observations, Valid(obs) # {},
         Sound(st), NEW w \in Writers, NEW id \in Projects,
         NextRecords(st, obs)[id] # NoRecord,
         Seen(Reconcile(st, obs), w, id) = NextRecords(st, obs)[id].revision,
         ~(w \in Valid(obs) /\ Matches(NextRecords(st, obs)[id], obs[w][id]))
  PROVE  /\ ~Rewrites(st, obs, id)
         /\ NextRecords(st, obs)[id] = st.records[id]
         /\ st.records[id].revision > 0
         /\ Seen(st, w, id) = st.records[id].revision
<1> DEFINE r == NextRecords(st, obs)[id]
<1>1. RecordsSound(st) /\ SeenSound(st) /\ st.revision \in Nat
  BY DEF Sound, State
<1>2. Seen(st, w, id) = r.revision
  BY <1>1, BaselineFacts
<1>3. r.revision \in 1 .. st.revision + 1
  BY <1>1, NextRecordFacts
<1>4. id \in Recorded(st) /\ Seen(st, w, id) <= st.records[id].revision
  BY <1>1, <1>2, <1>3 DEF SeenSound
<1>5. st.records[id].revision \in 1 .. st.revision
  BY <1>1, <1>4 DEF RecordsSound
<1>6. ~Rewrites(st, obs, id)
  BY <1>1, <1>2, <1>3, <1>4, <1>5, NextRecordFacts
<1>7. r = st.records[id]
  BY <1>1, <1>6, NextRecordFacts
<1>8. QED
  BY <1>2, <1>5, <1>6, <1>7

\* The engine keeps the journal well formed and every credit justified.
THEOREM ReconcileSound ==
  ASSUME NEW st \in State, NEW obs \in Observations, Sound(st)
  PROVE  Reconcile(st, obs) \in State /\ Sound(Reconcile(st, obs))
<1> DEFINE next == Reconcile(st, obs)
           records == NextRecords(st, obs)
<1>1. CASE Valid(obs) = {}
  BY <1>1 DEF Reconcile
<1>2. CASE Valid(obs) # {}
  <2>1. /\ next.records = records
        /\ next.initialized = TRUE
        /\ next.profiles = NextProfiles(st, obs)
        /\ next.revision = IF \E id \in Projects : Rewrites(st, obs, id)
                             THEN st.revision + 1 ELSE st.revision
    BY <1>2 DEF Reconcile
  <2>2. st.revision \in Nat /\ next.revision \in Nat
        /\ st.revision <= next.revision
    BY <2>1 DEF State
  <2>3. RecordsSound(st) /\ SeenSound(st)
    BY DEF Sound
  <2>4. next \in State
    <3>1. records \in [Projects -> Record \cup {NoRecord}]
      <4>1. \A id \in Projects : records[id] \in Record \cup {NoRecord}
        BY <2>3, NextRecordFacts
      <4>2. QED
        BY <4>1 DEF NextRecords
    <3>2. next.profiles \in [Writers -> Baseline \cup {NoProfile}]
      <4>1. \A w \in Writers, id \in Projects :
              next.profiles[w] \in Baseline \cup {NoProfile}
        BY <1>2, <2>3, BaselineFacts
      <4>2. CASE Projects # {}
        BY <2>1, <4>1, <4>2 DEF NextProfiles
      <4>3. CASE Projects = {}
        <5>1. \A w \in Writers : NextProfiles(st, obs)[w] \in Baseline \cup {NoProfile}
          BY <4>3 DEF NextProfiles, State, Baseline, Observations, Valid
        <5>2. QED
          BY <2>1, <5>1 DEF NextProfiles
      <4>4. QED
        BY <4>2, <4>3
    <3>3. next = [initialized |-> TRUE, revision |-> next.revision,
                  records |-> records, profiles |-> next.profiles]
      BY <1>2 DEF Reconcile
    <3> DEFINE profiles == next.profiles
               revision == next.revision
    <3>4. revision \in Nat /\ profiles \in [Writers -> Baseline \cup {NoProfile}]
      BY <2>2, <3>2
    <3>5. next = [initialized |-> TRUE, revision |-> revision,
                  records |-> records, profiles |-> profiles]
      BY <3>3
    <3> HIDE DEF next, records, profiles, revision
    <3>6. QED
      BY <3>1, <3>4, <3>5 DEF State
  <2>5. RecordsSound(next)
    <3>1. SUFFICES ASSUME NEW id \in Recorded(next)
                   PROVE  LET r == records[id]
                          IN  /\ r.revision \in 1 .. next.revision
                              /\ r.baseRevision < r.revision
                              /\ r.generation \in 1 .. r.revision
      BY <2>1 DEF RecordsSound
    <3>2. id \in Projects /\ records[id] # NoRecord
      BY <2>1 DEF Recorded
    <3>3. CASE Rewrites(st, obs, id)
      <4>1. next.revision = st.revision + 1
        BY <2>1, <3>2, <3>3
      <4>2. QED
        BY <2>3, <3>2, <4>1, NextRecordFacts
    <3>4. CASE ~Rewrites(st, obs, id)
      <4>1. records[id] = st.records[id] /\ id \in Recorded(st)
        BY <2>3, <3>2, <3>4, NextRecordFacts DEF Recorded
      <4>2. QED
        BY <2>2, <2>3, <4>1 DEF RecordsSound
    <3>5. QED
      BY <3>3, <3>4
  <2>6. \A id \in Recorded(st) :
          /\ id \in Recorded(next)
          /\ st.records[id].revision \in Nat
          /\ records[id].revision \in Nat
          /\ st.records[id].revision <= records[id].revision
    <3>1. SUFFICES ASSUME NEW id \in Recorded(st)
                   PROVE  /\ id \in Recorded(next)
                          /\ st.records[id].revision \in Nat
                          /\ records[id].revision \in Nat
                          /\ st.records[id].revision <= records[id].revision
      OBVIOUS
    <3>2. id \in Projects /\ st.records[id] # NoRecord
          /\ st.records[id].revision \in 1 .. st.revision
      BY <2>3 DEF Recorded, RecordsSound
    <3>3. records[id] # NoRecord /\ records[id].revision \in 1 .. st.revision + 1
      BY <2>3, <3>2, NextRecordFacts
    <3>4. QED
      BY <2>1, <2>2, <2>3, <3>2, <3>3, NextRecordFacts DEF Recorded
  <2>7. SeenSound(next)
    <3>1. SUFFICES ASSUME NEW w \in Writers, NEW id \in Projects,
                          Seen(next, w, id) > 0
                   PROVE  /\ id \in Recorded(next)
                          /\ Seen(next, w, id) <= records[id].revision
      BY <2>1 DEF SeenSound
    <3>2. CASE w \in Valid(obs) /\ Matches(records[id], obs[w][id])
      <4>1. Seen(next, w, id) = records[id].revision /\ records[id] # NoRecord
        BY <1>2, <2>3, <3>2, BaselineFacts DEF Matches
      <4>2. records[id].revision \in Nat
        BY <2>3, <4>1, NextRecordFacts, <2>2
      <4>3. QED
        BY <2>1, <4>1, <4>2 DEF Recorded
    <3>3. CASE ~(w \in Valid(obs) /\ Matches(records[id], obs[w][id]))
      <4>1. Seen(next, w, id) = Seen(st, w, id)
        BY <1>2, <2>3, <3>3, BaselineFacts
      <4>2. id \in Recorded(st) /\ Seen(st, w, id) <= st.records[id].revision
        BY <2>3, <3>1, <4>1 DEF SeenSound
      <4>3. QED
        BY <2>6, <4>1, <4>2, StateFacts
    <3>4. QED
      BY <3>2, <3>3
  <2>8. ShownRecorded(next)
    <3>1. SUFFICES ASSUME NEW w \in Writers, NEW id \in Projects,
                          Previous(next, w, id) # Absent
                   PROVE  id \in Recorded(next)
      BY DEF ShownRecorded
    <3>2. CASE w \in Valid(obs)
      <4>1. obs[w][id] # Absent
        BY <1>2, <2>3, <3>1, <3>2, BaselineFacts
      <4>2. QED
        BY <2>1, <3>2, <4>1, ShownIsRecorded DEF Recorded
    <3>3. CASE w \notin Valid(obs)
      <4>1. Previous(st, w, id) # Absent
        BY <1>2, <2>3, <3>1, <3>3, BaselineFacts
      <4>2. QED
        BY <2>6, <4>1 DEF Sound, ShownRecorded
    <3>4. QED
      BY <3>2, <3>3
  <2>9. Acknowledged(next)
    <3> SUFFICES ASSUME NEW w \in Owners(next), NEW id \in Recorded(next),
                        Seen(next, w, id) = records[id].revision
                 PROVE  Previous(next, w, id) = Canonical(next)[id]
      BY <2>1 DEF Acknowledged
    <3>1. /\ w \in Writers /\ id \in Projects /\ records[id] # NoRecord
          /\ Canonical(next)[id] = IF records[id].deleted THEN Absent
                                   ELSE records[id].project
      BY <2>1 DEF Owners, Recorded, Canonical, IsLive
    <3>2. CASE w \in Valid(obs) /\ Matches(records[id], obs[w][id])
      <4>1. Previous(next, w, id) = obs[w][id]
        BY <1>2, <2>3, <3>1, <3>2, BaselineFacts
      <4>2. QED
        BY <3>1, <3>2, <4>1 DEF Matches
    <3>3. CASE ~(w \in Valid(obs) /\ Matches(records[id], obs[w][id]))
      <4>1. /\ Seen(st, w, id) = records[id].revision
            /\ records[id] = st.records[id] /\ records[id].revision > 0
            /\ ~Rewrites(st, obs, id)
        BY <1>2, <2>1, <3>1, <3>3, CurrentCredit
      <4>7. w \in Owners(st)
        BY <3>1, <4>1 DEF Seen, Owners
      <4>8. Previous(st, w, id) = Canonical(st)[id]
        BY <3>1, <4>1, <4>7 DEF Sound, Acknowledged, Recorded
      <4>9. Canonical(st)[id] = Canonical(next)[id]
        BY <3>1, <4>1 DEF Canonical, IsLive
      <4>10. CASE w \in Valid(obs)
        <5>1. ~Matches(records[id], obs[w][id])
          BY <3>3, <4>10
        <5>2. obs[w][id] # Previous(st, w, id)
          BY <3>1, <4>8, <4>9, <5>1 DEF Matches
        <5>3. Changed(st, obs, w, id)
          BY <4>7, <4>10, <5>2 DEF Changed, Newcomer, Owners
        <5>4. QED
          BY <3>1, <4>1, <5>3, CurrentChangeIsRecorded
      <4>11. CASE w \notin Valid(obs)
        BY <1>2, <2>3, <3>1, <4>8, <4>9, <4>11, BaselineFacts
      <4>12. QED
        BY <4>10, <4>11
    <3>4. QED
      BY <3>2, <3>3
  <2>10. QED
    BY <2>1, <2>4, <2>5, <2>7, <2>8, <2>9 DEF Sound
<1>3. QED
  BY <1>1, <1>2

\* So does an acknowledgement of the canonical list.
THEOREM MarkedSound ==
  ASSUME NEW st \in State, NEW w \in Writers, Sound(st), st.initialized
  PROVE  /\ Marked(st, w, Canonical(st)) \in State
         /\ Sound(Marked(st, w, Canonical(st)))
<1> DEFINE next == Marked(st, w, Canonical(st))
           b == [observed |-> Canonical(st),
                 seen |-> [id \in Projects |->
                             IF st.records[id] = NoRecord THEN 0
                             ELSE st.records[id].revision]]
<1>1. Canonical(st) \in Registry
  BY DEF Canonical, Registry, State, Record, IsLive
<1>2. b \in Baseline /\ b # NoProfile
  <2>1. b.seen \in [Projects -> Nat]
    BY DEF State, Record
  <2>2. b \in Baseline
    BY <1>1, <2>1 DEF Baseline
  <2>3. QED
    BY <2>2, SentinelAssumption DEF Baseline, Registry
<1> HIDE DEF b
<1>3. next = [st EXCEPT !.profiles[w] = b]
  BY DEF Marked, b
<1>4. /\ next.records = st.records /\ next.revision = st.revision
      /\ next.initialized = st.initialized
      /\ next.profiles = [st.profiles EXCEPT ![w] = b]
  BY <1>3 DEF State
<1>5. next \in State
  BY <1>2, <1>3 DEF State
<1>6. \A v \in Writers, id \in Projects :
        v # w => /\ Seen(next, v, id) = Seen(st, v, id)
                 /\ Previous(next, v, id) = Previous(st, v, id)
                 /\ v \in Owners(next) => v \in Owners(st)
  BY <1>4 DEF State, Seen, Previous, Owners
<1>7. \A id \in Projects :
        /\ Previous(next, w, id) = Canonical(st)[id]
        /\ Seen(next, w, id) = IF st.records[id] = NoRecord THEN 0
                               ELSE st.records[id].revision
  <2>1. next.profiles[w] = b
    BY <1>4 DEF State
  <2>2. QED
    BY <1>2, <2>1 DEF Seen, Previous, b
<1>8. Recorded(next) = Recorded(st) /\ Canonical(next) = Canonical(st)
  BY <1>4 DEF Recorded, Canonical
<1>9. RecordsSound(next)
  BY <1>4, <1>8 DEF Sound, RecordsSound
<1>10. SeenSound(next)
  <2>1. SUFFICES ASSUME NEW v \in Writers, NEW id \in Projects,
                        Seen(next, v, id) > 0
                 PROVE  /\ id \in Recorded(st)
                        /\ Seen(next, v, id) <= st.records[id].revision
    BY <1>4, <1>8 DEF SeenSound
  <2>2. CASE v = w
    BY <1>7, <2>1, <2>2, StateFacts DEF Record
  <2>3. CASE v # w
    BY <1>6, <2>1, <2>3 DEF Sound, SeenSound
  <2>4. QED
    BY <2>2, <2>3
<1>11. ShownRecorded(next)
  <2>1. SUFFICES ASSUME NEW v \in Writers, NEW id \in Projects,
                        Previous(next, v, id) # Absent
                 PROVE  id \in Recorded(st)
    BY <1>8 DEF ShownRecorded
  <2>2. CASE v = w
    BY <1>7, <2>1, <2>2 DEF Canonical, IsLive, Recorded
  <2>3. CASE v # w
    BY <1>6, <2>1, <2>3 DEF Sound, ShownRecorded
  <2>4. QED
    BY <2>2, <2>3
<1>12. Acknowledged(next)
  <2>1. SUFFICES ASSUME NEW v \in Owners(next), NEW id \in Recorded(st),
                        Seen(next, v, id) = st.records[id].revision
                 PROVE  Previous(next, v, id) = Canonical(st)[id]
    BY <1>4, <1>8 DEF Acknowledged
  <2>2. v \in Writers /\ id \in Projects
    BY DEF Owners, Recorded
  <2>3. CASE v = w
    BY <1>7, <2>2, <2>3
  <2>4. CASE v # w
    BY <1>6, <2>1, <2>2, <2>4 DEF Sound, Acknowledged
  <2>5. QED
    BY <2>3, <2>4
<1>13. QED
  BY <1>4, <1>5, <1>9, <1>10, <1>11, <1>12 DEF Sound

-----------------------------------------------------------------------------
(* What a batch may do to the records.                                      *)

\* No record disappears, revisions and generations grow, and a record that
\* changes gets a new revision.
THEOREM RecordsAdvance ==
  ASSUME NEW st \in State, NEW obs \in Observations, Sound(st),
         NEW id \in Recorded(st)
  PROVE  LET r == st.records[id]
             s == Reconcile(st, obs).records[id]
         IN  /\ s # NoRecord
             /\ s.generation >= r.generation
             /\ s # r => s.revision > st.revision
<1> DEFINE r == st.records[id]
           s == NextRecords(st, obs)[id]
<1>1. id \in Projects /\ r # NoRecord /\ r \in Record
      /\ RecordsSound(st) /\ SeenSound(st) /\ st.revision \in Nat
      /\ r.generation \in 1 .. st.revision
  <2>1. id \in Projects /\ r # NoRecord /\ RecordsSound(st) /\ SeenSound(st)
    BY DEF Recorded, Sound
  <2>2. st.revision \in Nat /\ r \in Record
    BY <2>1, StateFacts
  <2>3. r.revision \in 1 .. st.revision /\ r.generation \in 1 .. r.revision
    BY <2>1 DEF RecordsSound
  <2>4. QED
    BY <2>1, <2>2, <2>3
<1>2. /\ s # NoRecord
      /\ s.generation >= r.generation
      /\ s # r => s.revision > st.revision
  <2>1. CASE Rewrites(st, obs, id)
    <3>1. s = Rewritten(r, Winner(st, obs, id), st.revision + 1)
      BY <1>1, <2>1 DEF NextRecords
    <3>2. s.generation \in {st.revision + 1, r.generation}
          /\ s.revision = st.revision + 1
      BY <3>1 DEF Rewritten
    <3>3. s # NoRecord
      BY <1>1, NextRecordFacts
    <3>4. QED
      BY <1>1, <3>2, <3>3
  <2>2. CASE ~Rewrites(st, obs, id)
    BY <1>1, <2>2, NextRecordFacts
  <2>3. QED
    BY <2>1, <2>2
<1>3. Reconcile(st, obs).records[id] \in {s, r}
  BY DEF Reconcile
<1>4. QED
  BY <1>1, <1>2, <1>3

\* A tombstone becomes live only through a writer of the batch that lists the
\* project again after it was credited with the deletion.
THEOREM RevivalNeedsCredit ==
  ASSUME NEW st \in State, NEW obs \in Observations, Sound(st),
         NEW id \in Projects,
         st.records[id] # NoRecord, st.records[id].deleted,
         IsLive(Reconcile(st, obs).records[id])
  PROVE  LET w == Reconcile(st, obs).records[id].writer
         IN  /\ w \in Valid(obs)
             /\ obs[w][id] # Absent
             /\ Seen(st, w, id) = st.records[id].revision
<1> DEFINE old == st.records[id]
           r == NextRecords(st, obs)[id]
           e == Winner(st, obs, id)
<1>1. RecordsSound(st) /\ SeenSound(st) /\ id \in Recorded(st)
      /\ old.revision \in Nat
  BY StateFacts DEF Sound, Recorded, Record
<1>2. Reconcile(st, obs).records[id] = r /\ Rewrites(st, obs, id)
  BY <1>1, NextRecordFacts DEF Reconcile, IsLive
<1>3. r.writer = e.writer /\ r.deleted = e.deleted
      /\ e \in Contenders(st, obs, id)
  BY <1>1, <1>2, RewrittenFacts
<1>4. e \in Changes(st, obs, id) /\ ~StaleResurrection(old, e)
  BY <1>3 DEF Contenders, Admissible
<1>5. /\ e.writer \in Writers /\ e.writer \in Valid(obs)
      /\ e.baseRevision = Seen(st, e.writer, id)
      /\ ~e.deleted => obs[e.writer][id] # Absent
  BY <1>4, ChangesType DEF Changed
<1>6. ~e.deleted
  BY <1>2, <1>3 DEF IsLive
<1>7. ~(e.baseRevision < old.revision)
  BY <1>4, <1>6 DEF StaleResurrection
<1>8. Seen(st, e.writer, id) \in Nat
  BY <1>5, StateFacts
<1>9. Seen(st, e.writer, id) <= old.revision
  BY <1>1, <1>5, <1>8, StateFacts DEF SeenSound
<1>10. QED
  BY <1>1, <1>2, <1>3, <1>5, <1>6, <1>7, <1>8, <1>9

-----------------------------------------------------------------------------
(* The limits of the journal.                                               *)

WithinLimits(st) ==
  /\ st.revision <= MaxRevision
  /\ Cardinality(Recorded(st)) <= MaxIds
  /\ Cardinality(Live(st)) <= MaxLive
  /\ Cardinality(Owners(st)) <= MaxOwners

LEMMA SoundWithinLimitsIsValid ==
  ASSUME NEW st \in State, Sound(st), WithinLimits(st)
  PROVE  StateValid(st)
<1>1. \A w \in Owners(st), id \in Projects :
        LET seen == st.profiles[w].seen[id]
        IN  seen > 0 => /\ id \in Recorded(st)
                        /\ seen <= st.records[id].revision
  <2>1. \A w \in Owners(st), id \in Projects :
          w \in Writers /\ Seen(st, w, id) = st.profiles[w].seen[id]
    BY DEF Owners, Seen
  <2>2. QED
    BY <2>1 DEF Sound, SeenSound
<1>2. QED
  BY <1>1 DEF StateValid, Sound, RecordsSound, WithinLimits

LEMMA SmallerSet ==
  ASSUME NEW T, IsFiniteSet(T), NEW S \in SUBSET T, NEW n \in Nat,
         Cardinality(T) <= n
  PROVE  Cardinality(S) <= n
  BY FS_Subset, FS_CardinalityType

\* The size checks made before a batch are enough: the journal after it is
\* within every limit.
THEOREM ReconcileValid ==
  ASSUME NEW st \in State, NEW obs \in Observations, Sound(st),
         Accepts(st, obs)
  PROVE  WithinLimits(Reconcile(st, obs))
<1> DEFINE next == Reconcile(st, obs)
           records == NextRecords(st, obs)
           shown == {id \in Projects : \E w \in Valid(obs) : obs[w][id] # Absent}
<1>1. CASE Valid(obs) = {}
  BY <1>1 DEF Reconcile, Accepts, StateValid, WithinLimits
<1>2. CASE Valid(obs) # {}
  <2>1. next.records = records /\ RecordsSound(st) /\ SeenSound(st)
    BY <1>2 DEF Reconcile, Sound
  <2>2. \A id \in Projects : Rewrites(st, obs, id) =>
          /\ records[id].deleted => id \in Recorded(st)
          /\ ~records[id].deleted => id \in shown
    <3>1. SUFFICES ASSUME NEW id \in Projects, Rewrites(st, obs, id)
                   PROVE  /\ records[id].deleted => id \in Recorded(st)
                          /\ ~records[id].deleted => id \in shown
      OBVIOUS
    <3> DEFINE e == Winner(st, obs, id)
    <3>2. records[id].deleted = e.deleted /\ e \in Changes(st, obs, id)
      BY <2>1, <3>1, RewrittenFacts DEF Contenders
    <3>3. /\ e.writer \in Writers /\ e.writer \in Valid(obs)
          /\ e.deleted <=> obs[e.writer][id] = Absent
          /\ obs[e.writer][id] # Previous(st, e.writer, id)
      BY <3>2, ChangesType DEF Changed
    <3>4. e.deleted => id \in Recorded(st)
      BY <3>3 DEF Sound, ShownRecorded
    <3>5. QED
      BY <3>2, <3>3, <3>4
  <2>3. Recorded(next) \subseteq Recorded(st) \cup shown
    <3>1. SUFFICES ASSUME NEW id \in Projects, records[id] # NoRecord,
                          id \notin Recorded(st)
                   PROVE  id \in shown
      BY <2>1 DEF Recorded
    <3>2. Rewrites(st, obs, id)
      BY <2>1, <3>1, NextRecordFacts DEF Recorded
    <3>3. QED
      BY <2>1, <2>2, <3>1, <3>2, RewrittenFacts
  <2>4. Live(next) \subseteq Live(st) \cup shown
    <3>1. SUFFICES ASSUME NEW id \in Projects, IsLive(records[id]), id \notin Live(st)
                   PROVE  id \in shown
      BY <2>1 DEF Live
    <3>2. Rewrites(st, obs, id)
      BY <2>1, <3>1, NextRecordFacts DEF Live
    <3>3. QED
      BY <2>1, <2>2, <3>1, <3>2, RewrittenFacts DEF IsLive
  <2>5. Owners(next) \subseteq Owners(st) \cup Valid(obs)
    <3>1. CASE Projects = {}
      BY <1>2, <3>1 DEF Reconcile, NextProfiles, Owners
    <3>2. CASE Projects # {}
      BY <1>2, <2>1, <3>2, BaselineFacts DEF Owners
    <3>3. QED
      BY <3>1, <3>2
  <2>6. /\ Recorded(st) \cup shown \in SUBSET Projects
        /\ Live(st) \cup shown \in SUBSET Projects
        /\ Owners(st) \cup Valid(obs) \in SUBSET Writers
    BY DEF Recorded, Live, Owners, Valid
  <2>7. /\ IsFiniteSet(Recorded(st) \cup shown)
        /\ IsFiniteSet(Live(st) \cup shown)
        /\ IsFiniteSet(Owners(st) \cup Valid(obs))
    BY ONLY <2>6, FiniteAssumption, FS_Subset
  <2>8. /\ Cardinality(Recorded(st) \cup shown) <= MaxIds
        /\ Cardinality(Live(st) \cup shown) <= MaxLive
        /\ Cardinality(Owners(st) \cup Valid(obs)) <= MaxOwners
    BY <1>2 DEF Accepts, WithinCapacity
  <2>9. next.revision <= MaxRevision
    BY <1>2, LimitAssumption DEF Reconcile, Accepts, State
  <2> HIDE DEF next, shown
  <2>10. Cardinality(Recorded(next)) <= MaxIds
    BY ONLY <2>3, <2>7, <2>8, SmallerSet, LimitAssumption
  <2>11. Cardinality(Live(next)) <= MaxLive
    BY ONLY <2>4, <2>7, <2>8, SmallerSet, LimitAssumption
  <2>12. Cardinality(Owners(next)) <= MaxOwners
    BY ONLY <2>5, <2>7, <2>8, SmallerSet, LimitAssumption
  <2>13. QED
    BY <2>9, <2>10, <2>11, <2>12 DEF WithinLimits, next
<1>3. QED
  BY <1>1, <1>2

\* So is the journal after an acknowledgement.
THEOREM MarkedValid ==
  ASSUME NEW st \in State, NEW w \in Writers, CanMark(st, w, Canonical(st))
  PROVE  WithinLimits(Marked(st, w, Canonical(st)))
<1> DEFINE next == Marked(st, w, Canonical(st))
<1>1. /\ next.records = st.records /\ next.revision = st.revision
      /\ \A v \in Writers : v # w => next.profiles[v] = st.profiles[v]
  BY DEF Marked, State
<1>2. Recorded(next) = Recorded(st) /\ Live(next) = Live(st)
  BY <1>1 DEF Recorded, Live
<1>3. WithinLimits(st)
  BY DEF CanMark, StateValid, WithinLimits
<1>4. Owners(next) \subseteq Owners(st) \cup {w}
  BY <1>1 DEF Owners
<1>5. Owners(st) \in SUBSET Writers /\ Owners(st) \cup {w} \in SUBSET Writers
  BY DEF Owners
<1>6. IsFiniteSet(Owners(st)) /\ IsFiniteSet(Owners(st) \cup {w})
  BY ONLY <1>5, FiniteAssumption, FS_Subset
<1>7. Cardinality(Owners(st)) \in Nat
  BY ONLY <1>6, FS_CardinalityType
<1>8. Cardinality(Owners(st) \cup {w}) <= MaxOwners
  <2>1. CASE w \in Owners(st)
    <3>1. Owners(st) \cup {w} = Owners(st)
      BY <2>1
    <3>2. QED
      BY <1>3, <3>1 DEF WithinLimits
  <2>2. CASE w \notin Owners(st)
    <3>1. Cardinality(Owners(st)) < MaxOwners
      BY <2>2 DEF CanMark
    <3>2. Cardinality(Owners(st) \cup {w}) = Cardinality(Owners(st)) + 1
      BY ONLY <1>6, <2>2, FS_AddElement
    <3>3. QED
      BY <1>7, <3>1, <3>2, LimitAssumption
  <2>3. QED
    BY <2>1, <2>2
<1> HIDE DEF next
<1>9. Cardinality(Owners(next)) <= MaxOwners
  BY ONLY <1>4, <1>6, <1>8, SmallerSet, LimitAssumption
<1>10. QED
  BY <1>1, <1>2, <1>3, <1>9 DEF WithinLimits, next

\* A participant credited with a deletion has been without the project since.
DroppedSound ==
  \A p \in Profiles, id \in Projects :
    /\ IsTombstone(state.records[id])
    /\ Seen(state, p, id) = state.records[id].revision
    => id \in dropped[p]

IndInv ==
  /\ TypeOK
  /\ Sound(state)
  /\ WithinLimits(state)
  /\ DroppedSound

-----------------------------------------------------------------------------
(* The state a submission of a service writer produces.                     *)

Submitted(st, w, list) ==
  Reconcile(Marked(st, w, Canonical(st)), OnlyFrom(w, list))

LEMMA OnlyFromFacts ==
  ASSUME NEW w \in Writers, NEW list \in Registry
  PROVE  /\ OnlyFrom(w, list) \in Observations
         /\ Valid(OnlyFrom(w, list)) = {w}
         /\ OnlyFrom(w, list)[w] = list
<1>1. list # Unavailable
  BY SentinelAssumption DEF Registry
<1>2. QED
  BY <1>1 DEF OnlyFrom, Observations, Valid

LEMMA MarkedFacts ==
  ASSUME NEW st \in State, NEW w \in Writers
  PROVE  LET m == Marked(st, w, Canonical(st))
         IN  /\ m.records = st.records
             /\ m.revision = st.revision
             /\ \A v \in Writers, id \in Projects :
                  v # w => Seen(m, v, id) = Seen(st, v, id)
<1>1. /\ Marked(st, w, Canonical(st)).records = st.records
      /\ Marked(st, w, Canonical(st)).revision = st.revision
      /\ \A v \in Writers : v # w =>
           Marked(st, w, Canonical(st)).profiles[v] = st.profiles[v]
  BY DEF Marked, State
<1>2. QED
  BY <1>1 DEF Seen

\* The journal after a submission, and what it kept of the journal before.
LEMMA SubmittedFacts ==
  ASSUME NEW st \in State, Sound(st), NEW w \in Writers, NEW list \in Registry,
         CanMark(st, w, Canonical(st)),
         Accepts(Marked(st, w, Canonical(st)), OnlyFrom(w, list))
  PROVE  LET n == Submitted(st, w, list)
         IN  /\ n \in State /\ Sound(n) /\ WithinLimits(n)
             /\ \A id \in Recorded(st) :
                  /\ n.records[id] # NoRecord
                  /\ n.records[id].generation >= st.records[id].generation
                  /\ n.records[id] # st.records[id]
                       => n.records[id].revision > st.revision
             /\ \A id \in Projects :
                  IsTombstone(st.records[id]) /\ IsLive(n.records[id])
                    => list[id] # Absent
             /\ \A v \in Writers \ {w}, id \in Projects :
                  /\ n.records[id] # NoRecord
                  /\ Seen(n, v, id) = n.records[id].revision
                  => /\ n.records[id] = st.records[id]
                     /\ Seen(st, v, id) = st.records[id].revision
<1> DEFINE m == Marked(st, w, Canonical(st))
           obs == OnlyFrom(w, list)
           n == Reconcile(m, obs)
<1>1. m \in State /\ Sound(m)
  BY MarkedSound DEF CanMark
<1>2. /\ obs \in Observations /\ Valid(obs) = {w} /\ obs[w] = list
  BY OnlyFromFacts
<1>3. /\ m.records = st.records /\ m.revision = st.revision
      /\ \A v \in Writers, id \in Projects :
           v # w => Seen(m, v, id) = Seen(st, v, id)
  BY MarkedFacts
<1>4. Recorded(m) = Recorded(st)
  BY <1>3 DEF Recorded
<1>5. Accepts(m, obs)
  OBVIOUS
<1> HIDE DEF m, obs
<1>6. n \in State /\ Sound(n)
  BY <1>1, <1>2, ReconcileSound
<1>7. WithinLimits(n)
  BY <1>1, <1>2, <1>5, ReconcileValid
<1>8. \A id \in Recorded(st) :
        /\ n.records[id] # NoRecord
        /\ n.records[id].generation >= st.records[id].generation
        /\ n.records[id] # st.records[id] => n.records[id].revision > st.revision
  BY <1>1, <1>2, <1>3, <1>4, RecordsAdvance
<1>9. \A id \in Projects :
        IsTombstone(st.records[id]) /\ IsLive(n.records[id]) => list[id] # Absent
  BY <1>1, <1>2, <1>3, RevivalNeedsCredit DEF IsTombstone
<1>10. \A v \in Writers \ {w}, id \in Projects :
         /\ n.records[id] # NoRecord
         /\ Seen(n, v, id) = n.records[id].revision
         => /\ n.records[id] = st.records[id]
            /\ Seen(st, v, id) = st.records[id].revision
  <2>1. n.records = NextRecords(m, obs)
    BY <1>2 DEF Reconcile
  <2>2. QED
    BY <1>1, <1>2, <1>3, <2>1, CurrentCredit
<1>11. QED
  BY <1>6, <1>7, <1>8, <1>9, <1>10 DEF Submitted, m, obs

-----------------------------------------------------------------------------
(* The inductive invariant.                                                 *)

LEMMA ObservationOfFacts ==
  ASSUME TypeOK, NEW P \in SUBSET Profiles
  PROVE  /\ ObservationOf(P) \in Observations
         /\ \A w \in Valid(ObservationOf(P)) :
              w \in P /\ ObservationOf(P)[w] = registry[w]
  BY GroupAssumption DEF ObservationOf, Observations, Valid, TypeOK

LEMMA InitInv == Init => IndInv
<1> SUFFICES ASSUME Init PROVE IndInv
  OBVIOUS
<1>1. state \in State /\ state = EmptyState
  BY DEF Init, EmptyState, State
<1>2. TypeOK
  BY <1>1, GroupAssumption DEF Init, TypeOK
<1>3. Recorded(state) = {} /\ Live(state) = {} /\ Owners(state) = {}
  BY <1>1 DEF EmptyState, Recorded, Live, Owners, IsLive
<1>4. \A w \in Writers, id \in Projects :
        Seen(state, w, id) = 0 /\ Previous(state, w, id) = Absent
  BY <1>1 DEF EmptyState, Seen, Previous
<1>5. Sound(state)
  BY <1>1, <1>3, <1>4
  DEF Sound, RecordsSound, SeenSound, ShownRecorded, Acknowledged
<1>6. WithinLimits(state)
  <2>1. Cardinality({}) = 0
    BY FS_EmptySet
  <2>2. state.revision = 0
    BY <1>1 DEF EmptyState
  <2>3. QED
    BY <1>3, <2>1, <2>2, LimitAssumption DEF WithinLimits
<1>7. DroppedSound
  BY <1>1 DEF DroppedSound, EmptyState, IsTombstone
<1>8. QED
  BY <1>2, <1>5, <1>6, <1>7 DEF IndInv

\* What the history variable is after a step.
LEMMA DroppedStep ==
  ASSUME RecordDropped, NEW p \in Profiles, NEW id \in Projects,
         IsTombstone(state'.records[id]),
         \/ registry'[p][id] = Absent
         \/ id \in dropped[p] /\ state'.records[id] = state.records[id]
  PROVE  id \in dropped'[p]
  BY DEF RecordDropped

LEMMA DroppedType ==
  ASSUME RecordDropped
  PROVE  dropped' \in [Profiles -> SUBSET Projects]
  BY DEF RecordDropped

\* Steps that leave the journal alone.
LEMMA QuietStep ==
  ASSUME IndInv, RecordDropped, state' = state
  PROVE  Sound(state)' /\ WithinLimits(state)' /\ DroppedSound'
<1>1. Sound(state') /\ WithinLimits(state')
  BY DEF IndInv
<1>2. DroppedSound'
  <2>1. SUFFICES ASSUME NEW p \in Profiles, NEW id \in Projects,
                        IsTombstone(state.records[id]),
                        Seen(state, p, id) = state.records[id].revision
                 PROVE  id \in dropped'[p]
    BY DEF DroppedSound
  <2>2. id \in dropped[p]
    BY <2>1 DEF IndInv, DroppedSound
  <2>3. QED
    BY <2>1, <2>2, DroppedStep
<1>3. QED
  BY <1>1, <1>2

LEMMA ObserveInv ==
  ASSUME IndInv, RecordDropped, NEW P \in SUBSET Profiles, Observe(P)
  PROVE  IndInv'
<1> DEFINE obs == ObservationOf(P)
<1>1. obs \in Observations /\ state \in State /\ Sound(state)
      /\ Accepts(state, obs) /\ state' = Reconcile(state, obs)
  BY ObservationOfFacts DEF IndInv, TypeOK, Observe
<1>2. state' \in State /\ Sound(state')
  BY <1>1, ReconcileSound
<1>3. WithinLimits(state')
  BY <1>1, ReconcileValid
<1>4. TypeOK'
  BY <1>2, DroppedType DEF IndInv, TypeOK, Observe
<1>5. DroppedSound'
  <2>1. SUFFICES ASSUME NEW p \in Profiles, NEW id \in Projects,
                        IsTombstone(state'.records[id]),
                        Seen(state', p, id) = state'.records[id].revision
                 PROVE  id \in dropped'[p]
    BY DEF DroppedSound
  <2>2. p \in Writers /\ registry' = registry
    BY GroupAssumption DEF Observe
  <2>3. CASE Valid(obs) = {}
    <3>1. state' = state
      BY <1>1, <2>3 DEF Reconcile
    <3>2. QED
      BY <3>1, QuietStep, <2>1 DEF DroppedSound
  <2>4. CASE Valid(obs) # {}
    <3>1. state'.records = NextRecords(state, obs)
      BY <1>1, <2>4 DEF Reconcile
    <3>2. CASE p \in Valid(obs) /\ Matches(state'.records[id], obs[p][id])
      <4>1. registry'[p][id] = Absent
        BY <2>1, <2>2, <3>2, ObservationOfFacts DEF Matches, IsTombstone, IndInv
      <4>2. QED
        BY <2>1, <4>1, DroppedStep
    <3>3. CASE ~(p \in Valid(obs) /\ Matches(state'.records[id], obs[p][id]))
      <4>1. /\ state'.records[id] = state.records[id]
            /\ Seen(state, p, id) = state.records[id].revision
        BY <1>1, <2>1, <2>2, <2>4, <3>1, <3>3, CurrentCredit DEF IsTombstone
      <4>2. id \in dropped[p]
        BY <2>1, <4>1 DEF IndInv, DroppedSound
      <4>3. QED
        BY <2>1, <4>1, <4>2, DroppedStep
    <3>4. QED
      BY <3>2, <3>3
  <2>5. QED
    BY <2>3, <2>4
<1>6. QED
  BY <1>2, <1>3, <1>4, <1>5 DEF IndInv

LEMMA CanonicalType ==
  ASSUME NEW st \in State
  PROVE  Canonical(st) \in Registry
  BY DEF Canonical, Registry, State, Record, IsLive

LEMMA ApplyInv ==
  ASSUME IndInv, RecordDropped, NEW p \in Profiles, Apply(p)
  PROVE  IndInv'
<1>1. /\ state \in State /\ Sound(state) /\ p \in Writers
      /\ CanMark(state, p, Canonical(state)) /\ state.initialized
      /\ state' = Marked(state, p, Canonical(state))
      /\ registry' = [registry EXCEPT ![p] = Canonical(state)]
  BY GroupAssumption DEF IndInv, TypeOK, Apply, Writable, CanMark
<1>2. state' \in State /\ Sound(state')
  BY <1>1, MarkedSound
<1>3. WithinLimits(state')
  BY <1>1, MarkedValid
<1>4. TypeOK'
  BY <1>1, <1>2, DroppedType, CanonicalType DEF IndInv, TypeOK, Apply
<1>5. DroppedSound'
  <2>1. SUFFICES ASSUME NEW q \in Profiles, NEW id \in Projects,
                        IsTombstone(state'.records[id]),
                        Seen(state', q, id) = state'.records[id].revision
                 PROVE  id \in dropped'[q]
    BY DEF DroppedSound
  <2>2. state'.records = state.records
    BY <1>1, MarkedFacts
  <2>3. CASE q = p
    <3>1. registry'[q][id] = Absent
      BY <1>1, <2>1, <2>2, <2>3
      DEF IndInv, TypeOK, Canonical, IsLive, IsTombstone
    <3>2. QED
      BY <2>1, <3>1, DroppedStep
  <2>4. CASE q # p
    <3>1. Seen(state, q, id) = state.records[id].revision
      BY <1>1, <2>1, <2>2, <2>4, MarkedFacts, GroupAssumption
    <3>2. id \in dropped[q]
      BY <2>1, <2>2, <3>1 DEF IndInv, DroppedSound
    <3>3. QED
      BY <2>1, <2>2, <3>2, DroppedStep
  <2>5. QED
    BY <2>3, <2>4
<1>6. QED
  BY <1>2, <1>3, <1>4, <1>5 DEF IndInv

\* A service writer's submission, whatever list it submits.
LEMMA SubmitInv ==
  ASSUME IndInv, RecordDropped, NEW w \in Writers \ Profiles,
         NEW list \in Registry, Submit(w, list), UNCHANGED registry
  PROVE  /\ state' \in State /\ Sound(state') /\ WithinLimits(state')
         /\ DroppedSound'
<1>1. /\ state \in State /\ Sound(state) /\ w \in Writers
      /\ CanMark(state, w, Canonical(state))
      /\ Accepts(Marked(state, w, Canonical(state)), OnlyFrom(w, list))
      /\ state' = Submitted(state, w, list)
  BY DEF IndInv, TypeOK, Submit, Submitted
<1>2. state' \in State /\ Sound(state') /\ WithinLimits(state')
  BY <1>1, SubmittedFacts
<1>3. DroppedSound'
  <2>1. SUFFICES ASSUME NEW p \in Profiles, NEW id \in Projects,
                        IsTombstone(state'.records[id]),
                        Seen(state', p, id) = state'.records[id].revision
                 PROVE  id \in dropped'[p]
    BY DEF DroppedSound
  <2>2. p \in Writers \ {w}
    BY GroupAssumption
  <2>3. /\ state'.records[id] = state.records[id]
        /\ Seen(state, p, id) = state.records[id].revision
    BY <1>1, <2>1, <2>2, SubmittedFacts DEF IsTombstone
  <2>4. id \in dropped[p]
    BY <2>1, <2>3 DEF IndInv, DroppedSound
  <2>5. QED
    BY <2>1, <2>3, <2>4, DroppedStep
<1>4. QED
  BY <1>2, <1>3

LEMMA SubmittedLists ==
  ASSUME TypeOK
  PROVE  /\ \A id \in Projects, c \in Contents \cup {Absent} :
              [Canonical(state) EXCEPT ![id] = c] \in Registry
         /\ \A missing \in SUBSET Projects :
              [id \in Projects |-> IF id \in missing THEN Absent
                                   ELSE Canonical(state)[id]] \in Registry
<1>1. Canonical(state) \in Registry
  BY CanonicalType DEF TypeOK
<1>2. QED
  BY <1>1 DEF Registry

\* Every step of the group, a pass that stops half-way included, keeps a valid
\* journal within its limits (project_sync.hpp:10-32, group_sync.hpp:87-193).
THEOREM NextInv == IndInv /\ [Next]_vars => IndInv'
<1> SUFFICES ASSUME IndInv, [Next]_vars PROVE IndInv'
  OBVIOUS
<1>1. CASE UNCHANGED vars
  BY <1>1 DEF vars, IndInv, TypeOK, DroppedSound
<1>2. CASE Next
  <2>1. RecordDropped /\ Step
    BY <1>2 DEF Next
  <2>2. dropped' \in [Profiles -> SUBSET Projects]
    BY <2>1, DroppedType
  <2>3. ASSUME NEW p \in Profiles, NEW id \in Projects,
               NEW c \in Contents \cup {Absent}, UserChange(p, id, c)
        PROVE  IndInv'
    <3>1. registry' \in [Profiles -> Registry]
      BY <2>3 DEF UserChange, IndInv, TypeOK, Registry
    <3>2. edits' \in 0 .. MaxEdits
      BY <2>3, GroupAssumption DEF UserChange, IndInv, TypeOK
    <3>3. TypeOK'
      BY <2>2, <2>3, <3>1, <3>2 DEF UserChange, IndInv, TypeOK
    <3>4. QED
      BY <2>1, <2>3, <3>3, QuietStep DEF UserChange, IndInv
  <2>4. ASSUME NEW p \in Profiles, Open(p) \/ Quit(p)
        PROVE  IndInv'
    <3>1. TypeOK'
      BY <2>2, <2>4 DEF Open, Quit, IndInv, TypeOK
    <3>2. QED
      BY <2>1, <2>4, <3>1, QuietStep DEF Open, Quit, IndInv
  <2>5. ASSUME NEW P \in SUBSET Profiles, Observe(P)
        PROVE  IndInv'
    BY <2>1, <2>5, ObserveInv
  <2>6. ASSUME NEW p \in Profiles, Apply(p)
        PROVE  IndInv'
    BY <2>1, <2>6, ApplyInv
  <2>7. ASSUME NEW p \in Profiles, ApplyUnacknowledged(p)
        PROVE  IndInv'
    <3>1. Canonical(state) \in Registry
      BY CanonicalType DEF IndInv, TypeOK
    <3>2. TypeOK'
      BY <2>2, <2>7, <3>1 DEF ApplyUnacknowledged, IndInv, TypeOK
    <3>3. QED
      BY <2>1, <2>7, <3>2, QuietStep DEF ApplyUnacknowledged, IndInv
  <2>8. ASSUME NEW id \in Projects, NEW c \in Contents, AppDeckAdd(id, c)
        PROVE  IndInv'
    <3>1. [Canonical(state) EXCEPT ![id] = c] \in Registry
      BY SubmittedLists DEF IndInv
    <3>2. state' \in State /\ Sound(state') /\ WithinLimits(state') /\ DroppedSound'
      BY <2>1, <2>8, <3>1, SubmitInv, GroupAssumption DEF AppDeckAdd
    <3>3. TypeOK'
      BY <2>2, <2>8, <3>2, GroupAssumption DEF AppDeckAdd, IndInv, TypeOK
    <3>4. QED
      BY <3>2, <3>3 DEF IndInv
  <2>9. ASSUME NEW id \in Projects, AppDeckRemove(id)
        PROVE  IndInv'
    <3>1. [Canonical(state) EXCEPT ![id] = Absent] \in Registry
      BY SubmittedLists DEF IndInv
    <3>2. state' \in State /\ Sound(state') /\ WithinLimits(state') /\ DroppedSound'
      BY <2>1, <2>9, <3>1, SubmitInv, GroupAssumption DEF AppDeckRemove
    <3>3. TypeOK'
      BY <2>2, <2>9, <3>2, GroupAssumption DEF AppDeckRemove, IndInv, TypeOK
    <3>4. QED
      BY <3>2, <3>3 DEF IndInv
  <2>10. ASSUME NEW missing \in SUBSET Projects, NativeDelete(missing)
         PROVE  IndInv'
    <3>1. [id \in Projects |-> IF id \in missing THEN Absent
                               ELSE Canonical(state)[id]] \in Registry
      BY SubmittedLists DEF IndInv
    <3>2. state' \in State /\ Sound(state') /\ WithinLimits(state') /\ DroppedSound'
      BY <2>1, <2>10, <3>1, SubmitInv, GroupAssumption DEF NativeDelete
    <3>3. TypeOK'
      BY <2>2, <2>10, <3>2, GroupAssumption DEF NativeDelete, IndInv, TypeOK
    <3>4. QED
      BY <3>2, <3>3 DEF IndInv
  <2>11. QED
    BY <2>1, <2>3, <2>4, <2>5, <2>6, <2>7, <2>8, <2>9, <2>10 DEF Step
<1>3. QED
  BY <1>1, <1>2

\* The journal is valid and within its limits in every reachable state.
THEOREM IndInvHolds == Spec => []IndInv
  BY InitInv, NextInv, PTL DEF Spec

-----------------------------------------------------------------------------
(* The properties of ProjectGroup.                                          *)

\* Every reachable state is well typed.
THEOREM TypeCorrect == Spec => []TypeOK
<1>1. IndInv => TypeOK
  BY DEF IndInv
<1>2. QED
  BY <1>1, IndInvHolds, PTL

\* projectSyncStateValid accepts every journal the passes produce, whatever the
\* limits are: synchronization never locks itself out.
THEOREM JournalStaysValid == Spec => []JournalValid
<1>1. IndInv => JournalValid
  BY SoundWithinLimitsIsValid DEF IndInv, TypeOK, JournalValid
<1>2. QED
  BY <1>1, IndInvHolds, PTL

\* Every credit for a current revision is justified by what the profile showed.
THEOREM CreditsAreJustified == Spec => []AcknowledgedMatches
<1>1. IndInv => AcknowledgedMatches
  BY DEF IndInv, Sound, Acknowledged, AcknowledgedMatches
<1>2. QED
  BY <1>1, IndInvHolds, PTL

\* A list a service writer submits only adds projects that were never recorded.
AddsFreshOnly(list) ==
  \A id \in Projects :
    list[id] # Absent =>
      list[id] = Canonical(state)[id] \/ state.records[id] = NoRecord

\* A step changes the journal in one of three ways.
LEMMA JournalStep ==
  ASSUME IndInv, Next
  PROVE  \/ state' = state
         \/ \E p \in Profiles : Apply(p)
         \/ \E P \in SUBSET Profiles : Observe(P)
         \/ \E w \in Writers \ Profiles, list \in Registry :
              Submit(w, list) /\ AddsFreshOnly(list)
<1>1. Canonical(state) \in Registry
  BY CanonicalType DEF IndInv, TypeOK
<1>2. ASSUME NEW id \in Projects, NEW c \in Contents, AppDeckAdd(id, c)
      PROVE  \E w \in Writers \ Profiles, list \in Registry :
               Submit(w, list) /\ AddsFreshOnly(list)
  <2> DEFINE list == [Canonical(state) EXCEPT ![id] = c]
  <2>1. list \in Registry /\ Submit(AppDeck, list)
        /\ AppDeck \in Writers \ Profiles
    BY <1>2, SubmittedLists, GroupAssumption DEF AppDeckAdd, IndInv
  <2>2. AddsFreshOnly(list)
    BY <1>1, <1>2 DEF AppDeckAdd, Registry, AddsFreshOnly
  <2>3. QED
    BY <2>1, <2>2
<1>3. ASSUME NEW id \in Projects, AppDeckRemove(id)
      PROVE  \E w \in Writers \ Profiles, list \in Registry :
               Submit(w, list) /\ AddsFreshOnly(list)
  <2> DEFINE list == [Canonical(state) EXCEPT ![id] = Absent]
  <2>1. list \in Registry /\ Submit(AppDeck, list)
        /\ AppDeck \in Writers \ Profiles
    BY <1>3, SubmittedLists, GroupAssumption DEF AppDeckRemove, IndInv
  <2>2. AddsFreshOnly(list)
    BY <1>1 DEF Registry, AddsFreshOnly
  <2>3. QED
    BY <2>1, <2>2
<1>4. ASSUME NEW missing \in SUBSET Projects, NativeDelete(missing)
      PROVE  \E w \in Writers \ Profiles, list \in Registry :
               Submit(w, list) /\ AddsFreshOnly(list)
  <2> DEFINE list == [i \in Projects |-> IF i \in missing THEN Absent
                                         ELSE Canonical(state)[i]]
  <2>1. list \in Registry /\ Submit(Server, list)
        /\ Server \in Writers \ Profiles
    BY <1>4, SubmittedLists, GroupAssumption DEF NativeDelete, IndInv
  <2>2. AddsFreshOnly(list)
    BY DEF AddsFreshOnly
  <2>3. QED
    BY <2>1, <2>2
<1>5. QED
  BY <1>2, <1>3, <1>4
  DEF Next, Step, UserChange, Open, Quit, ApplyUnacknowledged

\* An acknowledgement leaves the records alone.
LEMMA ApplyKeepsRecords ==
  ASSUME IndInv, NEW p \in Profiles, Apply(p)
  PROVE  state'.records = state.records
  BY MarkedFacts, GroupAssumption DEF Apply, IndInv, TypeOK

\* A tombstone is revived only by a participant whose own file has been without
\* the project since the deletion.
THEOREM StaleCopiesStayDeleted == Spec => NoStaleResurrection
<1> DEFINE Revived(id) ==
      IsTombstone(state.records[id]) /\ IsLive(state'.records[id])
    Justified(id) ==
      \E p \in Profiles : p = state'.records[id].writer /\ id \in dropped[p]
<1>1. IndInv /\ [Next]_vars =>
        [\A id \in Projects :
           /\ IsTombstone(state.records[id])
           /\ IsLive(state'.records[id])
           => \E p \in Profiles : /\ p = state'.records[id].writer
                                 /\ id \in dropped[p]]_vars
  <2>1. SUFFICES ASSUME IndInv, Next, NEW id \in Projects, Revived(id)
                 PROVE  Justified(id)
    OBVIOUS
  <2>2. state \in State /\ Sound(state) /\ TypeOK
    BY <2>1 DEF IndInv, TypeOK
  <2>3. CASE state' = state \/ \E p \in Profiles : Apply(p)
    <3>1. state'.records = state.records
      BY <2>1, <2>3, ApplyKeepsRecords
    <3>2. QED
      BY <2>1, <3>1 DEF IsTombstone, IsLive
  <2>4. ASSUME NEW P \in SUBSET Profiles, Observe(P)
        PROVE  Justified(id)
    <3> DEFINE p == state'.records[id].writer
               obs == ObservationOf(P)
    <3>1. obs \in Observations /\ state' = Reconcile(state, obs)
      BY <2>2, <2>4, ObservationOfFacts DEF Observe
    <3>2. p \in Valid(obs) /\ Seen(state, p, id) = state.records[id].revision
      BY <2>1, <2>2, <3>1, RevivalNeedsCredit DEF IsTombstone
    <3>3. p \in Profiles
      BY <2>2, <3>2, ObservationOfFacts
    <3>4. id \in dropped[p]
      BY <2>1, <3>2, <3>3 DEF IndInv, DroppedSound
    <3>5. QED
      BY <3>3, <3>4
  <2>5. ASSUME NEW w \in Writers \ Profiles, NEW list \in Registry,
               Submit(w, list), AddsFreshOnly(list)
        PROVE  Justified(id)
    <3>1. list[id] = Absent
      BY <2>1, <2>5 DEF AddsFreshOnly, Canonical, IsTombstone, IsLive
    <3>2. list[id] # Absent
      BY <2>1, <2>2, <2>5, SubmittedFacts DEF Submit, Submitted
    <3>3. QED
      BY <3>1, <3>2
  <2>6. QED
    BY <2>1, <2>3, <2>4, <2>5, JournalStep
<1>2. QED
  BY <1>1, IndInvHolds, PTL DEF Spec, NoStaleResurrection

\* No step makes the journal forget a record or take a revision back.
THEOREM JournalOnlyAdvances == Spec => JournalAdvances
<1> DEFINE Advances(id) ==
      LET r == state.records[id]
          s == state'.records[id]
      IN  /\ s # NoRecord
          /\ s.generation >= r.generation
          /\ s # r => s.revision > state.revision
<1>1. IndInv /\ [Next]_vars => [\A id \in Recorded(state) : Advances(id)]_vars
  <2>1. SUFFICES ASSUME IndInv, Next, NEW id \in Recorded(state)
                 PROVE  Advances(id)
    OBVIOUS
  <2>2. state \in State /\ Sound(state) /\ TypeOK
    BY <2>1 DEF IndInv, TypeOK
  <2>3. CASE state' = state \/ \E p \in Profiles : Apply(p)
    <3>1. state.records[id] \in Record /\ state.records[id] # NoRecord
      BY <2>2, StateFacts DEF Recorded
    <3>2. state'.records = state.records
      BY <2>1, <2>3, ApplyKeepsRecords
    <3>3. QED
      BY <3>1, <3>2 DEF Record
  <2>4. ASSUME NEW P \in SUBSET Profiles, Observe(P)
        PROVE  Advances(id)
    BY <2>2, <2>4, ObservationOfFacts, RecordsAdvance DEF Observe
  <2>5. ASSUME NEW w \in Writers \ Profiles, NEW list \in Registry, Submit(w, list)
        PROVE  Advances(id)
    BY <2>2, <2>5, SubmittedFacts DEF Submit, Submitted
  <2>6. QED
    BY <2>1, <2>3, <2>4, <2>5, JournalStep
<1>2. QED
  BY <1>1, IndInvHolds, PTL DEF Spec, JournalAdvances

-----------------------------------------------------------------------------
(* A pass over unchanged files.                                             *)

\* After a batch its observations are no changes any more.
LEMMA NoChangeLeft ==
  ASSUME NEW st \in State, NEW obs \in Observations, Sound(st),
         Valid(obs) # {}, NEW id \in Projects
  PROVE  /\ Changes(Reconcile(st, obs), obs, id) = {}
         /\ ~Rewrites(Reconcile(st, obs), obs, id)
<1> DEFINE once == Reconcile(st, obs)
<1>1. \A w \in Valid(obs) : Previous(once, w, id) = obs[w][id]
  BY BaselineFacts DEF Sound, Valid
<1> HIDE DEF once
<1>2. \A w \in Writers : ~Changed(once, obs, w, id)
  BY <1>1 DEF Changed
<1>3. Changes(once, obs, id) = {}
  BY <1>2 DEF Changes
<1>4. Contenders(once, obs, id) = {}
  BY <1>3 DEF Contenders
<1>5. QED
  BY <1>3, <1>4 DEF Rewrites, once

\* The credits of a batch are given by the records the batch leaves, so giving
\* them again changes nothing.
LEMMA CreditsAreStable ==
  ASSUME NEW st \in State, NEW obs \in Observations, Sound(st),
         Valid(obs) # {}, NEW w \in Writers,
         NextRecords(Reconcile(st, obs), obs) = NextRecords(st, obs)
  PROVE  NextProfiles(Reconcile(st, obs), obs)[w] = NextProfiles(st, obs)[w]
<1> DEFINE once == Reconcile(st, obs)
           records == NextRecords(st, obs)
           credit(s) == [id \in Projects |->
                           IF Matches(records[id], obs[w][id])
                             THEN records[id].revision
                             ELSE Seen(s, w, id)]
<1>1. CASE w \notin Valid(obs)
  BY <1>1 DEF NextProfiles, Reconcile
<1>2. CASE w \in Valid(obs)
  <2>1. \A id \in Projects :
          ~Matches(records[id], obs[w][id]) => Seen(once, w, id) = Seen(st, w, id)
    BY BaselineFacts DEF Sound
  <2>2. NextProfiles(once, obs)[w] = [observed |-> obs[w], seen |-> credit(once)]
    BY <1>2 DEF NextProfiles
  <2>3. NextProfiles(st, obs)[w] = [observed |-> obs[w], seen |-> credit(st)]
    BY <1>2 DEF NextProfiles
  <2> HIDE DEF once, records
  <2>4. credit(once) = credit(st)
    BY <2>1
  <2>5. QED
    BY <2>2, <2>3, <2>4 DEF once
<1>3. QED
  BY <1>1, <1>2

\* The same batch twice is the batch once.
THEOREM ReconcileTwice ==
  ASSUME NEW st \in State, NEW obs \in Observations, Sound(st)
  PROVE  Reconcile(Reconcile(st, obs), obs) = Reconcile(st, obs)
<1> DEFINE once == Reconcile(st, obs)
<1>1. CASE Valid(obs) = {}
  BY <1>1 DEF Reconcile
<1>2. CASE Valid(obs) # {}
  <2>1. once = [initialized |-> TRUE, revision |-> once.revision,
                records |-> NextRecords(st, obs),
                profiles |-> NextProfiles(st, obs)]
    BY <1>2 DEF Reconcile
  <2>2. \A id \in Projects : ~Rewrites(once, obs, id)
    BY <1>2, NoChangeLeft
  <2>3. NextRecords(once, obs) = NextRecords(st, obs)
    <3>1. once.records = NextRecords(st, obs)
      BY <2>1
    <3>2. NextRecords(once, obs) = [id \in Projects |-> NextRecords(st, obs)[id]]
      BY <2>2, <3>1 DEF NextRecords
    <3>3. QED
      BY <3>2 DEF NextRecords
  <2>4. NextProfiles(once, obs) = NextProfiles(st, obs)
    <3>1. \A w \in Writers :
            NextProfiles(once, obs)[w] = NextProfiles(st, obs)[w]
      BY <1>2, <2>3, CreditsAreStable
    <3>2. QED
      BY <3>1 DEF NextProfiles
  <2>5. Reconcile(once, obs) =
          [initialized |-> TRUE, revision |-> once.revision,
           records |-> NextRecords(once, obs),
           profiles |-> NextProfiles(once, obs)]
    BY <1>2, <2>2 DEF Reconcile
  <2>6. QED
    BY <2>1, <2>3, <2>4, <2>5
<1>3. QED
  BY <1>1, <1>2

\* A pass over unchanged files changes nothing, whoever is readable in it
\* (project_sync.hpp:181-191).
THEOREM PassesAreIdempotent == Spec => []PassIsIdempotent
<1>1. IndInv => PassIsIdempotent
  <2>1. SUFFICES ASSUME IndInv, NEW P \in SUBSET Profiles
                 PROVE  LET once == Reconcile(state, ObservationOf(P))
                        IN  Reconcile(once, ObservationOf(P)) = once
    BY DEF PassIsIdempotent
  <2>2. /\ state \in State /\ Sound(state)
        /\ ObservationOf(P) \in Observations
    BY <2>1, ObservationOfFacts DEF IndInv, TypeOK
  <2>3. QED
    BY <2>2, ReconcileTwice
<1>2. QED
  BY <1>1, IndInvHolds, PTL

-----------------------------------------------------------------------------
(* Whoever edited a project last has its current revision.                  *)

\* The last edit of a live project, unless it is the one that made it live, is
\* a participant's, which is credited with it.
WriterHasIt(st) ==
  \A id \in Live(st) :
    LET r == st.records[id]
    IN  r.generation < r.revision =>
          r.writer \in Profiles /\ Seen(st, r.writer, id) = r.revision

\* A batch keeps WriterHasIt if other writers add only fresh ids.
LEMMA ReconcileWriter ==
  ASSUME NEW st \in State, NEW obs \in Observations, Sound(st), WriterHasIt(st),
         \A w \in Valid(obs) \ Profiles, id \in Projects :
           Changed(st, obs, w, id) /\ obs[w][id] # Absent
             => st.records[id] = NoRecord
  PROVE  WriterHasIt(Reconcile(st, obs))
<1> DEFINE next == Reconcile(st, obs)
<1>1. CASE Valid(obs) = {}
  BY <1>1 DEF Reconcile
<1>2. CASE Valid(obs) # {}
  <2> SUFFICES ASSUME NEW id \in Live(next),
                      next.records[id].generation < next.records[id].revision
               PROVE  LET r == next.records[id]
                      IN  /\ r.writer \in Profiles
                          /\ Seen(next, r.writer, id) = r.revision
    BY DEF WriterHasIt
  <2> DEFINE r == NextRecords(st, obs)[id]
             old == st.records[id]
             e == Winner(st, obs, id)
  <2>1. next.records[id] = r /\ IsLive(r) /\ id \in Projects
    BY <1>2 DEF Reconcile, Live
  <2>2. RecordsSound(st) /\ SeenSound(st)
    BY DEF Sound
  <2>3. r \in Record /\ r.writer \in Writers
    BY <2>1, <2>2, NextRecordFacts DEF IsLive, Record
  <2>4. CASE Rewrites(st, obs, id)
    <3>1. e \in Changes(st, obs, id) /\ r.writer = e.writer /\ r.deleted = e.deleted
      BY <2>1, <2>2, <2>4, RewrittenFacts DEF Contenders
    <3>2. /\ e.writer \in Writers /\ ~e.deleted
          /\ Changed(st, obs, e.writer, id)
          /\ e.project = obs[e.writer][id] /\ obs[e.writer][id] # Absent
      BY <2>1, <3>1, ChangesType DEF IsLive
    <3>3. e.writer \in Valid(obs)
      BY <3>2 DEF Changed
    <3>4. r = Rewritten(old, e, st.revision + 1)
      BY <2>1, <2>4 DEF NextRecords
    <3>5. old # NoRecord
      <4>1. r.generation < r.revision
        BY <2>1
      <4>2. old = NoRecord =>
              r.generation = st.revision + 1 /\ r.revision = st.revision + 1
        BY <3>4 DEF Rewritten
      <4>3. QED
        BY <4>1, <4>2 DEF State
    <3>6. e.writer \in Profiles
      BY <2>1, <3>2, <3>3, <3>5
    <3>7. r.project = obs[e.writer][id]
      BY <3>2, <3>4 DEF Rewritten
    <3>8. Matches(r, obs[e.writer][id])
      BY <2>1, <3>7 DEF Matches, IsLive
    <3>9. Seen(next, e.writer, id) = r.revision
      BY <1>2, <2>1, <2>2, <3>2, <3>3, <3>8, BaselineFacts
    <3>10. QED
      BY <2>1, <3>1, <3>6, <3>9
  <2>5. CASE ~Rewrites(st, obs, id)
    <3>1. r = old /\ id \in Live(st)
      BY <2>1, <2>2, <2>5, NextRecordFacts DEF Live
    <3>2. r.writer \in Profiles /\ Seen(st, r.writer, id) = r.revision
      BY <2>1, <3>1 DEF WriterHasIt
    <3>3. Seen(next, r.writer, id) = r.revision
      BY <1>2, <2>1, <2>2, <2>3, <3>2, BaselineFacts
    <3>4. QED
      BY <2>1, <3>2, <3>3
  <2>6. QED
    BY <2>4, <2>5
<1>3. QED
  BY <1>1, <1>2

LEMMA MarkedWriter ==
  ASSUME NEW st \in State, Sound(st), WriterHasIt(st), NEW w \in Writers
  PROVE  WriterHasIt(Marked(st, w, Canonical(st)))
<1> DEFINE m == Marked(st, w, Canonical(st))
<1>1. m.records = st.records
  BY MarkedFacts
<1>2. \A id \in Projects : id \in Live(st) =>
        Seen(m, w, id) = st.records[id].revision
  <2>1. m.profiles[w] = [observed |-> Canonical(st),
                         seen |-> [id \in Projects |->
                                     IF st.records[id] = NoRecord THEN 0
                                     ELSE st.records[id].revision]]
    BY DEF Marked, State
  <2>2. m.profiles[w] \in Baseline
    BY <2>1, CanonicalType DEF Baseline, State, Record
  <2>3. m.profiles[w] # NoProfile
    BY <2>2, SentinelAssumption DEF Baseline, Registry
  <2>4. QED
    BY <2>1, <2>3 DEF Seen, Live, IsLive
<1>3. \A v \in Writers, id \in Projects : v # w => Seen(m, v, id) = Seen(st, v, id)
  BY MarkedFacts
<1> HIDE DEF m
<1>4. \A id \in Live(st) : id \in Projects /\ st.records[id] \in Record
  BY StateFacts DEF Live, IsLive
<1>5. QED
  BY <1>1, <1>2, <1>3, <1>4, GroupAssumption DEF WriterHasIt, Live, m

\* The same for the whole journal, on top of IndInv.
GroupInv == IndInv /\ WriterHasIt(state)

\* A project's last editor always has the current revision, so of two
\* participants at least one is up to date (project_sync.hpp:167-169, 185-190).
THEOREM GroupInvariance == Spec => []GroupInv
<1>1. Init => GroupInv
  <2>1. Init => WriterHasIt(state)
    BY DEF Init, EmptyState, WriterHasIt, Live, IsLive
  <2>2. QED
    BY <2>1, InitInv DEF GroupInv
<1>2. GroupInv /\ [Next]_vars => GroupInv'
  <2> SUFFICES ASSUME GroupInv, [Next]_vars
               PROVE  WriterHasIt(state')
    BY NextInv DEF GroupInv, WriterHasIt
  <2>1. /\ IndInv /\ TypeOK /\ state \in State /\ Sound(state)
        /\ WriterHasIt(state)
    BY DEF GroupInv, IndInv, TypeOK
  <2>2. CASE state' = state
    BY <2>1, <2>2
  <2>3. ASSUME NEW p \in Profiles, Apply(p)
        PROVE  WriterHasIt(state')
    BY <2>1, <2>3, MarkedWriter, GroupAssumption DEF Apply
  <2>4. ASSUME NEW P \in SUBSET Profiles, Observe(P)
        PROVE  WriterHasIt(state')
    <3>1. /\ ObservationOf(P) \in Observations
          /\ Valid(ObservationOf(P)) \subseteq Profiles
          /\ state' = Reconcile(state, ObservationOf(P))
      BY <2>1, <2>4, ObservationOfFacts DEF Observe
    <3>2. QED
      BY <2>1, <3>1, ReconcileWriter
  <2>5. ASSUME NEW w \in Writers \ Profiles, NEW list \in Registry,
               Submit(w, list), AddsFreshOnly(list)
        PROVE  WriterHasIt(state')
    <3> DEFINE m == Marked(state, w, Canonical(state))
               obs == OnlyFrom(w, list)
    <3>1. /\ CanMark(state, w, Canonical(state)) /\ state.initialized
          /\ state' = Reconcile(m, obs)
      BY <2>5 DEF Submit, CanMark
    <3>2. m \in State /\ Sound(m)
      BY <2>1, <3>1, MarkedSound
    <3>3. WriterHasIt(m)
      BY <2>1, MarkedWriter
    <3>4. obs \in Observations /\ Valid(obs) = {w} /\ obs[w] = list
      BY OnlyFromFacts
    <3>5. m.records = state.records
      BY <2>1, MarkedFacts
    <3>6. \A id \in Projects : Previous(m, w, id) = Canonical(state)[id]
      <4>1. m.profiles[w].observed = Canonical(state) /\ m.profiles[w] # NoProfile
        BY <2>1, <3>2, SentinelAssumption, CanonicalType
        DEF Marked, State, Baseline, Registry, Record
      <4>2. QED
        BY <4>1 DEF Previous
    <3> HIDE DEF m, obs
    <3>7. \A id \in Projects :
            Changed(m, obs, w, id) /\ obs[w][id] # Absent
              => m.records[id] = NoRecord
      BY <2>5, <3>4, <3>5, <3>6 DEF Changed, AddsFreshOnly
    <3>8. QED
      BY <3>1, <3>2, <3>3, <3>4, <3>7, ReconcileWriter
  <2>6. CASE UNCHANGED vars
    BY <2>1, <2>6 DEF vars
  <2>7. QED
    BY <2>1, <2>2, <2>3, <2>4, <2>5, <2>6, JournalStep
<1>3. QED
  BY <1>1, <1>2, PTL DEF Spec

-----------------------------------------------------------------------------
(* What a batch makes of one project, and what it reports.                  *)

\* The list after a batch has the winner's content, or the recorded one if no
\* change is admissible or the winner is outranked.
LEMMA Outcome ==
  ASSUME NEW st \in State, NEW obs \in Observations, Sound(st),
         Valid(obs) # {}, NEW id \in Projects
  PROVE  LET old == st.records[id]
             C == Contenders(st, obs, id)
             e == Winner(st, obs, id)
             next == Reconcile(st, obs)
         IN  /\ C = {} \/ Outranked(old, e) \/ SameAsRecord(old, e)
                  => /\ next.records[id] = old
                     /\ Canonical(next)[id] = Canonical(st)[id]
             /\ C # {} /\ ~Outranked(old, e) /\ ~SameAsRecord(old, e)
                  => next.records[id] = Rewritten(old, e, st.revision + 1)
             /\ C # {} /\ ~Outranked(old, e)
                  => Canonical(next)[id] = IF e.deleted THEN Absent ELSE e.project
<1> DEFINE old == st.records[id]
           C == Contenders(st, obs, id)
           e == Winner(st, obs, id)
           next == Reconcile(st, obs)
           r == NextRecords(st, obs)[id]
<1>1. next.records[id] = r
  BY DEF Reconcile
<1>2. Canonical(next)[id] = IF IsLive(r) THEN r.project ELSE Absent
  BY <1>1 DEF Canonical
<1>3. ~Rewrites(st, obs, id) => r = old
  BY DEF NextRecords
<1>4. Rewrites(st, obs, id) => r = Rewritten(old, e, st.revision + 1)
  BY DEF NextRecords
<1>5. C # {} => e \in Event
  BY WinnerWins, ChangesType DEF Contenders
<1>6. Rewrites(st, obs, id) => r # NoRecord
  BY RewrittenFacts DEF Sound
<1> HIDE DEF next, r
<1>7. CASE Rewrites(st, obs, id)
  <2>1. C # {} /\ ~Outranked(old, e) /\ ~SameAsRecord(old, e)
    BY <1>7 DEF Rewrites
  <2>2. r.deleted = e.deleted /\ (~e.deleted => r.project = e.project)
    BY <1>4, <1>7 DEF Rewritten
  <2>3. e.deleted \in BOOLEAN
    BY <1>5, <2>1 DEF Event
  <2>4. Canonical(next)[id] = IF e.deleted THEN Absent ELSE e.project
    BY <1>2, <1>6, <1>7, <2>2, <2>3 DEF IsLive
  <2>5. QED
    BY <1>1, <1>4, <1>7, <2>1, <2>4 DEF next, r
<1>8. CASE ~Rewrites(st, obs, id)
  <2>1. C = {} \/ Outranked(old, e) \/ SameAsRecord(old, e)
    BY <1>8 DEF Rewrites
  <2>2. Canonical(next)[id] = Canonical(st)[id]
    BY <1>2, <1>3, <1>8 DEF Canonical
  <2>3. ASSUME C # {}, SameAsRecord(old, e)
        PROVE  Canonical(next)[id] = IF e.deleted THEN Absent ELSE e.project
    BY <1>2, <1>3, <1>8, <2>3 DEF SameAsRecord, IsLive
  <2>4. QED
    BY <1>1, <1>3, <1>8, <2>1, <2>2, <2>3 DEF next, r
<1>9. QED
  BY <1>7, <1>8

\* Which conflicts a batch reports of a change e.
LEMMA ConflictFacts ==
  ASSUME NEW st \in State, NEW obs \in Observations, NEW id \in Projects,
         NEW e \in Changes(st, obs, id)
  PROVE  LET old == st.records[id]
             C == Contenders(st, obs, id)
             w == Winner(st, obs, id)
             Reported == \E reason : <<id, e.writer, reason>> \in Conflicts(st, obs)
         IN  /\ StaleResurrection(old, e) => Reported
             /\ UnacknowledgedGeneration(old, e) => Reported
             /\ /\ C # {} /\ Outranked(old, w)
                /\ e = w /\ w.project # old.project
                => Reported
             /\ /\ C # {} /\ ~Outranked(old, w)
                /\ e \in Losers(st, obs, id)
                => Reported
<1> DEFINE old == st.records[id]
           C == Contenders(st, obs, id)
           w == Winner(st, obs, id)
           lost == IF w.deleted THEN "delete-wins" ELSE "concurrent-edit"
           Rep(i) == IF Contenders(st, obs, i) = {} THEN {}
                     ELSE IF Outranked(st.records[i], Winner(st, obs, i))
                       THEN {<<i, f.writer, "concurrent-edit">> :
                               f \in {g \in {Winner(st, obs, i)} :
                                        g.project # st.records[i].project}}
                       ELSE {<<i, f.writer,
                               IF Winner(st, obs, i).deleted THEN "delete-wins"
                               ELSE "concurrent-edit">> : f \in Losers(st, obs, i)}
<1>1. Conflicts(st, obs) = UNION {Refusals(st, obs, i) \cup Rep(i) : i \in Projects}
  BY DEF Conflicts
<1>2. Refusals(st, obs, id) \cup Rep(id) \subseteq Conflicts(st, obs)
  BY <1>1
<1>3. StaleResurrection(old, e) =>
        <<id, e.writer, "stale-resurrection">> \in Refusals(st, obs, id)
  BY DEF Refusals
<1>4. UnacknowledgedGeneration(old, e) =>
        <<id, e.writer, "unacknowledged-generation">> \in Refusals(st, obs, id)
  BY DEF Refusals
<1>5. C # {} /\ Outranked(old, w) /\ e = w /\ w.project # old.project
        => <<id, e.writer, "concurrent-edit">> \in Rep(id)
  OBVIOUS
<1>6. C # {} /\ ~Outranked(old, w) /\ e \in Losers(st, obs, id)
        => <<id, e.writer, lost>> \in Rep(id)
  OBVIOUS
<1> HIDE DEF Rep, lost
<1>7. QED
  BY <1>2, <1>3, <1>4, <1>5, <1>6

\* In every group, a change that does not make it into the list is reported,
\* unless it loses to a better-placed change which then turns out to be
\* outranked by the recorded one: only the latter is reported then
\* (project_sync.hpp:155-161).
THEOREM LostUnlessOutranked ==
  ASSUME NEW st \in State, NEW obs \in Observations, Sound(st),
         NEW p \in Writers, NEW id \in Projects, Changed(st, obs, p, id),
         Canonical(Reconcile(st, obs))[id] # obs[p][id]
  PROVE  \/ \E reason : <<id, p, reason>> \in Conflicts(st, obs)
         \/ LET e == Change(st, obs, p, id)
                w == Winner(st, obs, id)
            IN  /\ e \in Contenders(st, obs, id)
                /\ Outranked(st.records[id], w)
                /\ w \in Contenders(st, obs, id)
                /\ Beats(w, e)
<1> DEFINE old == st.records[id]
           C == Contenders(st, obs, id)
           e == Change(st, obs, p, id)
           w == Winner(st, obs, id)
           after == Canonical(Reconcile(st, obs))[id]
           Reported == \E reason : <<id, p, reason>> \in Conflicts(st, obs)
<1>1. /\ e \in Changes(st, obs, id) /\ e \in Event /\ e.writer = p
      /\ e.deleted <=> obs[p][id] = Absent
      /\ ~e.deleted => e.project = obs[p][id]
      /\ e.deleted \in BOOLEAN
      /\ Valid(obs) # {}
  BY ChangeType DEF Changes, Change, Changed, Event
<1> HIDE DEF e, C, w
<1>2. CASE StaleResurrection(old, e) \/ UnacknowledgedGeneration(old, e)
  BY <1>1, <1>2, ConflictFacts
<1>3. ASSUME C # {}, ~Outranked(old, w)
      PROVE  Reported
  <2>1. after = IF w.deleted THEN Absent ELSE w.project
    BY <1>1, <1>3, Outcome DEF C, w
  <2>2. w.deleted \in BOOLEAN
    BY <1>3, WinnerWins, ChangesType DEF C, w, Contenders, Event
  <2>3. e.deleted # w.deleted \/ e.project # w.project
    BY <1>1, <2>1, <2>2
  <2>4. e \in Losers(st, obs, id)
    BY <1>1, <2>3 DEF Losers, w
  <2>5. QED
    BY <1>1, <1>3, <2>4, ConflictFacts DEF C, w
<1>4. CASE Repeated(old, e)
  <2>1. after # Absent /\ ~IsLive(old)
    BY <1>1, <1>4 DEF Repeated, IsLive
  <2>2. C # {}
    BY <1>1, <2>1, Outcome DEF C, Canonical
  <2>3. ~Outranked(old, w)
    BY <2>1 DEF Outranked
  <2>4. QED
    BY <1>3, <2>2, <2>3
<1>5. CASE Admissible(old, e)
  <2>1. e \in C /\ C # {}
    BY <1>1, <1>5 DEF C, Contenders
  <2>2. w \in C /\ (w = e \/ Beats(w, e))
    BY <2>1, WinnerWins DEF C, w
  <2>3. CASE Outranked(old, w) /\ w = e
    <3>1. after = Canonical(st)[id]
      BY <1>1, <2>3, Outcome DEF w
    <3>2. after = old.project
      BY <2>3, <3>1 DEF Outranked, Canonical
    <3>3. w.project # old.project
      BY <1>1, <2>3, <3>2 DEF Outranked
    <3>4. QED
      BY <1>1, <2>1, <2>3, <3>3, ConflictFacts DEF C, w
  <2>4. CASE Outranked(old, w) /\ w # e
    BY <2>1, <2>2, <2>4 DEF C, e, w
  <2>5. QED
    BY <1>3, <2>1, <2>3, <2>4
<1>6. QED
  BY <1>2, <1>4, <1>5 DEF Admissible

-----------------------------------------------------------------------------
(* Two participants observed one after the other.                           *)

\* The winner of a batch in which one change beats all others.
LEMMA WinnerIs ==
  ASSUME NEW st \in State, NEW obs \in Observations, NEW id \in Projects,
         NEW e \in Contenders(st, obs, id),
         \A f \in Contenders(st, obs, id) \ {e} : Beats(e, f)
  PROVE  Winner(st, obs, id) = e
<1> DEFINE w == Winner(st, obs, id)
<1>1. w \in Contenders(st, obs, id)
  BY WinnerWins
<1>2. w # e => Beats(w, e)
  BY WinnerWins
<1>3. e \in Event /\ w \in Event
  BY <1>1, ChangesType DEF Contenders
<1>4. QED
  BY <1>1, <1>2, <1>3, BeatsOrder

\* The contenders of a batch are the admissible changes of the writers in it.
LEMMA ContendersOf ==
  ASSUME NEW st, NEW obs, NEW id
  PROVE  Contenders(st, obs, id) =
           UNION {{e \in {Change(st, obs, w, id)} :
                     Changed(st, obs, w, id) /\ Admissible(st.records[id], e)} :
                  w \in Writers}
  BY DEF Contenders, Changes

\* p and q are observed together in both, p alone in first, q alone in second.
Staggered(both, first, second, p, q) ==
  /\ both \in Observations /\ first \in Observations /\ second \in Observations
  /\ Valid(both) = {p, q} /\ Valid(first) = {p} /\ Valid(second) = {q}
  /\ both[p] = first[p] /\ both[q] = second[q]

\* A change that is not admissible for a live project is not admissible for
\* what a batch makes of it either.
LEMMA RefusedStays ==
  ASSUME NEW old \in Record, NEW d \in Event, NEW e \in Event, NEW n \in Nat,
         d.project \in Contents,
         ~old.deleted, old.generation <= old.revision, old.revision < n,
         ~Admissible(old, e)
  PROVE  ~Admissible(Rewritten(old, d, n), e)
<1> DEFINE r == Rewritten(old, d, n)
<1>1. old # NoRecord /\ old.deleted = FALSE
      /\ old.generation \in Nat /\ old.revision \in Nat
  BY SentinelAssumption DEF Record
<1>2. /\ d.deleted \in BOOLEAN /\ d.writer \in Writers /\ d.baseRevision \in Nat
      /\ e.baseRevision \in Nat /\ e.deleted \in BOOLEAN
  BY DEF Event
<1>3. e.baseRevision < old.generation
  BY <1>1 DEF Admissible, Repeated, StaleResurrection, UnacknowledgedGeneration, IsLive
<1>4. /\ r.deleted = d.deleted /\ r.revision = n
      /\ r.generation = old.generation
  BY <1>1 DEF Rewritten
<1>5. r # NoRecord
  <2>1. old.project \in Contents /\ old.generation \in Nat
    BY DEF Record
  <2>2. r \in Record
    BY <1>1, <1>2, <2>1 DEF Rewritten, Record
  <2>3. QED
    BY <2>2, SentinelAssumption DEF Record
<1> HIDE DEF r
<1>6. CASE d.deleted
  <2>1. e.baseRevision < r.revision
    BY <1>1, <1>2, <1>3, <1>4
  <2>2. QED
    BY <1>2, <1>4, <1>5, <1>6, <2>1 DEF Admissible, Repeated, StaleResurrection, r
<1>7. CASE ~d.deleted
  BY <1>3, <1>4, <1>5, <1>7 DEF Admissible, UnacknowledgedGeneration, IsLive, r
<1>8. QED
  BY <1>6, <1>7

\* After the first batch the second participant's change is what it would have
\* been together with the first one's.
LEMMA StaggeredFacts ==
  ASSUME NEW st \in State, Sound(st), NEW p \in Owners(st), NEW q \in Owners(st),
         p # q, NEW both, NEW first, NEW second,
         Staggered(both, first, second, p, q), NEW id \in Projects
  PROVE  LET f == Reconcile(st, first)
             Adm(r, w) == Changed(st, both, w, id)
                            /\ Admissible(r, Change(st, both, w, id))
             C(r, w) == {e \in {Change(st, both, w, id)} : Adm(r, w)}
         IN  /\ f \in State /\ Sound(f)
             /\ Contenders(st, both, id) =
                  C(st.records[id], p) \cup C(st.records[id], q)
             /\ Contenders(st, first, id) = C(st.records[id], p)
             /\ Contenders(f, second, id) = C(f.records[id], q)
<1> DEFINE f == Reconcile(st, first)
<1>1. /\ both \in Observations /\ first \in Observations /\ second \in Observations
      /\ Valid(both) = {p, q} /\ Valid(first) = {p} /\ Valid(second) = {q}
      /\ both[p] = first[p] /\ both[q] = second[q]
      /\ p \in Writers /\ q \in Writers
  BY DEF Staggered, Owners
<1>2. f \in State /\ Sound(f)
  BY <1>1, ReconcileSound
<1>3. q \in Owners(f) /\ Previous(f, q, id) = Previous(st, q, id)
      /\ Seen(f, q, id) = Seen(st, q, id)
  BY <1>1, BaselineFacts DEF Sound
<1> HIDE DEF f
<1>4. /\ Changed(f, second, q, id) <=> Changed(st, both, q, id)
      /\ Change(f, second, q, id) = Change(st, both, q, id)
  BY <1>1, <1>3 DEF Changed, Change, Newcomer, Owners
<1>5. /\ Changed(st, first, p, id) <=> Changed(st, both, p, id)
      /\ Change(st, first, p, id) = Change(st, both, p, id)
  BY <1>1 DEF Changed, Change, Newcomer, Owners
<1>6. /\ \A w \in Writers : Changed(st, both, w, id) => w \in {p, q}
      /\ \A w \in Writers : Changed(st, first, w, id) => w = p
      /\ \A w \in Writers : Changed(f, second, w, id) => w = q
  BY <1>1 DEF Changed
<1>7. Contenders(st, both, id) =
        {e \in {Change(st, both, p, id)} :
           Changed(st, both, p, id) /\ Admissible(st.records[id], Change(st, both, p, id))}
        \cup
        {e \in {Change(st, both, q, id)} :
           Changed(st, both, q, id) /\ Admissible(st.records[id], Change(st, both, q, id))}
  <2> HIDE DEF Change, Changed, Admissible
  <2>1. Contenders(st, both, id) =
          UNION {{e \in {Change(st, both, w, id)} :
                    Changed(st, both, w, id) /\ Admissible(st.records[id], e)} :
                 w \in Writers}
    BY ContendersOf
  <2>2. QED
    BY <1>1, <1>6, <2>1
<1>8. Contenders(st, first, id) =
        {e \in {Change(st, both, p, id)} :
           Changed(st, both, p, id) /\ Admissible(st.records[id], Change(st, both, p, id))}
  <2>1. Contenders(st, first, id) =
          UNION {{e \in {Change(st, first, w, id)} :
                    Changed(st, first, w, id) /\ Admissible(st.records[id], e)} :
                 w \in Writers}
    BY ContendersOf
  <2>2. QED
    BY <1>1, <1>5, <1>6, <2>1
<1>9. Contenders(f, second, id) =
        {e \in {Change(st, both, q, id)} :
           Changed(st, both, q, id) /\ Admissible(f.records[id], Change(st, both, q, id))}
  <2>1. Contenders(f, second, id) =
          UNION {{e \in {Change(f, second, w, id)} :
                    Changed(f, second, w, id) /\ Admissible(f.records[id], e)} :
                 w \in Writers}
    BY ContendersOf
  <2>2. QED
    BY <1>1, <1>4, <1>6, <2>1
<1>10. QED
  BY <1>2, <1>7, <1>8, <1>9 DEF f

\* Two admissible changes of a live project, at least one of them made with the
\* current revision, have the same outcome together and one after the other.
LEMMA BothAdmissible ==
  ASSUME NEW st \in State, Sound(st), NEW p \in Owners(st), NEW q \in Owners(st),
         p # q, NEW both, NEW first, NEW second,
         Staggered(both, first, second, p, q), NEW id \in Live(st),
         NEW d, d = Change(st, both, p, id), Changed(st, both, p, id),
         NEW e, e = Change(st, both, q, id), Changed(st, both, q, id),
         Admissible(st.records[id], d), Admissible(st.records[id], e),
         \/ Seen(st, p, id) = st.records[id].revision
         \/ Seen(st, q, id) = st.records[id].revision
  PROVE  Canonical(Reconcile(Reconcile(st, first), second))[id]
           = Canonical(Reconcile(st, both))[id]
<1> DEFINE f == Reconcile(st, first)
           old == st.records[id]
           r == f.records[id]
           n == st.revision + 1
           together == Canonical(Reconcile(st, both))[id]
           staggered == Canonical(Reconcile(f, second))[id]
<1>1. /\ both \in Observations /\ first \in Observations /\ second \in Observations
      /\ Valid(both) # {} /\ Valid(first) # {} /\ Valid(second) # {}
      /\ p \in Writers /\ q \in Writers /\ id \in Projects
  BY DEF Staggered, Owners, Live
<1>2. /\ f \in State /\ Sound(f)
      /\ Contenders(st, both, id) = {d, e}
      /\ Contenders(st, first, id) = {d}
      /\ Contenders(f, second, id) = {x \in {e} : Admissible(r, e)}
  <2>1. Contenders(st, both, id) = {x \in {d} : TRUE} \cup {x \in {e} : TRUE}
        /\ Contenders(st, first, id) = {x \in {d} : TRUE}
    BY <1>1, StaggeredFacts
  <2>2. f \in State /\ Sound(f)
        /\ Contenders(f, second, id) = {x \in {e} : Admissible(r, e)}
    BY <1>1, StaggeredFacts
  <2>3. QED
    BY <2>1, <2>2
<1>3. /\ d \in Event /\ d.project \in Contents /\ d.writer = p
      /\ d.baseRevision = Seen(st, p, id) /\ d.baseRevision \in Nat
      /\ d.deleted \in BOOLEAN
  BY <1>1, ChangeType DEF Change, Event
<1>4. /\ e \in Event /\ e.project \in Contents /\ e.writer = q
      /\ e.baseRevision = Seen(st, q, id) /\ e.baseRevision \in Nat
      /\ e.deleted \in BOOLEAN
  BY <1>1, ChangeType DEF Change, Event
<1>5. /\ old \in Record /\ old # NoRecord /\ ~old.deleted /\ IsLive(old)
      /\ old.revision \in 1 .. st.revision /\ st.revision \in Nat
      /\ old.generation \in 1 .. old.revision /\ old.generation \in Nat
      /\ old.project \in Contents /\ old.project # Absent
      /\ id \in Recorded(st)
  BY <1>1, StateFacts, SentinelAssumption
  DEF Live, IsLive, Sound, RecordsSound, Recorded, Record
<1>6. d.baseRevision <= old.revision /\ e.baseRevision <= old.revision
  BY <1>1, <1>3, <1>4, <1>5 DEF Sound, SeenSound
<1>7. old.generation <= d.baseRevision /\ old.generation <= e.baseRevision
  BY <1>3, <1>4, <1>5 DEF Admissible, UnacknowledgedGeneration
<1>8. d.baseRevision = old.revision \/ e.baseRevision = old.revision
  BY <1>3, <1>4
<1>9. Canonical(st)[id] = old.project
  BY <1>1, <1>5 DEF Canonical
<1>10. /\ Outranked(old, d) \/ SameAsRecord(old, d) => r = old
       /\ ~Outranked(old, d) /\ ~SameAsRecord(old, d) => r = Rewritten(old, d, n)
       /\ Outranked(old, d) \/ SameAsRecord(old, d) => Canonical(f)[id] = old.project
       /\ ~Outranked(old, d) => Canonical(f)[id] = IF d.deleted THEN Absent ELSE d.project
  <2>1. Contenders(st, first, id) = {d} /\ Contenders(st, first, id) # {}
    BY <1>2
  <2>2. Winner(st, first, id) = d
    BY <1>1, <2>1, WinnerIs
  <2>3. LET w == Winner(st, first, id)
        IN  /\ Outranked(old, w) \/ SameAsRecord(old, w)
                 => r = old /\ Canonical(f)[id] = Canonical(st)[id]
            /\ ~Outranked(old, w) /\ ~SameAsRecord(old, w) => r = Rewritten(old, w, n)
            /\ ~Outranked(old, w)
                 => Canonical(f)[id] = IF w.deleted THEN Absent ELSE w.project
    BY <1>1, <2>1, Outcome
  <2>4. QED
    BY ONLY <1>9, <2>2, <2>3
<1>11. /\ Outranked(r, e) /\ Admissible(r, e) => staggered = Canonical(f)[id]
       /\ ~Outranked(r, e) /\ Admissible(r, e)
            => staggered = IF e.deleted THEN Absent ELSE e.project
       /\ ~Admissible(r, e) => staggered = Canonical(f)[id]
  <2>1. Admissible(r, e) => Contenders(f, second, id) = {e}
    BY <1>2
  <2>2. ~Admissible(r, e) => Contenders(f, second, id) = {}
    BY <1>2
  <2>3. Admissible(r, e) => Winner(f, second, id) = e
    BY <1>1, <1>2, <2>1, WinnerIs
  <2>4. LET w == Winner(f, second, id)
        IN  /\ Contenders(f, second, id) = {} \/ Outranked(r, w)
                 => staggered = Canonical(f)[id]
            /\ Contenders(f, second, id) # {} /\ ~Outranked(r, w)
                 => staggered = IF w.deleted THEN Absent ELSE w.project
    <3>1. f \in State /\ Sound(f)
      BY <1>2
    <3> HIDE DEF f
    <3>2. QED
      BY ONLY <1>1, <3>1, Outcome
  <2>5. QED
    BY ONLY <2>1, <2>2, <2>3, <2>4
<1>12. ASSUME Beats(d, e), ~Outranked(old, d)
       PROVE  together = IF d.deleted THEN Absent ELSE d.project
  <2>1. Winner(st, both, id) = d
    BY <1>1, <1>2, <1>12, WinnerIs
  <2>2. LET w == Winner(st, both, id)
        IN  Contenders(st, both, id) # {} /\ ~Outranked(old, w)
              => together = IF w.deleted THEN Absent ELSE w.project
    BY <1>1, Outcome
  <2>3. Contenders(st, both, id) # {}
    BY <1>2
  <2>4. QED
    BY ONLY <1>12, <2>1, <2>2, <2>3
<1>13. ASSUME Beats(e, d)
       PROVE  /\ Outranked(old, e) => together = old.project
              /\ ~Outranked(old, e) => together = IF e.deleted THEN Absent ELSE e.project
  <2>1. Winner(st, both, id) = e
    BY <1>1, <1>2, <1>13, WinnerIs
  <2>2. LET w == Winner(st, both, id)
        IN  /\ Outranked(old, w) => together = Canonical(st)[id]
            /\ Contenders(st, both, id) # {} /\ ~Outranked(old, w)
                 => together = IF w.deleted THEN Absent ELSE w.project
    BY <1>1, Outcome
  <2>3. Contenders(st, both, id) # {}
    BY <1>2
  <2>4. QED
    BY ONLY <1>9, <2>1, <2>2, <2>3
<1>14. Beats(d, e) \/ Beats(e, d)
  <2>1. d.writer # e.writer
    BY <1>3, <1>4
  <2>2. QED
    BY <1>3, <1>4, <2>1, BeatsOrder
<1>15. r # NoRecord
  BY <1>1, <1>5, NextRecordFacts DEF Reconcile, Sound
<1> HIDE DEF f, r, together, staggered, old
<1>16. ASSUME Outranked(old, d)
       PROVE  staggered = together
  <2>1. d.baseRevision < old.revision /\ ~d.deleted
    BY <1>16 DEF Outranked
  <2>2. e.baseRevision > d.baseRevision
    BY <1>3, <1>4, <1>5, <1>8, <2>1
  <2>3. Beats(e, d)
    BY <1>3, <1>4, <2>1, <2>2 DEF Beats, HigherRank
  <2>4. r = old /\ Canonical(f)[id] = old.project
    BY <1>10, <1>16
  <2>5. QED
    BY <1>11, <1>13, <2>3, <2>4 DEF old
<1>17. ASSUME ~Outranked(old, d), SameAsRecord(old, d)
       PROVE  staggered = together
  <2>1. ~d.deleted /\ d.project = old.project
    BY <1>5, <1>17 DEF SameAsRecord
  <2>2. r = old /\ Canonical(f)[id] = old.project
    BY <1>10, <1>17
  <2>3. d.baseRevision # old.revision
    <3>1. SUFFICES ASSUME Seen(st, p, id) = old.revision
                   PROVE  FALSE
      BY <1>3
    <3>2. Previous(st, p, id) = old.project
      BY <1>1, <1>5, <1>9, <3>1 DEF Sound, Acknowledged, old
    <3>3. both[p][id] = d.project
      BY <2>1 DEF Change
    <3>4. QED
      BY <2>1, <3>2, <3>3 DEF Changed
  <2>4. e.baseRevision > d.baseRevision
    BY <1>3, <1>4, <1>5, <1>6, <1>8, <2>3
  <2>5. Beats(e, d)
    BY <1>3, <1>4, <2>1, <2>4 DEF Beats, HigherRank
  <2>6. QED
    BY <1>11, <1>13, <2>2, <2>5 DEF old
<1>18. ASSUME ~Outranked(old, d), ~SameAsRecord(old, d), d.deleted
       PROVE  staggered = together
  <2>1. r = Rewritten(old, d, n) /\ Canonical(f)[id] = Absent
    BY <1>10, <1>18
  <2>2. r.deleted /\ r.revision = n
    BY <1>18, <2>1 DEF Rewritten
  <2>3. e.baseRevision < r.revision
    BY <1>4, <1>5, <1>6, <2>2
  <2>4. ~Admissible(r, e)
    BY <1>4, <1>15, <2>2, <2>3 DEF Admissible, Repeated, StaleResurrection
  <2>5. staggered = Absent
    BY <1>11, <2>1, <2>4
  <2>6. CASE Beats(d, e)
    BY <1>12, <1>18, <2>5, <2>6
  <2>7. CASE Beats(e, d)
    <3>1. e.deleted
      BY <1>3, <1>4, <1>18, <2>7 DEF Beats
    <3>2. ~Outranked(old, e)
      BY <3>1 DEF Outranked
    <3>3. QED
      BY <1>13, <2>5, <2>7, <3>1, <3>2
  <2>8. QED
    BY <1>14, <2>6, <2>7
<1>19. ASSUME ~Outranked(old, d), ~SameAsRecord(old, d), ~d.deleted
       PROVE  staggered = together
  <2>1. r = Rewritten(old, d, n) /\ Canonical(f)[id] = d.project
    BY <1>10, <1>19
  <2>2. /\ ~r.deleted /\ r.revision = n /\ r.generation = old.generation
        /\ r.baseRevision = d.baseRevision /\ r.writer = d.writer
    BY <1>5, <1>19, <2>1 DEF Rewritten
  <2>4. Admissible(r, e)
    BY <1>4, <1>5, <1>7, <1>15, <2>2
    DEF Admissible, Repeated, StaleResurrection, UnacknowledgedGeneration
  <2>5. Outranked(r, e) <=> ~e.deleted /\ ~HigherRank(e, d)
    <3>1. e.baseRevision < r.revision
      BY <1>4, <1>5, <1>6, <2>2
    <3>2. HigherRank(e, r) <=> HigherRank(e, d)
      BY <2>2 DEF HigherRank
    <3>3. QED
      BY <1>15, <2>2, <3>1, <3>2 DEF Outranked, IsLive
  <2>6. CASE Beats(d, e)
    <3>1. ~e.deleted /\ HigherRank(d, e)
      BY <1>3, <1>4, <1>19, <2>6 DEF Beats
    <3>2. ~HigherRank(e, d)
      <4>1. Precedence[d.writer] \in Nat /\ Precedence[e.writer] \in Nat
        BY <1>1, <1>3, <1>4, PrecedenceAssumption
      <4>2. QED
        BY <1>3, <1>4, <3>1, <4>1 DEF HigherRank
    <3>3. staggered = d.project
      BY <1>11, <2>1, <2>4, <2>5, <3>1, <3>2
    <3>4. together = d.project
      BY <1>12, <1>19, <2>6
    <3>5. QED
      BY <3>3, <3>4
  <2>7. CASE Beats(e, d)
    <3>1. ~Outranked(r, e)
      BY <1>3, <1>4, <1>19, <2>5, <2>7 DEF Beats
    <3>2. staggered = IF e.deleted THEN Absent ELSE e.project
      BY <1>11, <2>4, <3>1
    <3>3. ~Outranked(old, e)
      <4>1. SUFFICES ASSUME ~e.deleted, e.baseRevision < old.revision
                     PROVE  FALSE
        BY DEF Outranked
      <4>2. HigherRank(e, d)
        BY <1>3, <1>19, <2>7, <4>1 DEF Beats
      <4>3. QED
        BY <1>3, <1>4, <1>5, <1>8, <4>1, <4>2 DEF HigherRank
    <3>4. together = IF e.deleted THEN Absent ELSE e.project
      BY <1>13, <2>7, <3>3
    <3>5. QED
      BY <3>2, <3>4
  <2>8. QED
    BY <1>14, <2>6, <2>7
<1>20. staggered = together
  BY <1>16, <1>17, <1>18, <1>19
<1>21. QED
  BY <1>20 DEF staggered, together, f

\* In every group, two participants' changes of a project in the list have the
\* same outcome in one batch or one after the other if at least one of the two
\* participants has the project's current revision.
THEOREM CurrentChangesCommute ==
  ASSUME NEW st \in State, Sound(st), NEW p \in Owners(st), NEW q \in Owners(st),
         p # q, NEW both, NEW first, NEW second,
         Staggered(both, first, second, p, q), NEW id \in Live(st),
         LET old == st.records[id]
         IN  /\ Seen(st, p, id) >= old.generation
             /\ Seen(st, q, id) >= old.generation
             => \/ Seen(st, p, id) = old.revision
                \/ Seen(st, q, id) = old.revision
  PROVE  Canonical(Reconcile(Reconcile(st, first), second))[id]
           = Canonical(Reconcile(st, both))[id]
<1> DEFINE f == Reconcile(st, first)
           old == st.records[id]
           r == f.records[id]
           d == Change(st, both, p, id)
           e == Change(st, both, q, id)
           P == Changed(st, both, p, id) /\ Admissible(old, d)
           Q == Changed(st, both, q, id) /\ Admissible(old, e)
<1>1. /\ both \in Observations /\ first \in Observations /\ second \in Observations
      /\ Valid(both) # {} /\ Valid(first) # {} /\ Valid(second) # {}
      /\ p \in Writers /\ q \in Writers /\ id \in Projects
  BY DEF Staggered, Owners, Live
<1>2. /\ f \in State /\ Sound(f)
      /\ Contenders(st, both, id) = {x \in {d} : P} \cup {x \in {e} : Q}
      /\ Contenders(st, first, id) = {x \in {d} : P}
      /\ Contenders(f, second, id) =
           {x \in {e} : Changed(st, both, q, id) /\ Admissible(r, e)}
  BY <1>1, StaggeredFacts
<1>3. /\ old \in Record /\ old # NoRecord /\ ~old.deleted /\ IsLive(old)
      /\ old.revision \in 1 .. st.revision /\ st.revision \in Nat
      /\ old.generation \in 1 .. old.revision
  BY <1>1, StateFacts DEF Live, IsLive, Sound, RecordsSound, Recorded
<1>4. CASE P /\ Q
  <2>1. d.baseRevision = Seen(st, p, id) /\ e.baseRevision = Seen(st, q, id)
    BY DEF Change
  <2>2. Seen(st, p, id) \in Nat /\ Seen(st, q, id) \in Nat
    BY <1>1, StateFacts
  <2>3. Seen(st, p, id) >= old.generation /\ Seen(st, q, id) >= old.generation
    BY <1>3, <1>4, <2>1, <2>2 DEF Admissible, UnacknowledgedGeneration
  <2>4. QED
    BY <1>4, <2>3, BothAdmissible
<1>5. CASE ~P
  <2>1. Contenders(st, first, id) = {}
    BY <1>2, <1>5
  <2>2. r = old /\ Canonical(f)[id] = Canonical(st)[id]
    BY <1>1, <2>1, Outcome
  <2>3. Contenders(f, second, id) = Contenders(st, both, id)
    BY <1>2, <1>5, <2>2
  <2>4. Winner(f, second, id) = Winner(st, both, id)
    BY <2>3 DEF Winner
  <2> DEFINE w == Winner(st, both, id)
             C == Contenders(st, both, id)
  <2>5. Canonical(Reconcile(st, both))[id] =
          IF C = {} \/ Outranked(old, w) THEN Canonical(st)[id]
          ELSE IF w.deleted THEN Absent ELSE w.project
    BY <1>1, Outcome
  <2>6. Canonical(Reconcile(f, second))[id] =
          IF C = {} \/ Outranked(old, w) THEN Canonical(st)[id]
          ELSE IF w.deleted THEN Absent ELSE w.project
    <3>1. f \in State /\ Sound(f)
      BY <1>2
    <3> HIDE DEF f
    <3>2. LET v == Winner(f, second, id)
          IN  /\ Contenders(f, second, id) = {} \/ Outranked(r, v)
                   => Canonical(Reconcile(f, second))[id] = Canonical(f)[id]
              /\ Contenders(f, second, id) # {} /\ ~Outranked(r, v)
                   => Canonical(Reconcile(f, second))[id] =
                        IF v.deleted THEN Absent ELSE v.project
      BY ONLY <1>1, <3>1, Outcome
    <3> HIDE DEF old, r, C, w
    <3>3. QED
      BY <2>2, <2>3, <2>4, <3>2 DEF C, w
  <2>7. QED
    BY <2>5, <2>6
<1>6. CASE P /\ ~Q
  <2>1. Contenders(st, first, id) = {d} /\ Contenders(st, both, id) = {d}
    BY <1>2, <1>6
  <2>2. Winner(st, first, id) = d /\ Winner(st, both, id) = d
    BY <1>1, <2>1, WinnerIs
  <2>3. Canonical(f)[id] = Canonical(Reconcile(st, both))[id]
    <3>1. Canonical(f)[id] =
            IF Outranked(old, d) THEN Canonical(st)[id]
            ELSE IF d.deleted THEN Absent ELSE d.project
      BY <1>1, <2>1, <2>2, Outcome
    <3>2. Canonical(Reconcile(st, both))[id] =
            IF Outranked(old, d) THEN Canonical(st)[id]
            ELSE IF d.deleted THEN Absent ELSE d.project
      BY <1>1, <2>1, <2>2, Outcome
    <3>3. QED
      BY <3>1, <3>2
  <2>4. Contenders(f, second, id) = {}
    <3>1. SUFFICES ASSUME Changed(st, both, q, id), Admissible(r, e)
                   PROVE  FALSE
      BY <1>2
    <3>2. ~Admissible(old, e)
      BY <1>6, <3>1
    <3>3. r = old \/ r = Rewritten(old, d, st.revision + 1)
      BY <1>1, <2>1, <2>2, Outcome
    <3>4. d \in Event /\ e \in Event /\ d.project \in Contents
      BY <1>1, <1>6, <3>1, ChangeType
    <3>5. ~Admissible(Rewritten(old, d, st.revision + 1), e)
      <4>1. /\ st.revision + 1 \in Nat /\ old.revision < st.revision + 1
            /\ old.generation <= old.revision
        BY <1>3
      <4>2. QED
        BY <1>3, <3>2, <3>4, <4>1, RefusedStays
    <3>6. QED
      BY <3>1, <3>2, <3>3, <3>5
  <2>5. Canonical(Reconcile(f, second))[id] = Canonical(f)[id]
    <3>1. f \in State /\ Sound(f)
      BY <1>2
    <3> HIDE DEF f
    <3>2. QED
      BY <1>1, <2>4, <3>1, Outcome
  <2>6. QED
    BY <2>3, <2>5
<1>7. QED
  BY <1>4, <1>5, <1>6

-----------------------------------------------------------------------------
(* Groups of two: the base and one copy.                                    *)

PairOfProfiles == \E a, b : Profiles = {a, b}

\* Of two participants at least one has the current revision of a project, as
\* far as they know it at all.
LEMMA OneIsCurrent ==
  ASSUME PairOfProfiles, GroupInv, NEW p \in Profiles, NEW q \in Profiles, p # q,
         NEW id \in Live(state)
  PROVE  LET old == state.records[id]
         IN  /\ Seen(state, p, id) >= old.generation
             /\ Seen(state, q, id) >= old.generation
             => \/ Seen(state, p, id) = old.revision
                \/ Seen(state, q, id) = old.revision
<1> DEFINE old == state.records[id]
<1>1. /\ state \in State /\ Sound(state) /\ WriterHasIt(state)
      /\ id \in Projects /\ p \in Writers /\ q \in Writers
  BY GroupAssumption DEF GroupInv, IndInv, TypeOK, Live
<1>2. /\ old.revision \in Nat /\ old.generation \in Nat
      /\ old.generation <= old.revision
  BY <1>1, StateFacts DEF Live, IsLive, Sound, RecordsSound, Recorded, Record
<1>3. Seen(state, p, id) \in Nat /\ Seen(state, q, id) \in Nat
  BY <1>1, StateFacts
<1>4. Seen(state, p, id) > 0 => Seen(state, p, id) <= old.revision
  BY <1>1 DEF Sound, SeenSound
<1>5. CASE old.generation < old.revision
  <2>1. old.writer \in Profiles /\ Seen(state, old.writer, id) = old.revision
    BY <1>1, <1>5 DEF WriterHasIt
  <2>2. old.writer \in {p, q}
    BY <2>1 DEF PairOfProfiles
  <2>3. QED
    BY <2>1, <2>2
<1>6. CASE old.generation = old.revision
  <2>1. old.revision > 0
    BY <1>1, <1>2 DEF Live, IsLive, Sound, RecordsSound, Recorded
  <2>2. QED
    BY <1>2, <1>3, <1>4, <1>6, <2>1
<1>7. QED
  BY <1>2, <1>5, <1>6

\* In a group of two no change is lost without a report, whichever of the two
\* is readable (project_sync.hpp:143-165).
THEOREM NoLossWithoutReport ==
  ASSUME PairOfProfiles
  PROVE  Spec => []LostChangesAreReported
<1>1. GroupInv => LostChangesAreReported
  <2> SUFFICES ASSUME GroupInv, NEW P \in SUBSET Profiles,
                      NEW p \in P, NEW id \in Projects,
                      Changed(state, ObservationOf(P), p, id),
                      Canonical(Reconcile(state, ObservationOf(P)))[id]
                        # registry[p][id]
               PROVE  \E conflict \in Conflicts(state, ObservationOf(P)) :
                        conflict[1] = id /\ conflict[2] = p
    BY DEF LostChangesAreReported
  <2> DEFINE obs == ObservationOf(P)
             old == state.records[id]
             e == Change(state, obs, p, id)
             w == Winner(state, obs, id)
  <2>1. /\ TypeOK /\ state \in State /\ Sound(state)
        /\ p \in Profiles /\ p \in Writers
    BY GroupAssumption DEF GroupInv, IndInv, TypeOK
  <2>2. /\ obs \in Observations
        /\ \A v \in Valid(obs) : v \in Profiles
    BY <2>1, ObservationOfFacts
  <2>3. obs[p] = registry[p]
    BY <2>1 DEF ObservationOf
  <2>4. CASE \E reason : <<id, p, reason>> \in Conflicts(state, obs)
    BY <2>4
  <2>5. CASE /\ e \in Contenders(state, obs, id)
             /\ Outranked(old, w)
             /\ w \in Contenders(state, obs, id)
             /\ Beats(w, e)
    <3>1. /\ w \in Changes(state, obs, id) /\ Admissible(old, w)
          /\ e \in Changes(state, obs, id) /\ Admissible(old, e)
      BY <2>5 DEF Contenders
    <3>2. /\ w \in Event /\ w.writer \in Writers
          /\ Changed(state, obs, w.writer, id)
          /\ w.baseRevision = Seen(state, w.writer, id)
          /\ w.baseRevision \in Nat
      BY <2>1, <2>2, <3>1, ChangesType DEF Event
    <3>3. /\ e \in Event /\ e.writer = p
          /\ e.baseRevision = Seen(state, p, id)
          /\ e.baseRevision \in Nat
      BY <2>1, <2>2, <3>1, ChangesType DEF Event, Change
    <3>4. w.writer \in Profiles
      BY <2>2, <3>2 DEF Changed
    <3>5. id \in Live(state) /\ ~w.deleted /\ w.baseRevision < old.revision
      BY <2>5 DEF Outranked, Live
    <3>6. /\ old.revision \in Nat /\ old.generation \in Nat
      BY <2>1, <3>5, StateFacts DEF Live, IsLive, Record
    <3>7. e.baseRevision >= old.generation /\ w.baseRevision >= old.generation
      BY <3>1, <3>2, <3>3, <3>5, <3>6
      DEF Admissible, UnacknowledgedGeneration, Live
    <3>8. w.writer # p
      <4>1. w = Change(state, obs, w.writer, id)
        BY <2>1, <2>2, <3>1, ChangesType
      <4>2. w # e
        BY <2>5, <3>3, BeatsOrder
      <4>3. QED
        BY <4>1, <4>2
    <3>9. e.baseRevision = old.revision
      BY <2>1, <3>2, <3>3, <3>4, <3>5, <3>7, <3>8, OneIsCurrent
    <3>10. w.baseRevision >= e.baseRevision
      BY <2>5, <3>2, <3>3, <3>5 DEF Beats, HigherRank
    <3>11. QED
      BY <3>2, <3>5, <3>6, <3>9, <3>10
  <2>6. QED
    BY <2>1, <2>2, <2>3, <2>4, <2>5, LostUnlessOutranked
<1>2. QED
  BY <1>1, GroupInvariance, PTL

\* In a group of two, concurrent changes of a project in the list end the same
\* whether the two are observed in one batch or one after the other
\* (project_sync.hpp:143-170).
THEOREM OrderOfPassesDoesNotMatter ==
  ASSUME PairOfProfiles
  PROVE  Spec => []StaggeredBatchesAgree
<1>1. GroupInv => StaggeredBatchesAgree
  <2> SUFFICES ASSUME GroupInv, NEW p \in Profiles \cap Owners(state),
                      NEW q \in Profiles \cap Owners(state), NEW id \in Live(state)
               PROVE  Canonical(Reconcile(state, ObservationOf({p, q})))[id] =
                        Canonical(Reconcile(Reconcile(state, ObservationOf({p})),
                                            ObservationOf({q})))[id]
    BY DEF StaggeredBatchesAgree
  <2>1. TypeOK /\ state \in State /\ Sound(state)
    BY DEF GroupInv, IndInv, TypeOK
  <2>2. \A P \in SUBSET Profiles :
          /\ ObservationOf(P) \in Observations
          /\ Valid(ObservationOf(P)) = P
          /\ \A v \in P : ObservationOf(P)[v] = registry[v]
    <3>1. \A v \in Profiles : registry[v] # Unavailable /\ v \in Writers
      BY <2>1, SentinelAssumption, GroupAssumption DEF TypeOK, Registry
    <3>2. SUFFICES ASSUME NEW P \in SUBSET Profiles
                   PROVE  /\ Valid(ObservationOf(P)) = P
                          /\ \A v \in P : ObservationOf(P)[v] = registry[v]
      BY <2>1, ObservationOfFacts
    <3>3. QED
      BY <3>1 DEF ObservationOf, Valid
  <2>3. CASE p = q
    BY <2>1, <2>2, <2>3, ReconcileTwice
  <2>4. CASE p # q
    <3>1. Staggered(ObservationOf({p, q}), ObservationOf({p}), ObservationOf({q}), p, q)
      BY <2>2 DEF Staggered
    <3>2. LET old == state.records[id]
          IN  /\ Seen(state, p, id) >= old.generation
              /\ Seen(state, q, id) >= old.generation
              => \/ Seen(state, p, id) = old.revision
                 \/ Seen(state, q, id) = old.revision
      BY <2>4, OneIsCurrent
    <3>3. QED
      BY <2>1, <2>4, <3>1, <3>2, CurrentChangesCommute
  <2>5. QED
    BY <2>3, <2>4
<1>2. QED
  BY <1>1, GroupInvariance, PTL

=============================================================================
