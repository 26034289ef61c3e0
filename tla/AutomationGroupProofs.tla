----------------------- MODULE AutomationGroupProofs -----------------------
(***************************************************************************)
(* Theorems of AutomationSync and AutomationGroup, for any number of       *)
(* participants, automations and changes.                                  *)
(*                                                                         *)
(* Under any users: the types, what a batch may do to the status of a      *)
(* schedule, and that a batch loses no edit.  Under careful users: that at *)
(* most one home has a schedule switched on, and that AppDeck starts no    *)
(* Desktop beside a rival of its owner, as long as the journal can hold    *)
(* every id there is (Fitting): of a batch beyond the capacity the engine  *)
(* reports no unsafe id at all (automation_sync.hpp:134), and a launch     *)
(* goes on.                                                                *)
(***************************************************************************)
EXTENDS AutomationGroup, FiniteSetTheorems, WellFoundedInduction, TLAPS

-----------------------------------------------------------------------------
(* One automation in one batch.                                             *)

Observations == [Profiles -> [Automations -> File] \cup {Unavailable}]

LEMMA ObservationType ==
  ASSUME NEW P \in SUBSET Profiles, file \in [Profiles -> [Automations -> File]]
  PROVE  /\ ObservationOf(P) \in Observations
         /\ Valid(ObservationOf(P)) = P
         /\ \A p \in P : ObservationOf(P)[p] = file[p]
<1>1. ObservationOf(P) \in Observations /\ \A p \in P : ObservationOf(P)[p] = file[p]
  BY DEF ObservationOf, Observations
<1>2. \A p \in P : ObservationOf(P)[p] # Unavailable
  BY <1>1, AutomationSentinels DEF File
<1>3. \A p \in Profiles \ P : ObservationOf(P)[p] = Unavailable
  BY DEF ObservationOf
<1>4. QED
  BY <1>1, <1>2, <1>3 DEF Valid

LEMMA HoldersAreValid ==
  ASSUME NEW obs \in Observations, NEW id \in Automations
  PROVE  /\ Valid(obs) \subseteq Profiles
         /\ Holders(obs, id) \subseteq Valid(obs)
         /\ \A p \in Valid(obs) : obs[p] \in [Automations -> File]
         /\ \A p \in Valid(obs) \ Holders(obs, id) : obs[p][id] = None
BY DEF Valid, Holders, Observations

\* Every definition of an id that is not blocked was parsed.
LEMMA HeldText ==
  ASSUME NEW obs \in Observations, NEW id \in Automations, ~Blocked(obs, id),
         NEW p \in Holders(obs, id)
  PROVE  p \in Profiles /\ obs[p][id] \in Text
<1>1. p \in Valid(obs) /\ p \in Profiles /\ obs[p] \in [Automations -> File]
  BY HoldersAreValid
<1>2. obs[p][id] \in File /\ obs[p][id] # None /\ obs[p][id] # Unsupported
  BY <1>1 DEF Blocked, Holders
<1>3. QED
  BY <1>1, <1>2 DEF File

\* A held id has a first holder.
LEMMA FirstHolds ==
  ASSUME NEW obs \in Observations, NEW id \in Automations, Holders(obs, id) # {}
  PROVE  First(obs, id) \in Holders(obs, id)
<1> DEFINE H == Holders(obs, id)
           Before(p) == {q \in H : Rank[q] < Rank[p]}
           T == {Before(p) : p \in H}
<1>1. H \subseteq Profiles /\ H # {}
  BY HoldersAreValid
<1>2. IsFiniteSet(H)
  BY <1>1, RankAssumption, FS_Subset
<1>3. \A p \in H : Rank[p] \in Nat
  BY <1>1, RankAssumption
<1>4. First(obs, id) = CHOOSE p \in H : \A q \in H : Rank[p] <= Rank[q]
  BY DEF First
<1> HIDE DEF H
<1>5. T \subseteq FiniteSubsetsOf(H) /\ T # {}
  <2>1. ASSUME NEW p \in H PROVE Before(p) \in SUBSET H /\ IsFiniteSet(Before(p))
    <3>1. Before(p) \in SUBSET H
      OBVIOUS
    <3>2. QED
      BY ONLY <3>1, <1>2, FS_Subset
  <2>2. QED
    BY <1>1, <2>1 DEF FiniteSubsetsOf
<1>6. PICK t \in T : \A u \in T : ~(<<u, t>> \in StrictSubsetOrdering(H))
  BY <1>5, FS_StrictSubsetOrderingWellFounded, WFMin
<1>7. PICK p \in H : t = Before(p)
  OBVIOUS
<1>8. ASSUME NEW q \in H, Rank[q] < Rank[p]
      PROVE  FALSE
  <2>1. Before(q) \subseteq Before(p) /\ q \in Before(p) /\ q \notin Before(q)
    BY <1>3, <1>8
  <2>2. <<Before(q), Before(p)>> \in StrictSubsetOrdering(H)
    BY <2>1 DEF StrictSubsetOrdering
  <2>3. QED
    BY <1>6, <1>7, <2>2
<1>9. \A q \in H : Rank[p] <= Rank[q]
  BY <1>3, <1>8
<1>10. QED
  BY <1>4, <1>9 DEF H

-----------------------------------------------------------------------------
(* What a batch decides.                                                    *)

\* The record a decision starts from.
LEMMA KnownType ==
  ASSUME NEW st \in State, NEW obs \in Observations, NEW id \in Automations,
         ~Skipped(st, obs, id)
  PROVE  /\ Known(st, obs, id) \in Record
         /\ st.records[id] # None => Known(st, obs, id) = st.records[id]
         /\ st.records[id] = None => /\ Known(st, obs, id).owner \in Holders(obs, id)
                                     /\ ~Known(st, obs, id).deleted
<1>1. st.records[id] \in Record \cup {None}
  BY DEF State
<1>2. CASE st.records[id] # None
  BY <1>1, <1>2 DEF Known
<1>3. CASE st.records[id] = None
  <2>1. ~Blocked(obs, id) /\ Holders(obs, id) # {}
    BY <1>3 DEF Skipped
  <2>2. First(obs, id) \in Holders(obs, id)
    BY <2>1, FirstHolds
  <2>3. First(obs, id) \in Profiles /\ obs[First(obs, id)][id] \in Text
    BY <2>1, <2>2, HeldText
  <2>4. Known(st, obs, id) = [owner |-> First(obs, id),
                              text |-> obs[First(obs, id)][id], deleted |-> FALSE]
    BY <1>3 DEF Known
  <2>5. QED
    BY <1>3, <2>2, <2>3, <2>4 DEF Record
<1>4. QED
  BY <1>2, <1>3

LEMMA StatusChange ==
  ASSUME NEW t \in Text, NEW s \in Status
  PROVE  /\ WithStatus(t, s) \in Text
         /\ WithStatus(t, s).status = s /\ WithStatus(t, s).body = t.body
BY DEF WithStatus, Text

\* A holder proposes its body; only the owner proposes a status.
LEMMA ProposedType ==
  ASSUME NEW st \in State, NEW obs \in Observations, NEW id \in Automations,
         ~Skipped(st, obs, id), NEW p \in Holders(obs, id)
  PROVE  /\ Proposed(st, obs, p, id) \in Text
         /\ Proposed(st, obs, p, id).body = obs[p][id].body
         /\ p = Known(st, obs, id).owner => Proposed(st, obs, p, id) = obs[p][id]
         /\ p # Known(st, obs, id).owner =>
              Proposed(st, obs, p, id).status = Known(st, obs, id).text.status
<1>1. obs[p][id] \in Text
  BY HeldText DEF Skipped
<1>2. Known(st, obs, id).text \in Text /\ Known(st, obs, id).text.status \in Status
  BY KnownType DEF Record, Text
<1>3. QED
  BY <1>1, <1>2, StatusChange DEF Proposed

\* Whatever decides a text was proposed by somebody who changed something.
LEMMA CandidateIsProposed ==
  ASSUME NEW st \in State, NEW obs \in Observations, NEW id \in Automations,
         ~Skipped(st, obs, id), NEW t \in Candidates(st, obs, id)
  PROVE  /\ t \in Text
         /\ \E p \in Editors(st, obs, id) :
              p \in Holders(obs, id) /\ t = Proposed(st, obs, p, id)
<1>1. PICK p \in Editors(st, obs, id) : t = Proposed(st, obs, p, id)
  BY DEF Candidates
<1>2. p \in Holders(obs, id)
  BY DEF Editors
<1>3. QED
  BY <1>1, <1>2, ProposedType

LEMMA CandidatesFinite ==
  ASSUME NEW st \in State, NEW obs \in Observations, NEW id \in Automations
  PROVE  IsFiniteSet(Candidates(st, obs, id))
<1> DEFINE E == Editors(st, obs, id)
           F == [p \in E |-> Proposed(st, obs, p, id)]
<1>1. E \in SUBSET Profiles
  BY HoldersAreValid DEF Editors
<1>2. IsFiniteSet(E)
  BY <1>1, RankAssumption, FS_Subset
<1>3. F \in Surjection(E, Candidates(st, obs, id))
  BY DEF Surjection, Candidates
<1>4. QED
  BY <1>2, <1>3, FS_Surjection

\* The text of a decision.
DecidedText(st, obs, id) ==
  IF Candidates(st, obs, id) = {} THEN Known(st, obs, id).text
  ELSE CHOOSE t \in Candidates(st, obs, id) : TRUE

LEMMA DecidedType ==
  ASSUME NEW st \in State, NEW obs \in Observations, NEW id \in Automations,
         ~Skipped(st, obs, id)
  PROVE  /\ Decided(st, obs, id) \in Record
         /\ Decided(st, obs, id).owner = Known(st, obs, id).owner
         /\ Decided(st, obs, id).text = DecidedText(st, obs, id)
         /\ Known(st, obs, id).deleted => Decided(st, obs, id).deleted
<1> DEFINE r == Known(st, obs, id)
           text == DecidedText(st, obs, id)
           deleted == \/ r.deleted
                      \/ Deleters(st, obs, id) # {}
                      \/ text.status = "DELETED"
<1>1. r \in Record
  BY KnownType
<1>2. text \in Text
  BY <1>1, CandidateIsProposed DEF DecidedText, Record
<1>3. Decided(st, obs, id) = [r EXCEPT !.text = text, !.deleted = deleted]
  BY DEF Decided, DecidedText
<1>4. deleted \in BOOLEAN
  BY <1>1 DEF Record
<1> HIDE DEF r, text, deleted
<1>5. /\ Decided(st, obs, id) \in Record
      /\ Decided(st, obs, id).owner = r.owner
      /\ Decided(st, obs, id).text = text
      /\ Decided(st, obs, id).deleted = deleted
  BY <1>1, <1>2, <1>3, <1>4 DEF Record
<1>6. QED
  BY <1>5 DEF r, text, deleted

\* Without a dispute there is at most one candidate.
LEMMA UndisputedCandidate ==
  ASSUME NEW st \in State, NEW obs \in Observations, NEW id \in Automations,
         ~Disputed(st, obs, id), NEW t \in Candidates(st, obs, id)
  PROVE  DecidedText(st, obs, id) = t
<1> DEFINE C == Candidates(st, obs, id)
<1>1. IsFiniteSet(C) /\ Cardinality(C) \in Nat
  BY CandidatesFinite, FS_CardinalityType
<1>2. ~(Cardinality(C) > 1)
  BY DEF Disputed
<1>3. Cardinality(C) # 0
  BY <1>1, FS_EmptySet
<1>4. PICK u : C = {u}
  BY <1>1, <1>2, <1>3, FS_Singleton
<1>5. QED
  BY <1>4 DEF DecidedText

-----------------------------------------------------------------------------
(* A whole batch.                                                           *)

\* The next record of an id.
LEMMA NextRecord ==
  ASSUME NEW st \in State, NEW obs \in Observations, NEW id \in Automations,
         Fits(st, obs), NEW r, r = Reconcile(st, obs).records[id]
  PROVE  /\ Skipped(st, obs, id) => r = st.records[id]
         /\ ~Skipped(st, obs, id) /\ Disputed(st, obs, id) => r = Known(st, obs, id)
         /\ ~Skipped(st, obs, id) /\ ~Disputed(st, obs, id) => r = Decided(st, obs, id)
BY DEF Reconcile

LEMMA ReconcileType ==
  ASSUME NEW st \in State, NEW obs \in Observations
  PROVE  Reconcile(st, obs) \in State
<1>1. CASE ~Fits(st, obs)
  BY <1>1 DEF Reconcile
<1>2. CASE Fits(st, obs)
  <2>1. ASSUME NEW id \in Automations
        PROVE  Reconcile(st, obs).records[id] \in Record \cup {None}
    <3>1. st.records[id] \in Record \cup {None}
      BY DEF State
    <3>2. QED
      BY <1>2, <3>1, NextRecord, KnownType, DecidedType
  <2>2. ASSUME NEW p \in Profiles, NEW id \in Automations
        PROVE  Reconcile(st, obs).profiles[p][id] \in Text \cup {None}
    <3>1. Reconcile(st, obs).profiles[p][id] =
            IF Accepted(st, obs, p, id) THEN obs[p][id] ELSE st.profiles[p][id]
      BY <1>2 DEF Reconcile
    <3>2. st.profiles[p][id] \in Text \cup {None}
      BY DEF State
    <3>3. ASSUME Accepted(st, obs, p, id)
          PROVE  obs[p][id] \in Text \cup {None}
      <4>1. p \in Valid(obs) /\ ~Blocked(obs, id)
        BY <3>3 DEF Accepted, Skipped
      <4>2. QED
        BY <4>1, HeldText, HoldersAreValid
    <3>4. QED
      BY <3>1, <3>2, <3>3
  <2>3. /\ Reconcile(st, obs) =
             [records |-> Reconcile(st, obs).records,
              profiles |-> Reconcile(st, obs).profiles]
        /\ Reconcile(st, obs).records =
             [id \in Automations |-> Reconcile(st, obs).records[id]]
        /\ Reconcile(st, obs).profiles =
             [p \in Profiles |-> [id \in Automations |->
                Reconcile(st, obs).profiles[p][id]]]
    BY <1>2 DEF Reconcile
  <2>4. Reconcile(st, obs).records \in [Automations -> Record \cup {None}]
    BY <2>1, <2>3
  <2>5. Reconcile(st, obs).profiles \in
          [Profiles -> [Automations -> Text \cup {None}]]
    BY <2>2, <2>3
  <2>6. QED
    BY <2>3, <2>4, <2>5 DEF State
<1>3. QED
  BY <1>1, <1>2

\* A batch gives a new id to one of its holders, and leaves every other id to its
\* owner; a deleted automation stays deleted.
LEMMA ReconcileKeepsOwners ==
  ASSUME NEW st \in State, NEW obs \in Observations, NEW id \in Automations,
         NEW r, r = Reconcile(st, obs).records[id], r # None
  PROVE  /\ st.records[id] # None =>
              r.owner = st.records[id].owner /\ (st.records[id].deleted => r.deleted)
         /\ st.records[id] = None => r.owner \in Holders(obs, id)
<1>1. CASE ~Fits(st, obs)
  BY <1>1 DEF Reconcile
<1>2. CASE Fits(st, obs)
  BY <1>2, NextRecord, KnownType, DecidedType
<1>3. QED
  BY <1>1, <1>2

\* Records are never given up, and a batch records every id it can read.
LEMMA ReconcileRecords ==
  ASSUME NEW st \in State, NEW obs \in Observations, NEW id \in Automations
  PROVE  /\ st.records[id] # None => Reconcile(st, obs).records[id] # None
         /\ /\ Fits(st, obs) /\ ~Blocked(obs, id) /\ Holders(obs, id) # {}
            => Reconcile(st, obs).records[id] # None
<1>1. None \notin Record
  BY AutomationSentinels DEF Record
<1>2. CASE ~Fits(st, obs)
  BY <1>2 DEF Reconcile
<1>3. CASE Fits(st, obs)
  <2>1. ~Skipped(st, obs, id) => Reconcile(st, obs).records[id] \in Record
    BY <1>3, NextRecord, KnownType, DecidedType
  <2>2. Skipped(st, obs, id) => Reconcile(st, obs).records[id] = st.records[id]
    BY <1>3, NextRecord
  <2>3. QED
    BY <1>1, <2>1, <2>2 DEF Skipped
<1>4. QED
  BY <1>2, <1>3

\* Only recorded ids are written.
LEMMA WritesType ==
  ASSUME NEW st \in State, NEW obs \in Observations, NEW w \in Writes(st, obs)
  PROVE  /\ w \in Profiles \X Automations
         /\ Reconcile(st, obs).records[w[2]] # None
<1>1. w \in Valid(obs) \X Automations /\ Fits(st, obs) /\ Accepted(st, obs, w[1], w[2])
  BY DEF Writes
<1>2. w[2] \in Automations /\ Valid(obs) \subseteq Profiles
  BY <1>1, HoldersAreValid
<1>3. ~Skipped(st, obs, w[2])
  BY <1>1 DEF Accepted
<1>4. ~Blocked(obs, w[2]) /\ (st.records[w[2]] # None \/ Holders(obs, w[2]) # {})
  BY <1>3 DEF Skipped
<1>5. QED
  BY <1>1, <1>2, <1>4, ReconcileRecords

-----------------------------------------------------------------------------
(* Types.  A pass writes only ids that have a record.                       *)

TodoKnown ==
  /\ \A w \in pass.todo : state.records[w[2]] # None
  /\ pass.phase # "writing" => pass.todo = {}

TypeInv == TypeOK /\ TodoKnown

Purposes == {"sync", "owner"}

Passes ==
  [phase : {"idle", "writing", "checked"}, purpose : Purposes,
   todo : SUBSET (Profiles \X Automations), failed : BOOLEAN,
   read : SUBSET Profiles]

LEMMA Typed ==
  TypeOK <=> /\ file \in [Profiles -> [Automations -> File]]
             /\ desktop \in [Profiles -> {"stopped", "opened", "launched"}]
             /\ state \in State
             /\ pass \in Passes
             /\ changes \in 0 .. MaxChanges
BY DEF TypeOK, Passes, Purposes

LEMMA IdleType == Idle \in Passes /\ Idle.phase = "idle" /\ Idle.todo = {}
BY DEF Idle, Passes, Purposes

\* What a home should have of an id: active only in the owner's home.
LEMMA WantedType ==
  ASSUME NEW r \in Record, NEW p \in Profiles
  PROVE  /\ Wanted(r, p) \in Text \cup {None}
         /\ Wanted(r, p) # Unsupported
         /\ IsActive(Wanted(r, p)) => ~r.deleted /\ p = r.owner
<1>1. r.text \in Text /\ "PAUSED" \in Status
  BY DEF Record, Status
<1>2. WithStatus(r.text, "PAUSED") \in Text
      /\ WithStatus(r.text, "PAUSED").status = "PAUSED"
  BY <1>1, StatusChange
<1>3. Unsupported \notin Text /\ Unsupported # None /\ None \notin Text
  BY AutomationSentinels
<1>4. QED
  BY <1>1, <1>2, <1>3 DEF Wanted, IsActive

LEMMA TargetType ==
  ASSUME TypeInv, NEW p \in Profiles, NEW id \in Automations,
         <<p, id>> \in pass.todo
  PROVE  /\ Target(p, id) \in Text \cup {None} /\ Target(p, id) \in File
         /\ Target(p, id) # Unsupported
         /\ state.records[id] \in Record
         /\ IsActive(Target(p, id)) =>
              IsLive(state.records[id]) /\ p = state.records[id].owner
<1>1. state.records[id] \in Record \cup {None} /\ state.records[id] # None
  BY DEF TypeInv, TypeOK, TodoKnown, State
<1>2. QED
  BY <1>1, WantedType DEF Target, File, IsLive

LEMMA MarkedType ==
  ASSUME NEW st \in State, NEW p \in Profiles, NEW id \in Automations,
         NEW text \in Text \cup {None}
  PROVE  Marked(st, p, id, text) \in State
         /\ Marked(st, p, id, text).records = st.records
<1>1. [st.profiles EXCEPT ![p][id] = text] \in [Profiles -> [Automations -> Text \cup {None}]]
  BY DEF State
<1>2. QED
  BY <1>1 DEF Marked, State

LEMMA AssignedType ==
  ASSUME NEW st \in State, NEW p \in Profiles, NEW id \in Automations,
         st.records[id] # None, NEW a, a = Assigned(st, id, p)
  PROVE  /\ a \in State
         /\ \A i \in Automations :
              /\ i # id => a.records[i] = st.records[i]
              /\ st.records[i] # None => a.records[i] # None
              /\ a.records[i] # None =>
                   /\ st.records[i] # None
                   /\ a.records[i].deleted = st.records[i].deleted
                   /\ a.records[i].text = st.records[i].text
         /\ a.records[id].owner = p
<1>1. st.records[id] \in Record
  BY DEF State
<1>2. /\ [st.records[id] EXCEPT !.owner = p] \in Record
      /\ [st.records[id] EXCEPT !.owner = p].deleted = st.records[id].deleted
      /\ [st.records[id] EXCEPT !.owner = p].text = st.records[id].text
      /\ [st.records[id] EXCEPT !.owner = p].owner = p
  BY <1>1 DEF Record
<1>3. None \notin Record
  BY AutomationSentinels DEF Record
<1> DEFINE records == [st.records EXCEPT ![id] = [st.records[id] EXCEPT !.owner = p]]
<1>4. a = [st EXCEPT !.records = records]
  BY DEF Assigned
<1>5. a.records = records /\ a \in State
  <2>1. records \in [Automations -> Record \cup {None}]
    BY <1>2 DEF State
  <2> HIDE DEF records
  <2>2. QED
    BY <1>4, <2>1 DEF State
<1>6. /\ a.records[id] = [st.records[id] EXCEPT !.owner = p]
      /\ \A i \in Automations : i # id => a.records[i] = st.records[i]
  BY <1>5 DEF State
<1>7. QED
  BY <1>1, <1>2, <1>3, <1>5, <1>6

LEMMA InitTypes == Init => TypeInv
<1> SUFFICES ASSUME Init PROVE TypeInv
  OBVIOUS
<1>1. state \in State
  BY DEF Init, EmptyState, State
<1>2. changes \in 0 .. MaxChanges
  BY MaxChangesAssumption DEF Init
<1>3. pass \in Passes /\ pass.todo = {}
  BY IdleType DEF Init
<1>4. QED
  BY <1>1, <1>2, <1>3, Typed DEF Init, TypeInv, TodoKnown

LEMMA BatchTypes ==
  ASSUME TypeInv, NEW P \in SUBSET Profiles,
         state' = Reconcile(state, ObservationOf(P))
  PROVE  /\ state' \in State
         /\ \A id \in Automations :
              state.records[id] # None => state'.records[id] # None
BY ObservationType, ReconcileType, ReconcileRecords DEF TypeInv, TypeOK

LEMMA BeginTypes ==
  ASSUME TypeInv, NEW P \in SUBSET Profiles, NEW purpose \in Purposes,
         Begin(P, purpose)
  PROVE  TypeInv'
<1> DEFINE W == {w \in Writes(state, ObservationOf(P)) : Stopped(w[1])}
<1>1. state' \in State
  BY BatchTypes DEF Begin
<1>2. /\ pass' = [phase |-> "writing", purpose |-> purpose, todo |-> W,
                  failed |-> P # Profiles, read |-> {}]
      /\ UNCHANGED <<file, desktop, changes>>
      /\ state' = Reconcile(state, ObservationOf(P))
  BY DEF Begin
<1>3. \A w \in W : w \in Profiles \X Automations /\ state'.records[w[2]] # None
  BY <1>2, WritesType, ObservationType DEF TypeInv, TypeOK
<1> HIDE DEF W
<1>4. pass' \in Passes /\ pass'.phase = "writing" /\ pass'.todo = W
  BY <1>2, <1>3 DEF Passes
<1>5. TypeOK'
  BY <1>1, <1>2, <1>4 DEF TypeInv, TypeOK, Passes, Purposes
<1>6. TodoKnown'
  BY <1>3, <1>4 DEF TodoKnown
<1>7. QED
  BY <1>5, <1>6 DEF TypeInv

\* A file becomes what the journal wants it to be.
LEMMA WritableTypes ==
  ASSUME TypeInv, NEW p \in Profiles, NEW id \in Automations, Writable(p, id)
  PROVE  /\ [file EXCEPT ![p][id] = Target(p, id)]
              \in [Profiles -> [Automations -> File]]
         /\ Marked(state, p, id, Target(p, id)) \in State
         /\ Marked(state, p, id, Target(p, id)).records = state.records
<1>1. Target(p, id) \in Text \cup {None} /\ Target(p, id) \in File
  BY TargetType DEF Writable, Turn
<1>2. QED
  BY <1>1, MarkedType DEF TypeInv, TypeOK

\* What is left to do after a step of a pass was to be done before it.
LEMMA FewerTodo ==
  ASSUME TypeInv, pass' \in Passes, pass'.todo \subseteq pass.todo,
         pass'.phase # "writing" => pass'.todo = {},
         state' \in State, state'.records = state.records
  PROVE  TodoKnown'
BY DEF TypeInv, TodoKnown

LEMMA WriteTypes ==
  ASSUME TypeInv, NEW p \in Profiles, NEW id \in Automations,
         \/ Write(p, id) \/ WriteUnacknowledged(p, id)
         \/ Postpone(p, id) \/ Fail(p, id)
  PROVE  TypeInv'
<1> DEFINE left == pass.todo \ {<<p, id>>}
<1>1. CASE Write(p, id)
  <2>1. pass' = [pass EXCEPT !.todo = left] /\ pass.phase = "writing"
    BY <1>1 DEF Write, Writable, Turn
  <2>2. /\ pass' \in Passes /\ pass'.todo \subseteq pass.todo
        /\ pass'.phase = "writing"
    BY <2>1, Typed DEF TypeInv, Passes
  <2>3. /\ file' \in [Profiles -> [Automations -> File]]
        /\ state' \in State /\ state'.records = state.records
        /\ desktop' = desktop /\ changes' = changes
    BY <1>1, WritableTypes DEF Write
  <2>4. TypeOK'
    BY <2>2, <2>3 DEF TypeInv, TypeOK, Passes, Purposes
  <2>5. QED
    BY <2>2, <2>3, <2>4, FewerTodo DEF TypeInv
<1>2. CASE WriteUnacknowledged(p, id)
  <2>1. file' \in [Profiles -> [Automations -> File]] /\ pass' = Idle
        /\ UNCHANGED <<desktop, state, changes>>
    BY <1>2, WritableTypes DEF WriteUnacknowledged
  <2>2. pass' \in Passes /\ pass'.phase = "idle" /\ pass'.todo = {}
    BY <2>1, IdleType
  <2>3. TypeOK'
    BY <2>1, <2>2 DEF TypeInv, TypeOK, Passes, Purposes
  <2>4. QED
    BY <2>2, <2>3 DEF TypeInv, TodoKnown
<1>3. CASE Postpone(p, id) \/ Fail(p, id)
  <2>1. /\ pass' \in {[pass EXCEPT !.todo = left],
                      [pass EXCEPT !.todo = left, !.failed = TRUE]}
        /\ pass.phase = "writing"
        /\ UNCHANGED <<file, desktop, state, changes>>
    BY <1>3 DEF Postpone, Fail, Turn
  <2> DEFINE one == [pass EXCEPT !.todo = left]
             two == [pass EXCEPT !.todo = left, !.failed = TRUE]
  <2>2. pass \in Passes
    BY Typed DEF TypeInv
  <2>3. one \in Passes /\ one.todo = left /\ one.phase = pass.phase
    BY <2>2 DEF Passes
  <2>4. two \in Passes /\ two.todo = left /\ two.phase = pass.phase
    BY <2>2 DEF Passes
  <2>5. /\ pass' \in Passes /\ pass'.todo \subseteq pass.todo
        /\ pass'.phase = "writing"
    BY <2>1, <2>3, <2>4
  <2>6. TypeOK'
    BY <2>1, <2>5 DEF TypeInv, TypeOK, Passes, Purposes
  <2>7. QED
    BY <2>1, <2>5, <2>6, FewerTodo DEF TypeInv, TypeOK
<1>4. QED
  BY <1>1, <1>2, <1>3

LEMMA FinishTypes ==
  ASSUME TypeInv, NEW P \in SUBSET Profiles, Finish(P)
  PROVE  TypeInv'
<1>1. /\ pass' \in {Idle, [pass EXCEPT !.phase = "checked", !.read = P]}
      /\ pass.todo = {}
      /\ UNCHANGED <<file, desktop, state, changes>>
  BY DEF Finish
<1>2. pass' \in Passes /\ pass'.todo = {}
  BY <1>1, IdleType, Typed DEF TypeInv, Passes
<1>3. TypeOK'
  BY <1>1, <1>2 DEF TypeInv, TypeOK, Passes, Purposes
<1>4. QED
  BY <1>2, <1>3 DEF TypeInv, TodoKnown

LEMMA EndTypes ==
  ASSUME TypeInv,
         \/ \E p \in Profiles : Launch(p)
         \/ \E p \in Profiles, id \in Automations : SetOwner(id, p)
         \/ Abandon
  PROVE  TypeInv'
<1>1. /\ pass' = Idle /\ file' = file
      /\ desktop' \in [Profiles -> {"stopped", "opened", "launched"}]
      /\ changes' \in 0 .. MaxChanges
  BY MaxChangesAssumption DEF TypeInv, TypeOK, Launch, SetOwner, Abandon
<1>2. state' \in State
  BY AssignedType DEF TypeInv, TypeOK, Launch, SetOwner, Abandon, IsLive
<1>3. pass' \in Passes /\ pass'.todo = {}
  BY <1>1, IdleType
<1>4. TypeOK'
  BY <1>1, <1>2, <1>3 DEF TypeInv, TypeOK, Passes, Purposes
<1>5. QED
  BY <1>3, <1>4 DEF TypeInv, TodoKnown

LEMMA OutsideTypes ==
  ASSUME TypeInv,
         \/ DesktopStep
         \/ \E p \in Profiles, id \in Automations, f \in File : UserChange(p, id, f)
         \/ UNCHANGED vars
  PROVE  TypeInv'
<1>1. /\ UNCHANGED <<state, pass>>
      /\ desktop' \in [Profiles -> {"stopped", "opened", "launched"}]
      /\ changes' \in 0 .. MaxChanges
  BY MaxChangesAssumption
  DEF TypeInv, TypeOK, DesktopStep, OpenOutside, Quit, UserChange, vars
<1>2. file' \in [Profiles -> [Automations -> File]]
  BY DEF TypeInv, TypeOK, DesktopStep, OpenOutside, Quit, UserChange, vars
<1>3. QED
  BY <1>1, <1>2 DEF TypeInv, TypeOK, TodoKnown

LEMMA PassTypes ==
  ASSUME TypeInv, PassStep
  PROVE  TypeInv'
<1>1. ASSUME NEW P \in SUBSET Profiles, Poll(P) PROVE TypeInv'
  <2>1. state' = Reconcile(state, ObservationOf(P)) /\ UNCHANGED <<file, desktop, pass, changes>>
    BY <1>1 DEF Poll
  <2>2. pass.todo \subseteq Profiles \X Automations
    BY DEF TypeInv, TypeOK
  <2>3. QED
    BY <2>1, <2>2, BatchTypes DEF TypeInv, TypeOK, TodoKnown
<1>2. QED
  BY <1>1, BeginTypes, WriteTypes, FinishTypes, EndTypes DEF PassStep, Purposes

LEMMA NextTypes ==
  ASSUME TypeInv, [Next]_vars
  PROVE  TypeInv'
BY PassTypes, OutsideTypes DEF Next

\* Every reachable state is well typed, and a pass writes only ids of the journal
\* (automation_sync.hpp:105-113, group_sync.hpp:145-173).
THEOREM TypeInvariance == Spec => []TypeInv
BY InitTypes, NextTypes, PTL DEF Spec

\* The journal stays one that AppDeck reads again, for any number of participants
\* and automations (automation_sync.hpp:105-113).
THEOREM TypeCorrect == Spec => []TypeOK
<1>1. TypeInv => TypeOK
  BY DEF TypeInv
<1>2. QED
  BY <1>1, TypeInvariance, PTL

-----------------------------------------------------------------------------
(* Statuses and edits in one batch.                                         *)

\* When a batch changes the status of a recorded automation, its owner shows
\* that text, and did not show it before.
LEMMA ReconcileStatus ==
  ASSUME NEW st \in State, NEW obs \in Observations, NEW id \in Automations,
         NEW r, r = st.records[id], r # None,
         NEW s, s = Reconcile(st, obs).records[id],
         s.text.status # r.text.status
  PROVE  /\ r.owner \in Valid(obs)
         /\ obs[r.owner][id] = s.text
         /\ st.profiles[r.owner][id] # s.text
<1>1. Fits(st, obs) /\ ~Skipped(st, obs, id) /\ ~Disputed(st, obs, id)
  <2>1. CASE ~Fits(st, obs)
    BY <2>1 DEF Reconcile
  <2>2. CASE Fits(st, obs) /\ Skipped(st, obs, id)
    BY <2>2, NextRecord
  <2>3. CASE Fits(st, obs) /\ ~Skipped(st, obs, id) /\ Disputed(st, obs, id)
    <3>1. s = Known(st, obs, id)
      BY <2>3, NextRecord
    <3>2. Known(st, obs, id) = r
      BY <2>3, KnownType
    <3>3. QED
      BY <3>1, <3>2
  <2>4. QED
    BY <2>1, <2>2, <2>3
<1>2. s = Decided(st, obs, id) /\ Known(st, obs, id) = r
  BY <1>1, NextRecord, KnownType
<1>3. s.text = DecidedText(st, obs, id)
  BY <1>1, <1>2, DecidedType
<1>4. Candidates(st, obs, id) # {} /\ s.text \in Candidates(st, obs, id)
  BY <1>2, <1>3 DEF DecidedText
<1>5. PICK p \in Editors(st, obs, id) :
         p \in Holders(obs, id) /\ s.text = Proposed(st, obs, p, id)
  BY <1>1, <1>4, CandidateIsProposed
<1>6. p = r.owner
  BY <1>1, <1>2, <1>5, ProposedType
<1>7. s.text = obs[p][id]
  BY <1>1, <1>2, <1>5, <1>6, ProposedType
<1>8. st.profiles[p][id] # None /\ obs[p][id].status # "DELETED"
      /\ ~Unchanged(st, obs, p, id)
  BY <1>5 DEF Editors
<1>9. obs[p][id] # st.profiles[p][id]
  BY <1>2, <1>6, <1>8 DEF Unchanged
<1>10. p \in Valid(obs)
  BY <1>5, HoldersAreValid
<1>11. QED
  BY <1>6, <1>7, <1>9, <1>10

\* An undisputed edit of a live automation becomes its definition.
LEMMA EditDecides ==
  ASSUME NEW st \in State, NEW obs \in Observations, NEW id \in Automations,
         NEW p \in Valid(obs), Fits(st, obs), ~Blocked(obs, id),
         st.profiles[p][id] # None, IsLive(st.records[id]),
         obs[p][id] \in Text, obs[p][id].status # "DELETED",
         obs[p][id].body # st.profiles[p][id].body,
         ~Disputed(st, obs, id)
  PROVE  Reconcile(st, obs).records[id].text.body = obs[p][id].body
<1>1. obs[p][id] # None
  BY AutomationSentinels
<1>2. p \in Holders(obs, id)
  BY <1>1 DEF Holders
<1>3. ~Skipped(st, obs, id)
  BY DEF Skipped, IsLive
<1>4. Known(st, obs, id) = st.records[id] /\ ~Known(st, obs, id).deleted
  BY <1>3, KnownType DEF IsLive
<1>5. ~Unchanged(st, obs, p, id)
  BY DEF Unchanged
<1>6. p \in Editors(st, obs, id)
  BY <1>2, <1>4, <1>5 DEF Editors
<1>7. Proposed(st, obs, p, id) \in Candidates(st, obs, id)
  BY <1>6 DEF Candidates
<1>8. DecidedText(st, obs, id) = Proposed(st, obs, p, id)
  BY <1>7, UndisputedCandidate
<1>9. Reconcile(st, obs).records[id].text = Proposed(st, obs, p, id)
  BY <1>3, <1>8, NextRecord, DecidedType
<1>10. QED
  BY <1>2, <1>3, <1>9, ProposedType

LEMMA BatchStatus ==
  ASSUME TypeInv, NEW P \in SUBSET Profiles,
         state' = Reconcile(state, ObservationOf(P))
  PROVE  OwnerMovesStatus
<1> SUFFICES ASSUME NEW id \in Automations, state.records[id] # None,
                    state'.records[id].text.status # state.records[id].text.status
             PROVE  /\ file[state.records[id].owner][id] = state'.records[id].text
                    /\ state.profiles[state.records[id].owner][id] # state'.records[id].text
  BY DEF OwnerMovesStatus
<1>1. /\ ObservationOf(P) \in Observations /\ Valid(ObservationOf(P)) = P
      /\ \A p \in P : ObservationOf(P)[p] = file[p]
  BY ObservationType DEF TypeInv, TypeOK
<1>2. state \in State
  BY DEF TypeInv, TypeOK
<1> DEFINE r == state.records[id]
           s == state'.records[id]
<1>3. /\ r.owner \in P /\ ObservationOf(P)[r.owner][id] = s.text
      /\ state.profiles[r.owner][id] # s.text
  BY <1>1, <1>2, ReconcileStatus
<1>4. QED
  BY <1>1, <1>3

LEMMA NextStatus ==
  ASSUME TypeInv, [Next]_vars
  PROVE  OwnerMovesStatus
<1>1. ASSUME \A id \in Automations : state.records[id] # None =>
               state'.records[id].text = state.records[id].text
      PROVE  OwnerMovesStatus
  BY <1>1 DEF OwnerMovesStatus
<1>2. ASSUME NEW P \in SUBSET Profiles, Poll(P) PROVE OwnerMovesStatus
  BY <1>2, BatchStatus DEF Poll
<1>3. ASSUME NEW P \in SUBSET Profiles, NEW purpose \in Purposes, Begin(P, purpose)
      PROVE  OwnerMovesStatus
  BY <1>3, BatchStatus DEF Begin
<1>4. ASSUME NEW p \in Profiles, NEW id \in Automations, Write(p, id)
      PROVE  OwnerMovesStatus
  <2>1. state'.records = state.records
    BY <1>4, WritableTypes DEF Write
  <2>2. QED
    BY <1>1, <2>1
<1>5. ASSUME NEW p \in Profiles, NEW id \in Automations, SetOwner(id, p)
      PROVE  OwnerMovesStatus
  <2>1. state \in State /\ state.records[id] # None /\ state' = Assigned(state, id, p)
    BY <1>5 DEF SetOwner, IsLive, TypeInv, TypeOK
  <2>2. \A i \in Automations : state.records[i] # None =>
          state'.records[i].text = state.records[i].text
    BY <2>1, AssignedType
  <2>3. QED
    BY <1>1, <2>2
<1>6. ASSUME UNCHANGED state PROVE OwnerMovesStatus
  BY <1>1, <1>6
<1>7. CASE PassStep
  BY <1>2, <1>3, <1>4, <1>5, <1>6, <1>7
  DEF PassStep, Purposes, WriteUnacknowledged, Postpone, Fail, Finish, Launch, Abandon
<1>8. CASE UNCHANGED vars \/ DesktopStep
           \/ \E p \in Profiles, id \in Automations, f \in File : UserChange(p, id, f)
  BY <1>6, <1>8 DEF vars, DesktopStep, OpenOutside, Quit, UserChange
<1>9. QED
  BY <1>7, <1>8 DEF Next

\* Only a change in the owner's home switches the group's schedule on or off,
\* for any number of homes that show another status (automation_sync.hpp:150).
THEOREM StatusIsTheOwners == Spec => StatusFollowsOwner
<1>1. Spec => [][OwnerMovesStatus]_vars
  BY TypeInvariance, NextStatus, PTL DEF Spec
<1>2. QED
  BY <1>1 DEF StatusFollowsOwner

\* However many homes are edited, and whichever of them a batch can read: an edit
\* becomes the group's definition or is in a reported conflict
\* (automation_sync.hpp:147-160).
THEOREM EditsAreKept == Spec => []BatchKeepsEdits
<1>1. ASSUME TypeInv PROVE BatchKeepsEdits
  <2> SUFFICES ASSUME NEW P \in SUBSET Profiles, NEW p \in P, NEW id \in Automations,
                      state.profiles[p][id] # None, file[p][id] \in Text,
                      file[p][id].body # state.profiles[p][id].body,
                      file[p][id].status # "DELETED", IsLive(state.records[id]),
                      id \notin Disputes(state, ObservationOf(P))
               PROVE  Reconcile(state, ObservationOf(P)).records[id].text.body
                        = file[p][id].body
    BY DEF BatchKeepsEdits
  <2> DEFINE obs == ObservationOf(P)
  <2>1. obs \in Observations /\ p \in Valid(obs) /\ obs[p] = file[p]
    BY <1>1, ObservationType DEF TypeInv, TypeOK
  <2>2. state \in State
    BY <1>1 DEF TypeInv, TypeOK
  <2>3. Fits(state, obs) /\ ~Blocked(obs, id)
        /\ (Skipped(state, obs, id) \/ ~Disputed(state, obs, id))
    BY DEF Disputes
  <2>4. ~Skipped(state, obs, id)
    BY <2>3 DEF Skipped, IsLive
  <2> HIDE DEF obs
  <2>5. QED
    BY <2>1, <2>2, <2>3, <2>4, EditDecides DEF obs
<1>2. QED
  BY <1>1, TypeInvariance, PTL

-----------------------------------------------------------------------------
(* Careful users: the inductive invariant.                                  *)

\* The journal can hold every id there is.
Fitting == IsFiniteSet(Automations) /\ Cardinality(Automations) <= MaxAutomations

Launched(p) == desktop[p] = "launched"

Parsed == \A p \in Profiles, id \in Automations : file[p][id] # Unsupported

\* No two homes have a schedule switched on.
OneArmed ==
  \A id \in Automations : \A p, q \in Profiles :
    IsActive(file[p][id]) /\ IsActive(file[q][id]) => p = q

Alone(id, p) == \A q \in Profiles : IsActive(file[q][id]) => q = p

\* A pass that goes on to its end has a record of every id, but for those that
\* were created since in one home; so has the group while AppDeck's Desktops run.
Settling ==
  \/ pass.phase # "idle" /\ ~pass.failed
  \/ \E p \in Profiles : Launched(p)

Recorded ==
  Settling =>
    \A id \in Automations : state.records[id] = None =>
      \A p, q \in Profiles : file[p][id] # None /\ file[q][id] # None => p = q

\* Between the check of the homes and the launch it is for: whatever is recorded
\* is switched on nowhere but at its owner's.
Clearing == pass.phase = "checked" /\ pass.purpose = "sync"

Cleared ==
  Clearing =>
    \A id \in Automations :
      state.records[id] # None => Alone(id, state.records[id].owner)

\* While AppDeck's Desktop of an owner runs, no other home has it switched on:
\* this is what allows the owner to switch it on.
OwnerAlone ==
  \A p \in Profiles : Launched(p) =>
    \A id \in Automations :
      IsLive(state.records[id]) /\ state.records[id].owner = p => Alone(id, p)

\* A change of owner happens while no Desktop of AppDeck runs.
OwnerPassAlone == pass.purpose = "owner" => \A p \in Profiles : ~Launched(p)

CheckSucceeded == pass.phase = "checked" => ~pass.failed

CarefulInv ==
  /\ TypeInv /\ FullReread /\ CheckSucceeded /\ OwnerPassAlone
  /\ Parsed /\ OneArmed /\ Recorded /\ Cleared /\ OwnerAlone

LEMMA AtMostOne ==
  ASSUME NEW S \in SUBSET Profiles
  PROVE  Cardinality(S) <= 1 <=> \A p, q \in S : p = q
<1>1. IsFiniteSet(S) /\ Cardinality(S) \in Nat
  BY RankAssumption, FS_Subset, FS_CardinalityType
<1>2. CASE S = {}
  BY <1>1, <1>2, FS_EmptySet
<1>3. ASSUME NEW p \in S, \A q, r \in S : q = r PROVE Cardinality(S) <= 1
  <2>1. S = {p}
    BY <1>3
  <2>2. QED
    BY <2>1, FS_Singleton
<1>4. ASSUME Cardinality(S) <= 1, S # {} PROVE \A p, q \in S : p = q
  <2>1. Cardinality(S) # 0
    BY <1>1, <1>4, FS_EmptySet
  <2>2. Cardinality(S) = 1
    BY <1>1, <1>4, <2>1
  <2>3. PICK p : S = {p}
    BY <1>1, <2>2, FS_Singleton
  <2>4. QED
    BY <2>3
<1>5. QED
  BY <1>2, <1>3, <1>4

LEMMA OneArmedMeans ==
  OneArmed <=> SingleExecutor
<1>1. ASSUME NEW id \in Automations
      PROVE  Cardinality(Armed(id)) <= 1 <=>
               \A p, q \in Profiles :
                 IsActive(file[p][id]) /\ IsActive(file[q][id]) => p = q
  <2>1. Armed(id) \in SUBSET Profiles
    BY DEF Armed
  <2>2. Cardinality(Armed(id)) <= 1 <=> \A p, q \in Armed(id) : p = q
    BY <2>1, AtMostOne
  <2>3. \A p \in Profiles : p \in Armed(id) <=> IsActive(file[p][id])
    BY DEF Armed
  <2>4. QED
    BY <2>1, <2>2, <2>3
<1>2. QED
  BY <1>1 DEF OneArmed, SingleExecutor

\* Within the capacity every batch is decided.
LEMMA EverythingFits ==
  ASSUME Fitting, NEW st, NEW obs
  PROVE  Fits(st, obs)
<1> DEFINE S == {id \in Automations :
                   st.records[id] # None \/ Holders(obs, id) # {}}
<1>1. S \in SUBSET Automations
  OBVIOUS
<1>2. Cardinality(S) <= Cardinality(Automations)
      /\ Cardinality(S) \in Nat /\ Cardinality(Automations) \in Nat
  BY <1>1, FS_Subset, FS_CardinalityType DEF Fitting
<1>3. MaxAutomations \in Nat
  BY AutomationSentinels
<1>4. Cardinality(S) <= MaxAutomations
  BY <1>2, <1>3 DEF Fitting
<1>5. QED
  BY <1>4 DEF Fits

-----------------------------------------------------------------------------
(* Changes of a file.                                                       *)

\* A step changes one file, and switches it on only where nobody else has it on:
\* in the owner's home, or where nobody knows the id.
Arms(p, id) ==
  /\ \A q \in Profiles, i \in Automations :
       q # p \/ i # id => file'[q][i] = file[q][i]
  /\ file'[p][id] # Unsupported
  /\ state'.records = state.records
  /\ \/ IsActive(file'[p][id]) => IsActive(file[p][id])
     \/ /\ \A q \in Profiles \ {p} : ~IsActive(file[q][id])
        /\ state.records[id] = None \/ state.records[id].owner = p
  /\ \/ file'[p][id] # None => file[p][id] # None
     \/ state.records[id] # None
     \/ \A q \in Profiles : file[q][id] = None

LEMMA ArmsKeeps ==
  ASSUME CarefulInv, NEW p \in Profiles, NEW id \in Automations, Arms(p, id),
         desktop' = desktop, Settling' => Settling, Clearing' => Clearing
  PROVE  Parsed' /\ OneArmed' /\ Recorded' /\ Cleared' /\ OwnerAlone'
<1> USE DEF Arms
<1>1. ASSUME NEW i \in Automations, NEW r \in Profiles, Alone(i, r),
             i # id \/ r = p \/ (IsActive(file'[p][id]) => IsActive(file[p][id]))
      PROVE  Alone(i, r)'
  BY <1>1 DEF Alone
<1>2. \/ IsActive(file'[p][id]) => IsActive(file[p][id])
      \/ state.records[id] = None \/ state.records[id].owner = p
  OBVIOUS
<1>3. Parsed'
  BY DEF CarefulInv, Parsed
<1>4. OneArmed'
  BY DEF CarefulInv, OneArmed
<1>5. Recorded'
  BY DEF CarefulInv, Recorded
<1>6. \A i \in Automations : state.records[i] # None => state.records[i].owner \in Profiles
  BY DEF CarefulInv, TypeInv, TypeOK, State, Record
<1>7. Cleared'
  BY <1>1, <1>2, <1>6 DEF CarefulInv, Cleared
<1>8. OwnerAlone'
  BY <1>1, <1>2 DEF CarefulInv, OwnerAlone, Launched, IsLive
<1>9. QED
  BY <1>3, <1>4, <1>5, <1>7, <1>8

\* What users do: they switch on what nobody has, or what AppDeck's Desktop of
\* the owner shows.
LEMMA CarefulChangeKeeps ==
  ASSUME CarefulInv, NEW p \in Profiles, NEW id \in Automations,
         NEW f \in File \ {Unsupported}, CarefulChange(p, id, f)
  PROVE  CarefulInv'
<1>1. /\ file' = [file EXCEPT ![p][id] = f]
      /\ UNCHANGED <<desktop, state, pass>>
  BY DEF CarefulChange, UserChange
<1>2. /\ file'[p][id] = f
      /\ \A q \in Profiles, i \in Automations :
           q # p \/ i # id => file'[q][i] = file[q][i]
  BY <1>1 DEF CarefulInv, TypeInv, TypeOK
<1>3. ~IsActive(None)
  BY AutomationSentinels DEF IsActive
<1>4. file[p][id] = None =>
        state.records[id] = None /\ \A q \in Profiles : file[q][id] = None
  BY DEF CarefulChange, Unused
<1>5. \/ IsActive(f) => IsActive(file[p][id])
      \/ /\ \A q \in Profiles \ {p} : ~IsActive(file[q][id])
         /\ state.records[id] = None \/ state.records[id].owner = p
  <2>1. CASE file[p][id] = None
    BY <1>3, <1>4, <2>1
  <2>2. CASE Launched(p) /\ IsLive(state.records[id]) /\ state.records[id].owner = p
    BY <2>2 DEF CarefulInv, OwnerAlone, Alone
  <2>3. QED
    BY <2>1, <2>2 DEF CarefulChange, Launched
<1>6. Arms(p, id)
  BY <1>1, <1>2, <1>4, <1>5 DEF Arms
<1>7. Parsed' /\ OneArmed' /\ Recorded' /\ Cleared' /\ OwnerAlone'
  BY <1>1, <1>6, ArmsKeeps DEF Settling, Clearing, Launched
<1>8. TypeInv'
  BY OutsideTypes DEF CarefulInv, CarefulChange
<1>9. FullReread' /\ CheckSucceeded' /\ OwnerPassAlone'
  BY <1>1 DEF CarefulInv, FullReread, CheckSucceeded, OwnerPassAlone, Launched
<1>10. QED
  BY <1>7, <1>8, <1>9 DEF CarefulInv

\* AppDeck writes the owner's definition last, having read the others again.
LEMMA WriteArms ==
  ASSUME CarefulInv, NEW p \in Profiles, NEW id \in Automations, Writable(p, id),
         file' = [file EXCEPT ![p][id] = Target(p, id)],
         state'.records = state.records
  PROVE  Arms(p, id)
<1>1. /\ Target(p, id) # Unsupported /\ state.records[id] # None
      /\ IsActive(Target(p, id)) => p = state.records[id].owner
  <2>1. TypeInv /\ <<p, id>> \in pass.todo
    BY DEF CarefulInv, Writable, Turn
  <2>2. QED
    BY <2>1, TargetType DEF TypeInv, TodoKnown
<1>2. /\ file'[p][id] = Target(p, id)
      /\ \A q \in Profiles, i \in Automations :
           q # p \/ i # id => file'[q][i] = file[q][i]
  BY DEF CarefulInv, TypeInv, TypeOK
<1>3. IsActive(Target(p, id)) => \A q \in Profiles \ {p} : ~IsActive(file[q][id])
  BY DEF Writable, OthersDisarmed
<1>4. QED
  BY <1>1, <1>2, <1>3 DEF Arms

LEMMA WriteKeeps ==
  ASSUME CarefulInv, NEW p \in Profiles, NEW id \in Automations,
         Write(p, id) \/ WriteUnacknowledged(p, id)
  PROVE  CarefulInv'
<1>1. /\ Writable(p, id) /\ desktop' = desktop
      /\ file' = [file EXCEPT ![p][id] = Target(p, id)]
  BY DEF Write, WriteUnacknowledged
<1>2. state'.records = state.records
  BY WritableTypes DEF CarefulInv, Write, WriteUnacknowledged
<1>3. Arms(p, id)
  BY <1>1, <1>2, WriteArms
<1>4. pass.phase = "writing" /\ pass \in Passes
  BY <1>1, Typed DEF CarefulInv, TypeInv, Writable, Turn
<1>5. \/ pass' = Idle
      \/ /\ pass'.phase = "writing" /\ pass'.failed = pass.failed
         /\ pass'.purpose = pass.purpose
  BY <1>4 DEF Write, WriteUnacknowledged, Passes
<1>6. Idle.phase = "idle" /\ Idle.purpose = "sync"
  BY DEF Idle
<1>7. (Settling' => Settling) /\ (Clearing' => Clearing)
  BY <1>1, <1>4, <1>5, <1>6 DEF Settling, Clearing, Launched
<1>8. Parsed' /\ OneArmed' /\ Recorded' /\ Cleared' /\ OwnerAlone'
  BY <1>1, <1>3, <1>7, ArmsKeeps
<1>9. FullReread' /\ CheckSucceeded' /\ OwnerPassAlone'
  BY <1>1, <1>5, <1>6 DEF CarefulInv, FullReread, CheckSucceeded, OwnerPassAlone, Launched
<1>10. TypeInv'
  BY WriteTypes DEF CarefulInv
<1>11. QED
  BY <1>8, <1>9, <1>10 DEF CarefulInv

-----------------------------------------------------------------------------
(* Steps that change no file.                                               *)

\* Nothing is recorded, launched or cleared.
LEMMA QuietKeeps ==
  ASSUME CarefulInv, file' = file, state'.records = state.records,
         \A p \in Profiles : Launched(p)' => Launched(p),
         Settling' => Settling, Clearing' => Clearing
  PROVE  Parsed' /\ OneArmed' /\ Recorded' /\ Cleared' /\ OwnerAlone'
<1>1. Parsed' /\ OneArmed'
  BY DEF CarefulInv, Parsed, OneArmed
<1>2. Recorded'
  BY DEF CarefulInv, Recorded
<1>3. \A i \in Automations : state.records[i] # None => state.records[i].owner \in Profiles
  BY DEF CarefulInv, TypeInv, TypeOK, State, Record
<1>4. Cleared'
  BY <1>3 DEF CarefulInv, Cleared, Alone
<1>5. OwnerAlone'
  BY DEF CarefulInv, OwnerAlone, Alone, IsLive
<1>6. QED
  BY <1>1, <1>2, <1>4, <1>5

\* Desktops the user opens, or that end; a step of a pass that fails or waits; the
\* end of a pass.
LEMMA QuietStepKeeps ==
  ASSUME CarefulInv,
         \/ DesktopStep \/ Abandon \/ UNCHANGED vars
         \/ \E p \in Profiles, id \in Automations : Postpone(p, id) \/ Fail(p, id)
  PROVE  CarefulInv'
<1>1. file' = file /\ state' = state
  BY DEF DesktopStep, OpenOutside, Quit, Abandon, vars, Postpone, Fail
<1>2. \A p \in Profiles : Launched(p)' => Launched(p)
  <2>1. CASE DesktopStep
    BY <2>1 DEF DesktopStep, OpenOutside, Quit, Launched, CarefulInv, TypeInv, TypeOK
  <2>2. CASE desktop' = desktop
    BY <2>2 DEF Launched
  <2>3. QED
    BY <2>1, <2>2 DEF Abandon, vars, Postpone, Fail
<1>3. pass \in Passes
  BY Typed DEF CarefulInv, TypeInv
<1>4. \/ pass' = pass \/ pass' = Idle
      \/ /\ pass.phase = "writing" /\ pass'.phase = "writing"
         /\ pass'.failed \in {pass.failed, TRUE} /\ pass'.purpose = pass.purpose
  BY <1>3 DEF DesktopStep, OpenOutside, Quit, Abandon, vars, Postpone, Fail, Turn, Passes
<1>5. Idle.phase = "idle" /\ Idle.purpose = "sync"
  BY DEF Idle
<1>6. (Settling' => Settling) /\ (Clearing' => Clearing)
  BY <1>2, <1>3, <1>4, <1>5 DEF Settling, Clearing, Passes
<1>7. Parsed' /\ OneArmed' /\ Recorded' /\ Cleared' /\ OwnerAlone'
  BY <1>1, <1>2, <1>6, QuietKeeps
<1>8. FullReread' /\ CheckSucceeded' /\ OwnerPassAlone'
  BY <1>2, <1>4, <1>5 DEF CarefulInv, FullReread, CheckSucceeded, OwnerPassAlone
<1>9. TypeInv'
  BY OutsideTypes, WriteTypes, EndTypes DEF CarefulInv
<1>10. QED
  BY <1>7, <1>8, <1>9 DEF CarefulInv

\* No home is blocked.
LEMMA ParsedIsNotBlocked ==
  ASSUME CarefulInv, NEW P \in SUBSET Profiles, NEW id \in Automations
  PROVE  /\ ~Blocked(ObservationOf(P), id)
         /\ Holders(ObservationOf(P), id) = {p \in P : file[p][id] # None}
<1>1. /\ ObservationOf(P) \in Observations /\ Valid(ObservationOf(P)) = P
      /\ \A p \in P : ObservationOf(P)[p] = file[p]
  BY ObservationType DEF CarefulInv, TypeInv, TypeOK
<1>2. Holders(ObservationOf(P), id) = {p \in P : file[p][id] # None}
  BY <1>1 DEF Holders
<1>3. QED
  BY <1>1, <1>2 DEF Blocked, CarefulInv, Parsed

\* A new id goes to a home that has it, and while the group settles only one has:
\* so it is switched on nowhere else.
LEMMA BatchKeepsOwnerAlone ==
  ASSUME CarefulInv, NEW P \in SUBSET Profiles,
         state' = Reconcile(state, ObservationOf(P)), file' = file, desktop' = desktop
  PROVE  OwnerAlone'
<1> SUFFICES ASSUME NEW p \in Profiles, Launched(p)', NEW id \in Automations,
                    IsLive(state'.records[id]), state'.records[id].owner = p
             PROVE  Alone(id, p)'
  BY DEF OwnerAlone
<1>1. state \in State /\ ObservationOf(P) \in Observations
  BY ObservationType DEF CarefulInv, TypeInv, TypeOK
<1>2. Launched(p) /\ Settling
  BY DEF Launched, Settling
<1>3. state'.records[id] # None /\ ~state'.records[id].deleted
  BY DEF IsLive
<1>4. CASE state.records[id] # None
  <2>1. state.records[id].owner = p /\ ~state.records[id].deleted
    BY <1>1, <1>3, <1>4, ReconcileKeepsOwners
  <2>2. Alone(id, p)
    BY <1>2, <1>4, <2>1 DEF CarefulInv, OwnerAlone, IsLive
  <2>3. QED
    BY <2>2 DEF Alone
<1>5. CASE state.records[id] = None
  <2>1. p \in Holders(ObservationOf(P), id)
    BY <1>1, <1>3, <1>5, ReconcileKeepsOwners
  <2>2. file[p][id] # None
    BY <2>1, ParsedIsNotBlocked
  <2>3. \A q \in Profiles : file[q][id] # None => q = p
    BY <1>2, <1>5, <2>2 DEF CarefulInv, Recorded
  <2>4. ~IsActive(None)
    BY AutomationSentinels DEF IsActive
  <2>5. QED
    BY <2>3, <2>4 DEF Alone
<1>6. QED
  BY <1>4, <1>5

LEMMA PollKeeps ==
  ASSUME CarefulInv, NEW P \in SUBSET Profiles, Poll(P)
  PROVE  CarefulInv'
<1>1. /\ pass.phase = "idle" /\ UNCHANGED <<file, desktop, pass, changes>>
      /\ state' = Reconcile(state, ObservationOf(P))
  BY DEF Poll
<1>2. state \in State /\ ObservationOf(P) \in Observations
  BY ObservationType DEF CarefulInv, TypeInv, TypeOK
<1>3. Recorded'
  <2>1. Settling' => Settling
    BY <1>1 DEF Settling, Launched
  <2>2. \A id \in Automations : state'.records[id] = None => state.records[id] = None
    BY <1>1, <1>2, ReconcileRecords
  <2>3. QED
    BY <1>1, <2>1, <2>2 DEF CarefulInv, Recorded
<1>4. ~Clearing'
  BY <1>1 DEF Clearing
<1>5. OwnerAlone'
  BY <1>1, BatchKeepsOwnerAlone
<1>6. Parsed' /\ OneArmed' /\ Cleared'
  BY <1>1, <1>4 DEF CarefulInv, Parsed, OneArmed, Cleared
<1>7. FullReread' /\ CheckSucceeded' /\ OwnerPassAlone'
  BY <1>1 DEF CarefulInv, FullReread, CheckSucceeded, OwnerPassAlone, Launched
<1>8. TypeInv'
  <2>1. pass.todo \subseteq Profiles \X Automations
    BY DEF CarefulInv, TypeInv, TypeOK
  <2>2. QED
    BY <1>1, <2>1, BatchTypes DEF CarefulInv, TypeInv, TypeOK, TodoKnown
<1>9. QED
  BY <1>3, <1>5, <1>6, <1>7, <1>8 DEF CarefulInv

\* A pass that read every home records every id.
LEMMA BeginKeeps ==
  ASSUME CarefulInv, Fitting, NEW P \in SUBSET Profiles, NEW purpose \in Purposes,
         Begin(P, purpose)
  PROVE  CarefulInv'
<1>1. /\ UNCHANGED <<file, desktop>>
      /\ state' = Reconcile(state, ObservationOf(P))
      /\ pass'.phase = "writing" /\ pass'.purpose = purpose
      /\ pass'.failed = (P # Profiles)
  BY DEF Begin
<1>2. state \in State /\ ObservationOf(P) \in Observations
  BY ObservationType DEF CarefulInv, TypeInv, TypeOK
<1>3. \A id \in Automations : state'.records[id] = None => state.records[id] = None
  BY <1>1, <1>2, ReconcileRecords
<1>4. Recorded'
  <2>1. CASE \E p \in Profiles : Launched(p)
    <3>1. Settling
      BY <2>1 DEF Settling
    <3>2. QED
      BY <1>1, <1>3, <3>1 DEF CarefulInv, Recorded
  <2>2. CASE P = Profiles
    <3>1. ASSUME NEW id \in Automations, state'.records[id] = None
          PROVE  \A p \in Profiles : file[p][id] = None
      <4>1. Fits(state, ObservationOf(P))
        BY EverythingFits
      <4>2. Holders(ObservationOf(P), id) = {}
        BY <1>1, <1>2, <3>1, <4>1, ParsedIsNotBlocked, ReconcileRecords
      <4>3. QED
        BY <2>2, <4>2, ParsedIsNotBlocked
    <3>2. QED
      BY <1>1, <3>1 DEF Recorded
  <2>3. CASE P # Profiles /\ \A p \in Profiles : ~Launched(p)
    BY <1>1, <2>3 DEF Recorded, Settling, Launched
  <2>4. QED
    BY <2>1, <2>2, <2>3
<1>5. OwnerAlone'
  BY <1>1, BatchKeepsOwnerAlone
<1>6. Parsed' /\ OneArmed' /\ Cleared' /\ FullReread' /\ CheckSucceeded'
  BY <1>1 DEF CarefulInv, Parsed, OneArmed, Cleared, Clearing, FullReread, CheckSucceeded
<1>7. OwnerPassAlone'
  BY <1>1 DEF Begin, OwnerPassAlone, Launched, Stopped
<1>8. TypeInv'
  BY BeginTypes DEF CarefulInv
<1>9. QED
  BY <1>4, <1>5, <1>6, <1>7, <1>8 DEF CarefulInv

\* The homes are read again, all of them: nothing unsafe is left.
LEMMA FinishKeeps ==
  ASSUME CarefulInv, Fitting, NEW P \in SUBSET Profiles, Finish(P), FullReread'
  PROVE  CarefulInv'
<1>1. /\ UNCHANGED <<file, desktop, state, changes>>
      /\ pass.phase = "writing" /\ pass \in Passes
  BY Typed DEF Finish, CarefulInv, TypeInv
<1>2. Idle.phase = "idle" /\ Idle.purpose = "sync"
  BY DEF Idle
<1>3. \/ pass' = Idle
      \/ /\ pass'.phase = "checked" /\ pass'.purpose = pass.purpose
         /\ pass'.failed = pass.failed /\ ~pass.failed /\ pass'.read = P
         /\ pass.purpose = "sync" => UnsafeIds(state, ObservationOf(P)) = {}
  BY <1>1 DEF Finish, Passes
<1>4. \A p \in Profiles : Launched(p)' <=> Launched(p)
  BY <1>1 DEF Launched
<1>5. Recorded'
  BY <1>1, <1>2, <1>3, <1>4 DEF CarefulInv, Recorded, Settling
<1>6. Cleared'
  <2> SUFFICES ASSUME Clearing', NEW id \in Automations, state.records[id] # None
               PROVE  Alone(id, state.records[id].owner)
    BY <1>1 DEF Cleared, Alone
  <2>1. P = Profiles /\ UnsafeIds(state, ObservationOf(P)) = {}
    BY <1>2, <1>3 DEF Clearing, FullReread
  <2>2. ~Unsafe(state, ObservationOf(P), id) /\ ~Blocked(ObservationOf(P), id)
    BY <2>1, EverythingFits, ParsedIsNotBlocked DEF UnsafeIds
  <2>3. Known(state, ObservationOf(P), id) = state.records[id]
    BY DEF Known
  <2>4. ASSUME NEW q \in Profiles, IsActive(file[q][id])
        PROVE  q = state.records[id].owner
    <3>1. ObservationOf(P)[q] = file[q]
      BY <2>1 DEF ObservationOf
    <3>2. file[q][id] # None
      BY <2>4, AutomationSentinels DEF IsActive
    <3>3. q \in Holders(ObservationOf(P), id)
      BY <2>1, <3>2, ParsedIsNotBlocked
    <3>4. QED
      BY <2>2, <2>3, <2>4, <3>1, <3>3 DEF Unsafe
  <2>5. QED
    BY <2>4 DEF Alone
<1>7. Parsed' /\ OneArmed' /\ OwnerAlone'
  BY <1>1, <1>4 DEF CarefulInv, Parsed, OneArmed, OwnerAlone, Alone
<1>8. CheckSucceeded' /\ OwnerPassAlone'
  BY <1>2, <1>3, <1>4 DEF CarefulInv, CheckSucceeded, OwnerPassAlone
<1>9. TypeInv'
  BY FinishTypes DEF CarefulInv
<1>10. QED
  BY <1>5, <1>6, <1>7, <1>8, <1>9 DEF CarefulInv

\* A launch ends the pass that cleared it.
LEMMA LaunchKeeps ==
  ASSUME CarefulInv, NEW p \in Profiles, Launch(p)
  PROVE  CarefulInv'
<1>1. /\ Clearing /\ UNCHANGED <<file, state>> /\ pass' = Idle
      /\ desktop' = [desktop EXCEPT ![p] = "launched"]
  BY DEF Launch, Clearing
<1>2. Idle.phase = "idle" /\ Idle.purpose = "sync"
  BY DEF Idle
<1>3. Settling
  BY <1>1 DEF Settling, Clearing, CarefulInv, CheckSucceeded
<1>4. Recorded'
  BY <1>1, <1>3 DEF CarefulInv, Recorded
<1>5. OwnerAlone'
  BY <1>1 DEF CarefulInv, OwnerAlone, Cleared, Alone, IsLive
<1>6. Parsed' /\ OneArmed' /\ Cleared'
  BY <1>1, <1>2 DEF CarefulInv, Parsed, OneArmed, Cleared, Clearing
<1>7. FullReread' /\ CheckSucceeded' /\ OwnerPassAlone'
  BY <1>1, <1>2 DEF FullReread, CheckSucceeded, OwnerPassAlone
<1>8. TypeInv'
  BY EndTypes DEF CarefulInv
<1>9. QED
  BY <1>4, <1>5, <1>6, <1>7, <1>8 DEF CarefulInv

\* A new owner has no Desktop of AppDeck's yet.
LEMMA SetOwnerKeeps ==
  ASSUME CarefulInv, NEW p \in Profiles, NEW id \in Automations, SetOwner(id, p)
  PROVE  CarefulInv'
<1>1. /\ pass.purpose = "owner" /\ UNCHANGED <<file, desktop>> /\ pass' = Idle
      /\ state' = Assigned(state, id, p) /\ state.records[id] # None
      /\ pass.phase = "checked"
  BY DEF SetOwner, IsLive
<1>2. Idle.phase = "idle" /\ Idle.purpose = "sync"
  BY DEF Idle
<1>3. \A q \in Profiles : ~Launched(q)'
  BY <1>1 DEF CarefulInv, OwnerPassAlone, Launched
<1>4. Recorded' /\ OwnerAlone' /\ Cleared'
  BY <1>1, <1>2, <1>3 DEF Recorded, Settling, OwnerAlone, Cleared, Clearing
<1>5. Parsed' /\ OneArmed'
  BY <1>1 DEF CarefulInv, Parsed, OneArmed
<1>6. FullReread' /\ CheckSucceeded' /\ OwnerPassAlone'
  BY <1>1, <1>2 DEF FullReread, CheckSucceeded, OwnerPassAlone
<1>7. TypeInv'
  BY EndTypes DEF CarefulInv
<1>8. QED
  BY <1>4, <1>5, <1>6, <1>7 DEF CarefulInv

LEMMA CarefulStart == CarefulInit => CarefulInv
<1> SUFFICES ASSUME CarefulInit PROVE CarefulInv
  OBVIOUS
<1>1. TypeInv
  BY InitTypes DEF CarefulInit
<1>2. pass.phase = "idle" /\ pass.purpose = "sync"
  BY DEF CarefulInit, Init, Idle
<1>3. \A p \in Profiles : ~Launched(p)
  BY DEF CarefulInit, Init, Launched
<1>4. OneArmed
  BY OneArmedMeans DEF CarefulInit, SingleExecutor
<1>5. Parsed
  BY DEF CarefulInit, Parsed
<1>6. FullReread /\ CheckSucceeded /\ OwnerPassAlone /\ Recorded /\ Cleared /\ OwnerAlone
  BY <1>2, <1>3 DEF FullReread, CheckSucceeded, OwnerPassAlone, Recorded, Settling,
    Cleared, Clearing, OwnerAlone
<1>7. QED
  BY <1>1, <1>4, <1>5, <1>6 DEF CarefulInv

LEMMA CarefulNextKeeps ==
  ASSUME CarefulInv, Fitting, [CarefulNext /\ FullReread']_vars
  PROVE  CarefulInv'
<1>1. CASE PassStep /\ FullReread'
  BY <1>1, PollKeeps, BeginKeeps, WriteKeeps, QuietStepKeeps, FinishKeeps,
    LaunchKeeps, SetOwnerKeeps
  DEF PassStep, Purposes
<1>2. CASE DesktopStep \/ UNCHANGED vars
  BY <1>2, QuietStepKeeps
<1>3. QED
  BY <1>1, <1>2, CarefulChangeKeeps DEF CarefulNext

\* While the journal can hold every id there is, and users are careful: what the
\* homes, the records, the pass under way and AppDeck's Desktops have to do with
\* each other (group_sync.hpp:87-193, automation_sync.hpp:118-176).
THEOREM CarefulInvariance ==
  ASSUME Fitting
  PROVE  SteadySpec => []CarefulInv
<1>1. CarefulInit => CarefulInv
  BY CarefulStart
<1>2. CarefulInv /\ [CarefulNext /\ FullReread']_vars => CarefulInv'
  BY CarefulNextKeeps
<1>3. QED
  BY <1>1, <1>2, PTL DEF SteadySpec

\* Careful users never get one schedule run by two homes, for any number of homes:
\* through edits, changes of owner, failed pauses and crashes between a file and
\* the journal (group_sync.hpp:156-173, automation_sync.hpp:169-175).
THEOREM OneExecutor ==
  ASSUME Fitting
  PROVE  SteadySpec => []SingleExecutor
<1>1. CarefulInv => SingleExecutor
  BY OneArmedMeans DEF CarefulInv
<1>2. SteadySpec => []CarefulInv
  BY CarefulInvariance
<1>3. QED
  BY <1>1, <1>2, PTL

\* AppDeck starts a Desktop only while no home but the owner's has a schedule
\* switched on, whatever was opened or edited since the homes were read again
\* (group_sync.hpp:174-178, main.cpp:266-270).
THEOREM LaunchesAreSafe ==
  ASSUME Fitting
  PROVE  SteadySpec => LaunchIsSafe
<1>1. ASSUME CarefulInv, [CarefulNext /\ FullReread']_vars
      PROVE  LaunchesBesideNoRival
  <2> SUFFICES ASSUME NEW p \in Profiles, Stopped(p), desktop'[p] = "launched"
               PROVE  \A id \in Automations : Rivals(id) = {}
    BY DEF LaunchesBesideNoRival
  <2>1. desktop \in [Profiles -> {"stopped", "opened", "launched"}]
    BY <1>1 DEF CarefulInv, TypeInv, TypeOK
  <2>2. PassStep
    BY <1>1, <2>1 DEF CarefulNext, CarefulChange, UserChange, vars, Stopped,
      DesktopStep, OpenOutside, Quit
  <2>3. PICK q \in Profiles : Launch(q)
    BY <2>2 DEF PassStep, Poll, Begin, Finish, Write, WriteUnacknowledged, Postpone,
      Fail, SetOwner, Abandon, Stopped
  <2>4. Clearing
    BY <2>3 DEF Launch, Clearing
  <2>5. QED
    BY <1>1, <2>4 DEF CarefulInv, Cleared, Alone, Rivals, Armed
<1>2. SteadySpec => []CarefulInv
  BY CarefulInvariance
<1>3. SteadySpec => [][LaunchesBesideNoRival]_vars
  BY <1>1, <1>2, PTL DEF SteadySpec
<1>4. QED
  BY <1>3 DEF LaunchIsSafe

=============================================================================
