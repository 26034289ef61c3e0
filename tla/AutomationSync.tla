--------------------------- MODULE AutomationSync --------------------------
(***************************************************************************)
(* The in-memory automation engine (automation_sync.hpp): what one call of *)
(* automationSyncReconcile computes from the journal's automation state    *)
(* and a batch of observed definition files.                               *)
(*                                                                         *)
(* A definition is its body (prompt, schedule and the other fields), a     *)
(* member of Bodies, and its status.  updated_at, which the engine ignores *)
(* when it compares definitions, and the TOML syntax are left out: a file  *)
(* that the parser refuses is Unsupported.                                 *)
(***************************************************************************)
EXTENDS Integers, FiniteSets

CONSTANTS
  Automations,    \* automation ids
  Profiles,       \* participants, the base included
  Rank,           \* Rank[p]: position of p in the batch, the base first
  Bodies,         \* contents of definitions other than the status
  None,           \* no file, no record, no baseline
  Unsupported,    \* a definition file the parser refuses
  Unavailable,    \* an incomplete observation of a participant
  MaxAutomations  \* 4096: ids the journal may hold

ASSUME RankAssumption ==
  /\ IsFiniteSet(Profiles)
  /\ Rank \in [Profiles -> Nat]
  /\ \A p, q \in Profiles : Rank[p] = Rank[q] => p = q

Status == {"ACTIVE", "PAUSED", "DELETED"}

Text == [body : Bodies, status : Status]

ASSUME AutomationSentinels ==
  /\ None \notin Text \cup [owner : Profiles, text : Text, deleted : BOOLEAN]
  /\ Unsupported \notin Text \cup {None}
  /\ Unavailable \notin [Automations -> Text \cup {None, Unsupported}]
  /\ MaxAutomations \in Nat

File == Text \cup {None, Unsupported}

Record == [owner : Profiles, text : Text, deleted : BOOLEAN]

State == [records : [Automations -> Record \cup {None}],
          profiles : [Profiles -> [Automations -> Text \cup {None}]]]

EmptyState == [records |-> [id \in Automations |-> None],
               profiles |-> [p \in Profiles |-> [id \in Automations |-> None]]]

IsActive(f) == f \in Text /\ f.status = "ACTIVE"

WithStatus(text, status) == [text EXCEPT !.status = status]

\* A record that still has a definition to project.
IsLive(r) == r # None /\ ~r.deleted

-----------------------------------------------------------------------------
(* One automation in one batch.  obs[p] gives p's files or is Unavailable.  *)

Valid(obs) == {p \in Profiles : obs[p] # Unavailable}

Holders(obs, id) == {p \in Valid(obs) : obs[p][id] # None}

\* Someone holds a definition that cannot be parsed: the id is left alone.
Blocked(obs, id) == \E p \in Holders(obs, id) : obs[p][id] = Unsupported

First(obs, id) ==
  CHOOSE p \in Holders(obs, id) :
    \A q \in Holders(obs, id) : Rank[p] <= Rank[q]

\* The record a batch starts from: a new id belongs to its first holder.
Known(st, obs, id) ==
  IF st.records[id] # None THEN st.records[id]
  ELSE [owner |-> First(obs, id), text |-> obs[First(obs, id)][id],
        deleted |-> FALSE]

\* Defect for the runs to detect: everyone proposes a status.
ProposedMutant(st, obs, p, id) == obs[p][id]

\* Only the owner proposes a status.
Proposed(st, obs, p, id) ==
  LET r == Known(st, obs, id)
  IN  IF p = r.owner THEN obs[p][id]
      ELSE WithStatus(obs[p][id], r.text.status)

\* p shows what it was last known to have.
Unchanged(st, obs, p, id) ==
  LET f == obs[p][id]
      b == st.profiles[p][id]
  IN  /\ b # None
      /\ f.status # "DELETED"
      /\ IF p = Known(st, obs, id).owner THEN f = b ELSE f.body = b.body

\* A definition under an id that is deleted, or that p never had.
Untracked(st, obs, p, id) ==
  /\ p \in Holders(obs, id)
  /\ st.profiles[p][id] = None
  /\ \/ Known(st, obs, id).deleted
     \/ Proposed(st, obs, p, id) # Known(st, obs, id).text

Editors(st, obs, id) ==
  {p \in Holders(obs, id) :
     /\ ~Known(st, obs, id).deleted
     /\ st.profiles[p][id] # None
     /\ obs[p][id].status # "DELETED"
     /\ ~Unchanged(st, obs, p, id)}

Candidates(st, obs, id) == {Proposed(st, obs, p, id) : p \in Editors(st, obs, id)}

Deleters(st, obs, id) ==
  {p \in Valid(obs) :
     /\ IsLive(Known(st, obs, id))
     /\ st.profiles[p][id] # None
     /\ \/ p \in Holders(obs, id) /\ obs[p][id].status = "DELETED"
        \/ p \notin Holders(obs, id) /\ st.records[id] # None}

\* Defect for the runs to detect: competing edits are not compared.
DisputedMutant(st, obs, id) ==
  \/ \E p \in Profiles : Untracked(st, obs, p, id)
  \/ Deleters(st, obs, id) # {} /\ Candidates(st, obs, id) # {}

\* The batch contradicts itself or the journal: nothing is decided.
Disputed(st, obs, id) ==
  \/ \E p \in Profiles : Untracked(st, obs, p, id)
  \/ Cardinality(Candidates(st, obs, id)) > 1
  \/ Deleters(st, obs, id) # {} /\ Candidates(st, obs, id) # {}

\* Defect for the runs to detect: only conflicting profiles are looked at.
UnsafeMutant(st, obs, id) ==
  \E p \in Editors(st, obs, id) :
    IsActive(obs[p][id]) /\ p # Known(st, obs, id).owner

\* Some profile other than the owner has the schedule switched on.
Unsafe(st, obs, id) ==
  /\ ~Blocked(obs, id)
  /\ \E p \in Holders(obs, id) :
       IsActive(obs[p][id]) /\ p # Known(st, obs, id).owner

\* Nothing is known of the id, or it is blocked.
Skipped(st, obs, id) ==
  Blocked(obs, id) \/ (st.records[id] = None /\ Holders(obs, id) = {})

Decided(st, obs, id) ==
  LET r == Known(st, obs, id)
      edits == Candidates(st, obs, id)
      text == IF edits = {} THEN r.text ELSE CHOOSE t \in edits : TRUE
  IN  [r EXCEPT !.text = text,
                !.deleted = \/ r.deleted
                            \/ Deleters(st, obs, id) # {}
                            \/ text.status = "DELETED"]

\* What p's file should be: the definition for the owner, paused for others.
Wanted(r, p) ==
  IF r.deleted THEN None
  ELSE IF p = r.owner THEN r.text
  ELSE WithStatus(r.text, "PAUSED")

-----------------------------------------------------------------------------
(* The whole batch.                                                         *)

Fits(st, obs) ==
  Cardinality({id \in Automations :
                 st.records[id] # None \/ Holders(obs, id) # {}})
    <= MaxAutomations

\* What p shows of id becomes its baseline; a conflict leaves the old one.
Accepted(st, obs, p, id) ==
  p \in Valid(obs) /\ ~Skipped(st, obs, id) /\ ~Disputed(st, obs, id)

\* automationSyncReconcile: the next journal state.
Reconcile(st, obs) ==
  IF ~Fits(st, obs) THEN st
  ELSE [records |->
          [id \in Automations |->
             IF Skipped(st, obs, id) THEN st.records[id]
             ELSE IF Disputed(st, obs, id) THEN Known(st, obs, id)
             ELSE Decided(st, obs, id)],
        profiles |->
          [p \in Profiles |-> [id \in Automations |->
             IF Accepted(st, obs, p, id) THEN obs[p][id]
             ELSE st.profiles[p][id]]]]

\* Defect for the runs to detect: deleted definitions are never removed.
OutdatedMutant(r, p, f) == ~r.deleted /\ f # Wanted(r, p)

Outdated(r, p, f) == f # Wanted(r, p)

\* The files that differ from what they should be.
Writes(st, obs) ==
  {w \in Valid(obs) \X Automations :
     /\ Fits(st, obs)
     /\ Accepted(st, obs, w[1], w[2])
     /\ Outdated(Reconcile(st, obs).records[w[2]], w[1], obs[w[1]][w[2]])}

UnsafeIds(st, obs) ==
  {id \in Automations : Fits(st, obs) /\ Unsafe(st, obs, id)}

\* The ids with a reported conflict of content, all of them in a batch beyond the
\* capacity: nothing is overwritten.
Disputes(st, obs) ==
  {id \in Automations :
     \/ ~Fits(st, obs)
     \/ Blocked(obs, id)
     \/ ~Skipped(st, obs, id) /\ Disputed(st, obs, id)}

\* automationSyncMarkApplied.
Marked(st, p, id, text) == [st EXCEPT !.profiles[p][id] = text]

\* automationSyncSetOwner of a live record.
Assigned(st, id, p) == [st EXCEPT !.records[id].owner = p]

=============================================================================
