---------------------------- MODULE ProxyProofs ----------------------------
(***************************************************************************)
(* Theorems of the two models of proxies, ProxyStore and ProxyBridge, for  *)
(* every value of their constants.                                         *)
(*                                                                         *)
(* The store: the inductive invariant StoreInv adds to the types what no   *)
(* property says: every entry was added once (Added), revisions are handed *)
(* out in order (Ordered), a check made for the present revision was made  *)
(* with the present configuration (Matching), and a list read in full has  *)
(* everything the user keeps (Complete).                                   *)
(*                                                                         *)
(* The bridge: types and the safety properties, for every set of           *)
(* connections, every list of endpoints and whatever these may do.         *)
(***************************************************************************)
EXTENDS ProxyStore, ProxyBridge, FiniteSetTheorems, TLAPS

-----------------------------------------------------------------------------
(* The list of proxies and who uses it: ProxyStore.                         *)

Added == \A x \in Proxies : list[x] # None \/ file[x] # None => x \in ids.used

Ordered ==
  /\ \A x \in Proxies :
       /\ list[x] # None => list[x].rev < budget.changes
       /\ file[x] # None => file[x].rev < budget.changes
  /\ \A w \in checks : w.rev < budget.changes

Matching ==
  \A w \in checks :
    w.id \in Known /\ list[w.id].rev = w.rev => list[w.id].config = w.config

Complete == ~damaged => ids.kept \subseteq Known

StoreInv ==
  /\ StoreTypeOK
  /\ Added /\ Ordered /\ Matching /\ Complete
  /\ NoneIsForgotten /\ CheckIsCurrent /\ ProbeIsCurrent

-----------------------------------------------------------------------------

LEMMA InitHolds == StoreInit => StoreInv
<1> SUFFICES ASSUME StoreInit PROVE StoreInv
  OBVIOUS
<1>1. memory \in Settings /\ saved \in Settings
  BY DEF StoreInit, Settings, Choices
<1>2. StoreTypeOK
  <2>1. budget \in [changes : 0 .. MaxChanges, damage : 0 .. MaxDamage,
                     failures : 0 .. MaxFailures]
    BY StoreConstants DEF StoreInit
  <2>2. /\ list \in [Proxies -> Entry \cup {None}] /\ file \in [Proxies -> Entry \cup {None}]
        /\ probe \in [Proxies -> Configs \cup {None}]
        /\ way \in [Profiles -> {None, "direct", "proxy"}]
        /\ asked \in [Profiles -> {None, "direct", "proxy"}]
    BY DEF StoreInit
  <2>3. /\ damage \subseteq Proxies /\ damaged \in BOOLEAN
        /\ checks \subseteq [id : ids.used, rev : 0 .. MaxChanges, config : Configs]
        /\ ids \in [used : SUBSET Proxies, kept : SUBSET Proxies]
    BY DEF StoreInit
  <2>4. QED
    BY <1>1, <2>1, <2>2, <2>3 DEF StoreTypeOK
<1>3. Added /\ Ordered /\ Matching /\ Complete
  BY DEF StoreInit, Added, Ordered, Matching, Complete
<1>4. NoneIsForgotten /\ CheckIsCurrent /\ ProbeIsCurrent
  BY DEF StoreInit, NoneIsForgotten, CheckIsCurrent, ProbeIsCurrent
<1>5. QED
  BY <1>2, <1>3, <1>4 DEF StoreInv

\* What ById and For return is in the list.
LEMMA ForIsKnown ==
  ASSUME NEW p, For(p) # None
  PROVE  For(p) \in Known
BY DEF For, ById

\* The steps that leave the list, its file and the checks alone.
LEMMA SettingsKeep ==
  ASSUME StoreInv,
         UNCHANGED <<list, file, damaged, checks, probe, ids>>,
         memory' \in Settings, saved' \in Settings,
         budget' \in [changes : 0 .. MaxChanges, damage : 0 .. MaxDamage,
                      failures : 0 .. MaxFailures],
         budget'.changes >= budget.changes,
         damage' \subseteq Proxies,
         way' \in [Profiles -> {None, "direct", "proxy"}],
         asked' \in [Profiles -> {None, "direct", "proxy"}]
  PROVE  StoreInv'
<1>1. StoreTypeOK'
  BY DEF StoreInv, StoreTypeOK
<1>2. Ordered'
  <2>1. /\ budget.changes \in Nat /\ budget'.changes \in Nat
        /\ \A x \in Proxies : list[x] # None => list[x].rev \in Nat
        /\ \A x \in Proxies : file[x] # None => file[x].rev \in Nat
        /\ \A w \in checks : w.rev \in Nat
    BY StoreConstants DEF StoreInv, StoreTypeOK, Entry
  <2>2. QED
    BY <2>1 DEF StoreInv, Ordered
<1>3. Added' /\ Matching' /\ Complete'
  BY DEF StoreInv, Added, Matching, Complete, Known
<1>4. NoneIsForgotten' /\ CheckIsCurrent' /\ ProbeIsCurrent'
  BY DEF StoreInv, NoneIsForgotten, CheckIsCurrent, ProbeIsCurrent, Known
<1>5. QED
  BY <1>1, <1>2, <1>3, <1>4 DEF StoreInv

\* What every change spends.
LEMMA ChangingSpends ==
  ASSUME StoreTypeOK, Changing
  PROVE  /\ budget' \in [changes : 0 .. MaxChanges, damage : 0 .. MaxDamage,
                         failures : 0 .. MaxFailures]
         /\ budget.changes \in 0 .. MaxChanges
         /\ budget'.changes = budget.changes + 1
<1>1. /\ budget \in [changes : 0 .. MaxChanges, damage : 0 .. MaxDamage,
                     failures : 0 .. MaxFailures]
      /\ budget.changes \in 0 .. MaxChanges /\ budget.failures \in 0 .. MaxFailures
      /\ budget.changes < MaxChanges
  BY DEF StoreTypeOK, Changing
<1>2. PICK f \in {budget.failures, budget.failures + 1} :
        f <= MaxFailures
        /\ budget' = [budget EXCEPT !.changes = @ + 1, !.failures = f]
  BY DEF Changing
<1>3. f \in 0 .. MaxFailures /\ budget.changes + 1 \in 0 .. MaxChanges
  BY <1>1, <1>2, StoreConstants
<1>4. QED
  BY <1>1, <1>2, <1>3

\* The settings written are those in memory or those written before.
LEMMA RecordedFacts ==
  ASSUME StoreTypeOK, Recorded, memory' \in Settings
  PROVE  saved' \in Settings
BY DEF StoreTypeOK, Recorded

\* The list written is complete.
LEMMA StoredFacts ==
  ASSUME StoreInv, NEW l \in [Proxies -> Entry \cup {None}], NEW k \in SUBSET Proxies,
         Stored(l, k),
         ~damaged => \A x \in k : l[x] # None
  PROVE  /\ file' = l \/ file' = file
         /\ damage' \subseteq Proxies
         /\ ids' \in [used : SUBSET Proxies, kept : SUBSET Proxies]
         /\ ids'.used = ids.used \cup k
         /\ ids'.kept \subseteq k
         /\ \A x \in ids'.kept : file'[x] # None
<1>1. /\ ids \in [used : SUBSET Proxies, kept : SUBSET Proxies]
      /\ damage \subseteq Proxies
      /\ \A x \in ids.kept : file[x] # None
  BY DEF StoreInv, StoreTypeOK, NoneIsForgotten
<1>2. CASE /\ ~damaged /\ file' = l /\ damage' = {}
           /\ ids' = [ids EXCEPT !.used = @ \cup k, !.kept = k]
  BY <1>1, <1>2
<1>3. CASE /\ UNCHANGED <<file, damage>>
           /\ ids' = [ids EXCEPT !.used = @ \cup k, !.kept = @ \cap k]
  BY <1>1, <1>3
<1>4. QED
  BY <1>2, <1>3 DEF Stored

-----------------------------------------------------------------------------
(* The steps, one by one.                                                   *)

\* The type of a budget.
Budgets ==
  [changes : 0 .. MaxChanges, damage : 0 .. MaxDamage, failures : 0 .. MaxFailures]

LEMMA EditedKeeps ==
  ASSUME StoreInv, NEW x \in Proxies, NEW c \in Configs, Edited(x, c)
  PROVE  StoreInv'
<1> DEFINE entry == [config |-> c, rev |-> budget.changes, check |-> None]
           k == Known \cup ids.kept \cup {x}
<1>1. /\ budget' \in Budgets /\ budget.changes \in 0 .. MaxChanges
      /\ budget'.changes = budget.changes + 1
  BY ChangingSpends DEF StoreInv, Edited, Budgets
<1>2. entry \in Entry /\ entry # None
  BY <1>1, NoneIsNoEntry DEF Entry
<1>3. /\ list \in [Proxies -> Entry \cup {None}] /\ file \in [Proxies -> Entry \cup {None}]
      /\ ids \in [used : SUBSET Proxies, kept : SUBSET Proxies]
      /\ checks \subseteq [id : ids.used, rev : 0 .. MaxChanges, config : Configs]
  BY DEF StoreInv, StoreTypeOK
<1>4. /\ list' = [list EXCEPT ![x] = entry]
      /\ list' \in [Proxies -> Entry \cup {None}]
      /\ list'[x] = entry /\ \A y \in Proxies \ {x} : list'[y] = list[y]
  BY <1>2, <1>3 DEF Edited
<1>5. Known' = Known \cup {x}
  BY <1>2, <1>4 DEF Known
<1>6. k \in SUBSET Proxies /\ (~damaged => \A y \in k : list'[y] # None)
  BY <1>2, <1>3, <1>4, <1>5 DEF StoreInv, Complete, Known
<1>7. /\ file' = list' \/ file' = file
      /\ damage' \subseteq Proxies
      /\ ids' \in [used : SUBSET Proxies, kept : SUBSET Proxies]
      /\ ids'.used = ids.used \cup k
      /\ ids'.kept \subseteq k
      /\ \A y \in ids'.kept : file'[y] # None
  BY <1>4, <1>6, StoredFacts DEF Edited
<1>8. StoreTypeOK'
  <2>1. checks' \subseteq [id : ids'.used, rev : 0 .. MaxChanges, config : Configs]
    BY <1>3, <1>7 DEF Edited
  <2>2. probe' \in [Proxies -> Configs \cup {None}]
    BY DEF StoreInv, StoreTypeOK, Edited
  <2>3. QED
    BY <1>1, <1>3, <1>4, <1>7, <2>1, <2>2 DEF StoreInv, StoreTypeOK, Edited, Budgets
<1>9. Added'
  BY <1>3, <1>4, <1>7 DEF StoreInv, Added, Known
<1>10. Ordered'
  <2>1. \A y \in Proxies :
          /\ list[y] # None => list[y].rev \in Nat /\ list[y].rev < budget.changes
          /\ file[y] # None => file[y].rev \in Nat /\ file[y].rev < budget.changes
    BY <1>3, StoreConstants DEF StoreInv, Ordered, Entry
  <2>2. \A w \in checks : w.rev \in Nat /\ w.rev < budget.changes
    BY <1>3, StoreConstants DEF StoreInv, Ordered
  <2>3. entry.rev = budget.changes
    OBVIOUS
  <2>4. \A y \in Proxies : list'[y] # None => list'[y].rev < budget'.changes
    BY <1>1, <1>4, <2>1, <2>3
  <2>5. \A y \in Proxies : file'[y] # None => file'[y].rev < budget'.changes
    BY <1>1, <1>7, <2>1, <2>4
  <2>6. \A w \in checks' : w.rev < budget'.changes
    BY <1>1, <2>2 DEF Edited
  <2>7. QED
    BY <2>4, <2>5, <2>6 DEF Ordered
<1>11. Matching'
  <2>1. \A w \in checks : w.rev \in Nat /\ w.rev < budget.changes /\ w.id \in Proxies
    BY <1>3, StoreConstants DEF StoreInv, Ordered
  <2>2. \A w \in checks : list'[w.id].rev = w.rev => w.id # x
    BY <1>1, <1>4, <2>1
  <2>3. QED
    BY <1>4, <1>5, <2>1, <2>2 DEF StoreInv, Matching, Edited
<1>12. Complete' /\ NoneIsForgotten'
  BY <1>5, <1>7 DEF StoreInv, Complete, NoneIsForgotten, Edited
<1>13. CheckIsCurrent'
  <2>1. \A y \in Proxies : list'[y] # None => list'[y].check \in {None, list'[y].config}
    BY <1>4 DEF StoreInv, CheckIsCurrent
  <2>2. QED
    BY <1>7, <2>1 DEF StoreInv, CheckIsCurrent
<1>14. ProbeIsCurrent'
  BY <1>4, <1>5 DEF StoreInv, StoreTypeOK, ProbeIsCurrent, Edited
<1>15. QED
  BY <1>8, <1>9, <1>10, <1>11, <1>12, <1>13, <1>14 DEF StoreInv

LEMMA RemoveKeeps ==
  ASSUME StoreInv, NEW x \in Proxies, Remove(x)
  PROVE  StoreInv'
<1> DEFINE k == (Known \cup ids.kept) \ {x}
<1>1. /\ budget' \in Budgets /\ budget.changes \in 0 .. MaxChanges
      /\ budget'.changes = budget.changes + 1
  BY ChangingSpends DEF StoreInv, Remove, Budgets
<1>2. /\ list \in [Proxies -> Entry \cup {None}] /\ file \in [Proxies -> Entry \cup {None}]
      /\ ids \in [used : SUBSET Proxies, kept : SUBSET Proxies]
      /\ checks \subseteq [id : ids.used, rev : 0 .. MaxChanges, config : Configs]
  BY DEF StoreInv, StoreTypeOK
<1>3. /\ list' \in [Proxies -> Entry \cup {None}]
      /\ list'[x] = None /\ \A y \in Proxies \ {x} : list'[y] = list[y]
  BY <1>2 DEF Remove
<1>4. Known' = Known \ {x}
  BY <1>3 DEF Known
<1>5. k \in SUBSET Proxies /\ (~damaged => \A y \in k : list'[y] # None)
  BY <1>2, <1>3 DEF StoreInv, Complete, Known
<1>6. /\ file' = list' \/ file' = file
      /\ damage' \subseteq Proxies
      /\ ids' \in [used : SUBSET Proxies, kept : SUBSET Proxies]
      /\ ids'.used = ids.used \cup k
      /\ ids'.kept \subseteq k
      /\ \A y \in ids'.kept : file'[y] # None
  BY <1>3, <1>5, StoredFacts DEF Remove
<1>7. memory' \in Settings
  BY DEF Remove, StoreInv, StoreTypeOK, Settings, Choices
<1>8. StoreTypeOK'
  <2>1. checks' \subseteq [id : ids'.used, rev : 0 .. MaxChanges, config : Configs]
    BY <1>2, <1>6 DEF Remove
  <2>2. probe' \in [Proxies -> Configs \cup {None}]
    BY DEF StoreInv, StoreTypeOK, Remove
  <2>3. saved' \in Settings
    BY <1>7, RecordedFacts DEF Remove, StoreInv
  <2>4. QED
    BY <1>1, <1>2, <1>3, <1>6, <1>7, <2>1, <2>2, <2>3 DEF StoreInv, StoreTypeOK, Remove, Budgets
<1>9. Added'
  BY <1>2, <1>3, <1>6 DEF StoreInv, Added, Known
<1>10. Ordered'
  <2>1. \A y \in Proxies :
          /\ list[y] # None => list[y].rev \in Nat /\ list[y].rev < budget.changes
          /\ file[y] # None => file[y].rev \in Nat /\ file[y].rev < budget.changes
    BY <1>2, StoreConstants DEF StoreInv, Ordered, Entry
  <2>2. \A w \in checks : w.rev \in Nat /\ w.rev < budget.changes
    BY <1>2, StoreConstants DEF StoreInv, Ordered
  <2>3. \A y \in Proxies : list'[y] # None => list'[y].rev < budget'.changes
    BY <1>1, <1>3, <2>1
  <2>4. \A y \in Proxies : file'[y] # None => file'[y].rev < budget'.changes
    BY <1>1, <1>6, <2>1, <2>3
  <2>5. \A w \in checks' : w.rev < budget'.changes
    BY <1>1, <2>2 DEF Remove
  <2>6. QED
    BY <2>3, <2>4, <2>5 DEF Ordered
<1>11. Matching'
  BY <1>2, <1>3, <1>4 DEF StoreInv, Matching, Remove, Known
<1>12. Complete' /\ NoneIsForgotten'
  BY <1>4, <1>6 DEF StoreInv, Complete, NoneIsForgotten, Remove
<1>13. CheckIsCurrent'
  <2>1. \A y \in Proxies : list'[y] # None => list'[y].check \in {None, list'[y].config}
    BY <1>3 DEF StoreInv, CheckIsCurrent
  <2>2. QED
    BY <1>6, <2>1 DEF StoreInv, CheckIsCurrent
<1>14. ProbeIsCurrent'
  BY <1>3, <1>4 DEF StoreInv, StoreTypeOK, ProbeIsCurrent, Remove
<1>15. QED
  BY <1>8, <1>9, <1>10, <1>11, <1>12, <1>13, <1>14 DEF StoreInv

LEMMA CheckFinishedKeeps ==
  ASSUME StoreInv, NEW w \in checks, CheckFinished(w)
  PROVE  StoreInv'
<1>1. /\ list \in [Proxies -> Entry \cup {None}] /\ file \in [Proxies -> Entry \cup {None}]
      /\ ids \in [used : SUBSET Proxies, kept : SUBSET Proxies]
      /\ checks \subseteq [id : ids.used, rev : 0 .. MaxChanges, config : Configs]
      /\ budget \in Budgets
  BY DEF StoreInv, StoreTypeOK, Budgets
<1>2. checks' \subseteq checks
  BY DEF CheckFinished
<1>3. CASE UNCHANGED <<list, file, damage, ids, budget>>
  <2>1. StoreTypeOK'
    BY <1>1, <1>2, <1>3 DEF StoreInv, StoreTypeOK, CheckFinished
  <2>2. Added' /\ Ordered' /\ Matching' /\ Complete'
    BY <1>2, <1>3 DEF StoreInv, Added, Ordered, Matching, Complete, Known, CheckFinished
  <2>3. NoneIsForgotten' /\ CheckIsCurrent' /\ ProbeIsCurrent'
    BY <1>3 DEF StoreInv, NoneIsForgotten, CheckIsCurrent, ProbeIsCurrent, Known, CheckFinished
  <2>4. QED
    BY <2>1, <2>2, <2>3 DEF StoreInv
<1>4. CASE Applies(w)
  <2> DEFINE x == w.id
             entry == [list[x] EXCEPT !.check = w.config]
             k == Known \cup ids.kept
  <2>1. /\ x \in Proxies /\ x \in Known /\ w.config \in Configs
        /\ list[x] \in Entry /\ list[x].config = w.config
    BY <1>1, <1>4 DEF Applies, Known, StoreInv, Matching
  <2>2. /\ entry \in Entry /\ entry # None
        /\ entry.config = list[x].config /\ entry.rev = list[x].rev
        /\ entry.check = entry.config
    BY <2>1, NoneIsNoEntry DEF Entry
  <2>3. list' = [list EXCEPT ![x] = entry] /\ Stored(list', k)
    BY <1>4 DEF CheckFinished
  <2>4. /\ list' \in [Proxies -> Entry \cup {None}]
        /\ list'[x] = entry /\ \A y \in Proxies \ {x} : list'[y] = list[y]
    BY <1>1, <2>1, <2>2, <2>3
  <2>5. Known' = Known
    BY <2>1, <2>2, <2>4 DEF Known
  <2>6. k \in SUBSET Proxies /\ (~damaged => \A y \in k : list'[y] # None)
    BY <1>1, <2>5 DEF StoreInv, Complete, Known
  <2>7. /\ file' = list' \/ file' = file
        /\ damage' \subseteq Proxies
        /\ ids' \in [used : SUBSET Proxies, kept : SUBSET Proxies]
        /\ ids'.used = ids.used \cup k
        /\ ids'.kept \subseteq k
        /\ \A y \in ids'.kept : file'[y] # None
    BY <2>3, <2>4, <2>6, StoredFacts
  <2>8. budget' \in Budgets /\ budget'.changes = budget.changes
    <3>1. PICK f \in {budget.failures, budget.failures + 1} :
            f <= MaxFailures /\ budget' = [budget EXCEPT !.failures = f]
      BY <1>4 DEF CheckFinished
    <3>2. f \in 0 .. MaxFailures
      BY <1>1, <3>1, StoreConstants DEF Budgets
    <3>3. QED
      BY <1>1, <3>1, <3>2 DEF Budgets
  <2>9. StoreTypeOK'
    <3>1. checks' \subseteq [id : ids'.used, rev : 0 .. MaxChanges, config : Configs]
      BY <1>1, <1>2, <2>7
    <3>2. QED
      BY <1>1, <2>4, <2>7, <2>8, <3>1 DEF StoreInv, StoreTypeOK, CheckFinished, Budgets
  <2>10. Added'
    BY <1>1, <2>1, <2>4, <2>7 DEF StoreInv, Added, Known
  <2>11. Ordered'
    <3>1. \A y \in Proxies : list'[y] # None => list'[y].rev < budget'.changes
      BY <2>1, <2>2, <2>4, <2>8, ZenonT(30) DEF StoreInv, Ordered, Known
    <3>2. \A y \in Proxies : file'[y] # None => file'[y].rev < budget'.changes
      BY <2>7, <2>8, <3>1 DEF StoreInv, Ordered
    <3>3. \A v \in checks' : v.rev < budget'.changes
      BY <1>2, <2>8 DEF StoreInv, Ordered
    <3>4. QED
      BY <3>1, <3>2, <3>3 DEF Ordered
  <2>12. Matching'
    <3>1. \A y \in Known : list'[y].rev = list[y].rev /\ list'[y].config = list[y].config
      BY <2>2, <2>4 DEF Known
    <3>2. \A v \in checks' :
            v.id \in Known /\ list[v.id].rev = v.rev => list[v.id].config = v.config
      BY <1>2 DEF StoreInv, Matching
    <3>3. QED
      BY <2>5, <3>1, <3>2 DEF Matching
  <2>13. Complete' /\ NoneIsForgotten'
    BY <2>5, <2>7 DEF StoreInv, Complete, NoneIsForgotten, CheckFinished
  <2>14. CheckIsCurrent'
    <3>1. \A y \in Proxies : list'[y] # None => list'[y].check \in {None, list'[y].config}
      BY <2>2, <2>4 DEF StoreInv, CheckIsCurrent
    <3>2. QED
      BY <2>7, <3>1 DEF StoreInv, CheckIsCurrent
  <2>15. ProbeIsCurrent'
    BY <2>2, <2>4, <2>5 DEF StoreInv, ProbeIsCurrent, CheckFinished
  <2>16. QED
    BY <2>9, <2>10, <2>11, <2>12, <2>13, <2>14, <2>15 DEF StoreInv
<1>5. QED
  BY <1>3, <1>4 DEF CheckFinished

LEMMA CheckKeeps ==
  ASSUME StoreInv, NEW x \in Proxies, Check(x)
  PROVE  StoreInv'
<1> DEFINE w == [id |-> x, rev |-> list[x].rev, config |-> list[x].config]
<1>1. /\ list[x] \in Entry /\ list[x].rev < budget.changes /\ x \in ids.used
      /\ checks' = checks \cup {w}
  BY DEF Check, Known, StoreInv, StoreTypeOK, Ordered, Added
<1>2. w \in [id : ids.used, rev : 0 .. MaxChanges, config : Configs]
  BY <1>1 DEF Entry
<1>3. StoreTypeOK'
  BY <1>1, <1>2 DEF Check, StoreInv, StoreTypeOK
<1>4. Added' /\ Ordered' /\ Matching' /\ Complete'
  BY <1>1 DEF Check, StoreInv, Added, Ordered, Matching, Complete, Known
<1>5. NoneIsForgotten' /\ CheckIsCurrent' /\ ProbeIsCurrent'
  BY DEF Check, StoreInv, NoneIsForgotten, CheckIsCurrent, ProbeIsCurrent, Known
<1>6. QED
  BY <1>3, <1>4, <1>5 DEF StoreInv

LEMMA AskKeeps ==
  ASSUME StoreInv, NEW p \in Profiles, Ask(p)
  PROVE  StoreInv'
<1> DEFINE x == For(p)
<1>1. asked' \in [Profiles -> {None, "direct", "proxy"}]
  BY DEF Ask, Way, StoreInv, StoreTypeOK
<1>2. x # None => x \in Known /\ x \in Proxies /\ list[x] \in Entry
  BY ForIsKnown DEF Known, StoreInv, StoreTypeOK
<1>3. probe' \in [Proxies -> Configs \cup {None}] /\ ProbeIsCurrent'
  BY <1>2 DEF Ask, ProbeServes, Entry, Known, StoreInv, StoreTypeOK, ProbeIsCurrent
<1>4. StoreTypeOK'
  BY <1>1, <1>3 DEF Ask, StoreInv, StoreTypeOK
<1>5. Added' /\ Ordered' /\ Matching' /\ Complete' /\ NoneIsForgotten' /\ CheckIsCurrent'
  BY DEF Ask, StoreInv, Added, Ordered, Matching, Complete, NoneIsForgotten,
         CheckIsCurrent, Known
<1>6. QED
  BY <1>3, <1>4, <1>5 DEF StoreInv

LEMMA ProbeBridgeEndsKeeps ==
  ASSUME StoreInv, NEW x \in Proxies, ProbeBridgeEnds(x)
  PROVE  StoreInv'
<1>1. StoreTypeOK' /\ ProbeIsCurrent'
  BY DEF ProbeBridgeEnds, StoreInv, StoreTypeOK, ProbeIsCurrent, Known
<1>2. Added' /\ Ordered' /\ Matching' /\ Complete' /\ NoneIsForgotten' /\ CheckIsCurrent'
  BY DEF ProbeBridgeEnds, StoreInv, Added, Ordered, Matching, Complete, NoneIsForgotten,
         CheckIsCurrent, Known
<1>3. QED
  BY <1>1, <1>2 DEF StoreInv

LEMMA RestartKeeps ==
  ASSUME StoreInv, Restart
  PROVE  StoreInv'
<1>1. /\ list' \in [Proxies -> Entry \cup {None}]
      /\ \A x \in Proxies : list'[x] # None => list'[x] = file[x] /\ file[x] # None
      /\ damaged' = FALSE => list' = file
      /\ checks' = {} /\ damaged' \in BOOLEAN
  BY DEF Restart, StoreInv, StoreTypeOK
<1>2. StoreTypeOK'
  BY <1>1 DEF Restart, StoreInv, StoreTypeOK
<1>3. Added' /\ Ordered' /\ Matching'
  BY <1>1 DEF Restart, StoreInv, Added, Ordered, Matching
<1>4. Complete' /\ NoneIsForgotten' /\ CheckIsCurrent' /\ ProbeIsCurrent'
  BY <1>1 DEF Restart, StoreInv, StoreTypeOK, Complete, NoneIsForgotten, CheckIsCurrent,
              ProbeIsCurrent, Known
<1>5. QED
  BY <1>2, <1>3, <1>4 DEF StoreInv

\* Settings, windows, and what happens to the file outside AppDeck.
LEMMA OtherStepsKeep ==
  ASSUME StoreInv,
         \/ \E x \in Proxies \cup {None} : PickDefault(x)
         \/ \E p \in Profiles, c \in Choices : Choose(p, c)
         \/ \E p \in Profiles, c \in Choices, r \in BOOLEAN : Configure(p, c, r)
         \/ \E p \in Profiles : Launch(p) \/ Close(p)
         \/ Repair
         \/ \E S \in SUBSET Proxies : Damage(S)
  PROVE  StoreInv'
<1>1. ASSUME NEW s \in Settings, Set(s)
      PROVE  StoreInv'
  <2>1. budget' \in Budgets /\ budget'.changes >= budget.changes
    BY <1>1, ChangingSpends DEF Set, StoreInv, Budgets
  <2>2. memory' \in Settings /\ saved' \in Settings
    BY <1>1, RecordedFacts DEF Set, StoreInv
  <2>3. QED
    BY <1>1, <2>1, <2>2, SettingsKeep DEF Set, StoreInv, StoreTypeOK, Budgets
<1>2. memory \in Settings
  BY DEF StoreInv, StoreTypeOK
<1>3. ASSUME NEW x \in Proxies \cup {None}, PickDefault(x)
      PROVE  StoreInv'
  <2>1. [memory EXCEPT !.default = x] \in Settings
    BY <1>2 DEF Settings
  <2>2. QED
    BY <1>1, <1>3, <2>1 DEF PickDefault
<1>4. ASSUME NEW p \in Profiles, NEW c \in Choices, Choose(p, c)
      PROVE  StoreInv'
  <2>1. [memory EXCEPT !.choice[p] = c] \in Settings
    BY <1>2 DEF Settings
  <2>2. QED
    BY <1>1, <1>4, <2>1 DEF Choose
<1>5. ASSUME NEW p \in Profiles, NEW c \in Choices, NEW r \in BOOLEAN, Configure(p, c, r)
      PROVE  StoreInv'
  <2>1. [memory EXCEPT !.choice[p] = c, !.required[p] = r] \in Settings
    BY <1>2 DEF Settings
  <2>2. QED
    BY <1>1, <1>5, <2>1 DEF Configure
<1>6. budget \in Budgets /\ budget.changes >= budget.changes
  BY StoreConstants DEF StoreInv, StoreTypeOK, Budgets
<1>7. ASSUME NEW p \in Profiles, Launch(p) \/ Close(p)
      PROVE  StoreInv'
  <2>1. way' \in [Profiles -> {None, "direct", "proxy"}]
    BY <1>7 DEF Launch, Close, Way, StoreInv, StoreTypeOK
  <2>2. QED
    BY <1>6, <1>7, <2>1, SettingsKeep DEF Launch, Close, StoreInv, StoreTypeOK, Budgets
<1>8. ASSUME Repair
      PROVE  StoreInv'
  BY <1>6, <1>8, SettingsKeep DEF Repair, StoreInv, StoreTypeOK, Budgets
<1>9. ASSUME NEW S \in SUBSET Proxies, Damage(S)
      PROVE  StoreInv'
  <2>1. budget' \in Budgets /\ budget'.changes >= budget.changes
    BY <1>6, <1>9, StoreConstants DEF Damage, Budgets
  <2>2. damage' \subseteq Proxies
    BY <1>9 DEF Damage, StoreInv, StoreTypeOK
  <2>3. QED
    BY <1>9, <2>1, <2>2, SettingsKeep DEF Damage, StoreInv, StoreTypeOK, Budgets
<1>10. QED
  BY <1>3, <1>4, <1>5, <1>7, <1>8, <1>9

LEMMA StutterKeeps ==
  ASSUME StoreInv, UNCHANGED storeVars
  PROVE  StoreInv'
BY StoreConstants, SettingsKeep DEF storeVars, StoreInv, StoreTypeOK

LEMMA NextKeeps == StoreInv /\ [StoreNext]_storeVars => StoreInv'
<1> SUFFICES ASSUME StoreInv, [StoreNext]_storeVars PROVE StoreInv'
  OBVIOUS
<1>1. ASSUME NEW x \in Proxies, NEW c \in Configs, Add(x, c) \/ Edit(x, c)
      PROVE  StoreInv'
  BY <1>1, EditedKeeps DEF Add, Edit
<1>2. ASSUME NEW x \in Proxies, Remove(x) \/ Check(x) \/ ProbeBridgeEnds(x)
      PROVE  StoreInv'
  BY <1>2, RemoveKeeps, CheckKeeps, ProbeBridgeEndsKeeps
<1>3. QED
  BY <1>1, <1>2, CheckFinishedKeeps, AskKeeps, RestartKeeps, OtherStepsKeep, StutterKeeps
  DEF StoreNext

\* The inductive invariant of the store holds in every reachable state: what the
\* list, the file, the checks and the probe bridges have to do with each other
\* (proxy_store.hpp:11-39, proxy_views.hpp:71-87).
THEOREM StoreInvariance == StoreSpec => []StoreInv
BY InitHolds, NextKeeps, PTL DEF StoreSpec

-----------------------------------------------------------------------------
(* What a reader should know of.                                            *)

\* Every variable keeps its type, for any number of proxies and profiles
\* (proxy_store.hpp:11-33).
THEOREM StoreTypeCorrect == StoreSpec => []StoreTypeOK
<1>1. StoreInv => StoreTypeOK
  BY DEF StoreInv
<1>2. QED
  BY <1>1, StoreInvariance, PTL

\* No damage, restart or failed save makes AppDeck write a file without a
\* proxy the user did not remove (proxy_store.hpp:34-39).
THEOREM ProxiesAreKept == StoreSpec => []NoneIsForgotten
<1>1. StoreInv => NoneIsForgotten
  BY DEF StoreInv
<1>2. QED
  BY <1>1, StoreInvariance, PTL

\* A worker that comes back late never gives a proxy the check of other
\* addresses (proxy_views.hpp:78-87).
THEOREM ChecksStayCurrent == StoreSpec => []CheckIsCurrent
<1>1. StoreInv => CheckIsCurrent
  BY DEF StoreInv
<1>2. QED
  BY <1>1, StoreInvariance, PTL

\* Limit probes never go through the addresses a proxy had before
\* (proxy_store.hpp:122-129).
THEOREM ProbesStayCurrent == StoreSpec => []ProbeIsCurrent
<1>1. StoreInv => ProbeIsCurrent
  BY DEF StoreInv
<1>2. QED
  BY <1>1, StoreInvariance, PTL

-----------------------------------------------------------------------------
(* Direct windows.  After a removal whose save failed the file has a proxy   *)
(* the list lacks; nobody names it then, unless the file was damaged.        *)

Names(x) == memory.default = x \/ \E p \in Profiles : memory.choice[p] = x

NamesRead == ~damaged => \A x \in Proxies : file[x] # None /\ Names(x) => x \in Known

LEMMA NextKeepsNamesRead == StoreInv /\ StoreInv' /\ NamesRead /\ [StoreNext]_storeVars => NamesRead'
<1> SUFFICES ASSUME StoreInv, StoreInv', NamesRead, [StoreNext]_storeVars PROVE NamesRead'
  OBVIOUS
<1>1. /\ list \in [Proxies -> Entry \cup {None}] /\ file \in [Proxies -> Entry \cup {None}]
      /\ memory \in Settings /\ None \notin Proxies
  BY StoreConstants DEF StoreInv, StoreTypeOK
<1>2. ASSUME NEW x \in Proxies, NEW c \in Configs, Edited(x, c)
      PROVE  NamesRead'
  <2>1. Known \subseteq Known'
    BY <1>1, <1>2, NoneIsNoEntry DEF Edited, Known, StoreInv, StoreTypeOK, Entry, Ordered
  <2>2. UNCHANGED <<memory, damaged>> /\ (file' = list' \/ file' = file)
    BY <1>2 DEF Edited, Stored
  <2>3. QED
    BY <2>1, <2>2 DEF NamesRead, Names, Known
<1>3. ASSUME NEW x \in Proxies, Remove(x)
      PROVE  NamesRead'
  <2>1. Known' = Known \ {x} /\ damaged' = damaged /\ (file' = list' \/ file' = file)
    BY <1>1, <1>3 DEF Remove, Stored, Known
  <2>2. /\ memory'.default = IF memory.default = x THEN None ELSE memory.default
        /\ \A p \in Profiles : memory'.choice[p] =
             IF memory.choice[p] = x THEN "default" ELSE memory.choice[p]
    BY <1>1, <1>3 DEF Remove, Settings
  <2>3. \A y \in Proxies : Names(y)' => Names(y) /\ y # x
    BY <1>1, <2>2, StoreConstants DEF Names
  <2>4. QED
    BY <2>1, <2>3 DEF NamesRead, Known
<1>4. ASSUME NEW w \in checks, CheckFinished(w)
      PROVE  NamesRead'
  <2>1. UNCHANGED <<memory, damaged>> /\ (file' = list' \/ file' = file)
    BY <1>4 DEF CheckFinished, Stored
  <2>2. Known \subseteq Known'
    BY <1>1, <1>4, NoneIsNoEntry DEF CheckFinished, Known, Entry, Applies, StoreInv, StoreTypeOK
  <2>3. QED
    BY <2>1, <2>2 DEF NamesRead, Names, Known
<1>5. ASSUME NEW s \in Settings, Set(s),
             \A y \in Proxies : Names(y)' => Names(y) \/ y \in Known
      PROVE  NamesRead'
  BY <1>5 DEF Set, NamesRead, Known
<1>6. ASSUME NEW x \in Proxies \cup {None}, PickDefault(x)
      PROVE  NamesRead'
  <2>1. memory' = [memory EXCEPT !.default = x] /\ x \in Known \cup {None}
    BY <1>6 DEF PickDefault, Set
  <2>2. memory' \in Settings /\ \A y \in Proxies : Names(y)' => Names(y) \/ y \in Known
    BY <1>1, <2>1 DEF Settings, Names
  <2>3. QED
    BY <1>5, <1>6, <2>1, <2>2 DEF PickDefault
<1>7. ASSUME NEW p \in Profiles, NEW c \in Choices, Choose(p, c)
      PROVE  NamesRead'
  <2>1. memory' = [memory EXCEPT !.choice[p] = c] /\ c \in Known \cup {"default", "none"}
    BY <1>7 DEF Choose, Set
  <2>2. memory' \in Settings /\ \A y \in Proxies : Names(y)' => Names(y) \/ y \in Known
    BY <1>1, <2>1, StoreConstants DEF Settings, Names
  <2>3. QED
    BY <1>5, <1>7, <2>1, <2>2 DEF Choose
<1>8. ASSUME NEW p \in Profiles, NEW c \in Choices, NEW r \in BOOLEAN, Configure(p, c, r)
      PROVE  NamesRead'
  <2>1. /\ memory' = [memory EXCEPT !.choice[p] = c, !.required[p] = r]
        /\ c \in Known \cup {"default", "none", memory.choice[p]}
    BY <1>8 DEF Configure, Set
  <2>2. memory' \in Settings /\ \A y \in Proxies : Names(y)' => Names(y) \/ y \in Known
    BY <1>1, <2>1, StoreConstants DEF Settings, Names
  <2>3. QED
    BY <1>5, <1>8, <2>1, <2>2 DEF Configure
<1>9. ASSUME Restart
      PROVE  NamesRead'
  BY <1>1, <1>9 DEF Restart, NamesRead, Known, StoreInv, StoreTypeOK
<1>10. ASSUME UNCHANGED <<list, file, damaged, memory>>
       PROVE  NamesRead'
  BY <1>10 DEF NamesRead, Names, Known
<1>11. QED
  BY <1>2, <1>3, <1>4, <1>6, <1>7, <1>8, <1>9, <1>10
  DEF StoreNext, Add, Edit, Check, ProbeBridgeEnds, Launch, Close, Ask, Repair, Damage, storeVars

LEMMA NamesAreRead == StoreSpec => []NamesRead
<1>1. StoreInit => NamesRead
  BY DEF StoreInit, NamesRead
<1>2. QED
  BY <1>1, StoreInvariance, NextKeepsNamesRead, PTL DEF StoreSpec

LEMMA NotReadIsNotThere ==
  ASSUME StoreInv, NamesRead, NEW p \in Profiles, For(p) = None, ~memory.required[p]
  PROVE  MayBeDirect(p) \/ (damaged /\ Unresolved(p))
<1>1. CASE Named(p) = None
  BY <1>1 DEF MayBeDirect
<1>2. CASE Named(p) # None
  <2>1. Named(p) \in Proxies /\ Names(Named(p))
    BY <1>2 DEF Named, Names, Settings, Choices, StoreInv, StoreTypeOK
  <2>2. For(p) = ById(Named(p))
    BY <1>2 DEF Named, For
  <2>3. Named(p) \notin Known /\ Unresolved(p)
    BY <1>2, <2>1, <2>2, StoreConstants DEF ById, Unresolved
  <2>4. QED
    BY <2>1, <2>3 DEF NamesRead, MayBeDirect
<1>3. QED
  BY <1>1, <1>2

\* A window starts directly only for a profile that requires no proxy and names
\* none that the file has, read or not; its limits are asked directly only then
\* or while the list is damaged (proxy_store.hpp:48-58, 131-133).
THEOREM DirectIsAlwaysMeant == StoreSpec => DirectIsMeant
<1>1. StoreInv /\ NamesRead /\ [StoreNext]_storeVars =>
        [\A p \in Profiles :
           /\ way[p] = None /\ way'[p] = "direct" => MayBeDirect(p)
           /\ asked[p] # "direct" /\ asked'[p] = "direct" =>
                MayBeDirect(p) \/ (damaged /\ ~memory.required[p])]_storeVars
  <2> SUFFICES ASSUME StoreInv, NamesRead, StoreNext, NEW p \in Profiles
               PROVE  /\ way[p] = None /\ way'[p] = "direct" => MayBeDirect(p)
                      /\ asked[p] # "direct" /\ asked'[p] = "direct" =>
                           MayBeDirect(p) \/ (damaged /\ ~memory.required[p])
    OBVIOUS
  <2>1. /\ way \in [Profiles -> {None, "direct", "proxy"}] /\ None # "direct"
        /\ asked \in [Profiles -> {None, "direct", "proxy"}]
    BY StoreConstants DEF StoreInv, StoreTypeOK
  <2>2. ASSUME way[p] = None, way'[p] = "direct"
        PROVE  MayBeDirect(p)
    <3>1. PICK q \in Profiles : Launch(q)
      <4>1. ASSUME NEW q \in Profiles, Close(q)
            PROVE  FALSE
        BY <2>1, <2>2, <4>1 DEF Close
      <4>2. way' # way
        BY <2>1, <2>2
      <4>3. QED
        BY <4>1, <4>2 DEF StoreNext, Add, Edit, Edited, Remove, Check, ProbeBridgeEnds,
          PickDefault, Choose, Configure, Set, Ask, CheckFinished, Restart, Repair, Damage
    <3>2. q = p
      BY <2>1, <2>2, <3>1 DEF Launch
    <3>3. For(p) = None /\ ~Blocked(p)
      BY <2>1, <2>2, <3>1, <3>2 DEF Launch, Way
    <3>4. QED
      BY <3>3, NotReadIsNotThere DEF Blocked
  <2>3. ASSUME asked[p] # "direct", asked'[p] = "direct"
        PROVE  MayBeDirect(p) \/ (damaged /\ ~memory.required[p])
    <3>1. PICK q \in Profiles : Ask(q)
      <4>1. ASSUME Restart
            PROVE  FALSE
        BY <2>1, <2>3, <4>1 DEF Restart
      <4>2. asked' # asked
        BY <2>1, <2>3
      <4>3. QED
        BY <4>1, <4>2 DEF StoreNext, Add, Edit, Edited, Remove, Check, ProbeBridgeEnds,
          PickDefault, Choose, Configure, Set, Launch, Close, CheckFinished, Repair, Damage
    <3>2. q = p
      BY <2>1, <2>3, <3>1 DEF Ask
    <3>3. asked' = [asked EXCEPT ![p] = Way(For(p))] /\ (For(p) # None \/ ~memory.required[p])
      BY <3>1, <3>2 DEF Ask
    <3>4. Way(For(p)) = "direct"
      BY <2>1, <2>3, <3>3
    <3>5. For(p) = None
      BY <3>4 DEF Way
    <3>6. QED
      BY <3>3, <3>5, NotReadIsNotThere
  <2>4. QED
    BY <2>2, <2>3
<1>2. QED
  BY <1>1, StoreInvariance, NamesAreRead, PTL DEF StoreSpec, DirectIsMeant

-----------------------------------------------------------------------------
(* The connections of a bridge: ProxyBridge.                                *)

-----------------------------------------------------------------------------
(* The operators of the model.                                              *)

\* What a note in the history changes.
LEMMA NoteGot ==
  ASSUME NEW h \in Histories, NEW c \in Conns, NEW x \in 0 .. BadGateway,
         NEW n, n = Noted(h, "got", c, x)
  PROVE  /\ n \in Histories /\ n.got[c] = h.got[c] \cup {x}
         /\ \A d \in Conns \ {c} : n.got[d] = h.got[d]
         /\ n.acted = h.acted /\ n.tried = h.tried
         /\ n.parts = h.parts /\ n.lost = h.lost
BY DEF Noted, Histories

LEMMA NoteActed ==
  ASSUME NEW h \in Histories, NEW c \in Conns, NEW x \in Endpoints,
         NEW n, n = Noted(h, "acted", c, x)
  PROVE  /\ n \in Histories /\ n.acted[c] = h.acted[c] \cup {x}
         /\ \A d \in Conns \ {c} : n.acted[d] = h.acted[d]
         /\ n.got = h.got /\ n.tried = h.tried
         /\ n.parts = h.parts /\ n.lost = h.lost
BY DEF Noted, Histories

LEMMA NoteTried ==
  ASSUME NEW h \in Histories, NEW c \in Conns, NEW x \in Endpoints,
         NEW n, n = Noted(h, "tried", c, x)
  PROVE  /\ n \in Histories /\ n.tried[c] = h.tried[c] \cup {x}
         /\ \A d \in Conns \ {c} : n.tried[d] = h.tried[d]
         /\ n.got = h.got /\ n.acted = h.acted
         /\ n.parts = h.parts /\ n.lost = h.lost
BY DEF Noted, Histories

LEMMA ConstantFacts ==
  /\ N \in Nat \ {0} /\ MaxClients \in Nat \ {0} /\ MaxParts \in Nat
  /\ Endpoints \subseteq 0 .. BadGateway /\ 0 \in Endpoints
  /\ BadGateway \notin Endpoints /\ BadRequest \notin Endpoints
  /\ BadRequest # BadGateway /\ 0 \in 0 .. N
  /\ BadRequest \in 0 .. BadGateway /\ BadGateway \in 0 .. BadGateway
BY Constants DEF Endpoints, BadRequest, BadGateway

LEMMA HereType ==
  ASSUME TypeOK, NEW c \in Conns
  PROVE  Here(c) \in Endpoints
BY Constants DEF TypeOK, Here, Threads, Endpoints

\* The order reaches every endpoint from wherever it starts.
LEMMA Wraps ==
  ASSUME NEW f \in Endpoints, NEW e \in Endpoints
  PROVE  \E j \in 0 .. N - 1 : (f + j) % N = e
<1>0. N \in Nat \ {0}
  BY Constants
<1>1. CASE e >= f
  <2>1. e - f \in 0 .. N - 1 /\ f + (e - f) = e
    BY <1>0, <1>1 DEF Endpoints
  <2>2. e % N = e
    BY <1>0 DEF Endpoints
  <2>3. QED
    BY <2>1, <2>2
<1>2. CASE e < f
  <2>1. e + N - f \in 0 .. N - 1 /\ f + (e + N - f) = e + N
    BY <1>0, <1>2 DEF Endpoints
  <2>2. (e + N) % N = e
    BY <1>0 DEF Endpoints
  <2>3. QED
    BY <2>1, <2>2
<1>3. QED
  BY <1>0, <1>1, <1>2 DEF Endpoints

\* The thread that stops judging keeps its request and its place.
LEMMA FreeFacts ==
  ASSUME TypeOK, NEW c \in Conns, NEW s \in {"seeking", "passing", "left"}
  PROVE  /\ Free(c, s) \in Threads
         /\ Free(c, s).stage = s /\ Free(c, s).k = conn[c].k
         /\ Free(c, s).first = conn[c].first
         /\ Free(c, s).repeatable = conn[c].repeatable
BY ZenonT(30) DEF Free, TypeOK, Threads

-----------------------------------------------------------------------------
(* One exchange.                                                            *)

AtMostOne(S) == S = {} \/ \E x : S = {x}

\* What holds of a connection at every stage: nothing was sent twice or to the
\* app before the answer was chosen, and the endpoints before its place in the
\* order were tried.
Sound(c) ==
  LET t == conn[c]
      acted == history.acted[c]
      tried(n) == \A j \in 0 .. n : (t.first + j) % N \in history.tried[c]
  IN
  /\ history.lost[c] = 0
  /\ AtMostOne(history.got[c])
  /\ ~t.repeatable => AtMostOne(acted)
  /\ t.stage \in {"none", "head", "seeking", "judging"} => history.got[c] = {}
  /\ t.stage \in {"none", "head"} =>
       acted = {} /\ t.k = 0 /\ history.parts[c] = 0
  /\ t.stage = "seeking" =>
       /\ history.parts[c] = 0 /\ tried(t.k - 1)
       /\ ~t.repeatable => acted = {}
  /\ t.stage = "judging" =>
       /\ t.k < N /\ tried(t.k)
       /\ t.resend <=> history.parts[c] = 0
       /\ ~t.repeatable => acted \subseteq {Here(c)}
  /\ BadGateway \in history.got[c] /\ history.parts[c] = 0
       => history.tried[c] = Endpoints

\* A step of a thread touches its own connection only.
Own(c, t, h) ==
  /\ t \in Threads /\ h \in Histories
  /\ conn' = [conn EXCEPT ![c] = t] /\ history' = h
  /\ \A d \in Conns \ {c} :
       /\ h.acted[d] = history.acted[d] /\ h.got[d] = history.got[d]
       /\ h.tried[d] = history.tried[d] /\ h.parts[d] = history.parts[d]
       /\ h.lost[d] = history.lost[d]

LEMMA OthersStaySound ==
  ASSUME TypeOK, NEW c \in Conns, NEW t, NEW h, Own(c, t, h),
         NEW d \in Conns, d # c, Sound(d)
  PROVE  Sound(d)'
<1>1. conn'[d] = conn[d]
  BY DEF Own, TypeOK
<1>2. /\ history'.acted[d] = history.acted[d] /\ history'.got[d] = history.got[d]
      /\ history'.tried[d] = history.tried[d] /\ history'.parts[d] = history.parts[d]
      /\ history'.lost[d] = history.lost[d]
  BY DEF Own
<1>3. QED
  BY <1>1, <1>2 DEF Sound, Here
\* What a step of c does to its thread, to the shared place and to its exchange.
StepOf(c) == /\ \E t, h : Own(c, t, h)
             /\ last' \in Endpoints /\ Sound(c)'

LEMMA AcceptStep ==
  ASSUME TypeOK, NEW c \in Conns, Sound(c),
         Accept(c) \/ Leave(c) \/ End(c)
  PROVE  StepOf(c)
<1>1. /\ history' = history /\ last' = last /\ history \in Histories
      /\ last \in Endpoints /\ conn \in [Conns -> Threads]
  BY DEF Accept, Leave, End, TypeOK
<1>2. CASE Accept(c)
  <2>1. PICK s \in {"head", "over"} : conn' = [conn EXCEPT ![c] = [@ EXCEPT !.stage = s]]
    BY <1>2 DEF Accept
  <2> DEFINE t == [conn[c] EXCEPT !.stage = s]
  <2>2. /\ t \in Threads /\ t.stage = s /\ t.k = conn[c].k
        /\ t.repeatable = conn[c].repeatable
        /\ conn' = [conn EXCEPT ![c] = t] /\ conn'[c] = t
    BY <1>1, <2>1 DEF Threads
  <2> HIDE DEF t
  <2>3. Own(c, t, history)
    BY <1>1, <2>2 DEF Own
  <2>6. conn[c].stage = "none"
    BY <1>2 DEF Accept
  <2>4. Sound(c)'
    BY <1>1, <2>2, <2>6 DEF Sound
  <2>5. QED
    BY <1>1, <2>3, <2>4 DEF StepOf
<1>3. CASE Leave(c) \/ End(c)
  <2>1. PICK t \in {Free(c, "left"), [conn[c] EXCEPT !.stage = "over"]} :
          conn' = [conn EXCEPT ![c] = t]
    BY <1>3 DEF Leave, End
  <2>2. t \in Threads /\ t.stage \in {"left", "over"} /\ t.repeatable = conn[c].repeatable
    BY <1>1, <2>1, FreeFacts, SMTT(30) DEF Threads
  <2>3. conn'[c] = t
    BY <1>1, <2>1
  <2>4. Own(c, t, history)
    BY <1>1, <2>1, <2>2 DEF Own
  <2>5. Sound(c)'
    BY <1>1, <1>3, <2>2, <2>3 DEF Sound, Leave, End
  <2>6. QED
    BY <1>1, <2>4, <2>5 DEF StepOf
<1>4. QED
  BY <1>2, <1>3

LEMMA RequestStep ==
  ASSUME TypeOK, NEW c \in Conns, Sound(c), Request(c)
  PROVE  StepOf(c)
<1>1. /\ last' = last /\ history \in Histories /\ last \in Endpoints
      /\ conn \in [Conns -> Threads] /\ conn[c] \in Threads /\ conn[c].stage = "head"
  BY DEF Request, TypeOK
<1>2. ASSUME NEW kind \in {"plain", "tunnel"}, NEW r \in BOOLEAN,
             conn' = [conn EXCEPT ![c] =
               [@ EXCEPT !.stage = "seeking", !.kind = kind,
                         !.repeatable = r /\ kind = "plain", !.first = last]],
             history' = history
      PROVE  StepOf(c)
  <2> DEFINE t == [conn[c] EXCEPT !.stage = "seeking", !.kind = kind,
                         !.repeatable = r /\ kind = "plain", !.first = last]
  <2>1. t \in Threads /\ t.stage = "seeking" /\ t.k = conn[c].k
    BY <1>1 DEF Threads
  <2>2. conn' = [conn EXCEPT ![c] = t] /\ conn'[c] = t
    BY <1>1, <1>2
  <2> HIDE DEF t
  <2>3. Own(c, t, history)
    BY <1>1, <1>2, <2>1, <2>2 DEF Own
  <2>6. /\ history.got[c] = {} /\ history.acted[c] = {} /\ history.parts[c] = 0
        /\ history.lost[c] = 0 /\ conn[c].k = 0
    BY <1>1 DEF Sound
  <2>4. Sound(c)'
    BY <1>2, <2>1, <2>2, <2>6 DEF Sound, AtMostOne
  <2>5. QED
    BY <1>1, <2>3, <2>4 DEF StepOf
<1>3. ASSUME conn' = [conn EXCEPT ![c].stage = "left"],
             history' \in {history, Noted(history, "got", c, BadRequest)}
      PROVE  StepOf(c)
  <2> DEFINE t == [conn[c] EXCEPT !.stage = "left"]
  <2>1. t \in Threads /\ t.stage = "left" /\ t.repeatable = conn[c].repeatable
    BY <1>1 DEF Threads
  <2>2. conn' = [conn EXCEPT ![c] = t] /\ conn'[c] = t
    BY <1>1, <1>3
  <2> HIDE DEF t
  <2> DEFINE n == Noted(history, "got", c, BadRequest)
  <2>3. /\ n \in Histories /\ n.got[c] = history.got[c] \cup {BadRequest}
        /\ \A d \in Conns \ {c} : n.got[d] = history.got[d]
        /\ n.acted = history.acted /\ n.tried = history.tried
        /\ n.parts = history.parts /\ n.lost = history.lost
    BY <1>1, NoteGot, ConstantFacts
  <2> HIDE DEF n
  <2>4. history' = history \/ history' = n
    BY <1>3 DEF n
  <2>5. Own(c, t, history')
    BY <1>1, <2>1, <2>2, <2>3, <2>4 DEF Own
  <2>6. history.got[c] = {} /\ (history'.got[c] = {} \/ history'.got[c] = {BadRequest})
    BY <1>1, <2>3, <2>4 DEF Sound
  <2>7. Sound(c)'
    BY <1>1, <2>1, <2>2, <2>3, <2>4, <2>6, ConstantFacts, ZenonT(30) DEF Sound, AtMostOne
  <2>8. QED
    BY <1>1, <2>5, <2>7 DEF StepOf
<1>4. QED
  BY <1>2, <1>3 DEF Request
\* The facts about a connection that the steps below start from.
LEMMA ThreadFacts ==
  ASSUME TypeOK, NEW c \in Conns
  PROVE  /\ history \in Histories /\ last \in Endpoints
         /\ conn \in [Conns -> Threads] /\ conn[c] \in Threads
         /\ conn[c].k \in 0 .. N /\ conn[c].k \in Int /\ conn[c].first \in Endpoints
         /\ conn[c].repeatable \in BOOLEAN
         /\ history.parts[c] \in 0 .. MaxParts /\ history.tried[c] \in SUBSET Endpoints
         /\ Here(c) \in Endpoints /\ Here(c) \in 0 .. BadGateway
<1>1. history \in Histories /\ last \in Endpoints /\ conn \in [Conns -> Threads]
  BY DEF TypeOK
<1>2. conn[c] \in Threads
  BY <1>1
<1>3. /\ conn[c].k \in 0 .. N /\ conn[c].first \in Endpoints
      /\ conn[c].repeatable \in BOOLEAN
  BY <1>2 DEF Threads
<1>4. history.parts[c] \in 0 .. MaxParts /\ history.tried[c] \in SUBSET Endpoints
  BY <1>1 DEF Histories
<1>5. conn[c].k \in Int
  BY <1>3
<1>6. Here(c) \in Endpoints /\ Here(c) \in 0 .. BadGateway
  BY HereType, ConstantFacts
<1>7. QED
  BY <1>1, <1>2, <1>3, <1>4, <1>5, <1>6

\* A history that differs from the present one in what c has sent at the most.
Sent(c, h) ==
  /\ h \in Histories
  /\ h.acted = history.acted /\ h.got = history.got /\ h.tried = history.tried
  /\ h.lost = history.lost
  /\ \A d \in Conns \ {c} : h.parts[d] = history.parts[d]

\* 502: every endpoint was tried, or the app has sent more.
LEMMA FailStep ==
  ASSUME TypeOK, NEW c \in Conns, Sound(c), NEW h, Sent(c, h),
         conn[c].stage \in {"seeking", "judging"},
         h.parts[c] # 0 \/ h.tried[c] = Endpoints,
         last' \in Endpoints, Fail(c, h)
  PROVE  StepOf(c)
<1> DEFINE n == Noted(h, "got", c, BadGateway)
           t == Free(c, "left")
<1>0. h \in Histories /\ BadGateway \in 0 .. BadGateway
  BY ConstantFacts DEF Sent
<1>1. /\ n \in Histories /\ n.got[c] = h.got[c] \cup {BadGateway}
      /\ \A d \in Conns \ {c} : n.got[d] = h.got[d]
      /\ n.acted = h.acted /\ n.tried = h.tried
      /\ n.parts = h.parts /\ n.lost = h.lost
  BY <1>0, NoteGot
<1>2. /\ t \in Threads /\ t.stage = "left" /\ t.repeatable = conn[c].repeatable
  BY FreeFacts
<1>3. conn' = [conn EXCEPT ![c] = t] /\ history' = n
  BY DEF Fail
<1> HIDE DEF n, t
<1>4. conn'[c] = t
  BY <1>3, ThreadFacts
<1>5. Own(c, t, n)
  BY <1>1, <1>2, <1>3 DEF Own, Sent
<1>6. /\ history.got[c] = {} /\ history.lost[c] = 0
      /\ ~conn[c].repeatable => AtMostOne(history.acted[c])
  BY DEF Sound
<1>7. history'.got[c] = {BadGateway}
  BY <1>1, <1>3, <1>6 DEF Sent
<1>10. /\ history'.acted[c] = history.acted[c] /\ history'.lost[c] = 0
       /\ history'.parts[c] # 0 \/ history'.tried[c] = Endpoints
  BY <1>1, <1>3, <1>6 DEF Sent
<1>8. Sound(c)'
  BY <1>2, <1>4, <1>6, <1>7, <1>10 DEF Sound, AtMostOne
<1>9. QED
  BY <1>5, <1>8 DEF StepOf

LEMMA ExhaustedStep ==
  ASSUME TypeOK, NEW c \in Conns, Sound(c), Exhausted(c)
  PROVE  StepOf(c)
<1>1. /\ conn[c].stage = "seeking" /\ conn[c].k = N /\ last' = last /\ Fail(c, history)
  BY DEF Exhausted
<1>2. Sent(c, history)
  BY ThreadFacts DEF Sent
<1>3. history.tried[c] = Endpoints
  <2>1. \A j \in 0 .. N - 1 : (conn[c].first + j) % N \in history.tried[c]
    BY <1>1 DEF Sound
  <2>2. Endpoints \subseteq history.tried[c]
    BY <2>1, Wraps, ThreadFacts
  <2>3. QED
    BY <2>2, ThreadFacts
<1>4. QED
  BY <1>1, <1>2, <1>3, FailStep, ThreadFacts

LEMMA SkipStep ==
  ASSUME TypeOK, NEW c \in Conns, Sound(c), Skip(c)
  PROVE  StepOf(c)
<1> DEFINE n == Noted(history, "tried", c, Here(c))
           t == [conn[c] EXCEPT !.k = @ + 1]
<1>1. /\ n \in Histories /\ n.tried[c] = history.tried[c] \cup {Here(c)}
      /\ \A d \in Conns \ {c} : n.tried[d] = history.tried[d]
      /\ n.acted = history.acted /\ n.got = history.got
      /\ n.parts = history.parts /\ n.lost = history.lost
  BY NoteTried, ThreadFacts, SMTT(30)
<1>2. conn[c].stage = "seeking" /\ conn[c].k < N /\ last' = last
  BY DEF Skip
<1>3. conn[c].k + 1 \in 0 .. N
  BY <1>2, ThreadFacts, ConstantFacts
<1>4. /\ t \in Threads /\ t.stage = "seeking" /\ t.k = conn[c].k + 1
      /\ t.first = conn[c].first /\ t.repeatable = conn[c].repeatable
  BY <1>2, <1>3, ThreadFacts DEF Threads
<1>5. conn' = [conn EXCEPT ![c] = t] /\ history' = n
  BY DEF Skip
<1> HIDE DEF n, t
<1>6. conn'[c] = t
  BY <1>5, ThreadFacts
<1>7. Own(c, t, n)
  BY <1>1, <1>4, <1>5 DEF Own
<1>8. \A j \in 0 .. t.k - 1 : (t.first + j) % N \in n.tried[c]
  <2>1. \A j \in 0 .. conn[c].k - 1 : (conn[c].first + j) % N \in history.tried[c]
    BY <1>2 DEF Sound
  <2>2. \A j \in 0 .. t.k - 1 : j \in 0 .. conn[c].k - 1 \/ j = conn[c].k
    BY <1>4, ThreadFacts
  <2>3. QED
    BY <1>1, <1>4, <2>1, <2>2 DEF Here
<1>9. history.got[c] = {} /\ history.parts[c] = 0
  BY <1>2 DEF Sound
<1>10. Sound(c)'
  BY <1>1, <1>2, <1>4, <1>5, <1>6, <1>8, <1>9 DEF Sound, AtMostOne
<1>11. QED
  BY <1>2, <1>7, <1>10, ThreadFacts DEF StepOf
\* The endpoint c is at is tried.
LEMMA TriedHere ==
  ASSUME TypeOK, NEW c \in Conns, Sound(c), NEW n, n = Noted(history, "tried", c, Here(c)),
         conn[c].stage = "seeking"
  PROVE  /\ n \in Histories
         /\ \A d \in Conns \ {c} : n.tried[d] = history.tried[d]
         /\ n.acted = history.acted /\ n.got = history.got
         /\ n.parts = history.parts /\ n.lost = history.lost
         /\ \A j \in 0 .. conn[c].k : (conn[c].first + j) % N \in n.tried[c]
<1>1. /\ n \in Histories /\ n.tried[c] = history.tried[c] \cup {Here(c)}
      /\ \A d \in Conns \ {c} : n.tried[d] = history.tried[d]
      /\ n.acted = history.acted /\ n.got = history.got
      /\ n.parts = history.parts /\ n.lost = history.lost
  BY NoteTried, ThreadFacts, SMTT(30)
<1>2. \A j \in 0 .. conn[c].k - 1 : (conn[c].first + j) % N \in history.tried[c]
  BY DEF Sound
<1>3. \A j \in 0 .. conn[c].k : j \in 0 .. conn[c].k - 1 \/ j = conn[c].k
  BY ThreadFacts
<1>4. QED
  BY <1>1, <1>2, <1>3 DEF Here

\* A head that cannot be rewritten is answered with 400.
LEMMA BadHeadStep ==
  ASSUME TypeOK, NEW c \in Conns, Sound(c), conn[c].stage = "seeking",
         last' \in Endpoints, NEW x \in 0 .. BadGateway, x # BadGateway,
         NEW s \in {"left", "passing"},
         conn' = [conn EXCEPT ![c].stage = s],
         NEW m \in Histories, m = Noted(history, "tried", c, Here(c)),
         NEW g \in Histories, g = Noted(m, "got", c, x),
         \/ history' = g
         \/ /\ x \in Endpoints /\ ~conn[c].repeatable
            /\ history' = Noted(g, "acted", c, x)
  PROVE  StepOf(c)
<1> DEFINE t == [conn[c] EXCEPT !.stage = s]
<1>1. /\ t \in Threads /\ t.stage = s /\ t.repeatable = conn[c].repeatable
  BY ThreadFacts DEF Threads
<1>2. conn' = [conn EXCEPT ![c] = t] /\ conn'[c] = t
  BY ThreadFacts
<1> HIDE DEF t
<1>3. /\ \A d \in Conns \ {c} : m.tried[d] = history.tried[d]
      /\ m.acted = history.acted /\ m.got = history.got
      /\ m.parts = history.parts /\ m.lost = history.lost
  BY TriedHere
<1>4. /\ g.got[c] = m.got[c] \cup {x}
      /\ \A d \in Conns \ {c} : g.got[d] = m.got[d]
      /\ g.acted = m.acted /\ g.tried = m.tried /\ g.parts = m.parts /\ g.lost = m.lost
  BY NoteGot
<1>5. /\ history.got[c] = {} /\ history.lost[c] = 0
      /\ ~conn[c].repeatable => history.acted[c] = {}
      /\ ~conn[c].repeatable => AtMostOne(history.acted[c])
  BY DEF Sound, AtMostOne
<1>6. CASE history' = g
  <2>1. Own(c, t, g)
    <3>1. \A d \in Conns \ {c} :
            /\ g.acted[d] = history.acted[d] /\ g.got[d] = history.got[d]
            /\ g.tried[d] = history.tried[d] /\ g.parts[d] = history.parts[d]
            /\ g.lost[d] = history.lost[d]
      BY <1>3, <1>4, SMTT(30)
    <3>2. QED
      BY <1>1, <1>2, <1>6, <3>1, Zenon DEF Own
  <2>2. history'.got[c] = {x} /\ history'.lost[c] = 0 /\ history'.acted[c] = history.acted[c]
    BY <1>3, <1>4, <1>5, <1>6
  <2>3. Sound(c)'
    BY <1>1, <1>2, <1>5, <2>2 DEF Sound, AtMostOne
  <2>4. QED
    BY <2>1, <2>3 DEF StepOf
<1>7. ASSUME x \in Endpoints, ~conn[c].repeatable, NEW n, n = Noted(g, "acted", c, x),
             history' = n
      PROVE  StepOf(c)
  <2>1. /\ n \in Histories /\ n.acted[c] = g.acted[c] \cup {x}
        /\ \A d \in Conns \ {c} : n.acted[d] = g.acted[d]
        /\ n.got = g.got /\ n.tried = g.tried /\ n.parts = g.parts /\ n.lost = g.lost
    BY <1>7, NoteActed, SMTT(30)
  <2>6. \A d \in Conns \ {c} :
          /\ n.acted[d] = history.acted[d] /\ n.got[d] = history.got[d]
          /\ n.tried[d] = history.tried[d] /\ n.parts[d] = history.parts[d]
          /\ n.lost[d] = history.lost[d]
    BY <1>3, <1>4, <2>1
  <2>2. Own(c, t, n)
    BY <1>1, <1>2, <1>7, <2>1, <2>6 DEF Own
  <2>3. history'.got[c] = {x} /\ history'.lost[c] = 0 /\ history'.acted[c] = {x}
    BY <1>3, <1>4, <1>5, <1>7, <2>1
  <2>4. Sound(c)'
    BY <1>1, <1>2, <2>3 DEF Sound, AtMostOne
  <2>5. QED
    BY <2>2, <2>4 DEF StepOf
<1>8. QED
  BY <1>6, <1>7

LEMMA TunnelStep ==
  ASSUME TypeOK, NEW c \in Conns, Sound(c), OpenTunnel(c),
         conn[c].kind = "tunnel" => ~conn[c].repeatable
  PROVE  StepOf(c)
<1> DEFINE m == Noted(history, "tried", c, Here(c))
<1>1. m \in Histories
  BY NoteTried, ThreadFacts
<1>2. /\ Noted(m, "got", c, Here(c)) \in Histories
      /\ Noted(m, "got", c, BadRequest) \in Histories
  BY <1>1, NoteGot, ThreadFacts, ConstantFacts
<1>3. /\ conn[c].stage = "seeking" /\ ~conn[c].repeatable /\ last' = Here(c)
      /\ \/ /\ conn' = [conn EXCEPT ![c].stage = "passing"]
            /\ history' = Noted(Noted(m, "got", c, Here(c)), "acted", c, Here(c))
         \/ /\ conn' = [conn EXCEPT ![c].stage = "left"]
            /\ history' = Noted(m, "got", c, BadRequest)
  BY DEF OpenTunnel
<1>4. /\ Here(c) # BadGateway /\ BadRequest # BadGateway
      /\ BadRequest \in 0 .. BadGateway
  BY ThreadFacts, ConstantFacts
<1> HIDE DEF m
<1>5. m = Noted(history, "tried", c, Here(c))
  BY DEF m
<1>6. CASE conn' = [conn EXCEPT ![c].stage = "passing"]
           /\ history' = Noted(Noted(m, "got", c, Here(c)), "acted", c, Here(c))
  BY <1>1, <1>2, <1>3, <1>4, <1>5, <1>6, ThreadFacts, BadHeadStep
<1>7. CASE conn' = [conn EXCEPT ![c].stage = "left"]
           /\ history' = Noted(m, "got", c, BadRequest)
  BY <1>1, <1>2, <1>3, <1>4, <1>5, <1>7, ThreadFacts, BadHeadStep
<1>8. QED
  BY <1>3, <1>6, <1>7

LEMMA DialStep ==
  ASSUME TypeOK, NEW c \in Conns, Sound(c), Dial(c)
  PROVE  StepOf(c)
<1> DEFINE m == Noted(history, "tried", c, Here(c))
           n == [m EXCEPT !.lost[c] = history.parts[c]]
           t == [conn[c] EXCEPT !.stage = "judging", !.resend = TRUE, !.reply = "none",
                           !.timed = conn[c].repeatable /\ conn[c].k < N - 1]
<1>1. /\ conn[c].stage = "seeking" /\ conn[c].k < N /\ last' = last
      /\ \/ conn' = [conn EXCEPT ![c] = t] /\ history' = n
         \/ /\ conn' = [conn EXCEPT ![c].stage = "left"]
            /\ history' = Noted(m, "got", c, BadRequest)
  BY DEF Dial
<1>2. /\ m \in Histories
      /\ \A d \in Conns \ {c} : m.tried[d] = history.tried[d]
      /\ m.acted = history.acted /\ m.got = history.got
      /\ m.parts = history.parts /\ m.lost = history.lost
      /\ \A j \in 0 .. conn[c].k : (conn[c].first + j) % N \in m.tried[c]
  BY <1>1, TriedHere
<1>3. m = Noted(history, "tried", c, Here(c))
  OBVIOUS
<1>4. /\ t \in Threads /\ t.stage = "judging" /\ t.resend = TRUE /\ t.k = conn[c].k
      /\ t.first = conn[c].first /\ t.repeatable = conn[c].repeatable
  BY ThreadFacts DEF Threads
<1> HIDE DEF m
<1>5. /\ n \in Histories /\ n.lost[c] = history.parts[c]
      /\ \A d \in Conns \ {c} : n.lost[d] = history.lost[d]
      /\ n.acted = history.acted /\ n.got = history.got /\ n.parts = history.parts
      /\ n.tried = m.tried
  BY <1>2, ThreadFacts DEF Histories
<1> HIDE DEF n, t
<1>6. CASE conn' = [conn EXCEPT ![c] = t] /\ history' = n
  <2>1. conn'[c] = t
    BY <1>6, ThreadFacts
  <2>2. Own(c, t, n)
    BY <1>2, <1>4, <1>5, <1>6 DEF Own
  <2>3. /\ history.got[c] = {} /\ history.parts[c] = 0
        /\ ~conn[c].repeatable => history.acted[c] = {}
    BY <1>1 DEF Sound
  <2>4. Sound(c)'
    BY <1>1, <1>2, <1>4, <1>5, <1>6, <2>1, <2>3 DEF Sound, AtMostOne
  <2>5. QED
    BY <1>1, <2>2, <2>4, ThreadFacts DEF StepOf
<1>7. CASE conn' = [conn EXCEPT ![c].stage = "left"]
           /\ history' = Noted(m, "got", c, BadRequest)
  <2>1. Noted(m, "got", c, BadRequest) \in Histories
    BY <1>2, NoteGot, ConstantFacts
  <2>2. BadRequest # BadGateway /\ BadRequest \in 0 .. BadGateway
    BY ConstantFacts
  <2>3. QED
    BY <1>1, <1>2, <1>3, <1>7, <2>1, <2>2, ThreadFacts, BadHeadStep
<1>8. QED
  BY <1>1, <1>6, <1>7

LEMMA ActStep ==
  ASSUME TypeOK, NEW c \in Conns, Sound(c), Act(c)
  PROVE  StepOf(c)
<1> DEFINE n == Noted(history, "acted", c, Here(c))
<1>1. /\ n \in Histories /\ n.acted[c] = history.acted[c] \cup {Here(c)}
      /\ \A d \in Conns \ {c} : n.acted[d] = history.acted[d]
      /\ n.got = history.got /\ n.tried = history.tried
      /\ n.parts = history.parts /\ n.lost = history.lost
  BY NoteActed, ThreadFacts, SMTT(30)
<1>2. conn[c].stage = "judging" /\ last' = last /\ conn' = conn /\ history' = n
  BY DEF Act
<1> HIDE DEF n
<1>3. conn' = [conn EXCEPT ![c] = conn[c]]
  BY <1>2, ThreadFacts
<1>4. Own(c, conn[c], n)
  BY <1>1, <1>2, <1>3, ThreadFacts DEF Own
<1>5. Here(c)' = Here(c)
  BY <1>2 DEF Here
<1>6. ~conn[c].repeatable => history'.acted[c] = {Here(c)}
  BY <1>1, <1>2 DEF Sound
<1>7. Sound(c)'
  BY <1>1, <1>2, <1>5, <1>6 DEF Sound, AtMostOne
<1>8. QED
  BY <1>2, <1>4, <1>7, ThreadFacts DEF StepOf

\* What the app has sent when a round ends, and whether the request can still
\* go elsewhere unchanged.
LEMMA RoundRead ==
  ASSUME TypeOK, NEW c \in Conns, Sound(c), NEW more \in BOOLEAN,
         conn[c].stage = "judging", more => history.parts[c] < MaxParts,
         NEW h, h = [history EXCEPT !.parts[c] = IF more THEN @ + 1 ELSE @]
  PROVE  /\ Sent(c, h)
         /\ conn[c].resend /\ ~more <=> h.parts[c] = 0
         /\ h.parts[c] \in Nat
<1>1. h.parts = [history.parts EXCEPT ![c] = IF more THEN @ + 1 ELSE @]
  BY ThreadFacts DEF Histories
<1>2. /\ h.acted = history.acted /\ h.got = history.got /\ h.tried = history.tried
      /\ h.lost = history.lost
  BY ThreadFacts DEF Histories
<1>3. history.parts \in [Conns -> 0 .. MaxParts] /\ MaxParts \in Nat
  BY ThreadFacts, ConstantFacts DEF Histories
<1>4. /\ h.parts \in [Conns -> 0 .. MaxParts]
      /\ h.parts[c] = IF more THEN history.parts[c] + 1 ELSE history.parts[c]
      /\ \A d \in Conns \ {c} : h.parts[d] = history.parts[d]
  BY <1>1, <1>3
<1>5. h \in Histories
  BY <1>1, <1>4, ThreadFacts DEF Histories
<1>6. conn[c].resend <=> history.parts[c] = 0
  BY DEF Sound
<1>7. conn[c].resend /\ ~more <=> h.parts[c] = 0
  <2>1. CASE more
    BY <1>3, <1>4, <2>1
  <2>2. CASE ~more
    BY <1>4, <1>6, <2>2
  <2>3. QED
    BY <2>1, <2>2
<1>8. QED
  BY <1>2, <1>3, <1>4, <1>5, <1>7 DEF Sent

\* The request goes to the next endpoint: the app has sent no more, and a
\* request that must not be repeated was refused here.
LEMMA RetryStep ==
  ASSUME TypeOK, NEW c \in Conns, Sound(c), conn[c].stage = "judging",
         NEW h, Sent(c, h), h.parts[c] = 0, Retry(c, h),
         conn[c].repeatable \/ Here(c) \notin history.acted[c]
  PROVE  StepOf(c)
<1> DEFINE f == Free(c, "seeking")
           t == [f EXCEPT !.k = @ + 1]
<1>1. conn' = [conn EXCEPT ![c] = t] /\ history' = h /\ last' = last
  BY DEF Retry
<1>2. f \in Threads /\ f.stage = "seeking" /\ f.k = conn[c].k
      /\ f.first = conn[c].first /\ f.repeatable = conn[c].repeatable
  BY FreeFacts
<1>3. /\ conn[c].k < N /\ history.got[c] = {} /\ history.lost[c] = 0
      /\ \A j \in 0 .. conn[c].k : (conn[c].first + j) % N \in history.tried[c]
      /\ ~conn[c].repeatable => history.acted[c] \subseteq {Here(c)}
  BY DEF Sound
<1>4. conn[c].k + 1 \in 0 .. N /\ conn[c].k \in Int
  BY <1>3, ThreadFacts, ConstantFacts
<1> HIDE DEF f
<1>5. /\ t \in Threads /\ t.stage = "seeking" /\ t.k = conn[c].k + 1
      /\ t.first = conn[c].first /\ t.repeatable = conn[c].repeatable
  BY <1>2, <1>4 DEF Threads
<1> HIDE DEF t
<1>6. conn'[c] = t
  BY <1>1, ThreadFacts
<1>7. Own(c, t, h)
  BY <1>1, <1>5 DEF Own, Sent
<1>8. ~conn[c].repeatable => history.acted[c] = {}
  BY <1>3
<1>9. /\ history'.acted[c] = history.acted[c] /\ history'.got[c] = {}
      /\ history'.lost[c] = 0 /\ history'.parts[c] = 0
      /\ \A j \in 0 .. t.k - 1 : (t.first + j) % N \in history'.tried[c]
  BY <1>1, <1>3, <1>4, <1>5 DEF Sent
<1>10. Sound(c)'
  BY <1>5, <1>6, <1>8, <1>9 DEF Sound, AtMostOne
<1>11. QED
  BY <1>1, <1>7, <1>10, ThreadFacts DEF StepOf

\* An answer, or its end, is passed on, or the connection ends.
LEMMA PassStep ==
  ASSUME TypeOK, NEW c \in Conns, Sound(c), conn[c].stage = "judging",
         NEW h, Sent(c, h), NEW s \in {"passing", "left"},
         conn' = [conn EXCEPT ![c] = Free(c, s)], last' \in Endpoints,
         history' = h \/ history' = Noted(h, "got", c, Here(c))
  PROVE  StepOf(c)
<1> DEFINE n == Noted(h, "got", c, Here(c))
           t == Free(c, s)
<1>0. h \in Histories /\ Here(c) \in 0 .. BadGateway
  BY ThreadFacts DEF Sent
<1>1. /\ n \in Histories /\ n.got[c] = h.got[c] \cup {Here(c)}
      /\ \A d \in Conns \ {c} : n.got[d] = h.got[d]
      /\ n.acted = h.acted /\ n.tried = h.tried
      /\ n.parts = h.parts /\ n.lost = h.lost
  BY <1>0, NoteGot
<1>2. t \in Threads /\ t.stage = s /\ t.repeatable = conn[c].repeatable
  BY FreeFacts
<1>3. conn' = [conn EXCEPT ![c] = t] /\ (history' = h \/ history' = n)
  OBVIOUS
<1> HIDE DEF n, t
<1>4. conn'[c] = t
  BY <1>3, ThreadFacts
<1>5. Own(c, t, h) \/ Own(c, t, n)
  BY <1>1, <1>2, <1>3 DEF Own, Sent
<1>6. /\ history.got[c] = {} /\ history.lost[c] = 0
      /\ ~conn[c].repeatable => AtMostOne(history.acted[c])
  BY DEF Sound
<1>7. /\ history'.got[c] = {} \/ history'.got[c] = {Here(c)}
      /\ history'.acted[c] = history.acted[c] /\ history'.lost[c] = 0
  BY <1>1, <1>3, <1>6 DEF Sent
<1>8. Here(c) # BadGateway
  BY ThreadFacts, ConstantFacts
<1>9. Sound(c)'
  BY <1>2, <1>4, <1>6, <1>7, <1>8 DEF Sound, AtMostOne
<1>10. QED
  BY <1>5, <1>9 DEF StepOf

\* The judgement goes on.
LEMMA GoOnStep ==
  ASSUME TypeOK, NEW c \in Conns, Sound(c), conn[c].stage = "judging",
         NEW h, Sent(c, h), h.parts[c] \in Nat,
         NEW resend \in BOOLEAN, resend <=> h.parts[c] = 0,
         NEW timed \in BOOLEAN, NEW reply \in {"none", "part"},
         conn' = [conn EXCEPT ![c] =
                    [@ EXCEPT !.resend = resend, !.timed = timed, !.reply = reply]],
         history' = h, last' = last
  PROVE  StepOf(c)
<1> DEFINE t == [conn[c] EXCEPT !.resend = resend, !.timed = timed, !.reply = reply]
<1>1. /\ t \in Threads /\ t.stage = "judging" /\ t.resend = resend
      /\ t.k = conn[c].k /\ t.first = conn[c].first /\ t.repeatable = conn[c].repeatable
  BY ThreadFacts, ZenonT(30) DEF Threads
<1>2. conn' = [conn EXCEPT ![c] = t] /\ conn'[c] = t
  BY ThreadFacts
<1> HIDE DEF t
<1>3. Own(c, t, h)
  BY <1>1, <1>2 DEF Own, Sent
<1>4. Here(c)' = Here(c)
  BY <1>1, <1>2 DEF Here
<1>5. /\ history'.acted[c] = history.acted[c] /\ history'.got[c] = history.got[c]
      /\ history'.tried[c] = history.tried[c] /\ history'.lost[c] = history.lost[c]
      /\ history'.parts[c] = h.parts[c]
  BY DEF Sent
<1>6. Sound(c)'
  BY <1>1, <1>2, <1>4, <1>5, ZenonT(30) DEF Sound, AtMostOne
<1>7. QED
  BY <1>3, <1>6, ThreadFacts DEF StepOf
LEMMA RoundStep ==
  ASSUME TypeOK, NEW c \in Conns, Sound(c), NEW more \in BOOLEAN,
         NEW expired \in BOOLEAN, NEW up \in FromUpstream(c),
         Round(c, more, up, expired)
  PROVE  StepOf(c)
<1> DEFINE here == Here(c)
           resend == conn[c].resend /\ ~more
           timed == conn[c].timed /\ ~more
           reply == IF up \in {"part", "head", "refusal"} THEN up
                    ELSE conn[c].reply
           h == [history EXCEPT !.parts[c] = IF more THEN @ + 1 ELSE @]
           gone == reply = "none" /\ up \in {"end", "error"}
           late == reply # "head" /\ timed /\ expired
<1>1. conn[c].stage = "judging" /\ (more => history.parts[c] < MaxParts)
  BY DEF Round
<1>2. Sent(c, h) /\ (resend <=> h.parts[c] = 0) /\ h.parts[c] \in Nat
  BY <1>1, RoundRead
<1>3. IF reply = "refusal" THEN Refused(c, resend, h)
      ELSE IF (gone \/ late) /\ MayRepeat(c, resend) THEN Retry(c, h)
      ELSE IF reply = "head"
      THEN /\ last' = here
           /\ conn' = [conn EXCEPT ![c] = Free(c, "passing")]
           /\ history' = Noted(h, "got", c, here)
      ELSE IF up = "error"
      THEN /\ conn' = [conn EXCEPT ![c] = Free(c, "left")]
           /\ history' = h /\ UNCHANGED last
      ELSE IF up \in {"end", "long"}
      THEN /\ conn' = [conn EXCEPT ![c] = Free(c, "passing")]
           /\ history' = IF gone THEN h ELSE Noted(h, "got", c, here)
           /\ UNCHANGED last
      ELSE /\ conn' = [conn EXCEPT ![c] =
                [@ EXCEPT !.resend = resend, !.timed = timed, !.reply = reply]]
           /\ history' = h /\ UNCHANGED last
  BY DEF Round
<1>4. resend \in BOOLEAN /\ timed \in BOOLEAN /\ conn[c].reply \in {"none", "part"}
  <2>1. conn[c].reply \in {"none", "part"}
    BY ThreadFacts DEF Threads
  <2>2. QED
    BY <2>1
<1>5. up = "refusal" => Here(c) \notin history.acted[c]
  BY DEF FromUpstream
<1>6. reply = "refusal" <=> up = "refusal"
  BY <1>4
<1>7. reply \in {"none", "part", "head", "refusal"}
  BY <1>4
<1> HIDE DEF h, resend, timed, reply, gone, late
<1>8. CASE reply = "refusal"
  <2>1. CASE resend
    <3>1. Retry(c, h) /\ h.parts[c] = 0
      BY <1>2, <1>3, <1>8, <2>1 DEF Refused
    <3>2. QED
      BY <1>1, <1>2, <1>5, <1>6, <1>8, <3>1, RetryStep
  <2>2. CASE ~resend
    <3>1. last' = (Here(c) + 1) % N /\ Fail(c, h) /\ h.parts[c] # 0
      BY <1>2, <1>3, <1>8, <2>2 DEF Refused
    <3>2. last' \in Endpoints
      <4>1. Here(c) + 1 \in Nat
        BY ThreadFacts DEF Endpoints
      <4>2. (Here(c) + 1) % N \in 0 .. N - 1
        BY <4>1, ConstantFacts
      <4>3. QED
        BY <3>1, <4>2 DEF Endpoints
    <3>3. QED
      BY <1>1, <1>2, <3>1, <3>2, FailStep
  <2>3. QED
    BY <2>1, <2>2
<1>9. CASE reply # "refusal" /\ (gone \/ late) /\ MayRepeat(c, resend)
  <2>1. Retry(c, h) /\ conn[c].repeatable /\ h.parts[c] = 0
    BY <1>2, <1>3, <1>9 DEF MayRepeat
  <2>2. QED
    BY <1>1, <1>2, <2>1, RetryStep
<1>10. CASE reply # "refusal" /\ ~((gone \/ late) /\ MayRepeat(c, resend))
  <2>1. CASE reply = "head" \/ up \in {"error", "end", "long"}
    <3>1. /\ \/ conn' = [conn EXCEPT ![c] = Free(c, "passing")]
             \/ conn' = [conn EXCEPT ![c] = Free(c, "left")]
          /\ last' = here \/ last' = last
          /\ history' = h \/ history' = Noted(h, "got", c, here)
      BY <1>3, <1>10, <2>1
    <3>2. last' \in Endpoints
      BY <3>1, ThreadFacts
    <3>3. QED
      BY <1>1, <1>2, <3>1, <3>2, PassStep
  <2>2. CASE ~(reply = "head" \/ up \in {"error", "end", "long"})
    <3>1. /\ conn' = [conn EXCEPT ![c] =
                [@ EXCEPT !.resend = resend, !.timed = timed, !.reply = reply]]
          /\ history' = h /\ last' = last
      BY <1>3, <1>10, <2>2
    <3>2. reply \in {"none", "part"}
      BY <1>7, <1>10, <2>2
    <3>3. QED
      BY <1>1, <1>2, <1>4, <3>1, <3>2, GoOnStep
  <2>3. QED
    BY <2>1, <2>2
<1>11. QED
  BY <1>8, <1>9, <1>10

-----------------------------------------------------------------------------
(* All connections.                                                         *)

\* Only a plain request is taken for repeatable.
Tunnels == \A c \in Conns : conn[c].kind = "tunnel" => ~conn[c].repeatable

Taken == {c \in Conns : conn[c].stage \notin {"none", "over"}}

Exchanges == \A c \in Conns : Sound(c)

LEMMA EveryStep ==
  ASSUME TypeOK, Exchanges, Tunnels, NEW c \in Conns,
         \/ Accept(c) \/ Leave(c) \/ Request(c)
         \/ Exhausted(c) \/ Skip(c) \/ OpenTunnel(c) \/ Dial(c)
         \/ Act(c) \/ End(c)
         \/ \E more, expired \in BOOLEAN : \E up \in FromUpstream(c) :
              Round(c, more, up, expired)
  PROVE  StepOf(c)
<1>1. Sound(c)
  BY DEF Exchanges
<1>2. OpenTunnel(c) => (conn[c].kind = "tunnel" => ~conn[c].repeatable)
  BY DEF OpenTunnel, Tunnels
<1>3. QED
  BY <1>1, <1>2, AcceptStep, RequestStep, ExhaustedStep, SkipStep, TunnelStep,
     DialStep, ActStep, RoundStep
\* Where a round of the poll leaves the thread of c.
LEMMA RoundMoves ==
  ASSUME NEW c \in Conns, NEW more \in BOOLEAN, NEW expired \in BOOLEAN,
         NEW up \in FromUpstream(c), Round(c, more, up, expired)
  PROVE  \/ \E s \in {"passing", "left"} : conn' = [conn EXCEPT ![c] = Free(c, s)]
         \/ conn' = [conn EXCEPT ![c] = [Free(c, "seeking") EXCEPT !.k = @ + 1]]
         \/ \E x, y, z : conn' = [conn EXCEPT ![c] =
                           [@ EXCEPT !.resend = x, !.timed = y, !.reply = z]]
<1> DEFINE resend == conn[c].resend /\ ~more
           timed == conn[c].timed /\ ~more
           reply == IF up \in {"part", "head", "refusal"} THEN up
                    ELSE conn[c].reply
           seeking == [Free(c, "seeking") EXCEPT !.k = @ + 1]
           judging == [conn[c] EXCEPT !.resend = resend, !.timed = timed,
                                      !.reply = reply]
           passing == Free(c, "passing")
           left == Free(c, "left")
<1>1. conn' \in {[conn EXCEPT ![c] = passing], [conn EXCEPT ![c] = left],
                 [conn EXCEPT ![c] = seeking], [conn EXCEPT ![c] = judging]}
  <2>1. \/ conn' = [conn EXCEPT ![c] = passing] \/ conn' = [conn EXCEPT ![c] = left]
        \/ conn' = [conn EXCEPT ![c] = seeking] \/ conn' = [conn EXCEPT ![c] = judging]
    BY Zenon DEF Round, Refused, Retry, Fail
  <2>2. QED
    BY <2>1
<1> HIDE DEF resend, timed, reply, seeking
<1>2. CASE conn' = [conn EXCEPT ![c] = judging]
  <2>1. \E x, y, z : conn' = [conn EXCEPT ![c] =
                      [@ EXCEPT !.resend = x, !.timed = y, !.reply = z]]
    BY <1>2
  <2>2. QED
    BY <2>1
<1>3. CASE conn' = [conn EXCEPT ![c] = seeking]
  BY <1>3, Zenon DEF seeking
<1>4. CASE conn' \in {[conn EXCEPT ![c] = passing], [conn EXCEPT ![c] = left]}
  <2>1. \E s \in {"passing", "left"} : conn' = [conn EXCEPT ![c] = Free(c, s)]
    BY <1>4
  <2>2. QED
    BY <2>1
<1>5. QED
  BY <1>1, <1>2, <1>3, <1>4

\* What a step that is neither the beginning nor the end of c's thread leaves.
LEMMA ThreadStep ==
  ASSUME TypeOK, NEW c \in Conns,
         \/ Request(c) \/ Exhausted(c) \/ Skip(c) \/ OpenTunnel(c) \/ Dial(c)
         \/ Act(c) \/ End(c)
         \/ \E more, expired \in BOOLEAN : \E up \in FromUpstream(c) :
              Round(c, more, up, expired)
  PROVE  /\ clients' = clients
         /\ conn[c].stage \notin {"none", "over"}
         /\ \E t : /\ conn' = [conn EXCEPT ![c] = t]
                   /\ t.stage \notin {"none", "over"}
                   /\ \/ t.kind = conn[c].kind /\ t.repeatable = conn[c].repeatable
                      \/ t.kind = "tunnel" => ~t.repeatable
<1> DEFINE Kept(t) == /\ conn' = [conn EXCEPT ![c] = t]
                      /\ t.stage \notin {"none", "over"}
                      /\ t.kind = conn[c].kind /\ t.repeatable = conn[c].repeatable
<1>0. conn[c] \in Threads /\ conn \in [Conns -> Threads]
  BY ThreadFacts
<1>1. \A s \in {"seeking", "passing", "left"} :
        /\ Free(c, s).stage = s /\ Free(c, s).kind = conn[c].kind
        /\ Free(c, s).repeatable = conn[c].repeatable
        /\ Free(c, s) \in Threads
  <2> TAKE s \in {"seeking", "passing", "left"}
  <2>1. /\ Free(c, s).stage = s /\ Free(c, s).repeatable = conn[c].repeatable
        /\ Free(c, s) \in Threads
    BY FreeFacts
  <2>2. Free(c, s).kind = conn[c].kind
    BY <1>0, Zenon DEF Free, Threads
  <2>3. QED
    BY <2>1, <2>2
<1>2. CASE Request(c)
  <2>1. clients' = clients /\ conn[c].stage = "head"
    BY <1>2 DEF Request
  <2>2. CASE conn' = [conn EXCEPT ![c].stage = "left"]
    <3>1. Kept([conn[c] EXCEPT !.stage = "left"])
      BY <1>0, <2>2 DEF Threads
    <3>2. QED
      BY <2>1, <3>1
  <2>3. ASSUME NEW kind \in {"plain", "tunnel"}, NEW r \in BOOLEAN,
               conn' = [conn EXCEPT ![c] =
                 [@ EXCEPT !.stage = "seeking", !.kind = kind,
                           !.repeatable = r /\ kind = "plain", !.first = last]]
        PROVE  \E t : /\ conn' = [conn EXCEPT ![c] = t]
                      /\ t.stage \notin {"none", "over"}
                      /\ t.kind = "tunnel" => ~t.repeatable
    <3> DEFINE t == [conn[c] EXCEPT !.stage = "seeking", !.kind = kind,
                       !.repeatable = r /\ kind = "plain", !.first = last]
    <3>1. t.stage = "seeking" /\ t.kind = kind /\ t.repeatable = (r /\ kind = "plain")
      BY <1>0 DEF Threads
    <3>2. conn' = [conn EXCEPT ![c] = t]
      BY <2>3
    <3> HIDE DEF t
    <3>3. t.kind = "tunnel" => ~t.repeatable
      BY <3>1
    <3>4. QED
      BY <3>1, <3>2, <3>3
  <2>4. QED
    BY <1>2, <2>1, <2>2, <2>3 DEF Request
<1>3. ASSUME Exhausted(c) \/ Skip(c) \/ OpenTunnel(c) \/ Dial(c) \/ Act(c) \/ End(c)
      PROVE  /\ clients' = clients /\ conn[c].stage \notin {"none", "over"}
             /\ \E t : Kept(t)
  <2>1. clients' = clients /\ conn[c].stage \notin {"none", "over"}
    BY <1>3 DEF Exhausted, Skip, OpenTunnel, Dial, Act, End
  <2>2. CASE Exhausted(c) \/ End(c)
    <3>1. Kept(Free(c, "left"))
      BY <1>1, <2>2 DEF Exhausted, End, Fail
    <3>2. QED
      BY <2>1, <3>1
  <2>3. CASE Skip(c)
    <3>1. Kept([conn[c] EXCEPT !.k = @ + 1])
      BY <1>0, <2>1, <2>3 DEF Skip, Threads
    <3>2. QED
      BY <2>1, <3>1
  <2>4. CASE OpenTunnel(c)
    <3>1. \E s \in {"passing", "left"} : Kept([conn[c] EXCEPT !.stage = s])
      BY <1>0, <2>4 DEF OpenTunnel, Threads
    <3>2. QED
      BY <2>1, <3>1
  <2>5. CASE Dial(c)
    <3>1. \/ Kept([conn[c] EXCEPT !.stage = "left"])
          \/ Kept([conn[c] EXCEPT !.stage = "judging", !.resend = TRUE, !.reply = "none",
                     !.timed = conn[c].repeatable /\ conn[c].k < N - 1])
      BY <1>0, <2>5 DEF Dial, Threads
    <3>2. QED
      BY <2>1, <3>1
  <2>6. CASE Act(c)
    <3>1. Kept(conn[c])
      BY <1>0, <2>1, <2>6 DEF Act
    <3>2. QED
      BY <2>1, <3>1
  <2>7. QED
    BY <1>3, <2>2, <2>3, <2>4, <2>5, <2>6
<1>4. ASSUME NEW more \in BOOLEAN, NEW expired \in BOOLEAN, NEW up \in FromUpstream(c),
             Round(c, more, up, expired)
      PROVE  /\ clients' = clients /\ conn[c].stage \notin {"none", "over"}
             /\ \E t : Kept(t)
  <2>1. clients' = clients /\ conn[c].stage = "judging"
    BY <1>4 DEF Round
  <2>2. \/ \E s \in {"passing", "left"} : conn' = [conn EXCEPT ![c] = Free(c, s)]
        \/ conn' = [conn EXCEPT ![c] = [Free(c, "seeking") EXCEPT !.k = @ + 1]]
        \/ \E x, y, z : conn' = [conn EXCEPT ![c] =
                          [@ EXCEPT !.resend = x, !.timed = y, !.reply = z]]
    BY <1>4, RoundMoves, ZenonT(30)
  <2>3. CASE \E s \in {"passing", "left"} : conn' = [conn EXCEPT ![c] = Free(c, s)]
    <3>1. \E s \in {"passing", "left"} : Kept(Free(c, s))
      BY <1>1, <2>3
    <3>2. QED
      BY <2>1, <3>1
  <2>4. CASE conn' = [conn EXCEPT ![c] = [Free(c, "seeking") EXCEPT !.k = @ + 1]]
    <3>1. Kept([Free(c, "seeking") EXCEPT !.k = @ + 1])
      BY <1>1, <2>4 DEF Threads
    <3>2. QED
      BY <2>1, <3>1
  <2>5. CASE \E x, y, z : conn' = [conn EXCEPT ![c] =
                          [@ EXCEPT !.resend = x, !.timed = y, !.reply = z]]
    <3>1. PICK x, y, z : conn' = [conn EXCEPT ![c] =
                          [@ EXCEPT !.resend = x, !.timed = y, !.reply = z]]
      BY <2>5
    <3>2. Kept([conn[c] EXCEPT !.resend = x, !.timed = y, !.reply = z])
      BY <1>0, <2>1, <3>1 DEF Threads
    <3>3. QED
      BY <2>1, <3>2
  <2>6. QED
    BY <2>2, <2>3, <2>4, <2>5
<1>5. QED
  BY <1>2, <1>3, <1>4

\* The counter of connections counts the threads.
LEMMA PlacesStep ==
  ASSUME TypeOK, PlacesReturn, [Next]_vars
  PROVE  PlacesReturn' /\ clients' \in 0 .. MaxClients
<1>0. /\ clients = Cardinality(Taken) /\ IsFiniteSet(Taken) /\ clients \in Nat
      /\ conn \in [Conns -> Threads] /\ clients <= MaxClients
  <2>1. IsFiniteSet(Taken)
    BY Constants, FS_Subset DEF Taken
  <2>2. clients \in 0 .. MaxClients /\ MaxClients \in Nat
    BY ConstantFacts DEF TypeOK
  <2>3. QED
    BY <2>1, <2>2 DEF PlacesReturn, Taken, TypeOK
<1> SUFFICES clients' = Cardinality(Taken') /\ clients' \in 0 .. MaxClients
  BY DEF PlacesReturn, Taken
<1>1. ASSUME Taken' = Taken, clients' = clients
      PROVE  clients' = Cardinality(Taken') /\ clients' \in 0 .. MaxClients
  BY <1>0, <1>1, ConstantFacts
<1>2. ASSUME NEW c \in Conns, Accept(c)
      PROVE  clients' = Cardinality(Taken') /\ clients' \in 0 .. MaxClients
  <2>1. conn[c].stage = "none" /\ c \notin Taken
    BY <1>2 DEF Accept, Taken
  <2>2. CASE clients < MaxClients /\ clients' = clients + 1
             /\ conn' = [conn EXCEPT ![c].stage = "head"]
    <3>1. conn'[c].stage = "head" /\ \A d \in Conns \ {c} : conn'[d] = conn[d]
      BY <1>0, <2>2 DEF Threads
    <3>2. Taken' = Taken \cup {c}
      BY <3>1 DEF Taken
    <3>3. Cardinality(Taken \cup {c}) = Cardinality(Taken) + 1
      BY <1>0, <2>1, FS_AddElement
    <3>4. QED
      BY <1>0, <2>2, <3>2, <3>3, ConstantFacts
  <2>3. CASE clients' = clients /\ conn' = [conn EXCEPT ![c].stage = "over"]
    <3>1. conn'[c].stage = "over" /\ \A d \in Conns \ {c} : conn'[d] = conn[d]
      BY <1>0, <2>3 DEF Threads
    <3>2. Taken' = Taken
      BY <2>1, <3>1 DEF Taken
    <3>3. QED
      BY <1>1, <2>3, <3>2
  <2>4. QED
    BY <1>2, <2>2, <2>3 DEF Accept
<1>3. ASSUME NEW c \in Conns, Leave(c)
      PROVE  clients' = Cardinality(Taken') /\ clients' \in 0 .. MaxClients
  <2>1. c \in Taken /\ clients' = clients - 1
    BY <1>3 DEF Leave, Taken
  <2>2. conn'[c].stage = "over" /\ \A d \in Conns \ {c} : conn'[d] = conn[d]
    BY <1>0, <1>3 DEF Leave, Threads
  <2>3. Taken' = Taken \ {c}
    BY <2>2 DEF Taken
  <2>4. Cardinality(Taken \ {c}) = Cardinality(Taken) - 1 /\ Cardinality(Taken \ {c}) \in Nat
    BY <1>0, <2>1, FS_RemoveElement, FS_CardinalityType, FS_Subset
  <2>5. QED
    BY <1>0, <2>1, <2>3, <2>4, ConstantFacts
<1>4. ASSUME NEW c \in Conns, NEW t, conn' = [conn EXCEPT ![c] = t],
             conn[c].stage \notin {"none", "over"}, t.stage \notin {"none", "over"}
      PROVE  Taken' = Taken
  <2>1. conn'[c] = t /\ \A d \in Conns \ {c} : conn'[d] = conn[d]
    BY <1>0, <1>4
  <2>2. QED
    BY <1>4, <2>1 DEF Taken
<1>5. CASE UNCHANGED vars
  BY <1>1, <1>5 DEF vars, Taken
<1>6. QED
  <2>1. ASSUME NEW c \in Conns, ~Accept(c), ~Leave(c),
               \/ Request(c) \/ Exhausted(c) \/ Skip(c) \/ OpenTunnel(c) \/ Dial(c)
               \/ Act(c) \/ End(c)
               \/ \E more, expired \in BOOLEAN : \E up \in FromUpstream(c) :
                    Round(c, more, up, expired)
        PROVE  clients' = Cardinality(Taken') /\ clients' \in 0 .. MaxClients
    BY <1>1, <1>4, <2>1, ThreadStep
  <2>2. QED
    BY <1>2, <1>3, <1>5, <2>1 DEF Next

LEMMA TunnelsStep ==
  ASSUME TypeOK, Tunnels, [Next]_vars
  PROVE  Tunnels'
<1>0. conn \in [Conns -> Threads]
  BY DEF TypeOK
<1>1. ASSUME NEW c \in Conns, NEW t, conn' = [conn EXCEPT ![c] = t],
             \/ t.kind = conn[c].kind /\ t.repeatable = conn[c].repeatable
             \/ t.kind = "tunnel" => ~t.repeatable
      PROVE  Tunnels'
  <2>1. conn'[c] = t /\ \A d \in Conns \ {c} : conn'[d] = conn[d]
    BY <1>0, <1>1
  <2>2. QED
    BY <1>1, <2>1 DEF Tunnels
<1>2. ASSUME NEW c \in Conns, Accept(c) \/ Leave(c)
      PROVE  Tunnels'
  <2>1. \E s \in {"head", "over"} : conn' = [conn EXCEPT ![c] = [@ EXCEPT !.stage = s]]
    BY <1>2 DEF Accept, Leave
  <2>2. PICK s \in {"head", "over"} : conn' = [conn EXCEPT ![c] = [@ EXCEPT !.stage = s]]
    BY <2>1
  <2>3. /\ [conn[c] EXCEPT !.stage = s].kind = conn[c].kind
        /\ [conn[c] EXCEPT !.stage = s].repeatable = conn[c].repeatable
    BY <1>0 DEF Threads
  <2>4. QED
    BY <1>1, <2>2, <2>3
<1>3. CASE UNCHANGED vars
  BY <1>3 DEF vars, Tunnels
<1>4. QED
  <2>1. ASSUME NEW c \in Conns,
               \/ Request(c) \/ Exhausted(c) \/ Skip(c) \/ OpenTunnel(c) \/ Dial(c)
               \/ Act(c) \/ End(c)
               \/ \E more, expired \in BOOLEAN : \E up \in FromUpstream(c) :
                    Round(c, more, up, expired)
        PROVE  Tunnels'
    BY <1>1, <2>1, ThreadStep
  <2>2. QED
    BY <1>2, <1>3, <2>1 DEF Next

-----------------------------------------------------------------------------
(* The theorems.                                                            *)

BridgeInv == TypeOK /\ Exchanges /\ Tunnels /\ PlacesReturn

LEMMA Invariance == Spec => []BridgeInv
<1>1. Init => BridgeInv
  <2> SUFFICES ASSUME Init PROVE BridgeInv
    OBVIOUS
  <2>1. \A c \in Conns : conn[c].stage = "none" /\ conn[c].kind = "plain"
    BY DEF Init
  <2>2. PlacesReturn
    <3>1. {c \in Conns : conn[c].stage \notin {"none", "over"}} = {}
      BY <2>1
    <3>2. QED
      BY <3>1, FS_EmptySet DEF PlacesReturn, Init
  <2>3. last \in Endpoints /\ clients \in 0 .. MaxClients
    BY ConstantFacts DEF Init
  <2>4. conn \in [Conns -> Threads]
    BY ConstantFacts DEF Init, Threads
  <2>5. history \in Histories
    BY ConstantFacts DEF Init, Histories
  <2>6. ASSUME NEW c \in Conns PROVE Sound(c)
    BY DEF Init, Sound, AtMostOne
  <2>7. QED
    BY <2>1, <2>2, <2>3, <2>4, <2>5, <2>6 DEF BridgeInv, TypeOK, Exchanges, Tunnels
<1>2. BridgeInv /\ [Next]_vars => BridgeInv'
  <2> SUFFICES ASSUME BridgeInv, [Next]_vars PROVE BridgeInv'
    OBVIOUS
  <2>1. PlacesReturn' /\ Tunnels' /\ clients' \in 0 .. MaxClients
    BY PlacesStep, TunnelsStep DEF BridgeInv
  <2>2. ASSUME NEW c \in Conns, StepOf(c)
        PROVE  TypeOK' /\ Exchanges'
    <3>1. PICK t, h : Own(c, t, h)
      BY <2>2 DEF StepOf
    <3>2. conn' \in [Conns -> Threads] /\ history' \in Histories
      BY <3>1 DEF Own, BridgeInv, TypeOK
    <3>3. ASSUME NEW d \in Conns PROVE Sound(d)'
      <4>1. CASE d = c
        BY <2>2, <4>1 DEF StepOf
      <4>2. CASE d # c
        BY <3>1, <4>2, OthersStaySound DEF BridgeInv, Exchanges
      <4>3. QED
        BY <4>1, <4>2
    <3>4. QED
      BY <2>1, <2>2, <3>2, <3>3 DEF StepOf, TypeOK, Exchanges
  <2>3. CASE UNCHANGED vars
    <3>1. \A c \in Conns : Sound(c)' <=> Sound(c)
      BY <2>3 DEF vars, Sound, Here
    <3>2. QED
      BY <2>1, <2>3, <3>1 DEF BridgeInv, vars, TypeOK, Exchanges
  <2>4. QED
    BY <2>1, <2>2, <2>3, EveryStep DEF BridgeInv, Next
<1>3. QED
  BY <1>1, <1>2, PTL DEF Spec

\* Every reachable state of the bridge is well typed.
THEOREM TypeCorrect == Spec => []TypeOK
<1>1. BridgeInv => TypeOK
  BY DEF BridgeInv
<1>2. QED
  BY <1>1, Invariance, PTL

LEMMA AtMostOneCard ==
  ASSUME NEW S, AtMostOne(S)
  PROVE  Cardinality(S) <= 1
<1>1. CASE S = {}
  BY <1>1, FS_EmptySet
<1>2. CASE S # {}
  <2>1. PICK x : S = {x}
    BY <1>2 DEF AtMostOne
  <2>2. Cardinality(S) = 1
    BY <2>1, FS_Singleton, Zenon
  <2>3. QED
    BY <2>2
<1>3. QED
  BY <1>1, <1>2

\* proxy_policy.hpp:161-162: a request that must not be repeated is acted on by
\* one upstream at the most, whatever the upstreams do.
THEOREM NothingIsRepeated == Spec => []ActedOnce
<1>1. BridgeInv => ActedOnce
  BY AtMostOneCard DEF BridgeInv, Exchanges, Sound, ActedOnce
<1>2. QED
  BY <1>1, Invariance, PTL

\* proxy_bridge.cpp:228-232: no request is given to two endpoints in parts, and
\* the app gets the answer of one.
THEOREM ExchangesAreWhole == Spec => []ExchangeIsWhole
<1>1. BridgeInv => ExchangeIsWhole
  BY AtMostOneCard DEF BridgeInv, Exchanges, Sound, ExchangeIsWhole
<1>2. QED
  BY <1>1, Invariance, PTL

\* A request that could have gone anywhere fails only after every endpoint was
\* tried, also while other connections change the order.
THEOREM FailuresAreLast == Spec => []NoEarlyFailure
<1>1. BridgeInv => NoEarlyFailure
  BY DEF BridgeInv, Exchanges, Sound, NoEarlyFailure
<1>2. QED
  BY <1>1, Invariance, PTL

\* Every connection gives its place back, on each of its ways out.
THEOREM PlacesAreReturned == Spec => []PlacesReturn
<1>1. BridgeInv => PlacesReturn
  BY DEF BridgeInv
<1>2. QED
  BY <1>1, Invariance, PTL

=============================================================================
