-------------------------- MODULE UsagePumpProofs --------------------------
(***************************************************************************)
(* Types, consent, the single probe and the pace of UsagePump, for every   *)
(* list of profiles and every length of the intervals.                     *)
(***************************************************************************)
EXTENDS UsagePump, FiniteSetTheorems, TLAPS

\* The parts of a well-typed record.
LEMMA LimitsParts ==
  ASSUME NEW u \in Limits
  PROVE  /\ u.checked \in [Profiles -> Int] /\ u.numbers \in SUBSET Profiles
         /\ u.inFlight \in [profile : Profiles, elapsed : 0 .. Lost] \cup {None}
         /\ u.forced \in SUBSET Profiles /\ u.lastProbe \in Int
BY DEF Limits

LEMMA ConstantFacts ==
  /\ {ManualFloor, Lost, Spacing, Interval, MaxAge} \subseteq Nat \ {0}
  /\ Never \in Nat /\ 0 \in 0 .. Never /\ 0 \in 0 .. Lost
  /\ Never \in 0 .. Never
  /\ \A a \in 0 .. Never : Older(a) \in 0 .. Never
  /\ \A a \in Int : Older(a) \in Int
BY Constants DEF Never, Older

\* A history with one part replaced.
LEMMA HistoryParts ==
  ASSUME NEW h \in Histories
  PROVE  /\ h.asked \in [Profiles -> 0 .. Never] /\ h.any \in 0 .. Never
         /\ h.forgotten \in SUBSET Profiles
         /\ \A f \in SUBSET Profiles :
              /\ [h EXCEPT !.forgotten = f] \in Histories
              /\ [h EXCEPT !.forgotten = f].asked = h.asked
              /\ [h EXCEPT !.forgotten = f].any = h.any
              /\ [h EXCEPT !.forgotten = f].forgotten = f
BY DEF Histories

\* The history once p was asked by a helper, or refused.
LEMMA AskedHistory ==
  ASSUME NEW h \in Histories, NEW p \in Profiles, NEW a \in 0 .. Never
  PROVE  /\ Asked(h, p, a) \in Histories /\ Asked(h, p, a).any = a
         /\ Asked(h, p, a).asked = [h.asked EXCEPT ![p] = 0]
         /\ Asked(h, p, a).forgotten = h.forgotten \ {p}
BY HistoryParts, ConstantFacts DEF Asked, Histories

\* The history a tick later.
LEMMA OlderHistory ==
  ASSUME NEW h \in Histories, NEW k,
         k = [h EXCEPT !.asked = [p \in Profiles |-> Older(h.asked[p])],
                       !.any = Older(@)]
  PROVE  /\ k \in Histories /\ k.any = Older(h.any) /\ k.forgotten = h.forgotten
         /\ \A p \in Profiles : k.asked[p] = Older(h.asked[p])
<1>1. k = [asked |-> [p \in Profiles |-> Older(h.asked[p])],
           any |-> Older(h.any), forgotten |-> h.forgotten]
  BY DEF Histories
<1>2. [p \in Profiles |-> Older(h.asked[p])] \in [Profiles -> 0 .. Never]
  BY HistoryParts, ConstantFacts
<1>3. Older(h.any) \in 0 .. Never /\ h.forgotten \in SUBSET Profiles
  BY HistoryParts, ConstantFacts
<1>4. k \in Histories
  BY <1>1, <1>2, <1>3 DEF Histories
<1>5. k.any = Older(h.any) /\ k.forgotten = h.forgotten
      /\ k.asked = [p \in Profiles |-> Older(h.asked[p])]
  BY <1>1
<1>6. QED
  BY <1>4, <1>5

\* What the pump leaves is as well typed as what it was given.
LEMMA PumpTypes ==
  ASSUME NEW E \in SUBSET Groups, NEW u \in Limits, NEW w \in SUBSET Workers,
         NEW h \in Histories, Pump(E, u, w, h)
  PROVE  limits' \in Limits /\ workers' \in SUBSET Workers /\ history' \in Histories
<1> DEFINE v == [u EXCEPT !.inFlight = None, !.forced = Queued(E, u)]
<1>1. v \in Limits
  BY DEF Limits, Queued
<1> HIDE DEF v
<1>2. CASE limits' \in {u, v} /\ workers' = w /\ history' = h
  BY <1>1, <1>2
<1>3. ASSUME NEW p \in Profiles, Start(p, v, w, h)
      PROVE  limits' \in Limits /\ workers' \in SUBSET Workers /\ history' \in Histories
  <2>1. limits' \in Limits
    <3>1. [profile |-> p, elapsed |-> 0] \in [profile : Profiles, elapsed : 0 .. Lost]
      BY ConstantFacts
    <3>2. limits' = [checked |-> v.checked, numbers |-> v.numbers,
                     inFlight |-> [profile |-> p, elapsed |-> 0],
                     forced |-> v.forced \ {p}, lastProbe |-> 0]
      BY <1>1, <1>3 DEF Start, Limits
    <3>3. QED
      BY <1>1, <3>1, <3>2, LimitsParts DEF Limits
  <2>2. [profile |-> p, ran |-> 0, manual |-> p \in v.forced,
         since |-> h.asked[p], gap |-> h.any, forgot |-> p \in h.forgotten] \in Workers
    BY HistoryParts DEF Workers
  <2>3. Asked(h, p, 0) \in Histories
    BY AskedHistory, ConstantFacts
  <2>4. QED
    BY <1>3, <2>1, <2>2, <2>3 DEF Start
<1>4. ASSUME NEW p \in Profiles, Refuse(p, v, w, h)
      PROVE  limits' \in Limits /\ workers' \in SUBSET Workers /\ history' \in Histories
  <2>1. PICK kept \in {v.numbers, v.numbers \ {p}} :
          limits' = [v EXCEPT !.forced = @ \ {p}, !.checked[p] = 0, !.numbers = kept]
    BY <1>4 DEF Refuse
  <2>4. limits' \in Limits
    <3>1. limits' = [checked |-> [v.checked EXCEPT ![p] = 0], numbers |-> kept,
                     inFlight |-> v.inFlight, forced |-> v.forced \ {p},
                     lastProbe |-> v.lastProbe]
      BY <1>1, <2>1 DEF Limits
    <3>2. [v.checked EXCEPT ![p] = 0] \in [Profiles -> Int]
      BY <1>1, LimitsParts
    <3>3. QED
      BY <1>1, <2>1, <3>1, <3>2, LimitsParts DEF Limits
  <2>2. history' \in Histories
    BY <1>4, AskedHistory, HistoryParts DEF Refuse
  <2>3. QED
    BY <1>4, <2>2, <2>4 DEF Refuse
<1>5. Best(E, u) \subseteq Profiles
  BY DEF Best, Due, Showing
<1>6. QED
  BY <1>2, <1>3, <1>4, <1>5 DEF Pump, v

Budgets == [requests : 0 .. MaxRequests, restarts : 0 .. MaxRestarts, back : 0 .. 1]

LEMMA SpendTypes ==
  ASSUME budget \in Budgets,
         Spend("requests") \/ Spend("restarts") \/ Spend("back")
  PROVE  budget' \in Budgets
BY Constants DEF Spend, Budgets

LEMMA TypeStep == TypeOK /\ [Next]_vars => TypeOK'
<1> SUFFICES ASSUME TypeOK, [Next]_vars PROVE TypeOK'
  OBVIOUS
<1>1. /\ enabled \in SUBSET Groups /\ limits \in Limits /\ workers \in SUBSET Workers
      /\ history \in Histories /\ budget \in Budgets
  BY DEF TypeOK, Budgets
<1>2. CASE Tick
  <2> DEFINE older == [p \in Profiles |-> Older(limits.checked[p])]
             waited == IF limits.inFlight = None THEN None
                       ELSE [limits.inFlight EXCEPT
                               !.elapsed = IF @ < Lost THEN @ + 1 ELSE @]
             u == [limits EXCEPT !.checked = older, !.inFlight = waited,
                                 !.lastProbe = Older(@)]
             w == {[x EXCEPT !.ran = @ + 1] : x \in workers}
             h == [history EXCEPT
                     !.asked = [p \in Profiles |-> Older(history.asked[p])],
                     !.any = Older(@)]
  <2>1. older \in [Profiles -> Int]
    BY <1>1, ConstantFacts DEF Limits
  <2>2. waited \in [profile : Profiles, elapsed : 0 .. Lost] \cup {None}
    BY <1>1, ConstantFacts DEF Limits
  <2>3. u \in Limits
    BY <1>1, <2>1, <2>2, ConstantFacts DEF Limits
  <2>4. w \in SUBSET Workers
    BY <1>1 DEF Workers
  <2>5. h \in Histories
    BY <1>1, OlderHistory
  <2>6. Pump(enabled, u, w, h) /\ UNCHANGED <<enabled, budget>>
    BY <1>2 DEF Tick
  <2>7. limits' \in Limits /\ workers' \in SUBSET Workers /\ history' \in Histories
    BY <1>1, <2>3, <2>4, <2>5, <2>6, PumpTypes
  <2>8. QED
    BY <1>1, <2>6, <2>7 DEF TypeOK, Budgets
<1>3. ASSUME NEW P \in SUBSET Profiles, Refresh(P)
      PROVE  TypeOK'
  <2> DEFINE u == [limits EXCEPT !.forced = @ \cup (P \cap Showing(enabled))]
  <2>1. u \in Limits
    BY <1>1 DEF Limits
  <2>2. limits' \in Limits /\ workers' \in SUBSET Workers /\ history' \in Histories
    BY <1>1, <1>3, <2>1, PumpTypes DEF Refresh
  <2>3. QED
    BY <1>1, <1>3, <2>2, SpendTypes DEF Refresh, TypeOK, Budgets
<1>4. ASSUME NEW g \in Groups, Toggle(g)
      PROVE  TypeOK'
  <2> DEFINE off == [limits EXCEPT !.numbers = @ \ Members(g),
                       !.checked = [p \in Profiles |->
                                      IF p \in Members(g) THEN Never ELSE @[p]]]
             forgot == [history EXCEPT !.forgotten = @ \cup Members(g)]
             on == [limits EXCEPT !.forced = @ \cup Members(g)]
  <2>1. off \in Limits /\ on \in Limits
    <3>1. Members(g) \subseteq Profiles
      BY DEF Members
    <3>2. [p \in Profiles |-> IF p \in Members(g) THEN Never ELSE limits.checked[p]]
            \in [Profiles -> Int]
      BY <1>1, LimitsParts, ConstantFacts
    <3>3. ASSUME NEW r, r = off
          PROVE  r = [checked |-> [p \in Profiles |->
                        IF p \in Members(g) THEN Never ELSE limits.checked[p]],
                      numbers |-> limits.numbers \ Members(g),
                      inFlight |-> limits.inFlight, forced |-> limits.forced,
                      lastProbe |-> limits.lastProbe]
      BY <1>1, <3>3 DEF Limits
    <3>4. on = [checked |-> limits.checked, numbers |-> limits.numbers,
                inFlight |-> limits.inFlight, forced |-> limits.forced \cup Members(g),
                lastProbe |-> limits.lastProbe]
      BY <1>1 DEF Limits
    <3>5. QED
      BY <1>1, <3>1, <3>2, <3>3, <3>4, LimitsParts DEF Limits
  <2>2. forgot \in Histories
    BY <1>1, HistoryParts DEF Members
  <2>3. enabled' \in SUBSET Groups
    BY <1>1, <1>4 DEF Toggle
  <2>4. Pump(enabled', off, workers, forgot) \/ Pump(enabled', on, workers, history)
    BY <1>4 DEF Toggle
  <2>5. limits' \in Limits /\ workers' \in SUBSET Workers /\ history' \in Histories
    BY <1>1, <2>1, <2>2, <2>3, <2>4, PumpTypes
  <2>6. QED
    BY <1>1, <1>4, <2>3, <2>5, SpendTypes DEF Toggle, TypeOK, Budgets
<1>5. ASSUME NEW w \in workers, Finish(w)
      PROVE  TypeOK'
  <2> DEFINE here == limits.inFlight # None /\ limits.inFlight.profile = w.profile
             u == [limits EXCEPT !.inFlight = IF here THEN None ELSE @]
  <2>1. u \in Limits /\ w.profile \in Profiles
    BY <1>1 DEF Limits, Workers
  <2>2. Recorded(u, w.profile) \subseteq Limits
    <3> HIDE DEF u
    <3>1. SUFFICES ASSUME w.profile \in Showing(enabled),
                          NEW r \in Recorded(u, w.profile)
                   PROVE  r \in Limits
      BY <2>1 DEF Recorded
    <3>2. PICK n \in Answers(u.numbers, w.profile) :
            r = [u EXCEPT !.checked[w.profile] = 0, !.numbers = n]
      BY <3>1 DEF Recorded
    <3>3. r = [checked |-> [u.checked EXCEPT ![w.profile] = 0], numbers |-> n,
               inFlight |-> u.inFlight, forced |-> u.forced, lastProbe |-> u.lastProbe]
      BY <2>1, <3>2 DEF Limits
    <3>4. n \in SUBSET Profiles
      BY <2>1, LimitsParts DEF Answers
    <3>5. [u.checked EXCEPT ![w.profile] = 0] \in [Profiles -> Int]
      BY <2>1, LimitsParts
    <3>6. QED
      BY <2>1, <3>3, <3>4, <3>5, LimitsParts DEF Limits
  <2>3. limits' \in Limits
    BY <1>5, <2>2 DEF Finish
  <2>4. history' \in Histories
    BY <1>1, <1>5, HistoryParts DEF Finish
  <2>5. QED
    BY <1>1, <1>5, <2>3, <2>4 DEF Finish, TypeOK, Budgets
<1>6. CASE Restart
  <2>1. limits' \in Limits /\ history' \in Histories
    <3>1. limits' = [checked |-> limits.checked, numbers |-> limits.numbers,
                     inFlight |-> None, forced |-> {}, lastProbe |-> Never]
      BY <1>1, <1>6 DEF Restart, Limits
    <3>2. limits' \in Limits
      BY <1>1, <3>1, LimitsParts, ConstantFacts DEF Limits
    <3>3. history' \in Histories
      <4>1. {w.profile : w \in workers} \in SUBSET Profiles
        BY <1>1 DEF Workers
      <4>2. QED
        BY <1>1, <1>6, <4>1, ConstantFacts DEF Restart, Histories
    <3>4. QED
      BY <3>2, <3>3
  <2>2. QED
    BY <1>1, <1>6, <2>1, SpendTypes DEF Restart, TypeOK, Budgets
<1>7. ASSUME NEW d \in SetBacks, SetClockBack(d)
      PROVE  TypeOK'
  <2>1. \A a \in Int : SetBack(a, d) \in Int
    BY Constants, ConstantFacts DEF SetBack
  <2>2. limits' \in Limits
    BY <1>1, <1>7, <2>1 DEF SetClockBack, Limits
  <2>3. QED
    BY <1>1, <1>7, <2>2, SpendTypes DEF SetClockBack, TypeOK, Budgets
<1>8. CASE UNCHANGED vars
  BY <1>8 DEF vars, TypeOK
<1>9. QED
  BY <1>2, <1>3, <1>4, <1>5, <1>6, <1>7, <1>8 DEF Next

\* Every variable keeps its type, whatever is asked and whenever the clock is
\* set back (usage_limits.hpp:11-16).
THEOREM TypeCorrect == Spec => []TypeOK
<1>1. Init => TypeOK
  BY Constants, ConstantFacts DEF Init, TypeOK, Limits, Workers, Histories
<1>2. QED
  BY <1>1, TypeStep, PTL DEF Spec

-----------------------------------------------------------------------------
(* Consent.                                                                 *)

LEMMA PumpAddsNoNumbers ==
  ASSUME NEW E \in SUBSET Groups, NEW u \in Limits, NEW w, NEW h, Pump(E, u, w, h)
  PROVE  limits'.numbers \subseteq u.numbers
<1> DEFINE v == [u EXCEPT !.inFlight = None, !.forced = Queued(E, u)]
<1>1. v.numbers = u.numbers /\ v \in Limits
  BY DEF Limits, Queued
<1> HIDE DEF v
<1>2. ASSUME NEW p, Start(p, v, w, h) \/ Refuse(p, v, w, h)
      PROVE  limits'.numbers \subseteq v.numbers
  <2>1. CASE Start(p, v, w, h)
    BY <1>1, <2>1 DEF Start, Limits
  <2>2. CASE Refuse(p, v, w, h)
    <3>1. PICK kept \in {v.numbers, v.numbers \ {p}} :
            limits' = [v EXCEPT !.forced = @ \ {p}, !.checked[p] = 0, !.numbers = kept]
      BY <2>2 DEF Refuse
    <3>2. limits'.numbers = kept
      BY <1>1, <3>1 DEF Limits
    <3>3. QED
      BY <3>2
  <2>3. QED
    BY <1>2, <2>1, <2>2
<1>3. QED
  BY <1>1, <1>2 DEF Pump, v

LEMMA ConsentStep ==
  TypeOK /\ NoNumbersWithoutConsent /\ [Next]_vars => NoNumbersWithoutConsent'
<1> SUFFICES ASSUME TypeOK, NoNumbersWithoutConsent, [Next]_vars
             PROVE  NoNumbersWithoutConsent'
  OBVIOUS
<1>1. /\ enabled \in SUBSET Groups /\ limits \in Limits /\ workers \in SUBSET Workers
      /\ limits.numbers \subseteq Showing(enabled)
  BY DEF TypeOK, NoNumbersWithoutConsent
<1>2. ASSUME limits'.numbers \subseteq limits.numbers, enabled' = enabled
      PROVE  NoNumbersWithoutConsent'
  BY <1>1, <1>2 DEF NoNumbersWithoutConsent, Showing
<1>3. CASE Tick
  <2> DEFINE older == [p \in Profiles |-> Older(limits.checked[p])]
             waited == IF limits.inFlight = None THEN None
                       ELSE [limits.inFlight EXCEPT
                               !.elapsed = IF @ < Lost THEN @ + 1 ELSE @]
             u == [limits EXCEPT !.checked = older, !.inFlight = waited,
                                 !.lastProbe = Older(@)]
  <2>1. older \in [Profiles -> Int]
    BY <1>1, ConstantFacts DEF Limits
  <2>2. waited \in [profile : Profiles, elapsed : 0 .. Lost] \cup {None}
    BY <1>1, ConstantFacts DEF Limits
  <2>3. u \in Limits /\ u.numbers = limits.numbers
    BY <1>1, <2>1, <2>2, ConstantFacts DEF Limits
  <2>4. limits'.numbers \subseteq u.numbers /\ enabled' = enabled
    BY <1>1, <1>3, <2>3, PumpAddsNoNumbers DEF Tick
  <2>5. QED
    BY <1>2, <2>3, <2>4
<1>4. ASSUME NEW P \in SUBSET Profiles, Refresh(P)
      PROVE  NoNumbersWithoutConsent'
  <2> DEFINE u == [limits EXCEPT !.forced = @ \cup (P \cap Showing(enabled))]
  <2>1. u \in Limits /\ u.numbers = limits.numbers
    BY <1>1 DEF Limits
  <2>2. limits'.numbers \subseteq u.numbers /\ enabled' = enabled
    BY <1>1, <1>4, <2>1, PumpAddsNoNumbers DEF Refresh
  <2>3. QED
    BY <1>2, <2>1, <2>2
<1>5. ASSUME NEW g \in Groups, Toggle(g)
      PROVE  NoNumbersWithoutConsent'
  <2>1. enabled' = (enabled \ {g}) \cup ({g} \ enabled) /\ enabled' \in SUBSET Groups
    BY <1>1, <1>5 DEF Toggle
  <2>2. CASE g \in enabled
    <3> DEFINE cleared == [p \in Profiles |->
                             IF p \in Members(g) THEN Never ELSE limits.checked[p]]
               off == [limits EXCEPT !.numbers = @ \ Members(g), !.checked = cleared]
    <3>1. cleared \in [Profiles -> Int]
      BY <1>1, LimitsParts, ConstantFacts
    <3>2. off \in Limits /\ off.numbers = limits.numbers \ Members(g)
      BY <1>1, <3>1 DEF Limits, Members
    <3>3. limits'.numbers \subseteq off.numbers
      BY <1>5, <2>1, <2>2, <3>2, PumpAddsNoNumbers DEF Toggle
    <3>4. QED
      BY <1>1, <2>1, <3>2, <3>3 DEF NoNumbersWithoutConsent, Showing, Members
  <2>3. CASE g \notin enabled
    <3> DEFINE on == [limits EXCEPT !.forced = @ \cup Members(g)]
    <3>1. on \in Limits /\ on.numbers = limits.numbers
      BY <1>1 DEF Limits, Members
    <3>2. limits'.numbers \subseteq limits.numbers
      BY <1>5, <2>1, <2>3, <3>1, PumpAddsNoNumbers DEF Toggle
    <3>3. QED
      BY <1>1, <2>1, <2>3, <3>2 DEF NoNumbersWithoutConsent, Showing
  <2>4. QED
    BY <2>2, <2>3
<1>6. ASSUME NEW w \in workers, Finish(w)
      PROVE  NoNumbersWithoutConsent'
  <2> DEFINE here == limits.inFlight # None /\ limits.inFlight.profile = w.profile
             u == [limits EXCEPT !.inFlight = IF here THEN None ELSE @]
  <2>1. u \in Limits /\ u.numbers = limits.numbers /\ w.profile \in Profiles
    BY <1>1 DEF Limits, Workers
  <2>2. limits' \in Recorded(u, w.profile) /\ enabled' = enabled
    BY <1>6 DEF Finish
  <2> HIDE DEF u
  <2>3. CASE w.profile \in Showing(enabled)
    <3>1. PICK n \in Answers(u.numbers, w.profile) :
            limits' = [u EXCEPT !.checked[w.profile] = 0, !.numbers = n]
      BY <2>2, <2>3 DEF Recorded
    <3>2. limits'.numbers = n /\ n \subseteq u.numbers \cup {w.profile}
      BY <2>1, <3>1 DEF Limits, Answers
    <3>3. QED
      BY <1>1, <2>1, <2>2, <2>3, <3>2 DEF NoNumbersWithoutConsent, Showing
  <2>4. CASE w.profile \notin Showing(enabled)
    BY <1>2, <2>1, <2>2, <2>4 DEF Recorded
  <2>5. QED
    BY <2>3, <2>4
<1>7. CASE Restart
  BY <1>1, <1>2, <1>7 DEF Restart, Limits
<1>8. ASSUME NEW d \in SetBacks, SetClockBack(d)
      PROVE  NoNumbersWithoutConsent'
  BY <1>1, <1>2, <1>8 DEF SetClockBack, Limits
<1>9. CASE UNCHANGED vars
  BY <1>2, <1>9 DEF vars
<1>10. QED
  BY <1>3, <1>4, <1>5, <1>6, <1>7, <1>8, <1>9 DEF Next

\* Cached numbers are of groups that agree to it, whatever answers when
\* (usage_limits.hpp:118-134).
THEOREM ConsentIsKept == Spec => []NoNumbersWithoutConsent
<1>1. Init => NoNumbersWithoutConsent
  BY DEF Init, NoNumbersWithoutConsent
<1>2. QED
  BY <1>1, ConsentStep, TypeCorrect, PTL DEF Spec

-----------------------------------------------------------------------------
(* One probe at a time.                                                     *)

\* The helper that runs is the one in flight, and both clocks agree.
InStep ==
  /\ \A x \in workers :
       /\ limits.inFlight = [profile |-> x.profile, elapsed |-> x.ran]
       /\ x.ran <= MaxRun[x.profile]
  /\ \A x, y \in workers : x = y

AnswersInTime == \A p \in Profiles : MaxRun[p] < Lost

LEMMA PumpWaits ==
  ASSUME AnswersInTime,
         NEW E \in SUBSET Groups, NEW u \in Limits, NEW w \in SUBSET Workers,
         NEW h \in Histories, Pump(E, u, w, h),
         \A x \in w : /\ u.inFlight = [profile |-> x.profile, elapsed |-> x.ran]
                     /\ x.ran <= MaxRun[x.profile],
         \A x, y \in w : x = y
  PROVE  InStep'
<1> DEFINE v == [u EXCEPT !.inFlight = None, !.forced = Queued(E, u)]
<1>1. CASE w # {}
  <2>1. PICK x \in w : u.inFlight = [profile |-> x.profile, elapsed |-> x.ran]
                       /\ x.ran <= MaxRun[x.profile]
    BY <1>1
  <2>2. x.profile \in Profiles /\ x.ran \in Nat /\ MaxRun[x.profile] \in Nat /\ Lost \in Nat
    BY Constants DEF Workers
  <2>3. x.ran < Lost
    BY <2>1, <2>2 DEF AnswersInTime
  <2>4. u.inFlight # None /\ u.inFlight.elapsed = x.ran
    BY <2>1, <2>2, <2>3, Constants
  <2>5. WaitsForAnswer(u)
    BY <2>3, <2>4 DEF WaitsForAnswer
  <2>6. QED
    BY <2>5 DEF Pump, InStep
<1>2. CASE w = {}
  <2>1. ASSUME NEW p \in Profiles, Start(p, v, w, h)
        PROVE  InStep'
    <3>1. v \in Limits
      BY DEF Limits, Queued
    <3> HIDE DEF v
    <3>2. limits'.inFlight = [profile |-> p, elapsed |-> 0]
      BY <2>1, <3>1 DEF Start, Limits
    <3>3. workers' = {[profile |-> p, ran |-> 0, manual |-> p \in v.forced,
                       since |-> h.asked[p], gap |-> h.any,
                       forgot |-> p \in h.forgotten]}
      BY <1>2, <2>1 DEF Start
    <3>4. QED
      BY <3>2, <3>3, Constants DEF InStep
  <2>2. ASSUME workers' = {}
        PROVE  InStep'
    BY <2>2 DEF InStep
  <2>3. Best(E, u) \subseteq Profiles
    BY DEF Best, Due, Showing
  <2>4. QED
    BY <1>2, <2>1, <2>2, <2>3 DEF Pump, Refuse
<1>3. QED
  BY <1>1, <1>2

LEMMA InStepStep ==
  ASSUME AnswersInTime, TypeOK, InStep, [Next]_vars
  PROVE  InStep'
<1>1. /\ enabled \in SUBSET Groups /\ limits \in Limits /\ workers \in SUBSET Workers
      /\ history \in Histories
  BY DEF TypeOK
<1>2. ASSUME workers' \subseteq workers, limits'.inFlight = limits.inFlight
      PROVE  InStep'
  BY <1>2 DEF InStep
<1>3. CASE Tick
  <2> DEFINE older == [p \in Profiles |-> Older(limits.checked[p])]
             waited == IF limits.inFlight = None THEN None
                       ELSE [limits.inFlight EXCEPT
                               !.elapsed = IF @ < Lost THEN @ + 1 ELSE @]
             u == [limits EXCEPT !.checked = older, !.inFlight = waited,
                                 !.lastProbe = Older(@)]
             w == {[x EXCEPT !.ran = @ + 1] : x \in workers}
             h == [history EXCEPT
                     !.asked = [p \in Profiles |-> Older(history.asked[p])],
                     !.any = Older(@)]
  <2>1. older \in [Profiles -> Int]
    BY <1>1, ConstantFacts DEF Limits
  <2>2. waited \in [profile : Profiles, elapsed : 0 .. Lost] \cup {None}
    BY <1>1, ConstantFacts DEF Limits
  <2>3. u \in Limits /\ u.inFlight = waited
    BY <1>1, <2>1, <2>2, ConstantFacts DEF Limits
  <2>4. w \in SUBSET Workers
    BY <1>1 DEF Workers
  <2>5. h \in Histories
    BY <1>1, OlderHistory
  <2>6. Pump(enabled, u, w, h)
    BY <1>3 DEF Tick
  <2>7. ASSUME NEW x \in workers
        PROVE  /\ waited = [profile |-> x.profile, elapsed |-> x.ran + 1]
               /\ x.ran + 1 <= MaxRun[x.profile]
    <3>1. /\ x.profile \in Profiles /\ x.ran \in Nat /\ MaxRun[x.profile] \in Nat
          /\ Lost \in Nat /\ x.ran < MaxRun[x.profile] /\ x.ran < Lost
      BY <1>1, <1>3, Constants DEF Tick, Running, Workers, AnswersInTime
    <3>2. /\ limits.inFlight = [profile |-> x.profile, elapsed |-> x.ran]
          /\ limits.inFlight # None
      BY <3>1, Constants DEF InStep
    <3>3. QED
      BY <3>1, <3>2
  <2>8. \A y \in w : /\ waited = [profile |-> y.profile, elapsed |-> y.ran]
                    /\ y.ran <= MaxRun[y.profile]
    <3>1. ASSUME NEW x \in workers
          PROVE  [x EXCEPT !.ran = @ + 1].ran = x.ran + 1
                 /\ [x EXCEPT !.ran = @ + 1].profile = x.profile
      BY <1>1 DEF Workers
    <3>2. SUFFICES ASSUME NEW y \in w
                   PROVE  /\ waited = [profile |-> y.profile, elapsed |-> y.ran]
                          /\ y.ran <= MaxRun[y.profile]
      OBVIOUS
    <3>3. PICK x \in workers : y = [x EXCEPT !.ran = @ + 1]
      BY <3>2
    <3>4. y.ran = x.ran + 1 /\ y.profile = x.profile
      BY <3>1, <3>3
    <3> HIDE DEF waited
    <3>5. QED
      BY <2>7, <3>4
  <2>9. \A y, z \in w : y = z
    BY DEF InStep
  <2>10. QED
    <3> HIDE DEF u, w, h, waited
    <3>1. QED
      BY <1>1, <2>3, <2>4, <2>5, <2>6, <2>8, <2>9, PumpWaits
<1>4. ASSUME NEW P \in SUBSET Profiles, Refresh(P)
      PROVE  InStep'
  <2> DEFINE u == [limits EXCEPT !.forced = @ \cup (P \cap Showing(enabled))]
  <2>1. u \in Limits /\ u.inFlight = limits.inFlight
    BY <1>1 DEF Limits
  <2>2. Pump(enabled, u, workers, history)
    BY <1>4 DEF Refresh
  <2> HIDE DEF u
  <2>3. QED
    BY <1>1, <2>1, <2>2, PumpWaits DEF InStep
<1>5. ASSUME NEW g \in Groups, Toggle(g)
      PROVE  InStep'
  <2> DEFINE cleared == [p \in Profiles |->
                           IF p \in Members(g) THEN Never ELSE limits.checked[p]]
             off == [limits EXCEPT !.numbers = @ \ Members(g), !.checked = cleared]
             forgot == [history EXCEPT !.forgotten = @ \cup Members(g)]
             on == [limits EXCEPT !.forced = @ \cup Members(g)]
  <2>1. cleared \in [Profiles -> Int]
    BY <1>1, LimitsParts, ConstantFacts
  <2>2. /\ off \in Limits /\ off.inFlight = limits.inFlight
        /\ on \in Limits /\ on.inFlight = limits.inFlight
    BY <1>1, <2>1 DEF Limits, Members
  <2>3. forgot \in Histories
    BY <1>1, HistoryParts DEF Members
  <2>4. enabled' \in SUBSET Groups
    BY <1>1, <1>5 DEF Toggle
  <2>5. Pump(enabled', off, workers, forgot) \/ Pump(enabled', on, workers, history)
    BY <1>5 DEF Toggle
  <2> HIDE DEF off, on, forgot
  <2>6. QED
    BY <1>1, <2>2, <2>3, <2>4, <2>5, PumpWaits DEF InStep
<1>6. ASSUME NEW w \in workers, Finish(w)
      PROVE  InStep'
  BY <1>6 DEF Finish, InStep
<1>7. CASE Restart
  BY <1>7 DEF Restart, InStep
<1>8. ASSUME NEW d \in SetBacks, SetClockBack(d)
      PROVE  InStep'
  BY <1>1, <1>2, <1>8 DEF SetClockBack, Limits
<1>9. CASE UNCHANGED vars
  BY <1>2, <1>9 DEF vars
<1>10. QED
  BY <1>3, <1>4, <1>5, <1>6, <1>7, <1>8, <1>9 DEF Next

\* usage_limits.hpp:6, "one probe at a time": while no helper runs as long as
\* one that counts as lost, no second one is started beside it.
THEOREM OneAtATime ==
  ASSUME AnswersInTime
  PROVE  Spec => []OneProbeAtATime
<1>1. Init => InStep
  BY DEF Init, InStep
<1>2. TypeOK /\ InStep /\ [Next]_vars => InStep'
  BY InStepStep
<1>3. InStep => OneProbeAtATime
  <2> SUFFICES ASSUME InStep PROVE Cardinality(workers) <= 1
    BY DEF OneProbeAtATime
  <2>1. CASE workers = {}
    BY <2>1, FS_EmptySet
  <2>2. CASE workers # {}
    <3>1. PICK x : workers = {x}
      BY <2>2 DEF InStep
    <3>2. Cardinality(workers) = 1
      BY <3>1, FS_Singleton, Zenon
    <3>3. QED
      BY <3>2
  <2>3. QED
    BY <2>1, <2>2
<1>4. QED
  BY <1>1, <1>2, <1>3, TypeCorrect, PTL DEF Spec

-----------------------------------------------------------------------------
(* How often an account is asked, while the clock is steady.                *)

\* Every helper has ended when the next automatic probe may start: 48 seconds
\* at most, against five minutes (usage_probe.hpp:64-84, usage_policy.hpp).
EndsBeforeNext == \A p \in Profiles : MaxRun[p] < Spacing

\* The last question to p is still open: its helper runs, and is in flight
\* until it counts as lost.
Open(p, u, w, h) ==
  \E x \in w :
    /\ x.profile = p /\ x.ran = h.asked[p]
    /\ x.ran >= Lost \/ u.inFlight = [profile |-> p, elapsed |-> x.ran]

\* The stamps tell when an account was asked, or AppDeck has lost the record of
\* its question, or it is open; an account whose group is off has no open question.
Paced(E, u, w, h) ==
  /\ u.lastProbe = h.any
  /\ \A x \in w : u.lastProbe <= x.ran /\ x.ran <= MaxRun[x.profile]
  /\ \A p \in Profiles :
       /\ u.checked[p] \in 0 .. Never
       /\ \/ u.checked[p] <= h.asked[p] \/ p \in h.forgotten
          \/ p \in Showing(E) /\ Open(p, u, w, h)

\* What a helper says of its start.
Patient(x) ==
  /\ x.forgot \/ x.since >= IF x.manual THEN ManualFloor ELSE Interval
  /\ x.manual \/ x.gap >= Spacing

LEMMA OlderFacts ==
  /\ \A a, b \in 0 .. Never : a <= b => Older(a) <= Older(b)
  /\ \A a \in 0 .. Never : Older(a) <= a + 1
  /\ \A a \in 0 .. Never : a < MaxAge => Older(a) = a + 1
BY Constants DEF Older, Never

\* Whoever is due was asked long enough ago.
LEMMA DueIsPatient ==
  ASSUME EndsBeforeNext,
         NEW E, NEW u \in Limits, NEW w \in SUBSET Workers, NEW h \in Histories,
         Paced(E, u, w, h), ~WaitsForAnswer(u), NEW p \in Due(E, u)
  PROVE  /\ \/ p \in h.forgotten
            \/ h.asked[p] >= IF p \in u.forced THEN ManualFloor ELSE Interval
         /\ p \in u.forced \/ h.any >= Spacing
<1>1. /\ p \in Profiles /\ u.checked[p] \in 0 .. Never /\ h.asked[p] \in 0 .. Never
      /\ u.lastProbe = h.any /\ h.any \in 0 .. Never
      /\ Never \in Nat /\ {ManualFloor, Lost, Spacing, Interval} \subseteq Nat
      /\ ManualFloor < Lost
  BY Constants, ConstantFacts DEF Due, Showing, Paced, Histories
<1>2. IF p \in u.forced THEN u.checked[p] >= ManualFloor
      ELSE u.checked[p] >= Interval /\ h.any >= Spacing
  BY <1>1 DEF Due, UsageManualAllowed, UsageDue, UsageSpaced
<1>3. CASE u.checked[p] <= h.asked[p]
  BY <1>1, <1>2, <1>3
<1>4. CASE Open(p, u, w, h)
  <2>1. PICK x \in w : /\ x.profile = p /\ x.ran = h.asked[p]
                       /\ x.ran >= Lost \/ u.inFlight = [profile |-> p, elapsed |-> x.ran]
    BY <1>4 DEF Open
  <2>2. x.ran \in Nat /\ MaxRun[p] \in Nat /\ u.lastProbe <= x.ran /\ x.ran <= MaxRun[p]
    BY <1>1, <2>1, Constants DEF Workers, Paced
  <2>3. x.ran < Spacing
    BY <1>1, <2>2 DEF EndsBeforeNext
  <2>4. p \in u.forced
    BY <1>1, <1>2, <2>2, <2>3
  <2>5. x.ran >= Lost
    <3>1. CASE u.inFlight = [profile |-> p, elapsed |-> x.ran]
      <4>1. u.inFlight \in [profile : Profiles, elapsed : 0 .. Lost] \cup {None}
        BY LimitsParts
      <4>2. u.inFlight.elapsed = x.ran
        BY <3>1
      <4>3. CASE u.inFlight = None
        <5>1. x.ran \notin 0 .. Lost
          BY <1>1, <3>1, <4>3, Constants
        <5>2. QED BY <1>1, <2>2, <5>1
      <4>4. CASE u.inFlight # None
        BY <1>1, <2>2, <4>2, <4>4 DEF WaitsForAnswer
      <4>5. QED BY <4>3, <4>4
    <3>2. QED BY <2>1, <3>1
  <2>6. QED BY <1>1, <2>1, <2>2, <2>4, <2>5
<1>5. CASE p \in h.forgotten
  BY <1>1, <1>2, <1>5
<1>6. QED BY <1>1, <1>3, <1>4, <1>5 DEF Paced

\* When nothing is waited for, an open question is one that counts as lost.
LEMMA LostStaysOpen ==
  ASSUME NEW u \in Limits, NEW w \in SUBSET Workers, NEW h \in Histories,
         ~WaitsForAnswer(u), NEW p \in Profiles, Open(p, u, w, h)
  PROVE  \E x \in w : x.profile = p /\ x.ran = h.asked[p] /\ x.ran >= Lost
<1>1. PICK x \in w : /\ x.profile = p /\ x.ran = h.asked[p]
                     /\ x.ran >= Lost \/ u.inFlight = [profile |-> p, elapsed |-> x.ran]
  BY DEF Open
<1>2. x.ran \in Nat /\ Lost \in Nat
  BY Constants DEF Workers
<1>3. CASE u.inFlight = [profile |-> p, elapsed |-> x.ran]
  <2>1. u.inFlight.elapsed = x.ran
    BY <1>3
  <2>2. u.inFlight = None => x.ran \notin 0 .. Lost
    BY <1>3, Constants
  <2>3. x.ran >= Lost
    BY <1>2, <2>1, <2>2 DEF WaitsForAnswer
  <2>4. QED BY <1>1, <2>3
<1>4. QED BY <1>1, <1>3

\* What the pump starts is patient, and is the open question from now on.
LEMMA PumpPaces ==
  ASSUME EndsBeforeNext,
         NEW E \in SUBSET Groups, NEW u \in Limits, NEW w \in SUBSET Workers,
         NEW h \in Histories, Pump(E, u, w, h),
         Paced(E, u, w, h), \A x \in w : Patient(x)
  PROVE  Paced(E, limits', workers', history') /\ \A x \in workers' : Patient(x)
<1> DEFINE v == [u EXCEPT !.inFlight = None, !.forced = Queued(E, u)]
<1>1. /\ v \in Limits /\ v.checked = u.checked /\ v.lastProbe = u.lastProbe
      /\ v.inFlight = None /\ v.forced = Queued(E, u)
  BY DEF Limits, Queued
<1> HIDE DEF v
<1>2. CASE limits' = u /\ workers' = w /\ history' = h
  BY <1>2
<1>3. ASSUME ~WaitsForAnswer(u), NEW p \in Profiles
      PROVE  /\ u.checked[p] \in 0 .. Never
             /\ \/ u.checked[p] <= h.asked[p] \/ p \in h.forgotten
                \/ /\ p \in Showing(E)
                   /\ \E x \in w : x.profile = p /\ x.ran = h.asked[p] /\ x.ran >= Lost
  BY <1>3, LostStaysOpen DEF Paced
<1>4. CASE ~WaitsForAnswer(u) /\ limits' = v /\ workers' = w /\ history' = h
  <2>1. \A p \in Profiles :
          /\ v.checked[p] \in 0 .. Never
          /\ \/ v.checked[p] <= h.asked[p] \/ p \in h.forgotten
             \/ p \in Showing(E) /\ Open(p, v, w, h)
    BY <1>1, <1>3, <1>4 DEF Open
  <2>2. Paced(E, v, w, h)
    BY <1>1, <2>1 DEF Paced
  <2>3. QED BY <1>4, <2>2
<1>5. ASSUME ~WaitsForAnswer(u), NEW p \in Best(E, u), Refuse(p, v, w, h)
      PROVE  Paced(E, limits', workers', history') /\ \A x \in workers' : Patient(x)
  <2>1. p \in Profiles
    BY DEF Best, Due, Showing
  <2>2. /\ limits'.checked = [u.checked EXCEPT ![p] = 0] /\ limits'.lastProbe = u.lastProbe
        /\ workers' = w
    BY <1>1, <1>5 DEF Refuse, Limits
  <2>3. history' \in Histories /\ history'.any = h.any
        /\ history'.asked = [h.asked EXCEPT ![p] = 0]
        /\ history'.forgotten = h.forgotten \ {p}
    BY <1>5, <2>1, AskedHistory, HistoryParts DEF Refuse
  <2>4. ASSUME NEW q \in Profiles
        PROVE  /\ limits'.checked[q] \in 0 .. Never
               /\ \/ limits'.checked[q] <= history'.asked[q] \/ q \in history'.forgotten
                  \/ q \in Showing(E) /\ Open(q, limits', workers', history')
    <3>1. CASE q = p
      BY <2>1, <2>2, <2>3, <3>1, LimitsParts, ConstantFacts DEF Histories
    <3>2. CASE q # p
      <4>1. limits'.checked[q] = u.checked[q] /\ history'.asked[q] = h.asked[q]
        BY <2>1, <2>2, <2>3, <3>2, LimitsParts DEF Histories
      <4>2. q \in h.forgotten => q \in history'.forgotten
        BY <2>3, <3>2
      <4>3. QED BY <1>3, <1>5, <2>2, <4>1, <4>2 DEF Open
    <3>3. QED BY <3>1, <3>2
  <2>5. QED BY <2>2, <2>3, <2>4 DEF Paced
<1>6. ASSUME ~WaitsForAnswer(u), NEW p \in Best(E, u), Start(p, v, w, h)
      PROVE  Paced(E, limits', workers', history') /\ \A x \in workers' : Patient(x)
  <2> DEFINE new == [profile |-> p, ran |-> 0, manual |-> p \in v.forced,
                     since |-> h.asked[p], gap |-> h.any,
                     forgot |-> p \in h.forgotten]
  <2>1. p \in Due(E, u) /\ p \in Profiles /\ p \in Showing(E)
    BY DEF Best, Due, Showing
  <2>2. /\ limits'.checked = u.checked /\ limits'.lastProbe = 0
        /\ limits'.inFlight = [profile |-> p, elapsed |-> 0]
    BY <1>1, <1>6 DEF Start, Limits
  <2>3. workers' = w \cup {new}
    BY <1>6 DEF Start
  <2>4. history'.any = 0 /\ history'.asked = [h.asked EXCEPT ![p] = 0]
        /\ history'.forgotten = h.forgotten \ {p}
    BY <1>6, <2>1, AskedHistory, ConstantFacts DEF Start
  <2>5. p \in v.forced <=> p \in u.forced
    BY <1>1, <2>1 DEF Queued
  <2>6. new.manual = (p \in v.forced) /\ new.since = h.asked[p] /\ new.gap = h.any
        /\ new.profile = p /\ new.ran = 0 /\ new.forgot = (p \in h.forgotten)
    OBVIOUS
  <2> HIDE DEF new
  <2>7. Patient(new)
    BY <1>6, <2>1, <2>5, <2>6, DueIsPatient DEF Patient
  <2>8. \A x \in workers' : 0 <= x.ran /\ x.ran <= MaxRun[x.profile]
    BY <2>1, <2>3, <2>6, Constants DEF Paced, Workers
  <2>9. ASSUME NEW q \in Profiles
        PROVE  /\ limits'.checked[q] \in 0 .. Never
               /\ \/ limits'.checked[q] <= history'.asked[q] \/ q \in history'.forgotten
                  \/ q \in Showing(E) /\ Open(q, limits', workers', history')
    <3>1. CASE q = p
      <4>1. history'.asked[q] = 0
        BY <2>1, <2>4, <3>1 DEF Histories
      <4>2. Open(q, limits', workers', history')
        BY <2>2, <2>3, <2>6, <3>1, <4>1 DEF Open
      <4>3. QED BY <1>3, <1>6, <2>1, <2>2, <3>1, <4>2
    <3>2. CASE q # p
      <4>1. history'.asked[q] = h.asked[q]
        BY <2>1, <2>4, <3>2 DEF Histories
      <4>2. q \in h.forgotten => q \in history'.forgotten
        BY <2>4, <3>2
      <4>3. QED BY <1>3, <1>6, <2>2, <2>3, <4>1, <4>2 DEF Open
    <3>3. QED BY <3>1, <3>2
  <2>10. QED BY <2>2, <2>3, <2>4, <2>7, <2>8, <2>9 DEF Paced
<1>7. QED BY <1>2, <1>4, <1>5, <1>6 DEF Pump, v

Pacing ==
  ClockSteady =>
    Paced(enabled, limits, workers, history) /\ \A x \in workers : Patient(x)

LEMMA PacingStep ==
  ASSUME EndsBeforeNext, TypeOK, Pacing, [Next]_vars
  PROVE  Pacing'
<1>1. /\ enabled \in SUBSET Groups /\ limits \in Limits /\ workers \in SUBSET Workers
      /\ history \in Histories /\ budget \in Budgets
  BY DEF TypeOK, Budgets
<1>2. limits.checked \in [Profiles -> Int] /\ history.asked \in [Profiles -> 0 .. Never]
      /\ history.any \in 0 .. Never
  BY <1>1 DEF Limits, Histories
<1>3. CASE Tick
  <2> SUFFICES ASSUME ClockSteady'
               PROVE  /\ Paced(enabled, limits', workers', history')
                      /\ \A x \in workers' : Patient(x)
    BY <1>3 DEF Tick, Pacing
  <2>1. ClockSteady /\ Paced(enabled, limits, workers, history)
        /\ \A x \in workers : Patient(x)
    BY <1>3 DEF Tick, ClockSteady, Pacing
  <2> DEFINE older == [p \in Profiles |-> Older(limits.checked[p])]
             waited == IF limits.inFlight = None THEN None
                       ELSE [limits.inFlight EXCEPT
                               !.elapsed = IF @ < Lost THEN @ + 1 ELSE @]
             u == [limits EXCEPT !.checked = older, !.inFlight = waited,
                                 !.lastProbe = Older(@)]
             w == {[x EXCEPT !.ran = @ + 1] : x \in workers}
             h == [history EXCEPT
                     !.asked = [p \in Profiles |-> Older(history.asked[p])],
                     !.any = Older(@)]
  <2>2. older \in [Profiles -> Int]
    BY <1>1, ConstantFacts DEF Limits
  <2>3. waited \in [profile : Profiles, elapsed : 0 .. Lost] \cup {None}
    BY <1>1, ConstantFacts DEF Limits
  <2>4. u \in Limits /\ u.inFlight = waited /\ u.checked = older
        /\ u.lastProbe = Older(limits.lastProbe)
    BY <1>1, <2>2, <2>3, ConstantFacts DEF Limits
  <2>5. w \in SUBSET Workers
    BY <1>1 DEF Workers
  <2>6. h \in Histories /\ h.any = Older(history.any)
        /\ h.forgotten = history.forgotten
        /\ \A p \in Profiles : h.asked[p] = Older(history.asked[p])
    BY <1>1, OlderHistory
  <2>7. ASSUME NEW x \in workers
        PROVE  LET y == [x EXCEPT !.ran = @ + 1] IN
               /\ y \in w /\ y.profile = x.profile /\ y.ran = x.ran + 1
               /\ y.since = x.since /\ y.manual = x.manual /\ y.gap = x.gap
               /\ y.forgot = x.forgot
               /\ x.ran \in Nat /\ x.ran < MaxRun[x.profile] /\ MaxRun[x.profile] \in Nat
    <3>1. x \in Workers
      BY <1>1
    <3>2. LET y == [x EXCEPT !.ran = @ + 1] IN
          /\ y.profile = x.profile /\ y.ran = x.ran + 1
          /\ y.since = x.since /\ y.manual = x.manual /\ y.gap = x.gap
          /\ y.forgot = x.forgot
      BY <3>1 DEF Workers
    <3>3. x.ran < MaxRun[x.profile]
      BY <1>3 DEF Tick, Running
    <3>4. x.ran \in Nat /\ MaxRun[x.profile] \in Nat
      BY <3>1, Constants DEF Workers
    <3>5. [x EXCEPT !.ran = @ + 1] \in w
      OBVIOUS
    <3> HIDE DEF w
    <3>6. QED BY <3>2, <3>3, <3>4, <3>5
  <2>8. \A y \in w : Patient(y)
    <3>1. ASSUME NEW x \in workers
          PROVE  Patient([x EXCEPT !.ran = @ + 1])
      <4>1. PICK y : y = [x EXCEPT !.ran = @ + 1]
        OBVIOUS
      <4>2. /\ y.since = x.since /\ y.manual = x.manual /\ y.gap = x.gap
            /\ y.forgot = x.forgot
        BY <2>7, <4>1
      <4>3. Patient(x)
        BY <2>1
      <4>4. QED BY <4>1, <4>2, <4>3 DEF Patient
    <3>2. QED BY <3>1
  <2>9. \A y \in w : Older(limits.lastProbe) <= y.ran /\ y.ran <= MaxRun[y.profile]
    <3>1. limits.lastProbe \in 0 .. Never
      BY <1>2, <2>1 DEF Paced
    <3>2. Older(limits.lastProbe) <= limits.lastProbe + 1
          /\ Older(limits.lastProbe) \in 0 .. Never
      BY <3>1, OlderFacts, ConstantFacts
    <3>3. \A x \in workers : limits.lastProbe <= x.ran
      BY <2>1 DEF Paced
    <3>4. Never \in Nat
      BY ConstantFacts
    <3>5. ASSUME NEW x \in workers
          PROVE  LET y == [x EXCEPT !.ran = @ + 1] IN
                 Older(limits.lastProbe) <= y.ran /\ y.ran <= MaxRun[y.profile]
      <4>1. limits.lastProbe <= x.ran /\ x.ran \in Nat /\ x.ran < MaxRun[x.profile]
            /\ MaxRun[x.profile] \in Nat
        BY <2>7, <3>3
      <4>2. Older(limits.lastProbe) <= x.ran + 1 /\ x.ran + 1 <= MaxRun[x.profile]
        BY <3>1, <3>2, <3>4, <4>1
      <4>3. QED BY <2>7, <4>2
    <3>6. QED BY <3>5
  <2>10. ASSUME NEW p \in Profiles, Open(p, limits, workers, history)
         PROVE  Open(p, u, w, h)
    <3>1. PICK x \in workers :
            /\ x.profile = p /\ x.ran = history.asked[p]
            /\ x.ran >= Lost \/ limits.inFlight = [profile |-> p, elapsed |-> x.ran]
      BY <2>10 DEF Open
    <3> DEFINE y == [x EXCEPT !.ran = @ + 1]
    <3>2. /\ y \in w /\ y.profile = p /\ y.ran = x.ran + 1 /\ x.ran \in Nat
          /\ x.ran < MaxRun[p] /\ MaxRun[p] \in Nat
      BY <2>7, <3>1
    <3> HIDE DEF y
    <3>3. x.ran < MaxAge /\ Lost \in Nat /\ Never \in Nat
      BY <3>2, Constants DEF EndsBeforeNext, Never
    <3>4. y.ran = h.asked[p]
      BY <1>2, <2>6, <3>1, <3>2, <3>3, OlderFacts
    <3>5. y.ran >= Lost \/ waited = [profile |-> p, elapsed |-> y.ran]
      <4>1. CASE x.ran < Lost
        <5>1. limits.inFlight = [profile |-> p, elapsed |-> x.ran]
          BY <3>1, <3>2, <3>3, <4>1
        <5>2. limits.inFlight # None
          BY <3>2, <3>3, <4>1, <5>1, Constants
        <5>3. QED BY <3>2, <4>1, <5>1, <5>2
      <4>2. CASE x.ran >= Lost
        BY <3>2, <3>3, <4>2
      <4>3. QED BY <3>2, <3>3, <4>1, <4>2
    <3>6. QED BY <2>4, <3>2, <3>4, <3>5 DEF Open
  <2>11. ASSUME NEW p \in Profiles
         PROVE  /\ u.checked[p] \in 0 .. Never
                /\ \/ u.checked[p] <= h.asked[p] \/ p \in h.forgotten
                   \/ p \in Showing(enabled) /\ Open(p, u, w, h)
    <3>1. /\ limits.checked[p] \in 0 .. Never
          /\ \/ limits.checked[p] <= history.asked[p] \/ p \in history.forgotten
             \/ p \in Showing(enabled) /\ Open(p, limits, workers, history)
      BY <2>1 DEF Paced
    <3>2. u.checked[p] = Older(limits.checked[p]) /\ h.asked[p] = Older(history.asked[p])
      BY <2>4, <2>6
    <3>3. h.forgotten = history.forgotten
      BY <2>6
    <3>4. limits.checked[p] <= history.asked[p] => u.checked[p] <= h.asked[p]
      BY <1>2, <3>1, <3>2, OlderFacts
    <3>5. u.checked[p] \in 0 .. Never
      BY <3>1, <3>2, ConstantFacts
    <3> HIDE DEF u, w, h
    <3>6. QED BY <2>10, <3>1, <3>3, <3>4, <3>5
  <2>12. Pump(enabled, u, w, h)
    BY <1>3 DEF Tick
  <2> HIDE DEF older, waited, u, w, h
  <2>13. Paced(enabled, u, w, h)
    BY <2>1, <2>4, <2>6, <2>9, <2>11 DEF Paced
  <2>14. QED BY <1>1, <2>4, <2>5, <2>6, <2>8, <2>12, <2>13, PumpPaces
<1>4. ASSUME NEW P \in SUBSET Profiles, Refresh(P)
      PROVE  Pacing'
  <2> SUFFICES ASSUME ClockSteady'
               PROVE  /\ Paced(enabled, limits', workers', history')
                      /\ \A x \in workers' : Patient(x)
    BY <1>4 DEF Refresh, Pacing
  <2>1. Paced(enabled, limits, workers, history) /\ \A x \in workers : Patient(x)
    BY <1>1, <1>4 DEF Refresh, Spend, ClockSteady, Pacing, Budgets
  <2> DEFINE u == [limits EXCEPT !.forced = @ \cup (P \cap Showing(enabled))]
  <2>2. u \in Limits /\ u.inFlight = limits.inFlight /\ u.checked = limits.checked
        /\ u.lastProbe = limits.lastProbe
    BY <1>1 DEF Limits
  <2>3. Pump(enabled, u, workers, history)
    BY <1>4 DEF Refresh
  <2> HIDE DEF u
  <2>4. Paced(enabled, u, workers, history)
    BY <2>1, <2>2 DEF Paced, Open
  <2>5. QED BY <1>1, <2>1, <2>2, <2>3, <2>4, PumpPaces
<1>5. ASSUME NEW g \in Groups, Toggle(g)
      PROVE  Pacing'
  <2> SUFFICES ASSUME ClockSteady'
               PROVE  /\ Paced(enabled', limits', workers', history')
                      /\ \A x \in workers' : Patient(x)
    BY DEF Pacing
  <2>1. Paced(enabled, limits, workers, history) /\ \A x \in workers : Patient(x)
    BY <1>1, <1>5 DEF Toggle, Spend, ClockSteady, Pacing, Budgets
  <2>2. PICK E \in SUBSET Groups : E = enabled' /\ E = (enabled \ {g}) \cup ({g} \ enabled)
    BY <1>1, <1>5 DEF Toggle
  <2>3. CASE g \in enabled
    <3> DEFINE cleared == [p \in Profiles |->
                             IF p \in Members(g) THEN Never ELSE limits.checked[p]]
               u == [limits EXCEPT !.numbers = @ \ Members(g), !.checked = cleared]
               h == [history EXCEPT !.forgotten = @ \cup Members(g)]
    <3>1. cleared \in [Profiles -> Int]
      BY <1>1, LimitsParts, ConstantFacts
    <3>2. /\ u \in Limits /\ u.inFlight = limits.inFlight /\ u.checked = cleared
          /\ u.lastProbe = limits.lastProbe
      BY <1>1, <3>1 DEF Limits, Members
    <3>3. h \in Histories /\ h.any = history.any /\ h.asked = history.asked
          /\ h.forgotten = history.forgotten \cup Members(g)
      BY <1>1, HistoryParts DEF Members
    <3>4. Pump(E, u, workers, h)
      BY <1>5, <2>2, <2>3 DEF Toggle
    <3>5. ASSUME NEW p \in Profiles
          PROVE  /\ u.checked[p] \in 0 .. Never
                 /\ \/ u.checked[p] <= h.asked[p] \/ p \in h.forgotten
                    \/ p \in Showing(E) /\ Open(p, u, workers, h)
      <4>1. CASE p \in Members(g)
        BY <3>2, <3>3, <4>1, ConstantFacts
      <4>2. CASE p \notin Members(g)
        <5>1. p \in Showing(enabled) => p \in Showing(E)
          BY <2>2, <4>2 DEF Showing, Members
        <5>2. QED BY <2>1, <3>2, <3>3, <4>2, <5>1 DEF Paced, Open
      <4>3. QED BY <4>1, <4>2
    <3> HIDE DEF cleared, u, h
    <3>6. Paced(E, u, workers, h)
      BY <2>1, <3>2, <3>3, <3>5 DEF Paced
    <3>7. Paced(E, limits', workers', history') /\ \A x \in workers' : Patient(x)
      BY <1>1, <2>1, <3>2, <3>3, <3>4, <3>6, PumpPaces
    <3>8. QED BY <2>2, <3>7 DEF Paced, Showing
  <2>4. CASE g \notin enabled
    <3> DEFINE u == [limits EXCEPT !.forced = @ \cup Members(g)]
    <3>1. u \in Limits /\ u.inFlight = limits.inFlight /\ u.checked = limits.checked
          /\ u.lastProbe = limits.lastProbe
      BY <1>1 DEF Limits, Members
    <3>2. Pump(E, u, workers, history)
      BY <1>5, <2>2, <2>4 DEF Toggle
    <3> HIDE DEF u
    <3>3. \A p \in Showing(enabled) : p \in Showing(E)
      BY <2>2, <2>4 DEF Showing
    <3>4. Paced(E, u, workers, history)
      BY <2>1, <3>1, <3>3 DEF Paced, Open
    <3>5. Paced(E, limits', workers', history') /\ \A x \in workers' : Patient(x)
      BY <1>1, <2>1, <3>1, <3>2, <3>4, PumpPaces
    <3>6. QED BY <2>2, <3>5 DEF Paced, Showing
  <2>5. QED BY <2>3, <2>4
<1>6. ASSUME NEW w \in workers, Finish(w)
      PROVE  Pacing'
  <2> SUFFICES ASSUME ClockSteady'
               PROVE  /\ Paced(enabled, limits', workers', history')
                      /\ \A x \in workers' : Patient(x)
    BY <1>6 DEF Finish, Pacing
  <2>1. Paced(enabled, limits, workers, history) /\ \A x \in workers : Patient(x)
    BY <1>6 DEF Finish, ClockSteady, Pacing
  <2> DEFINE here == limits.inFlight # None /\ limits.inFlight.profile = w.profile
             u == [limits EXCEPT !.inFlight = IF here THEN None ELSE @]
  <2>2. u.checked = limits.checked /\ u.lastProbe = limits.lastProbe /\ u \in Limits
        /\ u.inFlight = IF here THEN None ELSE limits.inFlight
    BY <1>1 DEF Limits
  <2>3. workers' = workers \ {w} /\ limits' \in Recorded(u, w.profile)
    BY <1>6 DEF Finish
  <2> HIDE DEF u
  <2>4. /\ limits'.lastProbe = limits.lastProbe /\ limits'.inFlight = u.inFlight
        /\ limits'.checked = IF w.profile \in Showing(enabled)
                             THEN [limits.checked EXCEPT ![w.profile] = 0]
                             ELSE limits.checked
    BY <2>2, <2>3 DEF Recorded, Limits
  <2>5. /\ history'.asked = history.asked /\ history'.any = history.any
        /\ history'.forgotten = history.forgotten \ ({w.profile} \cap Showing(enabled))
    BY <1>1, <1>6, HistoryParts DEF Finish
  <2>6. ASSUME NEW p \in Profiles
        PROVE  /\ limits'.checked[p] \in 0 .. Never
               /\ \/ limits'.checked[p] <= history'.asked[p] \/ p \in history'.forgotten
                  \/ p \in Showing(enabled) /\ Open(p, limits', workers', history')
    <3>1. /\ limits.checked[p] \in 0 .. Never
          /\ \/ limits.checked[p] <= history.asked[p] \/ p \in history.forgotten
             \/ p \in Showing(enabled) /\ Open(p, limits, workers, history)
      BY <2>1 DEF Paced
    <3>2. CASE p = w.profile /\ p \in Showing(enabled)
      BY <1>2, <2>4, <2>5, <3>2, ConstantFacts
    <3>3. CASE p \notin Showing(enabled)
      BY <1>2, <2>4, <2>5, <3>1, <3>3
    <3>4. CASE p # w.profile
      <4>1. limits'.checked[p] = limits.checked[p]
        BY <1>2, <2>4, <3>4
      <4>2. Open(p, limits, workers, history) => Open(p, limits', workers', history')
        <5> SUFFICES ASSUME Open(p, limits, workers, history)
                     PROVE  Open(p, limits', workers', history')
          OBVIOUS
        <5>1. PICK x \in workers :
                /\ x.profile = p /\ x.ran = history.asked[p]
                /\ x.ran >= Lost \/ limits.inFlight = [profile |-> p, elapsed |-> x.ran]
          BY DEF Open
        <5>2. x \in workers'
          BY <2>3, <3>4, <5>1
        <5>3. limits.inFlight = [profile |-> p, elapsed |-> x.ran]
                => limits'.inFlight = [profile |-> p, elapsed |-> x.ran]
          BY <2>2, <2>4, <3>4
        <5>4. QED BY <2>5, <5>1, <5>2, <5>3 DEF Open
      <4>3. QED BY <2>5, <3>1, <3>4, <4>1, <4>2
    <3>5. QED BY <3>2, <3>3, <3>4
  <2>7. QED BY <2>1, <2>3, <2>4, <2>6, <2>5 DEF Paced
<1>7. CASE Restart
  <2> SUFFICES ASSUME ClockSteady'
               PROVE  /\ Paced(enabled, limits', workers', history')
                      /\ \A x \in workers' : Patient(x)
    BY <1>7 DEF Restart, Pacing
  <2>1. Paced(enabled, limits, workers, history)
    BY <1>1, <1>7 DEF Restart, Spend, ClockSteady, Pacing, Budgets
  <2>2. /\ limits'.checked = limits.checked /\ limits'.lastProbe = Never /\ workers' = {}
        /\ history'.any = Never
    BY <1>1, <1>7 DEF Restart, Limits, Histories
  <2>3. history'.asked = history.asked
        /\ history'.forgotten = history.forgotten \cup {w.profile : w \in workers}
    BY <1>1, <1>7 DEF Restart, Histories
  <2>4. ASSUME NEW p \in Profiles
        PROVE  /\ limits'.checked[p] \in 0 .. Never
               /\ limits'.checked[p] <= history'.asked[p] \/ p \in history'.forgotten
    <3>1. /\ limits.checked[p] \in 0 .. Never
          /\ \/ limits.checked[p] <= history.asked[p] \/ p \in history.forgotten
             \/ \E w \in workers : w.profile = p
      BY <2>1 DEF Paced, Open
    <3>2. (\E w \in workers : w.profile = p) => p \in history'.forgotten
      BY <2>3
    <3>3. QED BY <2>2, <2>3, <3>1, <3>2
  <2>5. QED BY <2>2, <2>4 DEF Paced
<1>8. ASSUME NEW d \in SetBacks, SetClockBack(d)
      PROVE  Pacing'
  BY <1>1, <1>8 DEF SetClockBack, Spend, ClockSteady, Pacing, Budgets
<1>9. CASE UNCHANGED vars
  BY <1>9 DEF vars, Pacing, ClockSteady, Paced, Open, Showing
<1>10. QED
  BY <1>3, <1>4, <1>5, <1>6, <1>7, <1>8, <1>9 DEF Next

LEMMA Paces ==
  ASSUME EndsBeforeNext
  PROVE  Spec => []Pacing
<1>1. Init => Pacing
  <2> SUFFICES ASSUME Init PROVE Pacing
    OBVIOUS
  <2>1. /\ limits.lastProbe = Never /\ history.any = Never /\ workers = {}
        /\ \A p \in Profiles : limits.checked[p] = Never /\ history.asked[p] = Never
    BY DEF Init
  <2>2. QED BY <2>1, ConstantFacts DEF Pacing, Paced
<1>2. TypeOK /\ Pacing /\ [Next]_vars => Pacing'
  BY PacingStep
<1>3. QED BY <1>1, <1>2, TypeCorrect, PTL DEF Spec

\* usage_limits.hpp:6-7 and USER_GUIDE.md:130: an account is asked once an hour,
\* or every 20 seconds on request, whatever becomes of the answers: also a helper
\* given up for lost has ended before its account's turn comes again.  Only a
\* question whose record was lost, as the group was switched off or AppDeck quit,
\* may be followed by one that comes sooner.
THEOREM AccountsStaySpared ==
  ASSUME EndsBeforeNext
  PROVE  Spec => []AccountsAreSpared
<1>1. Pacing => AccountsAreSpared
  BY DEF Pacing, AccountsAreSpared, Patient
<1>2. QED BY <1>1, Paces, PTL

\* USER_GUIDE.md:130: no automatic probe follows another within five minutes.
THEOREM ProbesAreSpaced ==
  ASSUME EndsBeforeNext
  PROVE  Spec => []AutomaticallySpaced
<1>1. Pacing => AutomaticallySpaced
  BY DEF Pacing, AutomaticallySpaced, Patient
<1>2. QED BY <1>1, Paces, PTL

=============================================================================
