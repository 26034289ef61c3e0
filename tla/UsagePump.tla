----------------------------- MODULE UsagePump -----------------------------
(***************************************************************************)
(* Account limits (usage_limits.hpp, usage_policy.hpp): AppDeck asks the   *)
(* accounts of the groups that agreed to it, by helper processes, each on  *)
(* a worker thread that answers on the main thread.                        *)
(*                                                                         *)
(* Time is counted in ticks.  The code compares wall-clock stamps; the     *)
(* model keeps their ages, so a clock set back makes an age smaller, or    *)
(* negative.  The age of a stamp that was never set is Never.              *)
(***************************************************************************)
EXTENDS Integers, FiniteSets

CONSTANTS
  Profiles, Rank,      \* the profiles and their order in the list
  Groups, GroupOf,     \* the groups of profiles that are switched together
  None,
  ManualFloor,         \* usageManualFloor
  Lost,                \* usageProbeTimeout + 15: a worker is taken for lost
  Spacing,             \* usageSpacing
  Interval,            \* usageInterval
  MaxRun,              \* MaxRun[p]: the longest a helper of p may run
  MaxAge,              \* bound on ages, for model checking
  MaxRequests,         \* bound on what the user asks for
  MaxRestarts,         \* bound on restarts of AppDeck
  SetBacks             \* by how much the user may set the clock back, once

ASSUME Constants ==
  /\ IsFiniteSet(Profiles) /\ Rank \in [Profiles -> Nat]
  /\ \A p, q \in Profiles : Rank[p] = Rank[q] => p = q
  /\ GroupOf \in [Profiles -> Groups]
  /\ MaxRun \in [Profiles -> Nat]
  /\ {ManualFloor, Lost, Spacing, Interval, MaxAge} \subseteq Nat \ {0}
  /\ ManualFloor < Lost /\ Lost < Spacing /\ Spacing < Interval
  /\ Interval < MaxAge
  /\ {MaxRequests, MaxRestarts} \subseteq Nat /\ SetBacks \subseteq Nat
  /\ None \notin [profile : Profiles, elapsed : 0 .. Lost]

VARIABLES
  enabled,  \* the groups whose limits are shown
  limits,   \* the cached records and the probe in flight (see Init)
  workers,  \* the helper processes that run
  history,  \* how long ago each account was asked, and any account by this
            \* run of AppDeck, and the accounts of whose last question
            \* AppDeck has lost the record; not kept by the code
  budget    \* what the bounds of model checking leave

vars == <<enabled, limits, workers, history, budget>>

Never == MaxAge + 1

Older(age) == IF age < MaxAge THEN age + 1 ELSE age

UsageDue(age) == age < 0 \/ age >= Interval

UsageSpaced(age) == age < 0 \/ age >= Spacing

UsageManualAllowed(age) == age < 0 \/ age >= ManualFloor

Members(g) == {p \in Profiles : GroupOf[p] = g}

Showing(E) == {p \in Profiles : GroupOf[p] \in E}

Init ==
  /\ enabled \in SUBSET Groups
  /\ limits = [checked |-> [p \in Profiles |-> Never],  \* age of `checked`
               numbers |-> {},        \* profiles whose record has windows
               inFlight |-> None,     \* usageInFlight and usageStarted
               forced |-> {},         \* usageForced
               lastProbe |-> Never]   \* age of usageLastProbe
  /\ workers = {}
  /\ history = [asked |-> [p \in Profiles |-> Never], any |-> Never,
                forgotten |-> {}]
  /\ budget = [requests |-> MaxRequests, restarts |-> MaxRestarts, back |-> 1]

-----------------------------------------------------------------------------
(* The pump, which runs last in every handler: E, u, w and h are the groups *)
(* shown, the limits, the workers and the history the handler leaves.       *)

WaitsForAnswer(u) == u.inFlight # None /\ u.inFlight.elapsed < Lost

Due(E, u) ==
  {p \in Showing(E) :
     IF p \in u.forced THEN UsageManualAllowed(u.checked[p])
     ELSE UsageDue(u.checked[p]) /\ UsageSpaced(u.lastProbe)}

Overdue(u, p) == u.checked[p] + IF p \in u.forced THEN 2 * Never ELSE 0

\* The most overdue of the profiles that are due, the first of the list
\* among equals; the search starts from the age -1.
Best(E, u) ==
  {p \in Due(E, u) :
     /\ Overdue(u, p) > -1
     /\ \A q \in Due(E, u) \ {p} :
          \/ Overdue(u, q) < Overdue(u, p)
          \/ Overdue(u, q) = Overdue(u, p) /\ Rank[p] < Rank[q]}

\* A queued profile that was asked a moment ago keeps that answer.
Queued(E, u) == {p \in u.forced : p \notin Showing(E) \/ p \in Due(E, u)}

\* The history once p was asked, or refused, and AppDeck has that on record.
Asked(h, p, any) ==
  [asked |-> [h.asked EXCEPT ![p] = 0], any |-> any,
   forgotten |-> h.forgotten \ {p}]

\* Mutant: a manual probe leaves usageLastProbe.
StartUncountedMutant(p, u, w, h) ==
  /\ limits' = [u EXCEPT !.inFlight = [profile |-> p, elapsed |-> 0],
                         !.forced = @ \ {p},
                         !.lastProbe = IF p \in u.forced THEN @ ELSE 0]
  /\ workers' = w \cup {[profile |-> p, ran |-> 0, manual |-> p \in u.forced,
                         since |-> h.asked[p], gap |-> h.any,
                         forgot |-> p \in h.forgotten]}
  /\ history' = Asked(h, p, 0)

\* usageStart: a helper runs, and `checked` is left to its answer ...
Start(p, u, w, h) ==
  /\ limits' = [u EXCEPT !.inFlight = [profile |-> p, elapsed |-> 0],
                         !.forced = @ \ {p}, !.lastProbe = 0]
  /\ workers' = w \cup {[profile |-> p, ran |-> 0, manual |-> p \in u.forced,
                         since |-> h.asked[p], gap |-> h.any,
                         forgot |-> p \in h.forgotten]}
  /\ history' = Asked(h, p, 0)

\* ... or there is nothing to run, or no proxy to run it behind.
Refuse(p, u, w, h) ==
  /\ \E kept \in {u.numbers, u.numbers \ {p}} :
       limits' = [u EXCEPT !.forced = @ \ {p}, !.checked[p] = 0,
                           !.numbers = kept]
  /\ workers' = w
  /\ history' = Asked(h, p, h.any)

Pump(E, u, w, h) ==
  LET v == [u EXCEPT !.inFlight = None, !.forced = Queued(E, u)] IN
  IF WaitsForAnswer(u)
  THEN limits' = u /\ workers' = w /\ history' = h
  ELSE IF Best(E, u) = {}
  THEN limits' = v /\ workers' = w /\ history' = h
  ELSE \E p \in Best(E, u) : Start(p, v, w, h) \/ Refuse(p, v, w, h)

-----------------------------------------------------------------------------
\* A helper is still asked, or waited for: each exchange and the wait for its
\* end have a deadline.
Running(w) == w.ran < MaxRun[w.profile]

\* The 2-second timer; a helper that has run its time answers first.
Tick ==
  /\ \A w \in workers : Running(w)
  /\ LET older == [p \in Profiles |-> Older(limits.checked[p])]
         waited == IF limits.inFlight = None THEN None
                   ELSE [limits.inFlight EXCEPT
                           !.elapsed = IF @ < Lost THEN @ + 1 ELSE @]
     IN  Pump(enabled,
              [limits EXCEPT !.checked = older, !.inFlight = waited,
                             !.lastProbe = Older(@)],
              {[w EXCEPT !.ran = @ + 1] : w \in workers},
              [history EXCEPT
                 !.asked = [p \in Profiles |-> Older(history.asked[p])],
                 !.any = Older(@)])
  /\ UNCHANGED <<enabled, budget>>

Spend(what) == budget[what] > 0 /\ budget' = [budget EXCEPT ![what] = @ - 1]

\* Limits of one profile, or of all.
Refresh(P) ==
  /\ Spend("requests")
  /\ Pump(enabled, [limits EXCEPT !.forced = @ \cup (P \cap Showing(enabled))],
          workers, history)
  /\ UNCHANGED enabled

\* Switching a group on asks for its limits, switching it off forgets them,
\* and with them when its accounts were asked.
Toggle(g) ==
  /\ Spend("requests")
  /\ enabled' = (enabled \ {g}) \cup ({g} \ enabled)
  /\ IF g \in enabled
     THEN Pump(enabled',
               [limits EXCEPT !.numbers = @ \ Members(g),
                  !.checked = [p \in Profiles |->
                                 IF p \in Members(g) THEN Never ELSE @[p]]],
               workers,
               [history EXCEPT !.forgotten = @ \cup Members(g)])
     ELSE Pump(enabled', [limits EXCEPT !.forced = @ \cup Members(g)],
               workers, history)

\* The numbers on a card after an answer with windows, an answer without
\* them, and an answer that the account is gone.
Answers(n, p) == {n \cup {p}, n, n \ {p}}

\* Mutants: a failure is not a check; an answer needs no consent.
RecordedFailureMutant(u, p) ==
  IF p \in Showing(enabled)
  THEN {u, [u EXCEPT !.checked[p] = 0, !.numbers = @ \cup {p}]}
  ELSE {u}

RecordedAlwaysMutant(u, p) ==
  {[u EXCEPT !.checked[p] = 0, !.numbers = n] : n \in Answers(u.numbers, p)}

Recorded(u, p) ==
  IF p \in Showing(enabled)
  THEN {[u EXCEPT !.checked[p] = 0, !.numbers = n] :
          n \in Answers(u.numbers, p)}
  ELSE {u}

\* usageFinished: the answer of the helper w, on the main thread.
Finish(w) ==
  /\ workers' = workers \ {w}
  /\ LET here == limits.inFlight # None /\ limits.inFlight.profile = w.profile
     IN  limits' \in
           Recorded([limits EXCEPT !.inFlight = IF here THEN None ELSE @],
                    w.profile)
  /\ history' = [history EXCEPT !.forgotten = @ \ ({w.profile} \cap Showing(enabled))]
  /\ UNCHANGED <<enabled, budget>>

\* AppDeck quits and starts again: the records were saved, the rest was not,
\* and a helper leaves when its input closes.
Restart ==
  /\ Spend("restarts")
  /\ limits' = [limits EXCEPT !.inFlight = None, !.forced = {},
                              !.lastProbe = Never]
  /\ workers' = {}
  /\ history' = [history EXCEPT !.any = Never,
                    !.forgotten = @ \cup {w.profile : w \in workers}]
  /\ UNCHANGED enabled

SetBack(age, d) == IF age = Never THEN Never ELSE age - d

\* The user sets the clock back by d.
SetClockBack(d) ==
  /\ Spend("back")
  /\ limits' = [limits EXCEPT
       !.checked = [p \in Profiles |-> SetBack(@[p], d)],
       !.lastProbe = SetBack(@, d)]
  /\ UNCHANGED <<enabled, workers, history>>

Next ==
  \/ Tick
  \/ \E p \in Profiles : Refresh({p})
  \/ Refresh(Profiles)
  \/ \E g \in Groups : Toggle(g)
  \/ \E w \in workers : Finish(w)
  \/ Restart
  \/ \E d \in SetBacks : SetClockBack(d)

Spec == Init /\ [][Next]_vars

-----------------------------------------------------------------------------
(* Properties.                                                              *)

Limits ==
  [checked : [Profiles -> Int], numbers : SUBSET Profiles,
   inFlight : [profile : Profiles, elapsed : 0 .. Lost] \cup {None},
   forced : SUBSET Profiles, lastProbe : Int]

Workers ==
  [profile : Profiles, ran : Nat, manual : BOOLEAN, since : 0 .. Never,
   gap : 0 .. Never, forgot : BOOLEAN]

Histories ==
  [asked : [Profiles -> 0 .. Never], any : 0 .. Never, forgotten : SUBSET Profiles]

\* Every variable has its type, and the probe in flight and the helpers are
\* of profiles of the list (usage_limits.hpp:11-16).
TypeOK ==
  /\ enabled \subseteq Groups
  /\ limits \in Limits
  /\ workers \subseteq Workers
  /\ history \in Histories
  /\ budget \in [requests : 0 .. MaxRequests, restarts : 0 .. MaxRestarts, back : 0 .. 1]

\* usage_limits.hpp:6, "one probe at a time": a probe is started only when no
\* helper of an earlier one runs, also after the earlier was given up.
OneProbeAtATime == Cardinality(workers) <= 1

\* The age of a stamp is the time that passed: nobody set the clock back.
ClockSteady == budget.back = 1

\* usage_limits.hpp:6-7, "an account at most once an hour", and USER_GUIDE.md:130,
\* "at most once every 20 seconds per account": while the clock is steady, an
\* account is not asked when it was asked less than that ago, for whatever reason,
\* with whatever outcome, and by whatever run of AppDeck, with two exceptions:
\* AppDeck quit before the answer, or the group was switched off after that
\* question (main.cpp:1168 erases its time, :1172 asks again at once, which the
\* guide does not say).  Each of them excuses one question, and an answer that
\* is recorded ends it.
AccountsAreSpared ==
  ClockSteady =>
    \A w \in workers :
      w.forgot \/ w.since >= IF w.manual THEN ManualFloor ELSE Interval

\* USER_GUIDE.md:130, "at least five minutes between two automatic checks of
\* any profiles": while the clock is steady, no automatic probe follows any probe
\* of the same run of AppDeck more closely.
AutomaticallySpaced ==
  ClockSteady => \A w \in workers : w.manual \/ w.gap >= Spacing

\* Numbers are kept only while their group agrees to it: the late answer of a
\* helper started before the group was switched off brings nothing back.
NoNumbersWithoutConsent == limits.numbers \subseteq Showing(enabled)
=============================================================================
