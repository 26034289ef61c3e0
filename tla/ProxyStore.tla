----------------------------- MODULE ProxyStore -----------------------------
(***************************************************************************)
(* The list of proxies and who uses it (proxy_store.hpp, proxy_views.hpp,  *)
(* the choice of a profile in main.cpp): proxies.plist beside state.plist, *)
(* checks on worker threads, the bridges of limit probes, and the choice   *)
(* of a proxy or a direct connection for a window or a probe.              *)
(*                                                                         *)
(* Handlers run to their end on the main thread; a worker's result comes   *)
(* back later.  A handler that saves both files may stop between them.     *)
(***************************************************************************)
EXTENDS Naturals, FiniteSets

CONSTANTS
  Proxies,     \* ids, never used twice
  Profiles,
  Configs,     \* scheme, addresses and login of a proxy
  None,
  MaxChanges,  \* bound on edits of the list and of the choices
  MaxDamage,   \* bound on damage done to proxies.plist
  MaxFailures  \* bound on saves that fail or are not reached

ASSUME StoreConstants ==
  /\ None \notin Proxies \cup Configs \cup {"direct", "proxy"}
  /\ Proxies \cap {"default", "none"} = {}
  /\ {MaxChanges, MaxDamage, MaxFailures} \subseteq Nat

VARIABLES
  list,      \* proxies in memory: configuration, revision, last check; or None
  file,      \* the entries of proxies.plist
  damage,    \* entries of the file that cannot be read
  damaged,   \* proxiesDamaged: something could not be read at the start
  memory,    \* defaultProxy, and choice and proxyRequired of every profile
  saved,     \* ... in state.plist
  checks,    \* checks under way
  probe,     \* probe[x]: what the probe bridge of x serves, or None
  way,       \* way[p]: how p's window was started, or None
  asked,     \* asked[p]: how this AppDeck last asked the limits of p, or None
  ids,       \* ids used, and ids written to the file and not removed
  budget

storeVars ==
  <<list, file, damage, damaged, memory, saved, checks, probe, way, asked, ids,
    budget>>

Choices == {"default", "none"} \cup Proxies

Entry == [config : Configs, rev : 0 .. MaxChanges, check : Configs \cup {None}]

ASSUME NoneIsNoEntry == None \notin Entry

Settings ==
  [default : Proxies \cup {None}, choice : [Profiles -> Choices],
   required : [Profiles -> BOOLEAN]]

StoreInit ==
  /\ list = [x \in Proxies |-> None] /\ file = list
  /\ damage = {} /\ damaged = FALSE
  /\ memory = [default |-> None, choice |-> [p \in Profiles |-> "default"],
               required |-> [p \in Profiles |-> FALSE]]
  /\ saved = memory
  /\ checks = {}
  /\ probe = [x \in Proxies |-> None]
  /\ way = [p \in Profiles |-> None] /\ asked = way
  /\ ids = [used |-> {}, kept |-> {}]
  /\ budget = [changes |-> 0, damage |-> 0, failures |-> 0]

Known == {x \in Proxies : list[x] # None}

-----------------------------------------------------------------------------
(* Choosing.                                                                *)

ById(x) == IF x \in Known THEN x ELSE None

\* The proxy p uses, or None.
For(p) ==
  IF memory.choice[p] = "none" THEN None
  ELSE IF memory.choice[p] = "default" THEN ById(memory.default)
  ELSE ById(memory.choice[p])

\* The proxy p names, read or not.
Named(p) ==
  IF memory.choice[p] = "none" THEN None
  ELSE IF memory.choice[p] = "default" THEN memory.default
  ELSE memory.choice[p]

\* Mutant: the default is not looked at.
UnresolvedMutant(p) == memory.choice[p] \in Proxies /\ ById(memory.choice[p]) = None

Unresolved(p) == Named(p) # None /\ ById(Named(p)) = None

Blocked(p) ==
  \/ memory.required[p] /\ For(p) = None
  \/ damaged /\ Unresolved(p)

Way(x) == IF x = None THEN "direct" ELSE "proxy"

-----------------------------------------------------------------------------
(* Saving.                                                                  *)

\* Mutant: a file that could not be read is overwritten.
StoredMutant(l, k) ==
  /\ file' = l /\ damage' = {}
  /\ ids' = [ids EXCEPT !.used = @ \cup k, !.kept = k]

\* proxySave of l by a handler whose user keeps the proxies in k: a file that
\* could not be read is not overwritten, and a write may fail.
Stored(l, k) ==
  \/ /\ ~damaged /\ file' = l /\ damage' = {}
     /\ ids' = [ids EXCEPT !.used = @ \cup k, !.kept = k]
  \/ /\ damaged \/ budget'.failures > budget.failures
     /\ UNCHANGED <<file, damage>>
     /\ ids' = [ids EXCEPT !.used = @ \cup k, !.kept = @ \cap k]

\* save of the settings.
Recorded == saved' = memory' \/ (budget'.failures > budget.failures /\ saved' = saved)

Changing ==
  /\ budget.changes < MaxChanges
  /\ \E f \in {budget.failures, budget.failures + 1} :
       /\ f <= MaxFailures
       /\ budget' = [budget EXCEPT !.changes = @ + 1, !.failures = f]

-----------------------------------------------------------------------------
(* The editor and the menus.                                                *)

\* Mutant: the probe bridge goes on with the old addresses.
EditedMutant(x, c) ==
  /\ Changing
  /\ list' = [list EXCEPT ![x] = [config |-> c, rev |-> budget.changes, check |-> None]]
  /\ Stored(list', Known \cup ids.kept \cup {x})
  /\ UNCHANGED <<damaged, memory, saved, checks, probe, way, asked>>

\* A saved edit has a new revision and no check, and ends the probe bridge.
Edited(x, c) ==
  /\ Changing
  /\ list' = [list EXCEPT ![x] = [config |-> c, rev |-> budget.changes, check |-> None]]
  /\ probe' = [probe EXCEPT ![x] = None]
  /\ Stored(list', Known \cup ids.kept \cup {x})
  /\ UNCHANGED <<damaged, memory, saved, checks, way, asked>>

Edit(x, c) == x \in Known /\ Edited(x, c)

Add(x, c) == x \notin ids.used /\ Edited(x, c)

Remove(x) ==
  /\ x \in Known /\ Changing
  /\ memory' = [memory EXCEPT
       !.default = IF @ = x THEN None ELSE @,
       !.choice = [p \in Profiles |-> IF @[p] = x THEN "default" ELSE @[p]]]
  /\ probe' = [probe EXCEPT ![x] = None]
  /\ list' = [list EXCEPT ![x] = None]
  /\ Stored(list', (Known \cup ids.kept) \ {x})
  /\ Recorded
  /\ UNCHANGED <<damaged, checks, way, asked>>

Set(settings) ==
  /\ Changing
  /\ memory' = settings /\ Recorded
  /\ UNCHANGED <<list, file, damage, damaged, checks, probe, way, asked, ids>>

PickDefault(x) ==
  /\ x \in Known \cup {None} /\ x # memory.default
  /\ Set([memory EXCEPT !.default = x])

Choose(p, c) ==
  /\ c \in Known \cup {"default", "none"} /\ c # memory.choice[p]
  /\ Set([memory EXCEPT !.choice[p] = c])

\* The dialog of a Claude profile, whose window is closed: a required proxy
\* is one of the list.
Configure(p, c, required) ==
  /\ way[p] = None
  /\ c \in Known \cup {"default", "none", memory.choice[p]}
  /\ required => (IF c = "default" THEN ById(memory.default) ELSE ById(c)) # None
  /\ required # memory.required[p]
  /\ Set([memory EXCEPT !.choice[p] = c, !.required[p] = required])

-----------------------------------------------------------------------------
(* Checks.                                                                  *)

\* One at a time per proxy; the worker takes the configuration along.
Check(x) ==
  /\ x \in Known /\ ~\E w \in checks : w.id = x
  /\ checks' = checks \cup {[id |-> x, rev |-> list[x].rev, config |-> list[x].config]}
  /\ UNCHANGED <<list, file, damage, damaged, memory, saved, probe, way, asked, ids, budget>>

\* Mutant: the revision is not compared.
AppliesMutant(w) == w.id \in Known

\* Removed or edited meanwhile: the result is for other addresses.
Applies(w) == w.id \in Known /\ list[w.id].rev = w.rev

CheckFinished(w) ==
  /\ w \in checks /\ checks' = checks \ {w}
  /\ IF Applies(w)
     THEN /\ list' = [list EXCEPT ![w.id].check = w.config]
          /\ \E f \in {budget.failures, budget.failures + 1} :
               f <= MaxFailures /\ budget' = [budget EXCEPT !.failures = f]
          /\ Stored(list', Known \cup ids.kept)
     ELSE UNCHANGED <<list, file, damage, ids, budget>>
  /\ UNCHANGED <<damaged, memory, saved, probe, way, asked>>

-----------------------------------------------------------------------------
(* Windows and limit probes.                                                *)

\* A bridge that does not start cancels the launch.
Launch(p) ==
  /\ way[p] = None /\ ~Blocked(p)
  /\ way' = [way EXCEPT ![p] = Way(For(p))]
  /\ UNCHANGED <<list, file, damage, damaged, memory, saved, checks, probe, asked, ids, budget>>

Close(p) ==
  /\ way[p] # None
  /\ way' = [way EXCEPT ![p] = None]
  /\ UNCHANGED <<list, file, damage, damaged, memory, saved, checks, probe, asked, ids, budget>>

\* A bridge that runs is used again, another one is started as the proxy is now.
ProbeServes(x) == IF probe[x] = None THEN list[x].config ELSE probe[x]

\* usageProxy: a probe goes through the bridge, or directly when there is no
\* proxy and none is required.
Ask(p) ==
  LET x == For(p) IN
  /\ x # None \/ ~memory.required[p]
  /\ asked' = [asked EXCEPT ![p] = Way(x)]
  /\ probe' = IF x = None THEN probe ELSE [probe EXCEPT ![x] = ProbeServes(x)]
  /\ UNCHANGED <<list, file, damage, damaged, memory, saved, checks, way, ids, budget>>

ProbeBridgeEnds(x) ==
  /\ probe[x] # None
  /\ probe' = [probe EXCEPT ![x] = None]
  /\ UNCHANGED <<list, file, damage, damaged, memory, saved, checks, way, asked, ids, budget>>

-----------------------------------------------------------------------------
(* AppDeck's end and start, and what happens to the file.                   *)

\* Workers and probe bridges end with AppDeck.  Entries that cannot be read are
\* left out of the list, and remembered.
Restart ==
  /\ list' = [x \in Proxies |-> IF x \in damage THEN None ELSE file[x]]
  /\ damaged' = (damage # {})
  /\ memory' = saved
  /\ checks' = {}
  /\ probe' = [x \in Proxies |-> None]
  /\ asked' = [p \in Profiles |-> None]
  /\ UNCHANGED <<file, damage, saved, way, ids, budget>>

Damage(S) ==
  /\ S # {} /\ S \subseteq {x \in Proxies : file[x] # None}
  /\ budget.damage < MaxDamage
  /\ budget' = [budget EXCEPT !.damage = @ + 1]
  /\ damage' = damage \cup S
  /\ UNCHANGED <<list, file, damaged, memory, saved, checks, probe, way, asked, ids>>

Repair ==
  /\ damage # {} /\ damage' = {}
  /\ UNCHANGED <<list, file, damaged, memory, saved, checks, probe, way, asked, ids, budget>>

-----------------------------------------------------------------------------

StoreNext ==
  \/ \E x \in Proxies, c \in Configs : Add(x, c) \/ Edit(x, c)
  \/ \E x \in Proxies : Remove(x) \/ Check(x) \/ ProbeBridgeEnds(x)
  \/ \E x \in Proxies \cup {None} : PickDefault(x)
  \/ \E p \in Profiles, c \in Choices : Choose(p, c)
  \/ \E p \in Profiles, c \in Choices, r \in BOOLEAN : Configure(p, c, r)
  \/ \E p \in Profiles : Launch(p) \/ Close(p) \/ Ask(p)
  \/ \E w \in checks : CheckFinished(w)
  \/ Restart \/ Repair
  \/ \E S \in SUBSET Proxies : Damage(S)

StoreSpec == StoreInit /\ [][StoreNext]_storeVars

-----------------------------------------------------------------------------
(* Properties.                                                              *)

\* Every variable has its type, and a check under way is of an id once used
\* (proxy_store.hpp:11-15).
StoreTypeOK ==
  /\ list \in [Proxies -> Entry \cup {None}] /\ file \in [Proxies -> Entry \cup {None}]
  /\ damage \subseteq Proxies /\ damaged \in BOOLEAN
  /\ memory \in Settings /\ saved \in Settings
  /\ checks \subseteq [id : ids.used, rev : 0 .. MaxChanges, config : Configs]
  /\ probe \in [Proxies -> Configs \cup {None}]
  /\ way \in [Profiles -> {None, "direct", "proxy"}]
  /\ asked \in [Profiles -> {None, "direct", "proxy"}]
  /\ ids \in [used : SUBSET Proxies, kept : SUBSET Proxies]
  /\ budget \in [changes : 0 .. MaxChanges, damage : 0 .. MaxDamage, failures : 0 .. MaxFailures]

\* A profile starts without a proxy only when it names none, or one that is
\* not in proxies.plist at all; never when it names one that could not be read,
\* by its own choice or as the default, and never when it requires one
\* (proxy_store.hpp:48-58).  Its limits are asked without a proxy only then, or
\* while the list is known to be damaged (proxy_store.hpp:131-133).
MayBeDirect(p) == ~memory.required[p] /\ (Named(p) = None \/ file[Named(p)] = None)

DirectIsMeant ==
  [][\A p \in Profiles :
       /\ way[p] = None /\ way'[p] = "direct" => MayBeDirect(p)
       /\ asked[p] # "direct" /\ asked'[p] = "direct" =>
            MayBeDirect(p) \/ (damaged /\ ~memory.required[p])]_storeVars

\* A proxy once in proxies.plist stays there until the user removes it,
\* through damage, restarts and every save in between (proxy_store.hpp:36).
NoneIsForgotten == \A x \in ids.kept : file[x] # None

\* The check shown for a proxy, and the one kept in the file, was made with
\* its present addresses (proxy_views.hpp:56, 80).
CheckIsCurrent ==
  \A x \in Proxies :
    /\ list[x] # None => list[x].check \in {None, list[x].config}
    /\ file[x] # None => file[x].check \in {None, file[x].config}

\* The bridge of limit probes serves what its proxy is now, and none is left
\* for a removed proxy (proxy_store.hpp:128-129).
ProbeIsCurrent ==
  \A x \in Proxies : probe[x] # None => x \in Known /\ probe[x] = list[x].config

=============================================================================
