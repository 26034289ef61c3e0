--------------------------- MODULE ProfileLaunch ---------------------------
(***************************************************************************)
(* Launching and finding the windows of one app (main.cpp launch,          *)
(* restartPump, running; workspace_base.hpp ownedProcess, adoptRunning,    *)
(* attachMaster), with the private bridge of a window behind a proxy       *)
(* (proxy_store.hpp, proxy_bridge.cpp serve).                              *)
(*                                                                         *)
(* AppDeck is one thread; a launch is cut where a process is started or    *)
(* waited for: windows open and close meanwhile, AppDeck may die, and the  *)
(* launch of a Claude copy waits in a run loop that fires the timer.  A    *)
(* process is a number that is never used again: the code compares the     *)
(* process number together with the time the process was born.             *)
(***************************************************************************)
EXTENDS Integers, Sequences, FiniteSets, SequencesExt

CONSTANTS
  Copies,            \* profiles with a data folder of their own
  Master,            \* the profile of the original app
  Adapters,          \* what the app may be
  MaxProcesses,      \* bound on processes, for model checking
  MaxBridges,        \* bound on bridges
  MaxEnds,           \* bound on AppDeck's ends
  MaxTimeouts,       \* bound on launches given up after 10 seconds
  MaxSelfRestarts,   \* bound on copies that restart themselves
  WritesFail         \* a write of state.plist may fail

ASSUME Constants ==
  /\ Master \notin Copies
  /\ Adapters \subseteq {"Claude", "Codex"}
  /\ WritesFail \in BOOLEAN
  /\ {MaxProcesses, MaxBridges, MaxEnds, MaxTimeouts, MaxSelfRestarts}
       \subseteq Nat

VARIABLES
  process,    \* the processes of the app: whose data folder, the bridge they
              \* were pointed at, or 0, and their state
  bridge,     \* the bridges: their state and the process they watch
  up,         \* AppDeck runs
  memory,     \* pid and proxyPort of every profile; 0 is none
  saved,      \* ... in state.plist
  app,        \* its adapter, and the profiles that use a proxy
  launching,  \* the launches under way, innermost last
  pending,    \* restartPending
  ends, timeouts, selfRestarts

vars == <<process, bridge, up, memory, saved, app, launching, pending,
          ends, timeouts, selfRestarts>>

bounds == <<ends, timeouts, selfRestarts>>

Profiles == Copies \cup {Master}

\* The copies of Claude are children of AppDeck, and are waited for.
Waits == app.adapter = "Claude"

Init ==
  /\ process = <<>> /\ bridge = <<>>
  /\ up = TRUE
  /\ memory = [pid |-> [p \in Profiles |-> 0], port |-> [p \in Profiles |-> 0]]
  /\ saved = memory
  /\ app \in [adapter : Adapters, proxied : SUBSET Profiles]
  /\ launching = <<>>
  /\ pending = {}
  /\ ends = 0 /\ timeouts = 0 /\ selfRestarts = 0

-----------------------------------------------------------------------------
(* What AppDeck sees and keeps.                                             *)

Alive(n) == n # 0 /\ process[n].state # "closed"

\* A process is seen once it has registered with the system.
Open(n) == n # 0 /\ process[n].state = "open"

\* Mutant: only the processes of this session are looked at.
OwnMutant(p) == {n \in DOMAIN process : Open(n) /\ memory.pid[p] = n}

\* ownedProcess, by the data folder among the arguments; originalCandidates,
\* the processes without one.
Own(p) == {n \in DOMAIN process : Open(n) /\ process[n].dir = p}

\* running, for the memory m.
Running(m, p) == Open(m.pid[p])

InProgress(p) == \E i \in DOMAIN launching : launching[i].profile = p

\* Mutant: the proxy of an earlier window stays.
AdoptMutant(m, p, n) == [m EXCEPT !.pid[p] = n]

\* adopt, of a window that was not tracked: nothing is known of its proxy.
Adopt(m, p, n) == [m EXCEPT !.pid[p] = n, !.port[p] = 0]

\* The windows an untracked profile may be given.
Found(m, p) ==
  IF Running(m, p) \/ (p = Master /\ Cardinality(Own(p)) > 1) THEN {}
  ELSE Own(p)

\* adoptRunning.
Adopted(m) ==
  {f \in [pid : [Profiles -> 0 .. Len(process)], port : {m.port}] :
     \A p \in Profiles :
       IF Found(m, p) = {} THEN f.pid[p] = m.pid[p]
       ELSE f.pid[p] \in Found(m, p)}

Forgotten(m, f) ==
  [f EXCEPT !.port = [p \in Profiles |->
                        IF f.pid[p] = m.pid[p] THEN m.port[p] ELSE 0]]

-----------------------------------------------------------------------------
(* The system: windows, bridges, the user.                                  *)

Top == launching[Len(launching)]

At(stage) == launching # <<>> /\ Top.stage = stage

\* The wait for a Claude copy is long; the call that opens any other window
\* returns at once, and it is assumed that nobody opens one in that moment.
OthersOpen == launching = <<>> \/ At("waiting")

Appears(dir, b, state) ==
  /\ Len(process) < MaxProcesses
  /\ process' = Append(process, [dir |-> dir, bridge |-> b, state |-> state])

OpenOriginal ==
  /\ OthersOpen
  /\ Appears(Master, 0, "open")
  /\ UNCHANGED <<bridge, up, memory, saved, app, launching, pending, bounds>>

Register(n) ==
  /\ process[n].state = "starting"
  /\ process' = [process EXCEPT ![n].state = "open"]
  /\ UNCHANGED <<bridge, up, memory, saved, app, launching, pending, bounds>>

Close(n) ==
  /\ Alive(n)
  /\ process' = [process EXCEPT ![n].state = "closed"]
  /\ UNCHANGED <<bridge, up, memory, saved, app, launching, pending, bounds>>

\* A copy updates itself and starts again with the arguments it had.
SelfRestart(n) ==
  /\ OthersOpen
  /\ Open(n) /\ process[n].dir # Master
  /\ selfRestarts < MaxSelfRestarts /\ Len(process) < MaxProcesses
  /\ selfRestarts' = selfRestarts + 1
  /\ process' = Append([process EXCEPT ![n].state = "closed"], process[n])
  /\ UNCHANGED <<bridge, up, memory, saved, app, launching, pending, ends,
                 timeouts>>

\* serve: the watched process is gone, or the bridge fails before its window
\* was there.
BridgeEnds(b) ==
  /\ \/ bridge[b].state = "watching" /\ ~Alive(bridge[b].pid)
     \/ bridge[b].state = "waiting"
  /\ bridge' = [bridge EXCEPT ![b].state = "gone"]
  /\ UNCHANGED <<process, up, memory, saved, app, launching, pending, bounds>>

\* The user chooses a proxy, or none; it matters at the next launch.
Choose(p) ==
  /\ up /\ launching = <<>>
  /\ app' = [app EXCEPT !.proxied = (@ \ {p}) \cup ({p} \ @)]
  /\ UNCHANGED <<process, bridge, up, memory, saved, launching, pending, bounds>>

-----------------------------------------------------------------------------
(* A launch.                                                                *)

\* What a save of the memory m leaves of the file: it is replaced as a whole,
\* or not at all.
Written(file, m) == IF WritesFail THEN {file, m} ELSE {m}

Save(m) == saved' \in Written(saved, m)

\* proxyAbandon: without a watch line the bridge leaves.
Abandon(b) ==
  bridge' = IF b = 0 THEN bridge ELSE [bridge EXCEPT ![b].state = "gone"]

\* launch up to the start of the process: what is open already is adopted;
\* else a bridge is started for a profile behind a proxy; or the launch is
\* refused (its proxy, its settings, its group), and the memory m and the file
\* are all there is.
Begin(p, m, file, timed) ==
  IF Running(m, p) \/ (p = Master /\ Cardinality(Own(p)) > 1)
  THEN memory' = m /\ saved' = file /\ UNCHANGED <<bridge, launching>>
  ELSE IF Own(p) # {}
  THEN /\ \E n \in Own(p) :
            memory' = Adopt(m, p, n) /\ saved' \in Written(file, memory')
       /\ UNCHANGED <<bridge, launching>>
  ELSE /\ memory' = m /\ saved' = file
       /\ \/ UNCHANGED <<bridge, launching>>
          \/ /\ p \in app.proxied => Len(bridge) < MaxBridges
             /\ bridge' = IF p \in app.proxied
                          THEN Append(bridge, [state |-> "waiting", pid |-> 0])
                          ELSE bridge
             /\ launching' = Append(launching,
                  [profile |-> p, stage |-> "ready", pid |-> 0, timed |-> timed,
                   bridge |-> IF p \in app.proxied THEN Len(bridge) + 1 ELSE 0,
                   before |-> {n \in DOMAIN process : Open(n)}])

Launch(p) ==
  /\ up /\ launching = <<>>
  /\ Begin(p, memory, saved, FALSE)
  /\ UNCHANGED <<process, up, app, pending, bounds>>

Pop == launching' = Front(launching)

GoOn(stage, n) ==
  launching' = [launching EXCEPT ![Len(launching)].stage = stage,
                                 ![Len(launching)].pid = n]

\* Nothing was started: a copy keeps the error.
Failed ==
  /\ Abandon(Top.bridge) /\ Pop
  /\ UNCHANGED memory
  /\ IF Top.profile = Master THEN UNCHANGED saved ELSE Save(memory)

\* A Claude copy is a child process of AppDeck ...
StartChild ==
  /\ At("ready") /\ Waits /\ Top.profile # Master
  /\ \/ /\ Appears(Top.profile, Top.bridge, "starting")
        /\ GoOn("waiting", Len(process) + 1)
        /\ UNCHANGED <<bridge, memory, saved>>
     \/ Failed /\ UNCHANGED process
  /\ UNCHANGED <<up, app, pending, bounds>>

\* ... everything else is opened by LaunchServices, which may return a
\* process that was there already.
OpenApplication ==
  /\ At("ready") /\ ~(Waits /\ Top.profile # Master)
  /\ \/ /\ Appears(Top.profile, Top.bridge, "open")
        /\ GoOn("returned", Len(process) + 1)
        /\ UNCHANGED <<bridge, memory, saved>>
     \/ /\ \E n \in DOMAIN process : Open(n) /\ GoOn("returned", n)
        /\ UNCHANGED <<process, bridge, memory, saved>>
     \/ Failed /\ UNCHANGED process
  /\ UNCHANGED <<up, app, pending, bounds>>

\* launchClaudeProcess: the child has registered, is gone, or took too long
\* and is asked to quit.
ChildReturns ==
  /\ At("waiting")
  /\ \/ /\ Open(Top.pid) /\ GoOn("returned", Top.pid)
        /\ UNCHANGED <<bridge, memory, saved, timeouts>>
     \/ /\ ~Alive(Top.pid) /\ Failed /\ UNCHANGED timeouts
     \/ /\ process[Top.pid].state = "starting" /\ timeouts < MaxTimeouts
        /\ timeouts' = timeouts + 1 /\ Failed
  /\ UNCHANGED <<process, up, app, pending, ends, selfRestarts>>

\* Mutant: any process that came back is taken for the new one.
OthersMutant(p, n) == FALSE

\* The process that came back is not the new one: it was there before, it
\* belongs to another profile, or a copy was opened in place of the original.
Others(p, n) ==
  IF p = Master THEN process[n].dir # Master
  ELSE \/ n \in Top.before
       \/ \E q \in Profiles \ {p} : memory.pid[q] = n /\ Open(n)

\* Mutant: the card shows the proxy although its bridge has stopped.
TrackedMutant(p, n, served) ==
  [memory EXCEPT !.pid[p] = n, !.port[p] = Top.bridge]

Tracked(p, n, served) ==
  [memory EXCEPT !.pid[p] = n, !.port[p] = IF served THEN Top.bridge ELSE 0]

\* The end of launch and of attachMaster.  A copy whose bridge has stopped is
\* asked to quit; an original stays without it.
Finish ==
  LET p == Top.profile
      n == Top.pid
      b == Top.bridge
      served == b # 0 /\ bridge[b].state = "waiting"
  IN
  /\ At("returned") /\ Pop
  /\ IF Others(p, n) \/ ~Open(n)
     THEN /\ Abandon(b) /\ UNCHANGED memory
          /\ Save(memory)
     ELSE /\ bridge' = IF served
                       THEN [bridge EXCEPT ![b] = [state |-> "watching", pid |-> n]]
                       ELSE bridge
          /\ IF b # 0 /\ ~served /\ p # Master
             THEN /\ memory' = [memory EXCEPT !.port[p] = 0]
                  /\ UNCHANGED saved
             ELSE memory' = Tracked(p, n, served) /\ Save(memory')
  /\ UNCHANGED <<process, up, app, pending, bounds>>

-----------------------------------------------------------------------------
(* The timer, restarts, and AppDeck itself.                                 *)

\* The timer does not fire again while its own call still runs.
Ticking ==
  /\ up /\ (launching = <<>> \/ At("waiting"))
  /\ \A i \in DOMAIN launching : ~launching[i].timed

\* The file once windows were found again: it is saved if there are any.
Kept(m) == IF m.pid = memory.pid THEN {saved} ELSE Written(saved, m)

Looked(m) == memory' = m /\ saved' \in Kept(m)

\* tick: windows are found again, and a restart (one at each tick) goes on
\* once its window has closed, or is given up.
Tick ==
  /\ Ticking
  /\ \E f \in Adopted(memory) :
       LET m == Forgotten(memory, f) IN
       \/ /\ pending = {} /\ Looked(m)
          /\ UNCHANGED <<bridge, launching, pending>>
       \/ \E p \in pending :
            /\ pending' \in IF Running(m, p) THEN {pending, pending \ {p}}
                           ELSE {pending \ {p}}
            /\ IF Running(m, p) \/ InProgress(p)
               THEN Looked(m) /\ UNCHANGED <<bridge, launching>>
               ELSE \E file \in Kept(m) : Begin(p, m, file, TRUE)
  /\ UNCHANGED <<process, up, app, bounds>>

\* restartAction: the window is asked to quit.
Restart(p) ==
  /\ up /\ launching = <<>> /\ Running(memory, p)
  /\ pending' = pending \cup {p}
  /\ Save(memory)
  /\ UNCHANGED <<process, bridge, up, memory, app, launching, bounds>>

\* AppDeck quits, or dies; a bridge that still waits for its window leaves.
End(kept) ==
  /\ up /\ ends < MaxEnds /\ (launching # <<>> => kept = saved)
  /\ ends' = ends + 1
  /\ up' = FALSE /\ launching' = <<>> /\ pending' = {}
  /\ saved' = kept /\ memory' = kept
  /\ bridge' = [b \in DOMAIN bridge |->
       IF bridge[b].state = "waiting"
       THEN [bridge[b] EXCEPT !.state = "gone"] ELSE bridge[b]]
  /\ UNCHANGED <<process, app, timeouts, selfRestarts>>

\* AppDeck starts and finds windows again; a process that was being started
\* has registered before.
Boot ==
  /\ ~up
  /\ \A n \in DOMAIN process : process[n].state # "starting"
  /\ up' = TRUE
  /\ \E f \in Adopted(memory) : Looked(Forgotten(memory, f))
  /\ UNCHANGED <<process, bridge, app, launching, pending, bounds>>

Next ==
  \/ OpenOriginal
  \/ \E n \in DOMAIN process : Register(n) \/ Close(n) \/ SelfRestart(n)
  \/ \E b \in DOMAIN bridge : BridgeEnds(b)
  \/ \E p \in Profiles : Choose(p) \/ Launch(p) \/ Restart(p)
  \/ StartChild \/ OpenApplication \/ ChildReturns \/ Finish
  \/ Tick \/ Boot
  \/ \E kept \in {saved, memory} : End(kept)

Spec == Init /\ [][Next]_vars

-----------------------------------------------------------------------------
(* Properties.                                                              *)

\* Every variable has its type, and a profile is launched once at a time.
TypeOK ==
  /\ \A n \in DOMAIN process :
       process[n] \in [dir : Profiles, bridge : 0 .. MaxBridges,
                       state : {"starting", "open", "closed"}]
  /\ \A b \in DOMAIN bridge :
       bridge[b] \in [state : {"waiting", "watching", "gone"},
                      pid : 0 .. MaxProcesses]
  /\ up \in BOOLEAN
  /\ {memory, saved} \subseteq [pid : [Profiles -> 0 .. MaxProcesses],
                                port : [Profiles -> 0 .. MaxBridges]]
  /\ app \in [adapter : Adapters, proxied : SUBSET Profiles]
  /\ pending \subseteq Profiles
  /\ \A i, j \in DOMAIN launching :
       launching[i].profile = launching[j].profile => i = j

\* main.cpp:269, "A copy that AppDeck lost track of still owns its user-data
\* folder: adopt it, never start a twin": no copy ever has two processes on its
\* data folder, whatever crashed, restarted or was launched twice.
NoTwin ==
  \A p \in Copies :
    Cardinality({n \in DOMAIN process : Alive(n) /\ process[n].dir = p}) <= 1

\* A profile's card stands for a window of its own account: what AppDeck
\* tracks, focuses and quits is never the window of another profile.
OwnWindow ==
  \A p \in Profiles : Running(memory, p) => process[memory.pid[p]].dir = p

Shown(p) == up /\ Running(memory, p) /\ memory.port[p] # 0

\* proxy_store.hpp:60, "what the running window was started with": a card
\* names a proxy only for a window that was started behind it.
CardShowsProxy ==
  \A p \in Profiles :
    Shown(p) => process[memory.pid[p]].bridge = memory.port[p]

\* USER_GUIDE.md:49, "works only while the app's process runs": the local
\* address a card offers is served for the window it is shown with, and a bridge
\* that still waits for its window belongs to a launch under way: no path out of
\* a launch leaves one behind.
BridgesServeWindows ==
  /\ \A p \in Profiles : Shown(p) =>
       bridge[memory.port[p]] = [state |-> "watching", pid |-> memory.pid[p]]
  /\ \A b \in DOMAIN bridge :
       bridge[b].state = "waiting" =>
         up /\ \E i \in DOMAIN launching : launching[i].bridge = b
=============================================================================
