------------------------ MODULE ProfileLaunchProofs ------------------------
(***************************************************************************)
(* Types and the safety properties of ProfileLaunch, for every set of      *)
(* copies, every bound and whatever the windows, the user and the file do. *)
(***************************************************************************)
EXTENDS ProfileLaunch, FiniteSetTheorems, SequenceTheorems, TLAPS

-----------------------------------------------------------------------------
(* The inductive invariant.                                                 *)

Process == [dir : Profiles, bridge : 0 .. MaxBridges,
            state : {"starting", "open", "closed"}]

Bridge == [state : {"waiting", "watching", "gone"}, pid : 0 .. MaxProcesses]

Memory == [pid : [Profiles -> 0 .. MaxProcesses],
           port : [Profiles -> 0 .. MaxBridges]]

App == [adapter : Adapters, proxied : SUBSET Profiles]

ALaunch == [profile : Profiles, stage : {"ready", "waiting", "returned"},
            pid : 0 .. MaxProcesses, timed : BOOLEAN,
            bridge : 0 .. MaxBridges, before : SUBSET (1 .. MaxProcesses)]

Types ==
  /\ process \in Seq(Process) /\ Len(process) <= MaxProcesses
  /\ bridge \in Seq(Bridge) /\ Len(bridge) <= MaxBridges
  /\ up \in BOOLEAN
  /\ memory \in Memory /\ saved \in Memory
  /\ app \in App
  /\ launching \in Seq(ALaunch)
  /\ pending \subseteq Profiles
  /\ timeouts \in Nat

\* Only a child of AppDeck is a process before it has registered.
Children ==
  \A n \in DOMAIN process :
    process[n].state = "starting" =>
      app.adapter = "Claude" /\ process[n].dir \in Copies

\* What is remembered of a profile in the memory m is true: its window is its
\* own, and the proxy of that window is the one it was started behind, whose
\* bridge watches it for as long as it lives.
Honest(m, p) ==
  m.pid[p] # 0 =>
    /\ m.pid[p] \in DOMAIN process
    /\ process[m.pid[p]].dir = p
    /\ m.port[p] # 0 =>
         /\ m.port[p] \in DOMAIN bridge
         /\ process[m.pid[p]].bridge = m.port[p]
         /\ Alive(m.pid[p]) => bridge[m.port[p]] =
                                 [state |-> "watching", pid |-> m.pid[p]]

AllHonest == \A m \in {memory, saved} : \A p \in Profiles : Honest(m, p)

\* The launches are nested: all but the innermost wait for their child, and no
\* profile and no bridge is in two of them.
Nested ==
  /\ launching # <<>> => up
  /\ \A i \in DOMAIN launching :
       i # Len(launching) => launching[i].stage = "waiting"
  /\ \A i, j \in DOMAIN launching : i # j =>
       /\ launching[i].profile # launching[j].profile
       /\ launching[i].bridge # 0 => launching[i].bridge # launching[j].bridge

\* A launch that waits, waits for its own child.
Awaited(l) ==
  l.stage = "waiting" =>
    /\ app.adapter = "Claude" /\ l.profile \in Copies
    /\ l.pid \in DOMAIN process
    /\ process[l.pid].dir = l.profile /\ process[l.pid].bridge = l.bridge

\* A window that LaunchServices is asked for is not there yet, and for a copy
\* all windows that are there have been noted.
Asked(l) ==
  l.stage = "ready" /\ ~(app.adapter = "Claude" /\ l.profile # Master) =>
    /\ Own(l.profile) = {}
    /\ l.profile # Master =>
         \A n \in DOMAIN process : Open(n) => n \in l.before

\* What came back is the new process, or one that Others tells from it.
Returned(l) ==
  l.stage = "returned" =>
    /\ l.pid \in DOMAIN process
    /\ \/ process[l.pid].dir = l.profile /\ process[l.pid].bridge = l.bridge
       \/ l.profile = Master /\ process[l.pid].dir # Master
       \/ l.profile # Master /\ l.pid \in l.before

Stages ==
  \A l \in ToSet(launching) : Awaited(l) /\ Asked(l) /\ Returned(l)

\* The bridge of a launch watches nothing yet; one that waits is of a launch.
Bridges ==
  /\ \A i \in DOMAIN launching : launching[i].bridge # 0 =>
       /\ launching[i].bridge \in DOMAIN bridge
       /\ bridge[launching[i].bridge].state # "watching"
  /\ \A b \in DOMAIN bridge : bridge[b].state = "waiting" =>
       \E i \in DOMAIN launching : launching[i].bridge = b

IndInv ==
  Types /\ Children /\ AllHonest /\ Nested /\ Stages /\ Bridges

\* While no launch was given up: a copy has one live process, one that has not
\* registered yet is awaited, and a copy about to be started has none.
Alone ==
  /\ \A m, n \in DOMAIN process :
       Alive(m) /\ Alive(n) /\ process[m].dir = process[n].dir
         /\ process[m].dir \in Copies => m = n
  /\ up => \A n \in DOMAIN process : process[n].state = "starting" =>
       \E i \in DOMAIN launching :
         launching[i].stage = "waiting" /\ launching[i].pid = n
  /\ \A i \in DOMAIN launching : \A n \in DOMAIN process :
       launching[i].stage = "ready" /\ launching[i].profile \in Copies
         /\ process[n].dir = launching[i].profile => ~Alive(n)

\* No launch has been given up so far.
InTime == timeouts = 0

OnlyIfTimely == InTime => Alone

-----------------------------------------------------------------------------

-----------------------------------------------------------------------------
(* What the operators of the model do.                                      *)

\* One item of a sequence is replaced.
LEMMA Replaced ==
  ASSUME NEW S, NEW s \in Seq(S), NEW i \in DOMAIN s, NEW e \in S,
         NEW t, t = [s EXCEPT ![i] = e]
  PROVE  /\ t \in Seq(S) /\ Len(t) = Len(s) /\ DOMAIN t = DOMAIN s
         /\ t[i] = e /\ \A j \in DOMAIN s : j # i => t[j] = s[j]
<1>1. DOMAIN s = 1 .. Len(s)
  BY LenProperties
<1>2. /\ t \in Seq(S) /\ Len(t) = Len(s)
      /\ \A j \in 1 .. Len(s) : t[j] = IF j = i THEN e ELSE s[j]
  BY <1>1, ExceptSeq
<1>3. DOMAIN t = 1 .. Len(t)
  BY <1>2, LenProperties
<1>4. QED
  BY <1>1, <1>2, <1>3

\* One item is added at the end.
LEMMA Added ==
  ASSUME NEW S, NEW s \in Seq(S), NEW e \in S, NEW t, t = Append(s, e)
  PROVE  /\ t \in Seq(S) /\ Len(t) = Len(s) + 1
         /\ DOMAIN t = DOMAIN s \cup {Len(s) + 1}
         /\ Len(s) + 1 \notin DOMAIN s
         /\ t[Len(s) + 1] = e /\ \A j \in DOMAIN s : t[j] = s[j]
<1>1. DOMAIN s = 1 .. Len(s) /\ Len(s) \in Nat
  BY LenProperties
<1>2. /\ t \in Seq(S) /\ Len(t) = Len(s) + 1
      /\ \A j \in 1 .. Len(s) : t[j] = s[j]
      /\ t[Len(s) + 1] = e
  BY AppendProperties
<1>3. DOMAIN t = 1 .. Len(t)
  BY <1>2, LenProperties
<1>4. QED
  BY <1>1, <1>2, <1>3

\* The last item is taken away.
LEMMA Removed ==
  ASSUME NEW S, NEW s \in Seq(S), Len(s) # 0, NEW t, t = Front(s)
  PROVE  /\ t \in Seq(S) /\ Len(s) \in DOMAIN s
         /\ DOMAIN t = DOMAIN s \ {Len(s)} /\ Len(t) = Len(s) - 1
         /\ \A j \in DOMAIN t : t[j] = s[j]
<1>1. DOMAIN s = 1 .. Len(s)
  BY LenProperties
<1>2. PICK n \in Nat \ {0} : n = Len(s)
  BY LenProperties
<1>3. \A j \in 1 .. n - 1 : s[j] \in S
  BY <1>2, ElementOfSeq
<1>4. t = SubSeq(s, 1, n - 1)
  BY <1>2 DEF Front
<1>5. /\ t \in Seq(S)
      /\ Len(t) = IF 1 <= n - 1 THEN n - 1 - 1 + 1 ELSE 0
      /\ \A j \in 1 .. n - 1 - 1 + 1 : t[j] = s[1 + j - 1]
  BY <1>3, <1>4, SubSeqProperties
<1>6. Len(t) = n - 1
  BY <1>5
<1>7. \A j \in 1 .. n - 1 : t[j] = s[j]
  BY <1>5
<1>8. DOMAIN t = 1 .. n - 1
  BY <1>5, <1>6, LenProperties
<1>9. 1 .. n - 1 = (1 .. n) \ {n} /\ n \in 1 .. n
  OBVIOUS
<1>10. DOMAIN t = DOMAIN s \ {Len(s)} /\ Len(s) \in DOMAIN s
  BY <1>1, <1>2, <1>8, <1>9
<1>11. QED
  BY <1>2, <1>5, <1>6, <1>7, <1>8, <1>10

LEMMA Items ==
  ASSUME Types
  PROVE  /\ \A n \in DOMAIN process : process[n] \in Process /\ n \in 1 .. MaxProcesses
         /\ \A b \in DOMAIN bridge : bridge[b] \in Bridge /\ b \in 1 .. MaxBridges
         /\ \A i \in DOMAIN launching : launching[i] \in ALaunch
         /\ launching # <<>> => Len(launching) \in DOMAIN launching
         /\ launching = <<>> => DOMAIN launching = {}
         /\ DOMAIN process = 1 .. Len(process) /\ Len(process) \in 0 .. MaxProcesses
         /\ DOMAIN bridge = 1 .. Len(bridge) /\ Len(bridge) \in 0 .. MaxBridges
<1>1. /\ DOMAIN process = 1 .. Len(process) /\ Len(process) \in Nat
      /\ DOMAIN bridge = 1 .. Len(bridge) /\ Len(bridge) \in Nat
      /\ DOMAIN launching = 1 .. Len(launching) /\ Len(launching) \in Nat
  BY LenProperties DEF Types
<1>2. MaxProcesses \in Nat /\ MaxBridges \in Nat
  BY Constants
<1>3. \A n \in DOMAIN process : process[n] \in Process
  BY <1>1, ElementOfSeq DEF Types
<1>4. \A b \in DOMAIN bridge : bridge[b] \in Bridge
  BY <1>1, ElementOfSeq DEF Types
<1>5. \A i \in DOMAIN launching : launching[i] \in ALaunch
  BY <1>1, ElementOfSeq DEF Types
<1>6. /\ \A s \in Seq(ALaunch) : s # <<>> => Len(s) \in Nat \ {0}
      /\ launching = <<>> => Len(launching) = 0
  BY EmptySeq
<1>7. /\ launching # <<>> => Len(launching) \in DOMAIN launching
      /\ launching = <<>> => DOMAIN launching = {}
  BY <1>1, <1>6 DEF Types
<1>8. QED
  BY <1>1, <1>2, <1>3, <1>4, <1>5, <1>6, <1>7 DEF Types

-----------------------------------------------------------------------------
(* What every step does to windows and bridges.                             *)

\* A process keeps its data folder and its bridge, and never comes back.
Lives ==
  \A n \in DOMAIN process :
    /\ n \in DOMAIN process'
    /\ process'[n].dir = process[n].dir
    /\ process'[n].bridge = process[n].bridge
    /\ process[n].state = "closed" => process'[n].state = "closed"

\* No window appears but one that was being started.
Quiet ==
  \A n \in DOMAIN process' :
    /\ n \in DOMAIN process
    /\ process'[n].state = "open" => process[n].state # "closed"

\* A bridge stays with the process it watches for as long as that lives.
Watches ==
  \A b \in DOMAIN bridge :
    /\ b \in DOMAIN bridge'
    /\ bridge[b].state = "watching"
         /\ bridge[b].pid \in DOMAIN process
         /\ process'[bridge[b].pid].state # "closed" =>
         bridge'[b] = bridge[b]

LEMMA SameProcesses ==
  ASSUME Types, process' = process
  PROVE  Lives /\ Quiet
BY DEF Lives, Quiet

LEMMA SameBridges ==
  ASSUME bridge' = bridge
  PROVE  Watches
BY DEF Watches

\* A new window is added to those there are.
LEMMA Appeared ==
  ASSUME Types, NEW d \in Profiles, NEW b \in 0 .. MaxBridges,
         NEW s \in {"starting", "open"}, Appears(d, b, s)
  PROVE  /\ process' \in Seq(Process) /\ Len(process') <= MaxProcesses
         /\ Len(process) + 1 \in 1 .. MaxProcesses
         /\ DOMAIN process' = DOMAIN process \cup {Len(process) + 1}
         /\ Len(process) + 1 \notin DOMAIN process
         /\ process'[Len(process) + 1] = [dir |-> d, bridge |-> b, state |-> s]
         /\ \A n \in DOMAIN process : process'[n] = process[n]
         /\ Lives
<1>1. [dir |-> d, bridge |-> b, state |-> s] \in Process
  BY DEF Process
<1>2. PICK t : t = process'
  OBVIOUS
<1>3. process \in Seq(Process) /\ Len(process) < MaxProcesses
      /\ t = Append(process, [dir |-> d, bridge |-> b, state |-> s])
  BY <1>2 DEF Types, Appears
<1>4. /\ t \in Seq(Process) /\ Len(t) = Len(process) + 1
      /\ DOMAIN t = DOMAIN process \cup {Len(process) + 1}
      /\ Len(process) + 1 \notin DOMAIN process
      /\ t[Len(process) + 1] = [dir |-> d, bridge |-> b, state |-> s]
      /\ \A j \in DOMAIN process : t[j] = process[j]
  BY <1>1, <1>3, Added
<1>5. Len(process) \in Nat /\ MaxProcesses \in Nat
  BY Items, Constants
<1>6. QED
  BY <1>2, <1>3, <1>4, <1>5 DEF Lives

\* One window goes on.
LEMMA StateChanged ==
  ASSUME Types, NEW n \in DOMAIN process, NEW s \in {"open", "closed"},
         process[n].state = "closed" => s = "closed",
         process' = [process EXCEPT ![n].state = s]
  PROVE  /\ process' \in Seq(Process) /\ Len(process') <= MaxProcesses
         /\ DOMAIN process' = DOMAIN process
         /\ process'[n] = [process[n] EXCEPT !.state = s]
         /\ \A k \in DOMAIN process : k # n => process'[k] = process[k]
         /\ Lives /\ Quiet
<1>1. process[n] \in Process
  BY Items
<1>2. PICK e \in Process : e = [process[n] EXCEPT !.state = s]
  BY <1>1 DEF Process
<1>3. PICK t : t = process'
  OBVIOUS
<1>4. t = [process EXCEPT ![n] = e]
  BY <1>2, <1>3
<1>5. /\ t \in Seq(Process) /\ Len(t) = Len(process) /\ DOMAIN t = DOMAIN process
      /\ t[n] = e /\ \A j \in DOMAIN process : j # n => t[j] = process[j]
  BY <1>4, Replaced DEF Types
<1>6. e.dir = process[n].dir /\ e.bridge = process[n].bridge /\ e.state = s
  BY <1>1, <1>2 DEF Process
<1>7. QED
  BY <1>2, <1>3, <1>5, <1>6 DEF Lives, Quiet, Types

-----------------------------------------------------------------------------
(* What lasts while windows and bridges go on.                              *)

LEMMA HonestKept ==
  ASSUME Types, Lives, Watches, NEW m \in Memory, NEW p \in Profiles,
         Honest(m, p)
  PROVE  Honest(m, p)'
<1>1. SUFFICES ASSUME m.pid[p] # 0
               PROVE  /\ m.pid[p] \in DOMAIN process'
                      /\ process'[m.pid[p]].dir = p
                      /\ m.port[p] # 0 =>
                           /\ m.port[p] \in DOMAIN bridge'
                           /\ process'[m.pid[p]].bridge = m.port[p]
                           /\ process'[m.pid[p]].state # "closed" =>
                                bridge'[m.port[p]] =
                                  [state |-> "watching", pid |-> m.pid[p]]
  BY DEF Honest, Alive
<1>2. m.pid[p] \in DOMAIN process /\ process[m.pid[p]].dir = p
  BY <1>1 DEF Honest
<1>3. m.pid[p] \in DOMAIN process' /\ process'[m.pid[p]].dir = p
  BY <1>2 DEF Lives
<1>4. ASSUME m.port[p] # 0
      PROVE  /\ m.port[p] \in DOMAIN bridge'
             /\ process'[m.pid[p]].bridge = m.port[p]
             /\ process'[m.pid[p]].state # "closed" =>
                  bridge'[m.port[p]] = [state |-> "watching", pid |-> m.pid[p]]
  <2>1. /\ m.port[p] \in DOMAIN bridge
        /\ process[m.pid[p]].bridge = m.port[p]
        /\ process[m.pid[p]].state # "closed" =>
             bridge[m.port[p]] = [state |-> "watching", pid |-> m.pid[p]]
    BY <1>1, <1>4 DEF Honest, Alive
  <2>2. m.port[p] \in DOMAIN bridge' /\ process'[m.pid[p]].bridge = m.port[p]
    BY <1>2, <2>1 DEF Lives, Watches
  <2>3. ASSUME process'[m.pid[p]].state # "closed"
        PROVE  bridge'[m.port[p]] = [state |-> "watching", pid |-> m.pid[p]]
    <3>1. process[m.pid[p]].state # "closed"
      BY <1>2, <2>3 DEF Lives
    <3>2. /\ bridge[m.port[p]] = [state |-> "watching", pid |-> m.pid[p]]
          /\ bridge[m.port[p]].state = "watching"
          /\ bridge[m.port[p]].pid = m.pid[p]
      BY <2>1, <3>1
    <3>3. QED
      BY <1>2, <2>1, <2>3, <3>2 DEF Watches
  <2>4. QED
    BY <2>2, <2>3
<1>5. QED
  BY <1>3, <1>4

LEMMA StageKept ==
  ASSUME Types, Children, Lives, app'.adapter = app.adapter,
         NEW l \in ALaunch, Awaited(l), Asked(l), Returned(l),
         l.stage = "ready" => Quiet
  PROVE  Awaited(l)' /\ Asked(l)' /\ Returned(l)'
<1>1. Awaited(l)'
  BY DEF Awaited, Lives
<1>2. Returned(l)'
  BY DEF Returned, Lives
<1>3. Asked(l)'
  <2>1. SUFFICES ASSUME l.stage = "ready",
                        ~(app.adapter = "Claude" /\ l.profile # Master),
                        NEW n \in DOMAIN process', Open(n)'
                 PROVE  /\ process'[n].dir # l.profile
                        /\ l.profile # Master => n \in l.before
    BY DEF Asked, Own
  <2>2. /\ n \in DOMAIN process /\ n # 0
        /\ process[n].state # "closed" /\ process'[n].dir = process[n].dir
    BY <2>1 DEF Quiet, Lives, Open
  <2>3. process[n].state \in {"open", "starting"}
    BY <2>2, Items DEF Process
  <2>4. CASE process[n].state = "open"
    <3>1. Open(n)
      BY <2>2, <2>4 DEF Open
    <3>2. QED
      BY <2>1, <2>2, <3>1 DEF Asked, Own
  <2>5. CASE process[n].state = "starting"
    <3>1. app.adapter = "Claude" /\ process[n].dir \in Copies
      BY <2>2, <2>5 DEF Children
    <3>2. QED
      BY <2>1, <2>2, <3>1, Constants
  <2>6. QED
    BY <2>3, <2>4, <2>5
<1>4. QED
  BY <1>1, <1>2, <1>3

LEMMA UnderWay ==
  ASSUME Types
  PROVE  /\ ToSet(launching) \subseteq ALaunch
         /\ \A i \in DOMAIN launching : launching[i] \in ToSet(launching)
         /\ \A l \in ToSet(launching) : \E i \in DOMAIN launching : l = launching[i]
         /\ launching # <<>> => Top \in ToSet(launching)
BY Items DEF ToSet, Top

\* A window is opened by somebody else only while every launch waits.
LEMMA NoneReady ==
  ASSUME Types, Nested, OthersOpen, NEW l \in ToSet(launching)
  PROVE  l.stage = "waiting"
<1>1. PICK i \in DOMAIN launching : l = launching[i]
  BY UnderWay
<1>2. launching # <<>>
  BY <1>1, Items
<1>3. launching[Len(launching)].stage = "waiting"
  BY <1>2 DEF OthersOpen, At, Top
<1>4. QED
  BY <1>1, <1>3 DEF Nested

\* A step that leaves the launches alone.
LEMMA LaunchesStay ==
  ASSUME IndInv, Lives, UNCHANGED launching, app'.adapter = app.adapter,
         up => up', OthersOpen \/ Quiet
  PROVE  Nested' /\ Stages'
<1>1. Nested'
  BY DEF IndInv, Nested
<1>2. Stages'
  <2>1. SUFFICES ASSUME NEW l \in ToSet(launching)
                 PROVE  Awaited(l)' /\ Asked(l)' /\ Returned(l)'
    BY DEF Stages
  <2>2. l \in ALaunch /\ Awaited(l) /\ Asked(l) /\ Returned(l)
    BY <2>1, UnderWay DEF IndInv, Stages
  <2>3. l.stage = "ready" => Quiet
    BY <2>1, NoneReady DEF IndInv
  <2>4. QED
    BY <2>2, <2>3, StageKept DEF IndInv
<1>3. QED
  BY <1>1, <1>2

LEMMA MemoryKept ==
  ASSUME IndInv, Lives, Watches,
         \A m \in {memory', saved'} :
           m \in Memory /\ \A p \in Profiles : Honest(m, p)
  PROVE  AllHonest'
<1>1. SUFFICES ASSUME NEW m \in {memory', saved'}, NEW p \in Profiles
               PROVE  Honest(m, p)'
  BY DEF AllHonest
<1>2. PICK k : k = m
  OBVIOUS
<1>3. k \in Memory /\ Honest(k, p)
  BY <1>1, <1>2
<1>4. Honest(k, p)'
  BY <1>3, HonestKept DEF IndInv
<1>5. QED
  BY <1>2, <1>4

LEMMA NowHonest ==
  ASSUME IndInv
  PROVE  \A m \in {memory, saved} :
           m \in Memory /\ \A p \in Profiles : Honest(m, p)
BY DEF IndInv, Types, AllHonest

\* Save writes what it is given or leaves the file alone.
LEMMA SaveType ==
  ASSUME NEW m, Save(m)
  PROVE  saved' \in {saved, m}
BY DEF Save, Written

\* After windows were found again, the file holds the old or the new memory.
LEMMA KeptType ==
  ASSUME NEW m
  PROVE  Kept(m) \subseteq {saved, m}
BY DEF Kept, Written

-----------------------------------------------------------------------------
(* Every step keeps the invariant.                                          *)

\* A step of the windows alone.
LEMMA WindowsStep ==
  ASSUME IndInv, process' \in Seq(Process), Len(process') <= MaxProcesses,
         Children', Lives, OthersOpen \/ Quiet,
         UNCHANGED <<bridge, up, memory, saved, app, launching, pending,
                     timeouts>>
  PROVE  IndInv'
<1>1. Types'
  BY DEF IndInv, Types
<1>2. Nested' /\ Stages'
  BY LaunchesStay
<1>3. Watches
  BY SameBridges
<1>4. AllHonest'
  BY <1>3, NowHonest, MemoryKept
<1>5. Bridges'
  BY DEF IndInv, Bridges
<1>6. QED
  BY <1>1, <1>2, <1>4, <1>5 DEF IndInv

LEMMA OpenOriginalKeeps ==
  ASSUME IndInv, OpenOriginal
  PROVE  IndInv'
<1>1. Types /\ Appears(Master, 0, "open") /\ Master \in Profiles /\ 0 \in 0 .. MaxBridges
  BY Constants DEF IndInv, OpenOriginal, Profiles
<1>2. /\ process' \in Seq(Process) /\ Len(process') <= MaxProcesses
      /\ DOMAIN process' = DOMAIN process \cup {Len(process) + 1}
      /\ process'[Len(process) + 1] =
           [dir |-> Master, bridge |-> 0, state |-> "open"]
      /\ \A n \in DOMAIN process : process'[n] = process[n]
      /\ Lives
  BY <1>1, Appeared
<1>3. Children'
  BY <1>2 DEF IndInv, Children, OpenOriginal
<1>4. QED
  BY <1>2, <1>3, WindowsStep DEF OpenOriginal, bounds

LEMMA RegisterKeeps ==
  ASSUME IndInv, NEW n \in DOMAIN process, Register(n)
  PROVE  IndInv'
<1>1. /\ process' \in Seq(Process) /\ Len(process') <= MaxProcesses
      /\ DOMAIN process' = DOMAIN process
      /\ process'[n] = [process[n] EXCEPT !.state = "open"]
      /\ \A k \in DOMAIN process : k # n => process'[k] = process[k]
      /\ Lives /\ Quiet
  BY StateChanged DEF IndInv, Register
<1>2. process[n] \in Process
  BY Items DEF IndInv
<1>3. Children'
  BY <1>1, <1>2 DEF IndInv, Children, Register, Process
<1>4. QED
  BY <1>1, <1>3, WindowsStep DEF Register, bounds

LEMMA CloseKeeps ==
  ASSUME IndInv, NEW n \in DOMAIN process, Close(n)
  PROVE  IndInv'
<1>1. /\ process' \in Seq(Process) /\ Len(process') <= MaxProcesses
      /\ DOMAIN process' = DOMAIN process
      /\ process'[n] = [process[n] EXCEPT !.state = "closed"]
      /\ \A k \in DOMAIN process : k # n => process'[k] = process[k]
      /\ Lives /\ Quiet
  BY StateChanged DEF IndInv, Close
<1>2. process[n] \in Process
  BY Items DEF IndInv
<1>3. Children'
  BY <1>1, <1>2 DEF IndInv, Children, Close, Process
<1>4. QED
  BY <1>1, <1>3, WindowsStep DEF Close, bounds

\* The window that closed and the one that comes in its place.
LEMMA SelfRestartWindows ==
  ASSUME Types, NEW n \in DOMAIN process, SelfRestart(n)
  PROVE  /\ process' \in Seq(Process) /\ Len(process') <= MaxProcesses
         /\ DOMAIN process' = DOMAIN process \cup {Len(process) + 1}
         /\ Len(process) + 1 \notin DOMAIN process
         /\ process'[Len(process) + 1] = process[n]
         /\ process'[n] = [process[n] EXCEPT !.state = "closed"]
         /\ \A k \in DOMAIN process : k # n => process'[k] = process[k]
         /\ process[n] \in Process /\ process[n].state = "open"
         /\ Lives
<1>1. process[n] \in Process /\ process \in Seq(Process)
  BY Items DEF Types
<1>2. PICK e \in Process : e = [process[n] EXCEPT !.state = "closed"]
  BY <1>1 DEF Process
<1>3. PICK q : q = [process EXCEPT ![n] = e]
  OBVIOUS
<1>4. /\ q \in Seq(Process) /\ Len(q) = Len(process) /\ DOMAIN q = DOMAIN process
      /\ q[n] = e /\ \A j \in DOMAIN process : j # n => q[j] = process[j]
  BY <1>1, <1>3, Replaced
<1>5. PICK t : t = process'
  OBVIOUS
<1>6. t = Append(q, process[n]) /\ Len(process) < MaxProcesses
      /\ process[n].state = "open"
  BY <1>2, <1>3, <1>5 DEF SelfRestart, Open
<1>7. /\ t \in Seq(Process) /\ Len(t) = Len(q) + 1
      /\ DOMAIN t = DOMAIN q \cup {Len(q) + 1}
      /\ Len(q) + 1 \notin DOMAIN q
      /\ t[Len(q) + 1] = process[n] /\ \A j \in DOMAIN q : t[j] = q[j]
  BY <1>1, <1>4, <1>6, Added
<1>8. Len(process) \in Nat /\ MaxProcesses \in Nat
  BY Items, Constants
<1>9. e.dir = process[n].dir /\ e.bridge = process[n].bridge /\ e.state = "closed"
  BY <1>1, <1>2 DEF Process
<1>10. Lives
  BY <1>4, <1>5, <1>6, <1>7, <1>9 DEF Lives
<1>11. QED
  BY <1>1, <1>2, <1>4, <1>5, <1>6, <1>7, <1>8, <1>10

LEMMA SelfRestartKeeps ==
  ASSUME IndInv, NEW n \in DOMAIN process, SelfRestart(n)
  PROVE  IndInv'
<1>1. /\ process' \in Seq(Process) /\ Len(process') <= MaxProcesses
      /\ DOMAIN process' = DOMAIN process \cup {Len(process) + 1}
      /\ process'[Len(process) + 1] = process[n]
      /\ process'[n] = [process[n] EXCEPT !.state = "closed"]
      /\ \A k \in DOMAIN process : k # n => process'[k] = process[k]
      /\ process[n] \in Process /\ process[n].state = "open"
      /\ Lives
  BY SelfRestartWindows DEF IndInv
<1>2. process'[n].state = "closed"
  BY <1>1 DEF Process
<1>3. Children'
  BY <1>1, <1>2 DEF IndInv, Children, SelfRestart
<1>4. QED
  BY <1>1, <1>3, WindowsStep DEF SelfRestart

\* A bridge that goes is not of a living window.
LEMMA BridgeGone ==
  ASSUME Types, NEW b \in DOMAIN bridge,
         bridge[b].state # "watching" \/ ~Alive(bridge[b].pid),
         UNCHANGED process, bridge' = [bridge EXCEPT ![b].state = "gone"]
  PROVE  /\ bridge' \in Seq(Bridge) /\ Len(bridge') <= MaxBridges
         /\ DOMAIN bridge' = DOMAIN bridge
         /\ bridge'[b].state = "gone"
         /\ \A k \in DOMAIN bridge : k # b => bridge'[k] = bridge[k]
         /\ Watches
<1>1. bridge[b] \in Bridge /\ bridge \in Seq(Bridge)
  BY Items DEF Types
<1>2. PICK e \in Bridge : e = [bridge[b] EXCEPT !.state = "gone"]
  BY <1>1 DEF Bridge
<1>3. PICK t : t = bridge'
  OBVIOUS
<1>4. t = [bridge EXCEPT ![b] = e]
  BY <1>2, <1>3
<1>5. /\ t \in Seq(Bridge) /\ Len(t) = Len(bridge) /\ DOMAIN t = DOMAIN bridge
      /\ t[b] = e /\ \A j \in DOMAIN bridge : j # b => t[j] = bridge[j]
  BY <1>1, <1>4, Replaced
<1>6. e.state = "gone"
  BY <1>1, <1>2 DEF Bridge
<1>7. 0 \notin DOMAIN process
  BY Items
<1>8. Watches
  BY <1>3, <1>5, <1>7 DEF Watches, Alive
<1>9. QED
  BY <1>3, <1>5, <1>6, <1>8 DEF Types

LEMMA BridgeEndsKeeps ==
  ASSUME IndInv, NEW b \in DOMAIN bridge, BridgeEnds(b)
  PROVE  IndInv'
<1>1. Types /\ UNCHANGED <<process, up, memory, saved, app, launching, pending,
                          bounds>>
  BY DEF IndInv, BridgeEnds
<1>2. bridge[b].state # "watching" \/ ~Alive(bridge[b].pid)
  BY DEF BridgeEnds
<1>3. /\ bridge' \in Seq(Bridge) /\ Len(bridge') <= MaxBridges
      /\ DOMAIN bridge' = DOMAIN bridge
      /\ bridge'[b].state = "gone"
      /\ \A k \in DOMAIN bridge : k # b => bridge'[k] = bridge[k]
      /\ Watches
  BY <1>1, <1>2, BridgeGone DEF BridgeEnds
<1>4. Lives /\ Quiet
  BY <1>1, SameProcesses
<1>5. Types'
  BY <1>1, <1>3 DEF Types, bounds
<1>6. Children'
  BY <1>1 DEF IndInv, Children
<1>7. Nested' /\ Stages'
  BY <1>1, <1>4, LaunchesStay
<1>8. AllHonest'
  BY <1>1, <1>3, <1>4, NowHonest, MemoryKept
<1>9. Bridges'
  BY <1>1, <1>3 DEF IndInv, Bridges
<1>10. QED
  BY <1>5, <1>6, <1>7, <1>8, <1>9 DEF IndInv

LEMMA ChooseKeeps ==
  ASSUME IndInv, NEW p \in Profiles, Choose(p)
  PROVE  IndInv'
<1>1. Types /\ UNCHANGED <<process, bridge, up, memory, saved, launching,
                          pending, bounds>>
  BY DEF IndInv, Choose
<1>2. app' \in App /\ app'.adapter = app.adapter
  BY <1>1 DEF Choose, Types, App
<1>3. Lives /\ Quiet /\ Watches
  BY <1>1, SameProcesses, SameBridges
<1>4. Types'
  BY <1>1, <1>2 DEF Types, bounds
<1>5. Children'
  BY <1>1, <1>2 DEF IndInv, Children
<1>6. Nested' /\ Stages'
  BY <1>1, <1>2, <1>3, LaunchesStay
<1>7. AllHonest'
  BY <1>1, <1>3, NowHonest, MemoryKept
<1>8. Bridges'
  BY <1>1 DEF IndInv, Bridges
<1>9. QED
  BY <1>4, <1>5, <1>6, <1>7, <1>8 DEF IndInv

\* A step of the memory and the file alone.
LEMMA MemoryStep ==
  ASSUME IndInv, UNCHANGED <<process, bridge, launching, app, timeouts>>,
         up' \in BOOLEAN, up => up', pending' \subseteq Profiles,
         \A m \in {memory', saved'} :
           m \in Memory /\ \A p \in Profiles : Honest(m, p)
  PROVE  IndInv'
<1>1. Lives /\ Quiet /\ Watches
  BY SameProcesses, SameBridges DEF IndInv
<1>2. Types'
  BY DEF IndInv, Types
<1>3. Children'
  BY DEF IndInv, Children
<1>4. Nested' /\ Stages'
  BY <1>1, LaunchesStay
<1>5. AllHonest'
  BY <1>1, MemoryKept
<1>6. Bridges'
  BY DEF IndInv, Bridges
<1>7. QED
  BY <1>2, <1>3, <1>4, <1>5, <1>6 DEF IndInv

LEMMA RestartKeeps ==
  ASSUME IndInv, NEW p \in Profiles, Restart(p)
  PROVE  IndInv'
<1>1. UNCHANGED <<process, bridge, up, memory, app, launching, timeouts>>
  BY DEF Restart, bounds
<1>2. saved' \in {saved, memory}
  BY SaveType DEF Restart
<1>3. pending' \subseteq Profiles /\ up' \in BOOLEAN
  BY <1>1 DEF Restart, IndInv, Types
<1>4. QED
  BY <1>1, <1>2, <1>3, NowHonest, MemoryStep

LEMMA OwnFacts ==
  ASSUME Types, NEW p \in Profiles, NEW n \in Own(p)
  PROVE  /\ n \in DOMAIN process /\ n \in 1 .. MaxProcesses
         /\ Open(n) /\ process[n].dir = p
BY Items DEF Own

\* A window that is adopted is the profile's own, and shows no proxy.
LEMMA AdoptHonest ==
  ASSUME Types, NEW m \in Memory, \A q \in Profiles : Honest(m, q),
         NEW p \in Profiles, NEW n \in Own(p), NEW k, k = Adopt(m, p, n)
  PROVE  k \in Memory /\ \A q \in Profiles : Honest(k, q)
<1>1. n \in DOMAIN process /\ n \in 1 .. MaxProcesses /\ process[n].dir = p
  BY OwnFacts
<1>2. /\ m.pid \in [Profiles -> 0 .. MaxProcesses]
      /\ m.port \in [Profiles -> 0 .. MaxBridges]
  BY DEF Memory
<1>3. n \in 0 .. MaxProcesses /\ 0 \in 0 .. MaxBridges
  BY <1>1, Constants
<1>4. k = [pid |-> [m.pid EXCEPT ![p] = n], port |-> [m.port EXCEPT ![p] = 0]]
  BY DEF Adopt, Memory
<1>5. k \in Memory
  BY <1>2, <1>3, <1>4 DEF Memory
<1>6. ASSUME NEW q \in Profiles
      PROVE  Honest(k, q)
  <2>1. CASE q = p
    <3>1. k.pid[q] = n /\ k.port[q] = 0
      BY <1>2, <1>4, <2>1
    <3>2. QED
      BY <1>1, <2>1, <3>1 DEF Honest
  <2>2. CASE q # p
    <3>1. k.pid[q] = m.pid[q] /\ k.port[q] = m.port[q]
      BY <1>2, <1>4, <2>2
    <3>2. Honest(m, q)
      OBVIOUS
    <3>3. QED
      BY <3>1, <3>2 DEF Honest
  <2>3. QED
    BY <2>1, <2>2
<1>7. QED
  BY <1>5, <1>6

\* What adoptRunning finds is true.
LEMMA AdoptedHonest ==
  ASSUME IndInv, NEW f \in Adopted(memory), NEW m, m = Forgotten(memory, f)
  PROVE  m \in Memory /\ \A p \in Profiles : Honest(m, p)
<1>1. /\ f.pid \in [Profiles -> 0 .. Len(process)] /\ f.port = memory.port
      /\ f = [pid |-> f.pid, port |-> f.port]
      /\ \A p \in Profiles : IF Found(memory, p) = {} THEN f.pid[p] = memory.pid[p]
                             ELSE f.pid[p] \in Found(memory, p)
  BY DEF Adopted
<1>2. /\ memory.pid \in [Profiles -> 0 .. MaxProcesses]
      /\ memory.port \in [Profiles -> 0 .. MaxBridges]
      /\ Types
  BY DEF IndInv, Types, Memory
<1>3. Len(process) \in 0 .. MaxProcesses /\ MaxProcesses \in Nat
      /\ 0 \in 0 .. MaxBridges
  BY <1>2, Items, Constants
<1>4. m = [pid |-> f.pid, port |-> [p \in Profiles |->
             IF f.pid[p] = memory.pid[p] THEN memory.port[p] ELSE 0]]
  BY <1>1 DEF Forgotten
<1>5. f.pid \in [Profiles -> 0 .. MaxProcesses]
  BY <1>1, <1>3
<1>6. m \in Memory
  BY <1>2, <1>3, <1>4, <1>5 DEF Memory
<1>7. ASSUME NEW p \in Profiles
      PROVE  Honest(m, p)
  <2>1. /\ m.pid[p] = f.pid[p]
        /\ m.port[p] = IF f.pid[p] = memory.pid[p] THEN memory.port[p] ELSE 0
    BY <1>4
  <2>2. Honest(memory, p)
    BY DEF IndInv, AllHonest
  <2>3. CASE f.pid[p] = memory.pid[p]
    BY <2>1, <2>2, <2>3 DEF Honest
  <2>4. CASE f.pid[p] # memory.pid[p]
    <3>1. f.pid[p] \in Own(p)
      BY <1>1, <2>4 DEF Found
    <3>2. f.pid[p] \in DOMAIN process /\ process[f.pid[p]].dir = p
      BY <1>2, <3>1, OwnFacts
    <3>3. QED
      BY <2>1, <2>4, <3>2 DEF Honest
  <2>5. QED
    BY <2>3, <2>4
<1>8. QED
  BY <1>6, <1>7

LEMMA BootKeeps ==
  ASSUME IndInv, Boot
  PROVE  IndInv'
<1>1. UNCHANGED <<process, bridge, app, launching, pending, timeouts>> /\ up'
  BY DEF Boot, bounds
<1>2. PICK f \in Adopted(memory) : Looked(Forgotten(memory, f))
  BY DEF Boot
<1>3. PICK m : m = Forgotten(memory, f)
  OBVIOUS
<1>4. m \in Memory /\ \A p \in Profiles : Honest(m, p)
  BY <1>3, AdoptedHonest
<1>5. memory' = m /\ saved' \in {saved, m}
  BY <1>2, <1>3, KeptType DEF Looked
<1>6. pending' \subseteq Profiles /\ up' \in BOOLEAN
  BY <1>1 DEF Boot, IndInv, Types
<1>7. QED
  BY <1>1, <1>4, <1>5, <1>6, NowHonest, MemoryStep

\* The part of Begin that starts a launch.
Starts(p, timed) ==
  /\ Own(p) = {}
  /\ p \in app.proxied => Len(bridge) < MaxBridges
  /\ bridge' = IF p \in app.proxied
               THEN Append(bridge, [state |-> "waiting", pid |-> 0])
               ELSE bridge
  /\ launching' = Append(launching,
       [profile |-> p, stage |-> "ready", pid |-> 0, timed |-> timed,
        bridge |-> IF p \in app.proxied THEN Len(bridge) + 1 ELSE 0,
        before |-> {n \in DOMAIN process : Open(n)}])

LEMMA BeginCases ==
  ASSUME NEW p, NEW m, NEW file, NEW t, Begin(p, m, file, t)
  PROVE  \/ /\ UNCHANGED <<bridge, launching>>
            /\ \/ memory' = m \/ \E n \in Own(p) : memory' = Adopt(m, p, n)
            /\ saved' \in {file, memory'}
         \/ memory' = m /\ saved' = file /\ Starts(p, t)
<1>1. CASE Running(m, p) \/ (p = Master /\ Cardinality(Own(p)) > 1)
  BY <1>1 DEF Begin
<1>2. CASE /\ ~(Running(m, p) \/ (p = Master /\ Cardinality(Own(p)) > 1))
           /\ Own(p) # {}
  BY <1>2 DEF Begin, Written
<1>3. CASE /\ ~(Running(m, p) \/ (p = Master /\ Cardinality(Own(p)) > 1))
           /\ Own(p) = {}
  <2>1. /\ memory' = m /\ saved' = file
        /\ \/ UNCHANGED <<bridge, launching>>
           \/ Starts(p, t)
    BY <1>3 DEF Begin, Starts
  <2>2. QED
    BY <2>1
<1>4. QED
  BY <1>1, <1>2, <1>3

\* The launch that is started, and the bridge it may have.
LEMMA Started ==
  ASSUME IndInv, NEW p \in Profiles, NEW t \in BOOLEAN, Starts(p, t),
         UNCHANGED process
  PROVE  /\ launching' \in Seq(ALaunch)
         /\ DOMAIN launching' = DOMAIN launching \cup {Len(launching) + 1}
         /\ Len(launching') = Len(launching) + 1
         /\ Len(launching) + 1 \notin DOMAIN launching
         /\ \A i \in DOMAIN launching : launching'[i] = launching[i]
         /\ launching'[Len(launching) + 1] \in ALaunch
         /\ launching'[Len(launching) + 1].profile = p
         /\ launching'[Len(launching) + 1].stage = "ready"
         /\ launching'[Len(launching) + 1].before = {n \in DOMAIN process : Open(n)}
         /\ bridge' \in Seq(Bridge) /\ Len(bridge') <= MaxBridges /\ Watches
         /\ \A b \in DOMAIN bridge : b \in DOMAIN bridge' /\ bridge'[b] = bridge[b]
         /\ \/ /\ launching'[Len(launching) + 1].bridge = 0
               /\ DOMAIN bridge' = DOMAIN bridge
            \/ /\ launching'[Len(launching) + 1].bridge = Len(bridge) + 1
               /\ Len(bridge) + 1 \notin DOMAIN bridge
               /\ DOMAIN bridge' = DOMAIN bridge \cup {Len(bridge) + 1}
               /\ bridge'[Len(bridge) + 1].state = "waiting"
<1>1. /\ launching \in Seq(ALaunch) /\ bridge \in Seq(Bridge)
      /\ Len(bridge) \in 0 .. MaxBridges /\ MaxBridges \in Nat /\ MaxProcesses \in Nat
      /\ \A n \in DOMAIN process : n \in 1 .. MaxProcesses
      /\ 0 \notin DOMAIN bridge
  BY Items, Constants DEF IndInv, Types
<1>2. PICK w : w = [state |-> "waiting", pid |-> 0]
  OBVIOUS
<1>3. w \in Bridge /\ w.state = "waiting"
  BY <1>1, <1>2 DEF Bridge
<1>4. PICK e : e = [profile |-> p, stage |-> "ready", pid |-> 0, timed |-> t,
                    bridge |-> IF p \in app.proxied THEN Len(bridge) + 1 ELSE 0,
                    before |-> {n \in DOMAIN process : Open(n)}]
  OBVIOUS
<1>5. {n \in DOMAIN process : Open(n)} \in SUBSET (1 .. MaxProcesses)
  BY <1>1
<1>6. (IF p \in app.proxied THEN Len(bridge) + 1 ELSE 0) \in 0 .. MaxBridges
  BY <1>1 DEF Starts
<1>7. e \in ALaunch
  BY <1>1, <1>4, <1>5, <1>6 DEF ALaunch
<1>8. /\ e.profile = p /\ e.stage = "ready"
      /\ e.before = {n \in DOMAIN process : Open(n)}
      /\ e.bridge = IF p \in app.proxied THEN Len(bridge) + 1 ELSE 0
  BY <1>4
<1>9. PICK s : s = launching'
  OBVIOUS
<1>10. s = Append(launching, e)
  BY <1>4, <1>9 DEF Starts
<1>11. /\ s \in Seq(ALaunch) /\ Len(s) = Len(launching) + 1
       /\ DOMAIN s = DOMAIN launching \cup {Len(launching) + 1}
       /\ Len(launching) + 1 \notin DOMAIN launching
       /\ s[Len(launching) + 1] = e
       /\ \A j \in DOMAIN launching : s[j] = launching[j]
  BY <1>1, <1>7, <1>10, Added
<1>12. PICK c : c = bridge'
  OBVIOUS
<1>13. CASE p \in app.proxied
  <2>1. c = Append(bridge, w) /\ Len(bridge) < MaxBridges
    BY <1>2, <1>12, <1>13 DEF Starts
  <2>2. /\ c \in Seq(Bridge) /\ Len(c) = Len(bridge) + 1
        /\ DOMAIN c = DOMAIN bridge \cup {Len(bridge) + 1}
        /\ Len(bridge) + 1 \notin DOMAIN bridge
        /\ c[Len(bridge) + 1] = w /\ \A j \in DOMAIN bridge : c[j] = bridge[j]
    BY <1>1, <1>3, <2>1, Added
  <2>3. Watches
    BY <1>12, <2>2 DEF Watches
  <2>4. Len(c) <= MaxBridges
    BY <1>1, <2>1, <2>2
  <2>5. QED
    BY <1>3, <1>7, <1>8, <1>9, <1>11, <1>12, <1>13, <2>2, <2>3, <2>4
<1>14. CASE p \notin app.proxied
  <2>1. c = bridge
    BY <1>12, <1>14 DEF Starts
  <2>2. Watches
    BY <1>12, <2>1 DEF Watches
  <2>3. QED
    BY <1>1, <1>7, <1>8, <1>9, <1>11, <1>12, <1>14, <2>1, <2>2
<1>15. QED
  BY <1>13, <1>14

LEMMA StartsKeeps ==
  ASSUME IndInv, up, OthersOpen, NEW p \in Profiles, ~InProgress(p),
         NEW m \in Memory, \A q \in Profiles : Honest(m, q),
         NEW file \in Memory, \A q \in Profiles : Honest(file, q),
         NEW t \in BOOLEAN, Starts(p, t), memory' = m, saved' = file,
         UNCHANGED <<process, up, app, timeouts>>, pending' \subseteq Profiles
  PROVE  IndInv'
<1>1. PICK k : k = Len(launching) + 1
  OBVIOUS
<1>2. PICK e : e = launching'[k]
  OBVIOUS
<1>3. /\ launching' \in Seq(ALaunch)
      /\ DOMAIN launching' = DOMAIN launching \cup {k}
      /\ Len(launching') = k /\ k \notin DOMAIN launching
      /\ \A i \in DOMAIN launching : launching'[i] = launching[i]
      /\ e \in ALaunch /\ e.profile = p /\ e.stage = "ready"
      /\ e.before = {n \in DOMAIN process : Open(n)}
  BY <1>1, <1>2, Started
<1>4. /\ bridge' \in Seq(Bridge) /\ Len(bridge') <= MaxBridges /\ Watches
      /\ \A b \in DOMAIN bridge : b \in DOMAIN bridge' /\ bridge'[b] = bridge[b]
      /\ \/ e.bridge = 0 /\ DOMAIN bridge' = DOMAIN bridge
         \/ /\ e.bridge = Len(bridge) + 1 /\ e.bridge \notin DOMAIN bridge
            /\ DOMAIN bridge' = DOMAIN bridge \cup {e.bridge}
            /\ bridge'[e.bridge].state = "waiting"
  BY <1>1, <1>2, Started
<1>5. Lives /\ Quiet
  BY SameProcesses DEF IndInv
<1>6. memory' = m /\ saved' = file /\ Own(p) = {}
  BY DEF Starts
<1>7. Types'
  BY <1>3, <1>4, <1>6 DEF IndInv, Types
<1>8. Children'
  BY DEF IndInv, Children
<1>9. AllHonest'
  BY <1>4, <1>5, <1>6, MemoryKept
<1>10. \A i \in DOMAIN launching :
         /\ launching[i] \in ToSet(launching) /\ launching[i].stage = "waiting"
         /\ launching[i].profile # p
         /\ launching[i].bridge # 0 => launching[i].bridge \in DOMAIN bridge
  <2>1. Types /\ Nested /\ Bridges
    BY DEF IndInv
  <2>2. QED
    BY <2>1, UnderWay, NoneReady DEF InProgress, Bridges
<1>11. Nested'
  <2>1. launching' # <<>> => up'
    OBVIOUS
  <2>2. \A i \in DOMAIN launching' :
          i # Len(launching') => launching'[i].stage = "waiting"
    BY <1>3, <1>10
  <2>3. ASSUME NEW i \in DOMAIN launching', NEW j \in DOMAIN launching', i # j
        PROVE  /\ launching'[i].profile # launching'[j].profile
               /\ launching'[i].bridge # 0 =>
                    launching'[i].bridge # launching'[j].bridge
    <3>1. CASE i \in DOMAIN launching /\ j \in DOMAIN launching
      BY <1>3, <2>3, <3>1 DEF IndInv, Nested
    <3>2. CASE i = k /\ j \in DOMAIN launching
      BY <1>2, <1>3, <1>4, <1>10, <3>2
    <3>3. CASE i \in DOMAIN launching /\ j = k
      BY <1>2, <1>3, <1>4, <1>10, <3>3
    <3>4. QED
      BY <1>3, <2>3, <3>1, <3>2, <3>3
  <2>4. QED
    BY <2>1, <2>2, <2>3 DEF Nested
<1>12. Stages'
  <2>1. SUFFICES ASSUME NEW l \in ToSet(launching)'
                 PROVE  Awaited(l)' /\ Asked(l)' /\ Returned(l)'
    BY DEF Stages
  <2>2. PICK i \in DOMAIN launching' : l = launching'[i]
    BY <2>1 DEF ToSet
  <2>3. CASE i \in DOMAIN launching
    <3>1. l \in ToSet(launching)
      BY <1>3, <1>10, <2>2, <2>3
    <3>2. l \in ALaunch /\ Awaited(l) /\ Asked(l) /\ Returned(l)
      BY <3>1, UnderWay DEF IndInv, Stages
    <3>3. QED
      BY <1>5, <3>2, StageKept DEF IndInv
  <2>4. CASE i = k
    <3>1. l = e
      BY <1>2, <2>2, <2>4
    <3>2. Own(p)' = {} /\ \A n \in DOMAIN process' : Open(n)' => n \in e.before
      BY <1>3, <1>6 DEF Own, Open
    <3>3. Asked(l)'
      BY <1>3, <3>1, <3>2 DEF Asked, Own
    <3>4. Awaited(l)' /\ Returned(l)'
      BY <1>3, <3>1 DEF Awaited, Returned
    <3>5. QED
      BY <3>3, <3>4
  <2>5. QED
    BY <1>3, <2>2, <2>3, <2>4
<1>13. Bridges'
  <2>1. ASSUME NEW i \in DOMAIN launching', launching'[i].bridge # 0
        PROVE  /\ launching'[i].bridge \in DOMAIN bridge'
               /\ bridge'[launching'[i].bridge].state # "watching"
    <3>1. CASE i \in DOMAIN launching
      BY <1>3, <1>4, <2>1, <3>1 DEF IndInv, Bridges
    <3>2. CASE i = k
      BY <1>2, <1>4, <2>1, <3>2
    <3>3. QED
      BY <1>3, <2>1, <3>1, <3>2
  <2>2. ASSUME NEW b \in DOMAIN bridge', bridge'[b].state = "waiting"
        PROVE  \E i \in DOMAIN launching' : launching'[i].bridge = b
    <3>1. CASE b \in DOMAIN bridge
      <4>1. bridge[b].state = "waiting"
        BY <1>4, <2>2, <3>1
      <4>2. PICK i \in DOMAIN launching : launching[i].bridge = b
        BY <3>1, <4>1 DEF IndInv, Bridges
      <4>3. QED
        BY <1>3, <4>2
    <3>2. CASE b = e.bridge
      BY <1>2, <1>3, <3>2
    <3>3. QED
      BY <1>4, <2>2, <3>1, <3>2
  <2>3. QED
    BY <2>1, <2>2 DEF Bridges
<1>14. QED
  BY <1>7, <1>8, <1>9, <1>11, <1>12, <1>13 DEF IndInv

LEMMA BeginKeeps ==
  ASSUME IndInv, up, OthersOpen, NEW p \in Profiles, ~InProgress(p),
         NEW m \in Memory, \A q \in Profiles : Honest(m, q),
         NEW file \in Memory, \A q \in Profiles : Honest(file, q),
         NEW t \in BOOLEAN, Begin(p, m, file, t),
         UNCHANGED <<process, up, app, timeouts>>, pending' \subseteq Profiles
  PROVE  IndInv'
<1>1. CASE /\ UNCHANGED <<bridge, launching>>
           /\ \/ memory' = m \/ \E n \in Own(p) : memory' = Adopt(m, p, n)
           /\ saved' \in {file, memory'}
  <2>1. PICK k : k = memory'
    OBVIOUS
  <2>2. k \in Memory /\ \A q \in Profiles : Honest(k, q)
    BY <1>1, <2>1, AdoptHonest DEF IndInv
  <2>3. up' \in BOOLEAN
    BY DEF IndInv, Types
  <2>4. QED
    BY <1>1, <2>1, <2>2, <2>3, NowHonest, MemoryStep
<1>2. CASE memory' = m /\ saved' = file /\ Starts(p, t)
  BY <1>2, StartsKeeps
<1>3. QED
  BY <1>1, <1>2, BeginCases

LEMMA LaunchKeeps ==
  ASSUME IndInv, NEW p \in Profiles, Launch(p)
  PROVE  IndInv'
<1>1. /\ up /\ launching = <<>> /\ Begin(p, memory, saved, FALSE)
      /\ UNCHANGED <<process, up, app, pending, timeouts>>
  BY DEF Launch, bounds
<1>2. PICK m : m = memory
  OBVIOUS
<1>3. m \in Memory /\ \A q \in Profiles : Honest(m, q)
  BY <1>2, NowHonest
<1>4. OthersOpen /\ ~InProgress(p)
  BY <1>1, Items DEF IndInv, OthersOpen, InProgress
<1>5. PICK file : file = saved
  OBVIOUS
<1>6. /\ Begin(p, m, file, FALSE)
      /\ file \in Memory /\ \A q \in Profiles : Honest(file, q)
  BY <1>1, <1>2, <1>5, NowHonest
<1>7. pending' \subseteq Profiles
  BY <1>1 DEF IndInv, Types
<1>8. QED
  BY <1>1, <1>3, <1>4, <1>7, <1>6, BeginKeeps

LEMMA TickKeeps ==
  ASSUME IndInv, Tick
  PROVE  IndInv'
<1>1. /\ up /\ OthersOpen
      /\ UNCHANGED <<process, up, app, timeouts>>
  BY DEF Tick, Ticking, OthersOpen, bounds
<1>2. PICK f \in Adopted(memory) :
        LET m == Forgotten(memory, f) IN
        \/ /\ pending = {} /\ Looked(m)
           /\ UNCHANGED <<bridge, launching, pending>>
        \/ \E p \in pending :
             /\ pending' \in IF Running(m, p) THEN {pending, pending \ {p}}
                            ELSE {pending \ {p}}
             /\ IF Running(m, p) \/ InProgress(p)
                THEN Looked(m) /\ UNCHANGED <<bridge, launching>>
                ELSE \E file \in Kept(m) : Begin(p, m, file, TRUE)
  BY DEF Tick
<1>3. PICK m : m = Forgotten(memory, f)
  OBVIOUS
<1>4. m \in Memory /\ \A p \in Profiles : Honest(m, p)
  BY <1>3, AdoptedHonest
<1>5. \/ /\ Looked(m) /\ UNCHANGED <<bridge, launching>>
         /\ pending' \subseteq Profiles
      \/ \E p \in Profiles : /\ pending' \subseteq Profiles
                             /\ ~InProgress(p)
                             /\ \E file \in Kept(m) : Begin(p, m, file, TRUE)
  <2>1. pending \subseteq Profiles
    BY DEF IndInv, Types
  <2>2. CASE /\ pending = {} /\ Looked(m)
             /\ UNCHANGED <<bridge, launching, pending>>
    BY <2>1, <2>2
  <2>3. ASSUME NEW p \in pending,
               pending' \in IF Running(m, p) THEN {pending, pending \ {p}}
                           ELSE {pending \ {p}},
               IF Running(m, p) \/ InProgress(p)
               THEN Looked(m) /\ UNCHANGED <<bridge, launching>>
               ELSE \E file \in Kept(m) : Begin(p, m, file, TRUE)
        PROVE  <1>5
    <3>1. pending' \subseteq Profiles /\ p \in Profiles
      BY <2>1, <2>3
    <3>2. QED
      BY <2>3, <3>1
  <2>4. QED
    BY <1>2, <1>3, <2>2, <2>3
<1>6. CASE /\ Looked(m) /\ UNCHANGED <<bridge, launching>>
           /\ pending' \subseteq Profiles
  <2>1. memory' = m /\ saved' \in {saved, m} /\ up' \in BOOLEAN
    BY <1>1, <1>6, KeptType DEF Looked, IndInv, Types
  <2>2. QED
    BY <1>1, <1>4, <1>6, <2>1, NowHonest, MemoryStep
<1>7. ASSUME NEW p \in Profiles, pending' \subseteq Profiles, ~InProgress(p),
             NEW file \in Kept(m), Begin(p, m, file, TRUE)
      PROVE  IndInv'
  <2>1. file \in Memory /\ \A q \in Profiles : Honest(file, q)
    BY <1>4, <1>7, KeptType, NowHonest
  <2>2. QED
    BY <1>1, <1>4, <1>7, <2>1, BeginKeeps
<1>8. QED
  BY <1>5, <1>6, <1>7

\* The innermost launch goes on.
LEMMA GoneOn ==
  ASSUME Types, launching # <<>>, NEW n \in 0 .. MaxProcesses,
         NEW s \in {"waiting", "returned"}, GoOn(s, n)
  PROVE  /\ launching' \in Seq(ALaunch) /\ DOMAIN launching' = DOMAIN launching
         /\ Len(launching') = Len(launching) /\ Len(launching) \in DOMAIN launching
         /\ \A i \in DOMAIN launching :
              i # Len(launching) => launching'[i] = launching[i]
         /\ Top \in ALaunch
         /\ LET e == launching'[Len(launching)] IN
            /\ e \in ALaunch /\ e.stage = s /\ e.pid = n
            /\ e.profile = Top.profile /\ e.bridge = Top.bridge
            /\ e.before = Top.before
<1>1. Len(launching) \in DOMAIN launching /\ Top \in ALaunch
      /\ launching \in Seq(ALaunch) /\ Top = launching[Len(launching)]
  BY Items DEF Types, Top
<1>2. PICK e : e = [Top EXCEPT !.stage = s, !.pid = n]
  OBVIOUS
<1>3. /\ e \in ALaunch /\ e.stage = s /\ e.pid = n
      /\ e.profile = Top.profile /\ e.bridge = Top.bridge
      /\ e.before = Top.before
  BY <1>1, <1>2 DEF ALaunch
<1>4. PICK t : t = launching'
  OBVIOUS
<1>5. t = [launching EXCEPT ![Len(launching)] = e]
  <2>1. t = [launching EXCEPT ![Len(launching)].stage = s,
                              ![Len(launching)].pid = n]
    BY <1>4 DEF GoOn
  <2>2. t = [launching EXCEPT ![Len(launching)] =
               [launching[Len(launching)] EXCEPT !.stage = s, !.pid = n]]
    BY <1>1, <2>1
  <2>3. QED
    BY <1>1, <1>2, <2>2
<1>6. /\ t \in Seq(ALaunch) /\ Len(t) = Len(launching)
      /\ DOMAIN t = DOMAIN launching /\ t[Len(launching)] = e
      /\ \A j \in DOMAIN launching : j # Len(launching) => t[j] = launching[j]
  BY <1>1, <1>3, <1>5, Replaced
<1>7. QED
  BY <1>1, <1>3, <1>4, <1>6

LEMMA GoOnKeeps ==
  ASSUME IndInv, launching # <<>>, NEW n \in 0 .. MaxProcesses,
         NEW s \in {"waiting", "returned"}, GoOn(s, n),
         process' \in Seq(Process), Len(process') <= MaxProcesses,
         Children', Lives, n \in DOMAIN process',
         s = "waiting" =>
           /\ app.adapter = "Claude" /\ Top.profile \in Copies
           /\ process'[n].dir = Top.profile /\ process'[n].bridge = Top.bridge,
         s = "returned" =>
           \/ process'[n].dir = Top.profile /\ process'[n].bridge = Top.bridge
           \/ Top.profile = Master /\ process'[n].dir # Master
           \/ Top.profile # Master /\ n \in Top.before,
         UNCHANGED <<bridge, up, memory, saved, app, pending, timeouts>>
  PROVE  IndInv'
<1>1. PICK k, e : k = Len(launching) /\ e = launching'[k]
  OBVIOUS
<1>2. /\ launching' \in Seq(ALaunch) /\ DOMAIN launching' = DOMAIN launching
      /\ Len(launching') = k /\ k \in DOMAIN launching
      /\ \A i \in DOMAIN launching : i # k => launching'[i] = launching[i]
      /\ e \in ALaunch /\ e.stage = s /\ e.pid = n
      /\ e.profile = Top.profile /\ e.bridge = Top.bridge
      /\ e.before = Top.before
  BY <1>1, GoneOn DEF IndInv
<1>3. \A i \in DOMAIN launching :
        /\ launching'[i].profile = launching[i].profile
        /\ launching'[i].bridge = launching[i].bridge
  BY <1>1, <1>2 DEF Top
<1>4. Types'
  BY <1>2 DEF IndInv, Types
<1>5. Watches
  BY SameBridges
<1>6. AllHonest'
  BY <1>5, NowHonest, MemoryKept
<1>7. Nested'
  <2>1. launching' # <<>> => up'
    BY DEF IndInv, Nested
  <2>2. \A i \in DOMAIN launching' :
          i # Len(launching') => launching'[i].stage = "waiting"
    BY <1>1, <1>2 DEF IndInv, Nested
  <2>3. \A i, j \in DOMAIN launching' : i # j =>
          /\ launching'[i].profile # launching'[j].profile
          /\ launching'[i].bridge # 0 =>
               launching'[i].bridge # launching'[j].bridge
    BY <1>2, <1>3 DEF IndInv, Nested
  <2>4. QED
    BY <2>1, <2>2, <2>3 DEF Nested
<1>8. Bridges'
  BY <1>2, <1>3 DEF IndInv, Bridges
<1>9. Stages'
  <2>1. SUFFICES ASSUME NEW l \in ToSet(launching)'
                 PROVE  Awaited(l)' /\ Asked(l)' /\ Returned(l)'
    BY DEF Stages
  <2>2. PICK i \in DOMAIN launching' : l = launching'[i]
    BY <2>1 DEF ToSet
  <2>3. CASE i # k
    <3>1. i \in DOMAIN launching /\ l = launching[i] /\ l.stage = "waiting"
      BY <1>1, <1>2, <2>2, <2>3 DEF IndInv, Nested
    <3>2. l \in ToSet(launching)
      BY <3>1, UnderWay DEF IndInv
    <3>3. l \in ALaunch /\ Awaited(l) /\ Asked(l) /\ Returned(l)
      BY <3>2, UnderWay DEF IndInv, Stages
    <3>4. QED
      BY <3>1, <3>3, StageKept DEF IndInv
  <2>4. CASE i = k
    <3>1. l = e
      BY <1>1, <2>2, <2>4
    <3>2. Awaited(l)'
      BY <1>2, <3>1 DEF Awaited
    <3>3. Asked(l)'
      BY <1>2, <3>1 DEF Asked
    <3>4. Returned(l)'
      BY <1>2, <3>1 DEF Returned
    <3>5. QED
      BY <3>2, <3>3, <3>4
  <2>5. QED
    BY <2>3, <2>4
<1>10. QED
  BY <1>4, <1>6, <1>7, <1>8, <1>9 DEF IndInv

LEMMA Popped ==
  ASSUME Types, launching # <<>>, Pop
  PROVE  /\ launching' \in Seq(ALaunch) /\ Len(launching) \in DOMAIN launching
         /\ DOMAIN launching' = DOMAIN launching \ {Len(launching)}
         /\ \A j \in DOMAIN launching' : launching'[j] = launching[j]
<1>1. PICK s, t : s = launching /\ t = launching'
  OBVIOUS
<1>2. s \in Seq(ALaunch) /\ Len(s) # 0 /\ t = Front(s)
  BY <1>1, EmptySeq DEF Types, Pop
<1>3. t \in Seq(ALaunch)
  BY ONLY <1>2, Removed
<1>4. Len(s) \in DOMAIN s
  BY ONLY <1>2, Removed
<1>5. DOMAIN t = DOMAIN s \ {Len(s)}
  BY ONLY <1>2, Removed
<1>6. ASSUME NEW j \in DOMAIN t
      PROVE  t[j] = s[j]
  <2>1. Len(s) \in Nat \ {0} /\ Len(t) \in Nat /\ DOMAIN t = 1 .. Len(t)
        /\ DOMAIN s = 1 .. Len(s)
    BY <1>2, <1>3, LenProperties
  <2>2. Len(t) = Len(s) - 1
    BY ONLY <1>2, Removed
  <2>3. j \in 1 .. Len(s) - 1
    BY ONLY <1>6, <2>1, <2>2
  <2>4. t = SubSeq(s, 1, Len(s) - 1)
    BY <1>2 DEF Front
  <2>5. QED
    BY ONLY <2>1, <2>3, <2>4
<1>7. QED
  BY <1>1, <1>3, <1>4, <1>5, <1>6

\* The innermost launch ends, and its bridge no longer waits.
LEMMA PopKeeps ==
  ASSUME IndInv, launching # <<>>, Pop,
         bridge' \in Seq(Bridge), Len(bridge') <= MaxBridges,
         DOMAIN bridge' = DOMAIN bridge,
         \A b \in DOMAIN bridge : b # Top.bridge => bridge'[b] = bridge[b],
         Top.bridge # 0 => bridge'[Top.bridge].state # "waiting",
         UNCHANGED <<process, up, app, pending>>, timeouts' \in Nat,
         memory' \in Memory, saved' \in Memory, AllHonest'
  PROVE  IndInv'
<1>1. PICK k : k = Len(launching)
  OBVIOUS
<1>2. PICK t : t = launching'
  OBVIOUS
<1>3. /\ t \in Seq(ALaunch) /\ k \in DOMAIN launching
      /\ DOMAIN t = DOMAIN launching \ {k}
      /\ \A j \in DOMAIN t : t[j] = launching[j]
  BY <1>1, <1>2, Popped DEF IndInv
<1>4. Lives /\ Quiet
  BY SameProcesses DEF IndInv
<1>5. Types'
  BY <1>2, <1>3 DEF IndInv, Types
<1>6. Children'
  BY DEF IndInv, Children
<1>7. Nested'
  BY <1>1, <1>2, <1>3 DEF IndInv, Nested
<1>8. Stages'
  <2>1. SUFFICES ASSUME NEW l \in ToSet(launching)'
                 PROVE  Awaited(l)' /\ Asked(l)' /\ Returned(l)'
    BY DEF Stages
  <2>2. PICK i \in DOMAIN t : l = t[i]
    BY <1>2, <2>1 DEF ToSet
  <2>3. l \in ToSet(launching)
    BY <1>3, <2>2, UnderWay DEF IndInv
  <2>4. l \in ALaunch /\ Awaited(l) /\ Asked(l) /\ Returned(l)
    BY <2>3, UnderWay DEF IndInv, Stages
  <2>5. QED
    BY <1>4, <2>4, StageKept DEF IndInv
<1>9. Bridges'
  <2>1. 0 \notin DOMAIN bridge /\ Top = launching[k]
    BY <1>1, Items DEF IndInv, Top
  <2>2. ASSUME NEW i \in DOMAIN t, t[i].bridge # 0
        PROVE  /\ t[i].bridge \in DOMAIN bridge'
               /\ bridge'[t[i].bridge].state # "watching"
    <3>1. i \in DOMAIN launching /\ i # k /\ t[i] = launching[i]
      BY <1>3, <2>2
    <3>2. launching[i].bridge # Top.bridge
      BY <1>3, <2>1, <2>2, <3>1 DEF IndInv, Nested
    <3>3. QED
      BY <2>2, <3>1, <3>2 DEF IndInv, Bridges
  <2>3. ASSUME NEW b \in DOMAIN bridge, bridge'[b].state = "waiting"
        PROVE  \E i \in DOMAIN t : t[i].bridge = b
    <3>1. b # Top.bridge
      BY <2>1, <2>3
    <3>2. bridge[b].state = "waiting"
      BY <2>3, <3>1
    <3>3. PICK i \in DOMAIN launching : launching[i].bridge = b
      BY <3>2 DEF IndInv, Bridges
    <3>4. i # k
      BY <2>1, <3>1, <3>3
    <3>5. QED
      BY <1>3, <3>3, <3>4
  <2>4. QED
    BY <1>2, <2>2, <2>3 DEF Bridges
<1>10. QED
  BY <1>5, <1>6, <1>7, <1>8, <1>9 DEF IndInv

\* The bridge of the innermost launch is told to go.
LEMMA Abandoned ==
  ASSUME IndInv, launching # <<>>, Abandon(Top.bridge), UNCHANGED process
  PROVE  /\ bridge' \in Seq(Bridge) /\ Len(bridge') <= MaxBridges
         /\ DOMAIN bridge' = DOMAIN bridge
         /\ \A b \in DOMAIN bridge : b # Top.bridge => bridge'[b] = bridge[b]
         /\ Top.bridge # 0 => bridge'[Top.bridge].state # "waiting"
         /\ Watches
<1>1. Types
  BY DEF IndInv
<1>2. CASE Top.bridge = 0
  <2>1. bridge' = bridge
    BY <1>2 DEF Abandon
  <2>2. QED
    BY <1>1, <1>2, <2>1, SameBridges DEF Types
<1>3. CASE Top.bridge # 0
  <2>1. PICK b : b = Top.bridge
    OBVIOUS
  <2>2. b \in DOMAIN bridge /\ bridge[b].state # "watching"
    BY <1>1, <1>3, <2>1, Items DEF IndInv, Bridges, Top
  <2>3. bridge' = [bridge EXCEPT ![b].state = "gone"]
    BY <1>3, <2>1 DEF Abandon
  <2>4. /\ bridge' \in Seq(Bridge) /\ Len(bridge') <= MaxBridges
        /\ DOMAIN bridge' = DOMAIN bridge
        /\ bridge'[b].state = "gone"
        /\ \A k \in DOMAIN bridge : k # b => bridge'[k] = bridge[k]
        /\ Watches
    BY <1>1, <2>2, <2>3, BridgeGone
  <2>5. QED
    BY <2>1, <2>4
<1>4. QED
  BY <1>2, <1>3

\* A launch ends with nothing started, or with a process that is not its own.
LEMMA GivenUp ==
  ASSUME IndInv, launching # <<>>, Abandon(Top.bridge), Pop,
         UNCHANGED memory, saved' \in {saved, memory},
         UNCHANGED <<process, up, app, pending>>, timeouts' \in Nat
  PROVE  IndInv'
<1>1. /\ bridge' \in Seq(Bridge) /\ Len(bridge') <= MaxBridges
      /\ DOMAIN bridge' = DOMAIN bridge
      /\ \A b \in DOMAIN bridge : b # Top.bridge => bridge'[b] = bridge[b]
      /\ Top.bridge # 0 => bridge'[Top.bridge].state # "waiting"
      /\ Watches
  BY Abandoned
<1>2. Lives
  BY SameProcesses DEF IndInv
<1>3. AllHonest' /\ memory' \in Memory /\ saved' \in Memory
  BY <1>1, <1>2, NowHonest, MemoryKept
<1>4. QED
  BY <1>1, <1>3, PopKeeps

LEMMA FailedKeeps ==
  ASSUME IndInv, launching # <<>>, Failed,
         UNCHANGED <<process, up, app, pending>>, timeouts' \in Nat
  PROVE  IndInv'
<1>1. saved' \in {saved, memory}
  BY DEF Failed, Save, Written
<1>2. QED
  BY <1>1, GivenUp DEF Failed

LEMMA TopFacts ==
  ASSUME IndInv, launching # <<>>
  PROVE  /\ Top \in ALaunch /\ Top.profile \in Profiles
         /\ Top.bridge \in 0 .. MaxBridges
         /\ Top = launching[Len(launching)] /\ Len(launching) \in DOMAIN launching
         /\ Awaited(Top) /\ Asked(Top) /\ Returned(Top)
         /\ Top.profile # Master => Top.profile \in Copies
<1>1. Top \in ToSet(launching) /\ Top \in ALaunch
  BY UnderWay DEF IndInv
<1>2. Awaited(Top) /\ Asked(Top) /\ Returned(Top)
  BY <1>1 DEF IndInv, Stages
<1>3. Top.profile \in Profiles /\ Top.bridge \in 0 .. MaxBridges
  BY <1>1 DEF ALaunch
<1>4. Top = launching[Len(launching)] /\ Len(launching) \in DOMAIN launching
  BY Items DEF IndInv, Top
<1>5. QED
  BY <1>1, <1>2, <1>3, <1>4 DEF Profiles

\* The window that was asked for comes.
LEMMA Comes ==
  ASSUME IndInv, launching # <<>>, NEW s \in {"starting", "open"},
         NEW stage \in {"waiting", "returned"},
         Appears(Top.profile, Top.bridge, s), GoOn(stage, Len(process) + 1),
         s = "starting" \/ stage = "waiting" =>
           app.adapter = "Claude" /\ Top.profile \in Copies,
         UNCHANGED <<bridge, up, memory, saved, app, pending, timeouts>>
  PROVE  IndInv'
<1>1. PICK d, b, n : d = Top.profile /\ b = Top.bridge /\ n = Len(process) + 1
  OBVIOUS
<1>2. Types /\ d \in Profiles /\ b \in 0 .. MaxBridges
      /\ Appears(d, b, s) /\ GoOn(stage, n)
  BY <1>1, TopFacts DEF IndInv
<1>3. /\ process' \in Seq(Process) /\ Len(process') <= MaxProcesses
      /\ n \in 1 .. MaxProcesses
      /\ DOMAIN process' = DOMAIN process \cup {n}
      /\ process'[n] = [dir |-> d, bridge |-> b, state |-> s]
      /\ \A k \in DOMAIN process : process'[k] = process[k]
      /\ Lives
  BY <1>1, <1>2, Appeared
<1>4. Children'
  BY <1>1, <1>3 DEF IndInv, Children
<1>5. process'[n].dir = Top.profile /\ process'[n].bridge = Top.bridge
  BY <1>1, <1>3
<1>6. QED
  BY <1>2, <1>3, <1>4, <1>5, GoOnKeeps

LEMMA StartChildKeeps ==
  ASSUME IndInv, StartChild
  PROVE  IndInv'
<1>1. /\ launching # <<>> /\ app.adapter = "Claude" /\ Top.profile # Master
      /\ UNCHANGED <<up, app, pending, timeouts>>
  BY DEF StartChild, At, Waits, bounds
<1>2. Top.profile \in Copies
  BY <1>1, TopFacts
<1>3. CASE /\ Appears(Top.profile, Top.bridge, "starting")
           /\ GoOn("waiting", Len(process) + 1)
           /\ UNCHANGED <<bridge, memory, saved>>
  BY <1>1, <1>2, <1>3, Comes
<1>4. CASE Failed /\ UNCHANGED process
  BY <1>1, <1>4, FailedKeeps DEF IndInv, Types
<1>5. QED
  BY <1>3, <1>4 DEF StartChild

\* A window that was there already is taken for another by Others.
LEMMA WasThere ==
  ASSUME IndInv, At("ready"), ~(Waits /\ Top.profile # Master),
         NEW n \in DOMAIN process, Open(n)
  PROVE  \/ Top.profile = Master /\ process[n].dir # Master
         \/ Top.profile # Master /\ n \in Top.before
BY TopFacts DEF At, Waits, Asked, Own

LEMMA OpenApplicationKeeps ==
  ASSUME IndInv, OpenApplication
  PROVE  IndInv'
<1>1. /\ launching # <<>> /\ At("ready") /\ ~(Waits /\ Top.profile # Master)
      /\ UNCHANGED <<up, app, pending, timeouts>>
  BY DEF OpenApplication, At, bounds
<1>2. CASE /\ Appears(Top.profile, Top.bridge, "open")
           /\ GoOn("returned", Len(process) + 1)
           /\ UNCHANGED <<bridge, memory, saved>>
  BY <1>1, <1>2, Comes
<1>3. CASE /\ \E n \in DOMAIN process : Open(n) /\ GoOn("returned", n)
           /\ UNCHANGED <<process, bridge, memory, saved>>
  <2>1. PICK n \in DOMAIN process : Open(n) /\ GoOn("returned", n)
    BY <1>3
  <2>2. \/ Top.profile = Master /\ process[n].dir # Master
        \/ Top.profile # Master /\ n \in Top.before
    BY <1>1, <2>1, WasThere
  <2>3. n \in 0 .. MaxProcesses /\ process' = process
    BY <1>3, Items DEF IndInv
  <2>4. Lives
    BY <2>3, SameProcesses DEF IndInv
  <2>5. process' \in Seq(Process) /\ Len(process') <= MaxProcesses
    BY <2>3 DEF IndInv, Types
  <2>6. Children'
    BY <1>1, <2>3 DEF IndInv, Children
  <2>7. QED
    BY <1>1, <1>3, <2>1, <2>2, <2>3, <2>4, <2>5, <2>6, GoOnKeeps
<1>4. CASE Failed /\ UNCHANGED process
  BY <1>1, <1>4, FailedKeeps DEF IndInv, Types
<1>5. QED
  BY <1>2, <1>3, <1>4 DEF OpenApplication

LEMMA ChildReturnsKeeps ==
  ASSUME IndInv, ChildReturns
  PROVE  IndInv'
<1>1. /\ launching # <<>> /\ Top.stage = "waiting"
      /\ UNCHANGED <<process, up, app, pending>>
  BY DEF ChildReturns, At
<1>2. timeouts \in Nat
  BY DEF IndInv, Types
<1>3. CASE /\ Open(Top.pid) /\ GoOn("returned", Top.pid)
           /\ UNCHANGED <<bridge, memory, saved, timeouts>>
  <2>1. PICK n : n = Top.pid
    OBVIOUS
  <2>2. /\ n \in DOMAIN process /\ process[n].dir = Top.profile
        /\ process[n].bridge = Top.bridge
    BY <1>1, <2>1, TopFacts DEF Awaited
  <2>3. n \in 0 .. MaxProcesses
    BY <2>2, Items DEF IndInv
  <2>4. Lives
    BY <1>1, SameProcesses DEF IndInv
  <2>5. process' \in Seq(Process) /\ Len(process') <= MaxProcesses
    BY <1>1 DEF IndInv, Types
  <2>6. Children'
    BY <1>1 DEF IndInv, Children
  <2>7. GoOn("returned", n)
    BY <1>3, <2>1
  <2>8. QED
    BY <1>1, <1>3, <2>2, <2>3, <2>4, <2>5, <2>6, <2>7, GoOnKeeps
<1>4. CASE Failed /\ timeouts' \in {timeouts, timeouts + 1}
  BY <1>1, <1>2, <1>4, FailedKeeps
<1>5. QED
  BY <1>3, <1>4 DEF ChildReturns

\* What Others does not tell from the new process is the new process.
LEMMA NotOthers ==
  ASSUME IndInv, At("returned"), ~Others(Top.profile, Top.pid)
  PROVE  /\ Top.pid \in DOMAIN process /\ process[Top.pid].dir = Top.profile
         /\ process[Top.pid].bridge = Top.bridge
BY TopFacts DEF At, Others, Returned

LEMMA FinishKeeps ==
  ASSUME IndInv, Finish
  PROVE  IndInv'
<1>1. PICK p, n, b : p = Top.profile /\ n = Top.pid /\ b = Top.bridge
  OBVIOUS
<1>2. PICK served \in BOOLEAN :
        served <=> b # 0 /\ bridge[b].state = "waiting"
  OBVIOUS
<1>3. /\ launching # <<>> /\ At("returned") /\ Pop
      /\ UNCHANGED <<process, up, app, pending, timeouts>>
  BY DEF Finish, At, bounds
<1>4. IF Others(p, n) \/ ~Open(n)
      THEN Abandon(b) /\ UNCHANGED memory /\ Save(memory)
      ELSE /\ bridge' = IF served
                        THEN [bridge EXCEPT ![b] =
                                [state |-> "watching", pid |-> n]]
                        ELSE bridge
           /\ IF b # 0 /\ ~served /\ p # Master
              THEN /\ memory' = [memory EXCEPT !.port[p] = 0]
                   /\ UNCHANGED saved
              ELSE memory' = Tracked(p, n, served) /\ Save(memory')
  BY <1>1, <1>2 DEF Finish
<1>5. timeouts' \in Nat /\ Types /\ memory \in Memory /\ saved \in Memory
  BY <1>3 DEF IndInv, Types
<1>6. p \in Profiles /\ b \in 0 .. MaxBridges
  BY <1>1, <1>3, TopFacts
<1>7. Lives
  BY <1>3, <1>5, SameProcesses
<1>8. CASE Others(p, n) \/ ~Open(n)
  BY <1>1, <1>3, <1>4, <1>5, <1>8, GivenUp DEF Save, Written
<1>9. CASE ~Others(p, n) /\ Open(n)
  <2>1. n \in DOMAIN process /\ process[n].dir = p /\ process[n].bridge = b
    BY <1>1, <1>3, <1>9, NotOthers
  <2>2. n \in 0 .. MaxProcesses /\ n # 0 /\ 0 \notin DOMAIN bridge
    BY <1>5, <2>1, Items
  <2>3. PICK k : k = memory'
    OBVIOUS
  <2>4. CASE served
    <3>1. /\ bridge' = [bridge EXCEPT ![b] = [state |-> "watching", pid |-> n]]
          /\ b # 0 /\ bridge[b].state = "waiting"
          /\ k = [memory EXCEPT !.pid[p] = n, !.port[p] = b]
          /\ saved' \in {saved, k}
      BY <1>1, <1>2, <1>4, <1>9, <2>3, <2>4 DEF Tracked, Save, Written
    <3>2. b \in DOMAIN bridge
      BY <1>1, <1>3, <3>1, TopFacts DEF IndInv, Bridges
    <3>3. PICK w : w = [state |-> "watching", pid |-> n]
      OBVIOUS
    <3>4. w \in Bridge
      BY <2>2, <3>3 DEF Bridge
    <3>5. PICK c : c = bridge'
      OBVIOUS
    <3>6. /\ c \in Seq(Bridge) /\ Len(c) = Len(bridge)
          /\ DOMAIN c = DOMAIN bridge /\ c[b] = w
          /\ \A j \in DOMAIN bridge : j # b => c[j] = bridge[j]
      <4>1. bridge \in Seq(Bridge) /\ c = [bridge EXCEPT ![b] = w]
        BY <1>5, <3>1, <3>3, <3>5 DEF Types
      <4>2. QED
        BY <3>2, <3>4, <4>1, Replaced
    <3>7. Watches
      BY <3>1, <3>5, <3>6 DEF Watches
    <3>8. k = [pid |-> [memory.pid EXCEPT ![p] = n],
               port |-> [memory.port EXCEPT ![p] = b]]
      BY <1>5, <3>1 DEF Memory
    <3>9. k \in Memory
      BY <1>5, <1>6, <2>2, <3>8 DEF Memory
    <3>10. \A q \in Profiles : q # p =>
             k.pid[q] = memory.pid[q] /\ k.port[q] = memory.port[q]
      BY <1>5, <1>6, <3>8 DEF Memory
    <3>11. k.pid[p] = n /\ k.port[p] = b
      BY <1>5, <1>6, <3>8 DEF Memory
    <3>12. ASSUME NEW q \in Profiles
           PROVE  Honest(k, q)'
      <4>1. CASE q = p
        BY <1>3, <2>1, <3>1, <3>2, <3>3, <3>5, <3>6, <3>11, <4>1 DEF Honest
      <4>2. CASE q # p
        <5>1. Honest(memory, q)
          BY NowHonest
        <5>2. Honest(k, q)
          BY <3>10, <4>2, <5>1 DEF Honest
        <5>3. QED
          BY <1>5, <1>7, <3>7, <3>9, <5>2, HonestKept
      <4>3. QED
        BY <4>1, <4>2
    <3>13. ASSUME NEW m \in {saved, k}, NEW q \in Profiles
           PROVE  Honest(m, q)'
      <4>1. CASE m = k
        BY <3>12, <4>1
      <4>2. CASE m = saved
        <5>1. PICK s : s = saved
          OBVIOUS
        <5>2. s \in Memory /\ Honest(s, q)
          BY <5>1, NowHonest
        <5>3. Honest(s, q)'
          BY <1>5, <1>7, <3>7, <5>2, HonestKept
        <5>4. QED
          BY <4>2, <5>1, <5>3
      <4>3. QED
        BY <3>13, <4>1, <4>2
    <3>14. AllHonest'
      <4>1. SUFFICES ASSUME NEW m \in {memory', saved'}, NEW q \in Profiles
                     PROVE  Honest(m, q)'
        BY DEF AllHonest
      <4>2. PICK s : s = m
        OBVIOUS
      <4>3. s \in {saved, k}
        BY <2>3, <3>1, <4>1, <4>2
      <4>4. Honest(s, q)'
        BY <3>13, <4>3
      <4>5. QED
        BY <4>2, <4>4
    <3>15. /\ bridge' \in Seq(Bridge) /\ Len(bridge') <= MaxBridges
           /\ DOMAIN bridge' = DOMAIN bridge
           /\ \A j \in DOMAIN bridge : j # Top.bridge => bridge'[j] = bridge[j]
           /\ bridge'[Top.bridge].state # "waiting"
      BY <1>1, <1>5, <3>3, <3>5, <3>6 DEF Types
    <3>16. memory' \in Memory /\ saved' \in Memory
      BY <1>5, <2>3, <3>1, <3>9
    <3>17. QED
      BY <1>3, <1>5, <3>14, <3>15, <3>16, PopKeeps
  <2>5. CASE ~served
    <3>1. /\ bridge' = bridge
          /\ \/ k = [memory EXCEPT !.port[p] = 0]
             \/ k = [memory EXCEPT !.pid[p] = n, !.port[p] = 0]
          /\ saved' \in {saved, k}
      BY <1>4, <1>9, <2>3, <2>5 DEF Tracked, Save, Written
    <3>2. \/ k = [pid |-> memory.pid, port |-> [memory.port EXCEPT ![p] = 0]]
          \/ k = [pid |-> [memory.pid EXCEPT ![p] = n],
                  port |-> [memory.port EXCEPT ![p] = 0]]
      BY <1>5, <3>1 DEF Memory
    <3>3. k \in Memory
      BY <1>5, <1>6, <2>2, <3>2, Constants DEF Memory
    <3>4. /\ k.port[p] = 0 /\ k.pid[p] \in {memory.pid[p], n}
          /\ \A q \in Profiles : q # p =>
               k.pid[q] = memory.pid[q] /\ k.port[q] = memory.port[q]
      BY <1>5, <1>6, <3>2 DEF Memory
    <3>5. ASSUME NEW q \in Profiles
          PROVE  Honest(k, q)
      <4>1. Honest(memory, q)
        BY NowHonest
      <4>2. CASE q = p
        BY <2>1, <3>4, <4>1, <4>2 DEF Honest
      <4>3. CASE q # p
        BY <3>4, <4>1, <4>3 DEF Honest
      <4>4. QED
        BY <4>2, <4>3
    <3>6. Watches
      BY <3>1, SameBridges
    <3>7. AllHonest'
      BY <1>7, <2>3, <3>1, <3>3, <3>5, <3>6, NowHonest, MemoryKept
    <3>8. Top.bridge # 0 => bridge'[Top.bridge].state # "waiting"
      BY <1>1, <1>2, <2>5, <3>1
    <3>9. memory' \in Memory /\ saved' \in Memory
      BY <1>5, <2>3, <3>1, <3>3
    <3>10. bridge' \in Seq(Bridge) /\ Len(bridge') <= MaxBridges
      BY <1>5, <3>1 DEF Types
    <3>11. QED
      BY <1>3, <1>5, <3>1, <3>7, <3>8, <3>9, <3>10, PopKeeps
  <2>6. QED
    BY <2>4, <2>5
<1>10. QED
  BY <1>8, <1>9

LEMMA EndKeeps ==
  ASSUME IndInv, NEW kept \in {saved, memory}, End(kept)
  PROVE  IndInv'
<1>1. /\ up' = FALSE /\ launching' = <<>> /\ pending' = {}
      /\ saved' = kept /\ memory' = kept
      /\ UNCHANGED <<process, app, timeouts>>
  BY DEF End
<1>2. PICK c : c = bridge'
  OBVIOUS
<1>3. c = [b \in DOMAIN bridge |->
             IF bridge[b].state = "waiting"
             THEN [bridge[b] EXCEPT !.state = "gone"] ELSE bridge[b]]
  BY <1>2 DEF End
<1>4. /\ DOMAIN bridge = 1 .. Len(bridge) /\ Len(bridge) \in Nat
      /\ Len(bridge) <= MaxBridges /\ \A b \in DOMAIN bridge : bridge[b] \in Bridge
      /\ Types
  BY Items, Constants DEF IndInv, Types
<1>5. ASSUME NEW b \in DOMAIN bridge
      PROVE  /\ c[b] \in Bridge /\ c[b].state # "waiting"
             /\ bridge[b].state = "watching" => c[b] = bridge[b]
  BY <1>3, <1>4 DEF Bridge
<1>6. c \in [1 .. Len(bridge) -> Bridge]
  BY <1>3, <1>4, <1>5
<1>7. c \in Seq(Bridge)
  BY <1>4, <1>6, SeqDef
<1>8. Len(c) = Len(bridge) /\ DOMAIN c = DOMAIN bridge
  BY <1>3, <1>4, <1>7, LenProperties
<1>9. Lives /\ Quiet
  BY <1>1, <1>4, SameProcesses
<1>10. Watches
  BY <1>2, <1>5, <1>8 DEF Watches
<1>11. /\ \A S : <<>> \in Seq(S) /\ Len(<<>>) = 0
       /\ DOMAIN launching' = {} /\ ToSet(launching)' = {}
  <2>1. \A S : <<>> \in Seq(S) /\ Len(<<>>) = 0
    BY EmptySeq
  <2>2. DOMAIN launching' = {}
    BY <1>1
  <2>3. QED
    BY <2>1, <2>2 DEF ToSet
<1>12. kept \in Memory
  BY NowHonest
<1>13. Types'
  BY <1>1, <1>2, <1>4, <1>7, <1>8, <1>11, <1>12 DEF Types
<1>14. Children'
  BY <1>1 DEF IndInv, Children
<1>15. AllHonest'
  BY <1>1, <1>9, <1>10, NowHonest, MemoryKept
<1>16. Nested'
  BY <1>1, <1>11 DEF Nested
<1>17. Stages'
  BY <1>11 DEF Stages
<1>18. Bridges'
  BY <1>2, <1>5, <1>8, <1>11 DEF Bridges
<1>19. QED
  BY <1>13, <1>14, <1>15, <1>16, <1>17, <1>18 DEF IndInv

LEMMA InitKeeps == Init => IndInv
<1>1. SUFFICES ASSUME Init
               PROVE  IndInv
  OBVIOUS
<1>2. /\ \A S : <<>> \in Seq(S)
      /\ Len(<<>>) = 0 /\ DOMAIN <<>> = {}
  BY EmptySeq
<1>3. PICK m : m = [pid |-> [p \in Profiles |-> 0],
                    port |-> [p \in Profiles |-> 0]]
  OBVIOUS
<1>4. /\ MaxProcesses \in Nat /\ MaxBridges \in Nat
      /\ m \in Memory /\ \A p \in Profiles : m.pid[p] = 0
  BY <1>3, Constants DEF Memory
<1>5. memory = m /\ saved = m
  BY <1>1, <1>3 DEF Init
<1>6. Types
  BY <1>1, <1>2, <1>4, <1>5 DEF Init, Types, App
<1>7. Children /\ Nested /\ Bridges
  BY <1>1, <1>2 DEF Init, Children, Nested, Bridges
<1>8. Stages
  BY <1>1, <1>2 DEF Init, Stages, ToSet
<1>9. AllHonest
  BY <1>4, <1>5 DEF AllHonest, Honest
<1>10. QED
  BY <1>6, <1>7, <1>8, <1>9 DEF IndInv

LEMMA NextKeeps ==
  ASSUME IndInv, [Next]_vars
  PROVE  IndInv'
<1>1. CASE OpenOriginal
  BY <1>1, OpenOriginalKeeps
<1>2. ASSUME NEW n \in DOMAIN process, Register(n) \/ Close(n) \/ SelfRestart(n)
      PROVE  IndInv'
  BY <1>2, RegisterKeeps, CloseKeeps, SelfRestartKeeps
<1>3. ASSUME NEW b \in DOMAIN bridge, BridgeEnds(b)
      PROVE  IndInv'
  BY <1>3, BridgeEndsKeeps
<1>4. ASSUME NEW p \in Profiles, Choose(p) \/ Launch(p) \/ Restart(p)
      PROVE  IndInv'
  BY <1>4, ChooseKeeps, LaunchKeeps, RestartKeeps
<1>5. CASE StartChild
  BY <1>5, StartChildKeeps
<1>6. CASE OpenApplication
  BY <1>6, OpenApplicationKeeps
<1>7. CASE ChildReturns
  BY <1>7, ChildReturnsKeeps
<1>8. CASE Finish
  BY <1>8, FinishKeeps
<1>9. CASE Tick
  BY <1>9, TickKeeps
<1>10. CASE Boot
  BY <1>10, BootKeeps
<1>11. ASSUME NEW kept \in {saved, memory}, End(kept)
       PROVE  IndInv'
  <2>1. PICK k : k = kept
    OBVIOUS
  <2>2. k \in {saved, memory} /\ End(k)
    BY <1>11, <2>1
  <2>3. QED
    BY <2>2, EndKeeps
<1>12. CASE UNCHANGED vars
  <2>1. UNCHANGED <<process, bridge, up, memory, saved, app, launching, pending,
                    timeouts>>
    BY <1>12 DEF vars
  <2>2. up' \in BOOLEAN /\ pending' \subseteq Profiles
    BY <2>1 DEF IndInv, Types
  <2>3. QED
    BY <2>1, <2>2, NowHonest, MemoryStep
<1>13. QED
  BY <1>1, <1>2, <1>3, <1>4, <1>5, <1>6, <1>7, <1>8, <1>9, <1>10, <1>11, <1>12
  DEF Next

\* The inductive invariant holds in every reachable state: what the windows, the
\* launches under way, the records in memory and on disk and the bridges have to
\* do with each other (main.cpp:271-305, workspace_base.hpp:168-189).
THEOREM Inductive == Spec => []IndInv
<1>1. IndInv /\ [Next]_vars => IndInv'
  BY NextKeeps
<1>2. QED
  BY <1>1, InitKeeps, PTL DEF Spec

-----------------------------------------------------------------------------
(* One process for each copy, while no launch is given up.                  *)

\* No process appears, and none comes back.
Fading ==
  \A n \in DOMAIN process' :
    /\ n \in DOMAIN process
    /\ process'[n].dir = process[n].dir
    /\ process'[n].state # "closed" => process[n].state # "closed"
    /\ process'[n].state = "starting" => process[n].state = "starting"

LEMMA SameFading ==
  ASSUME process' = process
  PROVE  Fading
BY DEF Fading

\* The first and the last part of Alone outlast a step that only takes away
\* windows and adds no launch.
LEMMA AloneFading ==
  ASSUME Types, Alone, Fading,
         \A i \in DOMAIN launching' :
           /\ i \in DOMAIN launching
           /\ launching'[i].profile = launching[i].profile
           /\ launching'[i].stage = "ready" => launching[i].stage = "ready",
         up' => \A n \in DOMAIN process' : process'[n].state = "starting" =>
           \E i \in DOMAIN launching' :
             launching'[i].stage = "waiting" /\ launching'[i].pid = n
  PROVE  Alone'
<1>1. \A n \in DOMAIN process' :
        /\ n \in DOMAIN process /\ process'[n].dir = process[n].dir
        /\ Alive(n)' => Alive(n)
  BY DEF Fading, Alive
<1>2. ASSUME NEW m \in DOMAIN process', NEW n \in DOMAIN process',
             Alive(m)', Alive(n)', process'[m].dir = process'[n].dir,
             process'[m].dir \in Copies
      PROVE  m = n
  BY <1>1, <1>2 DEF Alone
<1>3. ASSUME NEW i \in DOMAIN launching', NEW n \in DOMAIN process',
             launching'[i].stage = "ready", launching'[i].profile \in Copies,
             process'[n].dir = launching'[i].profile
      PROVE  ~Alive(n)'
  BY <1>1, <1>3 DEF Alone
<1>4. QED
  BY <1>2, <1>3 DEF Alone

LEMMA AloneStays ==
  ASSUME IndInv, Alone, Fading, UNCHANGED launching, up' => up
  PROVE  Alone'
<1>1. \A i \in DOMAIN launching' :
        /\ i \in DOMAIN launching
        /\ launching'[i].profile = launching[i].profile
        /\ launching'[i].stage = "ready" => launching[i].stage = "ready"
  OBVIOUS
<1>2. up' => \A n \in DOMAIN process' : process'[n].state = "starting" =>
        \E i \in DOMAIN launching' :
          launching'[i].stage = "waiting" /\ launching'[i].pid = n
  BY DEF Alone, Fading
<1>3. Types
  BY DEF IndInv
<1>4. QED
  BY <1>1, <1>2, <1>3, AloneFading

LEMMA AlonePop ==
  ASSUME IndInv, Alone, UNCHANGED <<process, up>>, launching # <<>>, Pop,
         Top.stage # "waiting" \/ ~Alive(Top.pid)
  PROVE  Alone'
<1>1. /\ DOMAIN launching' = DOMAIN launching \ {Len(launching)}
      /\ \A j \in DOMAIN launching' : launching'[j] = launching[j]
  BY Popped DEF IndInv
<1>2. \A i \in DOMAIN launching' :
        /\ i \in DOMAIN launching
        /\ launching'[i].profile = launching[i].profile
        /\ launching'[i].stage = "ready" => launching[i].stage = "ready"
  BY <1>1
<1>3. ASSUME up', NEW n \in DOMAIN process', process'[n].state = "starting"
      PROVE  \E i \in DOMAIN launching' :
               launching'[i].stage = "waiting" /\ launching'[i].pid = n
  <2>1. PICK i \in DOMAIN launching :
          launching[i].stage = "waiting" /\ launching[i].pid = n
    BY <1>3 DEF Alone
  <2>2. n # 0 /\ process[n].state = "starting"
    BY <1>3, Items DEF IndInv
  <2>3. i # Len(launching)
    BY <2>1, <2>2, TopFacts DEF Alive
  <2>4. QED
    BY <1>1, <2>1, <2>3
<1>4. Types /\ Fading
  BY SameFading DEF IndInv
<1>5. QED
  BY <1>2, <1>3, <1>4, AloneFading

\* The innermost launch has its process, which has registered.
LEMMA AloneGoOn ==
  ASSUME IndInv, Alone, UNCHANGED <<process, up>>, launching # <<>>,
         NEW n \in 0 .. MaxProcesses, GoOn("returned", n),
         Top.stage # "waiting" \/ Open(Top.pid)
  PROVE  Alone'
<1>1. PICK k : k = Len(launching)
  OBVIOUS
<1>2. /\ DOMAIN launching' = DOMAIN launching
      /\ \A i \in DOMAIN launching : i # k => launching'[i] = launching[i]
      /\ launching'[k].stage = "returned"
      /\ launching'[k].profile = Top.profile
  BY <1>1, GoneOn DEF IndInv
<1>3. Top = launching[k] /\ k \in DOMAIN launching
  BY <1>1, TopFacts
<1>4. \A i \in DOMAIN launching' :
        /\ i \in DOMAIN launching
        /\ launching'[i].profile = launching[i].profile
        /\ launching'[i].stage = "ready" => launching[i].stage = "ready"
  BY <1>2, <1>3
<1>5. ASSUME up', NEW w \in DOMAIN process', process'[w].state = "starting"
      PROVE  \E i \in DOMAIN launching' :
               launching'[i].stage = "waiting" /\ launching'[i].pid = w
  <2>1. PICK i \in DOMAIN launching :
          launching[i].stage = "waiting" /\ launching[i].pid = w
    BY <1>5 DEF Alone
  <2>2. i # k
    BY <1>3, <1>5, <2>1 DEF Open
  <2>3. QED
    BY <1>2, <2>1, <2>2
<1>6. Types /\ Fading
  BY SameFading DEF IndInv
<1>7. QED
  BY <1>4, <1>5, <1>6, AloneFading

\* A launch starts only where no process of the copy is left: one that has
\* registered would have been adopted, and one that has not is still awaited.
LEMMA AloneStarts ==
  ASSUME IndInv, Alone, up, NEW p \in Profiles, ~InProgress(p),
         NEW t \in BOOLEAN, Starts(p, t), UNCHANGED <<process, up>>
  PROVE  Alone'
<1>1. PICK k : k = Len(launching) + 1
  OBVIOUS
<1>2. /\ DOMAIN launching' = DOMAIN launching \cup {k}
      /\ k \notin DOMAIN launching
      /\ \A i \in DOMAIN launching : launching'[i] = launching[i]
      /\ launching'[k].profile = p
  BY <1>1, Started
<1>3. ASSUME NEW n \in DOMAIN process, process[n].dir = p, p \in Copies
      PROVE  ~Alive(n)
  <2>1. process[n].state # "open"
    BY <1>3, Items DEF IndInv, Starts, Own, Open
  <2>2. process[n].state # "starting"
    <3>1. SUFFICES ASSUME process[n].state = "starting"
                   PROVE  FALSE
      OBVIOUS
    <3>2. PICK i \in DOMAIN launching :
            launching[i].stage = "waiting" /\ launching[i].pid = n
      BY <3>1 DEF Alone
    <3>3. Awaited(launching[i])
      BY <3>2, UnderWay DEF IndInv, Stages
    <3>4. launching[i].profile = p
      BY <1>3, <3>2, <3>3 DEF Awaited
    <3>5. QED
      BY <3>4 DEF InProgress
  <2>3. process[n] \in Process
    BY Items DEF IndInv
  <2>4. QED
    BY <2>1, <2>2, <2>3 DEF Process, Alive
<1>4. ASSUME NEW i \in DOMAIN launching', NEW n \in DOMAIN process',
             launching'[i].stage = "ready", launching'[i].profile \in Copies,
             process'[n].dir = launching'[i].profile
      PROVE  ~Alive(n)'
  <2>1. ~Alive(n)
    <3>1. CASE i = k
      BY <1>2, <1>3, <1>4, <3>1
    <3>2. CASE i \in DOMAIN launching
      BY <1>2, <1>4, <3>2 DEF Alone
    <3>3. QED
      BY <1>2, <3>1, <3>2
  <2>2. QED
    BY <2>1 DEF Alive
<1>5. ASSUME NEW n \in DOMAIN process', process'[n].state = "starting"
      PROVE  \E i \in DOMAIN launching' :
               launching'[i].stage = "waiting" /\ launching'[i].pid = n
  BY <1>2, <1>5 DEF Alone
<1>6. \A a, b \in DOMAIN process' :
        Alive(a)' /\ Alive(b)' /\ process'[a].dir = process'[b].dir
          /\ process'[a].dir \in Copies => a = b
  BY DEF Alone, Alive
<1>7. QED
  BY <1>4, <1>5, <1>6 DEF Alone

\* The window of a launch comes: it is the only one of a copy.
LEMMA AloneComes ==
  ASSUME IndInv, Alone, At("ready"), NEW s \in {"starting", "open"},
         NEW stage \in {"waiting", "returned"},
         Appears(Top.profile, Top.bridge, s), GoOn(stage, Len(process) + 1),
         s = "starting" => stage = "waiting", up' = up
  PROVE  Alone'
<1>1. PICK d, b, n, k : /\ d = Top.profile /\ b = Top.bridge
                        /\ n = Len(process) + 1 /\ k = Len(launching)
  OBVIOUS
<1>2. Types /\ d \in Profiles /\ b \in 0 .. MaxBridges
      /\ Appears(d, b, s) /\ GoOn(stage, n) /\ launching # <<>>
      /\ Top.stage = "ready"
  BY <1>1, TopFacts DEF IndInv, At
<1>3. /\ n \in 1 .. MaxProcesses
      /\ DOMAIN process' = DOMAIN process \cup {n} /\ n \notin DOMAIN process
      /\ process'[n] = [dir |-> d, bridge |-> b, state |-> s]
      /\ \A w \in DOMAIN process : process'[w] = process[w]
  BY <1>1, <1>2, Appeared
<1>4. /\ DOMAIN launching' = DOMAIN launching
      /\ \A i \in DOMAIN launching : i # k => launching'[i] = launching[i]
      /\ launching'[k].stage = stage /\ launching'[k].pid = n
      /\ k \in DOMAIN launching
  BY <1>1, <1>2, <1>3, GoneOn
<1>5. Top = launching[k]
  BY <1>1, <1>2, TopFacts
<1>6. d \in Copies => \A w \in DOMAIN process : process[w].dir = d => ~Alive(w)
  BY <1>1, <1>2, <1>4, <1>5 DEF Alone
<1>7. \A w \in DOMAIN process : Alive(w)' <=> Alive(w)
  BY <1>3 DEF Alive
<1>8. ASSUME NEW x \in DOMAIN process', NEW y \in DOMAIN process',
             Alive(x)', Alive(y)', process'[x].dir = process'[y].dir,
             process'[x].dir \in Copies
      PROVE  x = y
  <2>1. CASE x \in DOMAIN process /\ y \in DOMAIN process
    BY <1>3, <1>7, <1>8, <2>1 DEF Alone
  <2>2. CASE x = n /\ y \in DOMAIN process
    BY <1>3, <1>6, <1>7, <1>8, <2>2
  <2>3. CASE x \in DOMAIN process /\ y = n
    BY <1>3, <1>6, <1>7, <1>8, <2>3
  <2>4. QED
    BY <1>3, <1>8, <2>1, <2>2, <2>3
<1>9. ASSUME up', NEW w \in DOMAIN process', process'[w].state = "starting"
      PROVE  \E i \in DOMAIN launching' :
               launching'[i].stage = "waiting" /\ launching'[i].pid = w
  <2>1. CASE w = n
    BY <1>3, <1>4, <1>9, <2>1
  <2>2. CASE w \in DOMAIN process
    <3>1. PICK i \in DOMAIN launching :
            launching[i].stage = "waiting" /\ launching[i].pid = w
      BY <1>3, <1>9, <2>2 DEF Alone
    <3>2. i # k
      BY <1>2, <1>5, <3>1
    <3>3. QED
      BY <1>4, <3>1, <3>2
  <2>3. QED
    BY <1>3, <2>1, <2>2
<1>10. \A i \in DOMAIN launching' : launching'[i].stage # "ready"
  BY <1>1, <1>4 DEF IndInv, Nested
<1>11. QED
  BY <1>8, <1>9, <1>10 DEF Alone

LEMMA AloneOriginal ==
  ASSUME IndInv, Alone, OpenOriginal
  PROVE  Alone'
<1>1. PICK n : n = Len(process) + 1
  OBVIOUS
<1>2. Types /\ Appears(Master, 0, "open") /\ Master \in Profiles
      /\ 0 \in 0 .. MaxBridges /\ Master \notin Copies
      /\ UNCHANGED <<up, launching>>
  BY Constants DEF IndInv, OpenOriginal, Profiles
<1>3. /\ DOMAIN process' = DOMAIN process \cup {n}
      /\ process'[n] = [dir |-> Master, bridge |-> 0, state |-> "open"]
      /\ \A w \in DOMAIN process : process'[w] = process[w]
  BY <1>1, <1>2, Appeared
<1>4. \A w \in DOMAIN process : Alive(w)' <=> Alive(w)
  BY <1>3 DEF Alive
<1>5. \A w \in DOMAIN process' :
        process'[w].dir \in Copies \/ process'[w].state = "starting" =>
          w \in DOMAIN process
  BY <1>2, <1>3
<1>6. \A x, y \in DOMAIN process' :
        Alive(x)' /\ Alive(y)' /\ process'[x].dir = process'[y].dir
          /\ process'[x].dir \in Copies => x = y
  BY <1>3, <1>4, <1>5 DEF Alone
<1>7. up' => \A w \in DOMAIN process' : process'[w].state = "starting" =>
        \E i \in DOMAIN launching' :
          launching'[i].stage = "waiting" /\ launching'[i].pid = w
  BY <1>2, <1>3, <1>5 DEF Alone
<1>8. \A i \in DOMAIN launching' : \A w \in DOMAIN process' :
        launching'[i].stage = "ready" /\ launching'[i].profile \in Copies
          /\ process'[w].dir = launching'[i].profile => ~Alive(w)'
  BY <1>2, <1>3, <1>4, <1>5 DEF Alone
<1>9. QED
  BY <1>6, <1>7, <1>8 DEF Alone

LEMMA AloneSelfRestart ==
  ASSUME IndInv, Alone, NEW n \in DOMAIN process, SelfRestart(n)
  PROVE  Alone'
<1>1. PICK k : k = Len(process) + 1
  OBVIOUS
<1>2. /\ DOMAIN process' = DOMAIN process \cup {k} /\ k \notin DOMAIN process
      /\ process'[k] = process[n]
      /\ process'[n] = [process[n] EXCEPT !.state = "closed"]
      /\ \A w \in DOMAIN process : w # n => process'[w] = process[w]
      /\ process[n] \in Process /\ process[n].state = "open"
  BY <1>1, SelfRestartWindows DEF IndInv
<1>3. /\ process'[n].state = "closed" /\ ~Alive(n)' /\ Alive(n)
      /\ process'[n].dir = process[n].dir
  BY <1>2, Items DEF IndInv, Process, Alive
<1>4. \A w \in DOMAIN process : w # n => (Alive(w)' <=> Alive(w))
  BY <1>2 DEF Alive
<1>5. OthersOpen /\ UNCHANGED <<up, launching>>
  BY DEF SelfRestart
<1>6. ASSUME NEW x \in DOMAIN process', NEW y \in DOMAIN process',
             Alive(x)', Alive(y)', process'[x].dir = process'[y].dir,
             process'[x].dir \in Copies
      PROVE  x = y
  <2>1. x # n /\ y # n
    BY <1>3, <1>6
  <2>2. CASE x \in DOMAIN process /\ y \in DOMAIN process
    BY <1>2, <1>4, <1>6, <2>1, <2>2 DEF Alone
  <2>3. CASE x = k /\ y \in DOMAIN process
    BY <1>2, <1>3, <1>4, <1>6, <2>1, <2>3 DEF Alone
  <2>4. CASE x \in DOMAIN process /\ y = k
    BY <1>2, <1>3, <1>4, <1>6, <2>1, <2>4 DEF Alone
  <2>5. QED
    BY <1>2, <1>6, <2>2, <2>3, <2>4
<1>7. ASSUME up', NEW w \in DOMAIN process', process'[w].state = "starting"
      PROVE  \E i \in DOMAIN launching' :
               launching'[i].stage = "waiting" /\ launching'[i].pid = w
  <2>1. w \in DOMAIN process /\ process[w].state = "starting"
    BY <1>2, <1>3, <1>7
  <2>2. QED
    BY <1>5, <1>7, <2>1 DEF Alone
<1>8. ASSUME NEW i \in DOMAIN launching'
      PROVE  launching'[i].stage # "ready"
  <2>1. i \in DOMAIN launching /\ launching'[i] = launching[i]
    BY <1>5, <1>8
  <2>2. launching[i] \in ToSet(launching) /\ Types /\ Nested
    BY <2>1, UnderWay DEF IndInv
  <2>3. launching[i].stage = "waiting"
    BY <1>5, <2>2, NoneReady
  <2>4. QED
    BY <2>1, <2>3
<1>9. QED
  BY <1>6, <1>7, <1>8 DEF Alone

LEMMA AloneWindow ==
  ASSUME IndInv, Alone, NEW n \in DOMAIN process, Register(n) \/ Close(n)
  PROVE  Alone'
<1>1. PICK s \in {"open", "closed"} :
        /\ process' = [process EXCEPT ![n].state = s]
        /\ process[n].state # "closed"
  BY Items DEF IndInv, Register, Close, Alive
<1>2. /\ DOMAIN process' = DOMAIN process
      /\ process'[n] = [process[n] EXCEPT !.state = s]
      /\ \A k \in DOMAIN process : k # n => process'[k] = process[k]
  BY <1>1, StateChanged DEF IndInv
<1>3. process[n] \in Process
  BY Items DEF IndInv
<1>4. process'[n].state = s /\ process'[n].dir = process[n].dir
  BY <1>2, <1>3 DEF Process
<1>5. Fading
  BY <1>1, <1>2, <1>4 DEF Fading
<1>6. UNCHANGED <<launching, up>>
  BY DEF Register, Close
<1>7. QED
  BY <1>5, <1>6, AloneStays

LEMMA AloneLaunch ==
  ASSUME IndInv, Alone, up, NEW p \in Profiles, ~InProgress(p),
         NEW m \in Memory, NEW file \in Memory, NEW t \in BOOLEAN,
         Begin(p, m, file, t),
         UNCHANGED <<process, up>>
  PROVE  Alone'
<1>1. CASE UNCHANGED launching
  BY <1>1, SameFading, AloneStays
<1>2. CASE memory' = m /\ saved' = file /\ Starts(p, t)
  BY <1>2, AloneStarts
<1>3. QED
  BY <1>1, <1>2, BeginCases

LEMMA AloneTick ==
  ASSUME IndInv, Alone, Tick
  PROVE  Alone'
<1>1. up /\ UNCHANGED <<process, up>> /\ pending \subseteq Profiles
  BY DEF Tick, Ticking, IndInv, Types
<1>2. PICK f \in Adopted(memory) :
        \/ UNCHANGED launching
        \/ \E p \in pending :
             /\ ~InProgress(p)
             /\ \E file \in Kept(Forgotten(memory, f)) :
                  Begin(p, Forgotten(memory, f), file, TRUE)
  BY DEF Tick
<1>3. PICK m : m = Forgotten(memory, f)
  OBVIOUS
<1>4. m \in Memory
  BY <1>3, AdoptedHonest
<1>5. CASE UNCHANGED launching
  BY <1>1, <1>5, SameFading, AloneStays
<1>6. ASSUME NEW p \in pending, ~InProgress(p), NEW file \in Kept(m),
             Begin(p, m, file, TRUE)
      PROVE  Alone'
  <2>1. p \in Profiles /\ file \in Memory
    BY <1>1, <1>4, <1>6, KeptType, NowHonest
  <2>2. QED
    BY <1>1, <1>4, <1>6, <2>1, AloneLaunch
<1>7. QED
  BY <1>2, <1>3, <1>5, <1>6

LEMMA AloneChild ==
  ASSUME IndInv, Alone, ChildReturns, timeouts' = timeouts
  PROVE  Alone'
<1>1. /\ launching # <<>> /\ Top.stage = "waiting"
      /\ UNCHANGED <<process, up>>
  BY DEF ChildReturns, At
<1>2. CASE Open(Top.pid) /\ GoOn("returned", Top.pid)
  <2>1. Top.pid \in 0 .. MaxProcesses
    BY <1>1, TopFacts DEF ALaunch
  <2>2. PICK n \in 0 .. MaxProcesses : n = Top.pid
    BY <2>1
  <2>3. GoOn("returned", n)
    BY <1>2, <2>2
  <2>4. QED
    BY <1>1, <1>2, <2>3, AloneGoOn
<1>3. CASE ~Alive(Top.pid) /\ Failed
  BY <1>1, <1>3, AlonePop DEF Failed
<1>4. timeouts' # timeouts + 1
  BY DEF IndInv, Types
<1>5. QED
  BY <1>2, <1>3, <1>4 DEF ChildReturns

LEMMA AloneOpens ==
  ASSUME IndInv, Alone, StartChild \/ OpenApplication
  PROVE  Alone'
<1>1. /\ launching # <<>> /\ At("ready") /\ Top.stage = "ready"
      /\ UNCHANGED up
  BY DEF StartChild, OpenApplication, At
<1>2. CASE /\ Appears(Top.profile, Top.bridge, "starting")
           /\ GoOn("waiting", Len(process) + 1)
  BY <1>1, <1>2, AloneComes
<1>3. CASE /\ Appears(Top.profile, Top.bridge, "open")
           /\ GoOn("returned", Len(process) + 1)
  BY <1>1, <1>3, AloneComes
<1>4. CASE /\ \E n \in DOMAIN process : GoOn("returned", n)
           /\ UNCHANGED process
  <2>1. PICK n \in DOMAIN process : GoOn("returned", n)
    BY <1>4
  <2>2. n \in 0 .. MaxProcesses
    BY Items DEF IndInv
  <2>3. QED
    BY <1>1, <1>4, <2>1, <2>2, AloneGoOn
<1>5. CASE Failed /\ UNCHANGED process
  BY <1>1, <1>5, AlonePop DEF Failed
<1>6. QED
  BY <1>2, <1>3, <1>4, <1>5 DEF StartChild, OpenApplication

LEMMA AloneBoot ==
  ASSUME IndInv, Alone, Boot
  PROVE  Alone'
<1>1. /\ UNCHANGED <<process, launching>>
      /\ \A n \in DOMAIN process : process[n].state # "starting"
  BY DEF Boot
<1>2. Types /\ Fading
  BY <1>1, SameFading DEF IndInv
<1>3. QED
  BY <1>1, <1>2, AloneFading

LEMMA AloneEnd ==
  ASSUME IndInv, Alone, NEW kept, End(kept)
  PROVE  Alone'
<1>1. up' = FALSE /\ launching' = <<>> /\ UNCHANGED process
  BY DEF End
<1>2. DOMAIN launching' = {}
  BY <1>1
<1>3. Types /\ Fading
  BY <1>1, SameFading DEF IndInv
<1>4. QED
  BY <1>1, <1>2, <1>3, AloneFading

LEMMA AloneNext ==
  ASSUME IndInv, Alone, [Next]_vars, timeouts' = timeouts
  PROVE  Alone'
<1>1. CASE OpenOriginal
  BY <1>1, AloneOriginal
<1>2. ASSUME NEW n \in DOMAIN process, Register(n) \/ Close(n) \/ SelfRestart(n)
      PROVE  Alone'
  BY <1>2, AloneWindow, AloneSelfRestart
<1>3. ASSUME NEW b \in DOMAIN bridge, BridgeEnds(b)
      PROVE  Alone'
  BY <1>3, SameFading, AloneStays DEF BridgeEnds
<1>4. ASSUME NEW p \in Profiles, Choose(p) \/ Restart(p)
      PROVE  Alone'
  BY <1>4, SameFading, AloneStays DEF Choose, Restart
<1>5. ASSUME NEW p \in Profiles, Launch(p)
      PROVE  Alone'
  <2>1. PICK m : m = memory
    OBVIOUS
  <2>2. PICK file : file = saved
    OBVIOUS
  <2>3. /\ up /\ launching = <<>> /\ Begin(p, m, file, FALSE)
        /\ UNCHANGED <<process, up>>
    BY <1>5, <2>1, <2>2 DEF Launch
  <2>4. m \in Memory /\ file \in Memory /\ ~InProgress(p)
    BY <2>1, <2>2, <2>3, NowHonest, Items DEF IndInv, InProgress
  <2>5. QED
    BY <2>3, <2>4, AloneLaunch
<1>6. CASE StartChild \/ OpenApplication
  BY <1>6, AloneOpens
<1>7. CASE ChildReturns
  BY <1>7, AloneChild
<1>8. CASE Finish
  BY <1>8, AlonePop DEF Finish, At
<1>9. CASE Tick
  BY <1>9, AloneTick
<1>10. CASE Boot
  BY <1>10, AloneBoot
<1>11. ASSUME NEW kept \in {saved, memory}, End(kept)
       PROVE  Alone'
  <2>1. PICK k : k = kept
    OBVIOUS
  <2>2. End(k)
    BY <1>11, <2>1
  <2>3. QED
    BY <2>2, AloneEnd
<1>12. CASE UNCHANGED vars
  BY <1>12, SameFading, AloneStays DEF vars
<1>13. QED
  BY <1>1, <1>2, <1>3, <1>4, <1>5, <1>6, <1>7, <1>8, <1>9, <1>10, <1>11, <1>12
  DEF Next

\* The count of launches given up only grows.
LEMMA TimeoutsGrow ==
  ASSUME IndInv, [Next]_vars
  PROVE  timeouts' \in {timeouts, timeouts + 1}
BY DEF Next, vars, bounds, OpenOriginal, Register, Close, SelfRestart,
       BridgeEnds, Choose, Launch, Restart, StartChild, OpenApplication,
       ChildReturns, Finish, Tick, Boot, End

-----------------------------------------------------------------------------
(* The results.                                                             *)

\* Whatever happens, every variable keeps its type and no profile is in two
\* launches at a time (claude_profile.hpp, claudeLaunchInProgress).
THEOREM TypeCorrect == Spec => []TypeOK
<1>1. IndInv => TypeOK
  <2>1. SUFFICES ASSUME IndInv
                 PROVE  TypeOK
    OBVIOUS
  <2>2. \A n \in DOMAIN process : process[n] \in Process
    BY <2>1, Items DEF IndInv
  <2>3. \A b \in DOMAIN bridge : bridge[b] \in Bridge
    BY <2>1, Items DEF IndInv
  <2>4. /\ up \in BOOLEAN /\ memory \in Memory /\ saved \in Memory
        /\ app \in App /\ pending \subseteq Profiles
    BY <2>1 DEF IndInv, Types
  <2>5. \A i, j \in DOMAIN launching :
          launching[i].profile = launching[j].profile => i = j
    BY <2>1 DEF IndInv, Nested
  <2>6. QED
    BY <2>2, <2>3, <2>4, <2>5 DEF TypeOK, Process, Bridge, Memory, App
<1>2. QED
  BY <1>1, Inductive, PTL

\* A card never stands for the window of another profile, even when
\* LaunchServices returns a process that was there before (main.cpp launch),
\* AppDeck dies in between or a write of state.plist fails.
THEOREM CardsOwnWindows == Spec => []OwnWindow
<1>1. IndInv => OwnWindow
  BY DEF IndInv, AllHonest, Honest, OwnWindow, Running, Open
<1>2. QED
  BY <1>1, Inductive, PTL

\* A card names a proxy only for a window that was started behind it
\* (proxy_store.hpp, workspace_base.hpp adopt).
THEOREM CardsShowProxies == Spec => []CardShowsProxy
<1>1. IndInv => CardShowsProxy
  BY DEF IndInv, AllHonest, Honest, CardShowsProxy, Shown, Running, Open
<1>2. QED
  BY <1>1, Inductive, PTL

\* The address a card offers is served by the bridge that watches its window,
\* and no path out of a launch leaves a bridge waiting (proxy_store.hpp
\* proxyAbandon, proxy_bridge.cpp serve).
THEOREM BridgesServe == Spec => []BridgesServeWindows
<1>1. IndInv => BridgesServeWindows
  <2>1. SUFFICES ASSUME IndInv
                 PROVE  BridgesServeWindows
    OBVIOUS
  <2>2. ASSUME NEW p \in Profiles, Shown(p)
        PROVE  bridge[memory.port[p]] =
                 [state |-> "watching", pid |-> memory.pid[p]]
    <3>1. Honest(memory, p)
      BY <2>1 DEF IndInv, AllHonest
    <3>2. memory.pid[p] # 0 /\ memory.port[p] # 0 /\ Alive(memory.pid[p])
      BY <2>2 DEF Shown, Running, Open, Alive
    <3>3. QED
      BY <3>1, <3>2 DEF Honest
  <2>3. ASSUME NEW b \in DOMAIN bridge, bridge[b].state = "waiting"
        PROVE  up /\ \E i \in DOMAIN launching : launching[i].bridge = b
    <3>1. PICK i \in DOMAIN launching : launching[i].bridge = b
      BY <2>1, <2>3 DEF IndInv, Bridges
    <3>2. launching # <<>>
      BY <2>1, <3>1, Items DEF IndInv
    <3>3. QED
      BY <2>1, <3>1, <3>2 DEF IndInv, Nested
  <2>4. QED
    BY <2>2, <2>3 DEF BridgesServeWindows
<1>2. QED
  BY <1>1, Inductive, PTL

LEMMA AloneNoTwin ==
  ASSUME IndInv, Alone
  PROVE  NoTwin
<1>1. SUFFICES ASSUME NEW p \in Copies
               PROVE  Cardinality({n \in DOMAIN process :
                                     Alive(n) /\ process[n].dir = p}) <= 1
  BY DEF NoTwin
<1>2. PICK S : S = {n \in DOMAIN process : Alive(n) /\ process[n].dir = p}
  OBVIOUS
<1>3. \A m, n \in S : m = n
  BY <1>2 DEF Alone
<1>4. CASE S = {}
  BY <1>2, <1>4, FS_EmptySet
<1>5. CASE S # {}
  <2>1. PICK n : n \in S
    BY <1>5
  <2>2. S = {n}
    BY <1>3, <2>1
  <2>3. Cardinality(S) = 1
    BY <2>2, FS_Singleton
  <2>4. QED
    BY <1>2, <2>3
<1>6. QED
  BY <1>4, <1>5

\* While no launch was given up, no profile has two windows and nothing is under
\* way for one that has a window (workspace_base.hpp:180-186).
THEOREM Timely == Spec => [](IndInv /\ OnlyIfTimely)
<1>1. Init => OnlyIfTimely
  <2>1. SUFFICES ASSUME Init
                 PROVE  Alone
    BY DEF OnlyIfTimely, InTime
  <2>2. DOMAIN process = {} /\ DOMAIN launching = {}
    BY <2>1 DEF Init
  <2>3. QED
    BY <2>2 DEF Alone
<1>2. IndInv /\ OnlyIfTimely /\ [Next]_vars => OnlyIfTimely'
  <2>1. SUFFICES ASSUME IndInv, OnlyIfTimely, [Next]_vars, timeouts' = 0
                 PROVE  Alone'
    BY DEF OnlyIfTimely, InTime
  <2>2. timeouts = 0 /\ timeouts' = timeouts
    BY <2>1, TimeoutsGrow DEF IndInv, Types
  <2>3. QED
    BY <2>1, <2>2, AloneNext DEF OnlyIfTimely, InTime
<1>3. QED
  BY <1>1, <1>2, Inductive, PTL DEF Spec

\* For as long as no launch has been given up after 10 seconds, a copy has one
\* live process on its data folder: main.cpp:269, "never start a twin".
THEOREM NoTwinInTime == Spec => [](InTime => NoTwin)
<1>1. IndInv /\ OnlyIfTimely => (InTime => NoTwin)
  BY AloneNoTwin DEF OnlyIfTimely, InTime
<1>2. QED
  BY <1>1, Timely, PTL

\* Where every child registers in time, no copy ever has a twin.
THEOREM NoTwins ==
  ASSUME MaxTimeouts = 0
  PROVE  Spec => []NoTwin
<1>1. InTime /\ IndInv /\ [Next]_vars => InTime'
  <2>1. SUFFICES ASSUME timeouts = 0, IndInv, [Next]_vars
                 PROVE  timeouts' = 0
    BY DEF InTime
  <2>2. ~(timeouts < MaxTimeouts)
    BY <2>1
  <2>3. QED
    BY <2>1, <2>2 DEF Next, vars, bounds, OpenOriginal, Register, Close,
      SelfRestart, BridgeEnds, Choose, Launch, Restart, StartChild,
      OpenApplication, ChildReturns, Finish, Tick, Boot, End
<1>2. Init => InTime
  BY DEF Init, InTime
<1>3. QED
  BY <1>1, <1>2, Inductive, NoTwinInTime, PTL DEF Spec

=============================================================================
