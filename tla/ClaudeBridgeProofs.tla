------------------------- MODULE ClaudeBridgeProofs -------------------------
(***************************************************************************)
(* Types and safety of ClaudeBridge, and that it implements SessionOwner,  *)
(* for every set of profiles and folders and every number of windows.      *)
(***************************************************************************)
EXTENDS ClaudeBridge, SequenceTheorems, TLAPS

-----------------------------------------------------------------------------
(* The stack of launches, and the numbers of windows.                       *)

\* No profile is launched twice at a time.
Distinct ==
  /\ launching \in Seq(Profiles)
  /\ \A i, j \in 1 .. Len(launching) : launching[i] = launching[j] => i = j

\* What a new launch leaves on the stack.
LEMMA WaitFacts ==
  ASSUME launching \in Seq(Profiles), NEW p \in Profiles, Wait(p)
  PROVE  /\ launching' \in Seq(Profiles) /\ launching' # <<>>
         /\ Len(launching') = Len(launching) + 1
         /\ \A i \in 1 .. Len(launching) : launching'[i] = launching[i]
         /\ launching'[Len(launching) + 1] = p
BY AppendProperties DEF Wait

LEMMA WaitDistinct ==
  ASSUME Distinct, NEW p \in Profiles, Wait(p), ~InProgress(p)
  PROVE  Distinct'
<1>1. Len(launching) \in Nat
  BY DEF Distinct
<1>2. QED
  BY <1>1, WaitFacts DEF Distinct, InProgress

\* What the return of the innermost launch leaves.
LEMMA ReturnFacts ==
  ASSUME launching \in Seq(Profiles), launching # <<>>,
         launching' = SubSeq(launching, 1, Len(launching) - 1)
  PROVE  /\ launching' \in Seq(Profiles)
         /\ Len(launching') = Len(launching) - 1 /\ Len(launching) \in Nat \ {0}
         /\ \A i \in 1 .. Len(launching') : launching'[i] = launching[i]
         /\ launching[Len(launching)] \in Profiles
<1>1. Len(launching) \in Nat /\ Len(launching) # 0
  BY EmptySeq
<1>2. \A i \in 1 .. Len(launching) : launching[i] \in Profiles
  OBVIOUS
<1>3. Len(launching) - 1 \in Int /\ 1 \in Int
  BY <1>1
<1>4. \A i \in 1 .. Len(launching) - 1 : launching[i] \in Profiles
  BY <1>1, <1>2
<1>5. /\ launching' \in Seq(Profiles)
      /\ Len(launching') = IF 1 <= Len(launching) - 1
                           THEN (Len(launching) - 1) - 1 + 1 ELSE 0
      /\ \A i \in 1 .. (Len(launching) - 1) - 1 + 1 :
           launching'[i] = launching[1 + i - 1]
  BY <1>3, <1>4, SubSeqProperties
<1>6. launching[Len(launching)] \in Profiles
  BY <1>1, <1>2
<1> DEFINE n == Len(launching)
           s == launching'
<1>7. /\ n \in Nat /\ n # 0 /\ s \in Seq(Profiles)
      /\ Len(s) = IF 1 <= n - 1 THEN (n - 1) - 1 + 1 ELSE 0
      /\ \A i \in 1 .. (n - 1) - 1 + 1 : s[i] = launching[1 + i - 1]
  BY <1>1, <1>5
<1> HIDE DEF n, s
<1>8. Len(s) = n - 1
  BY <1>7
<1>9. \A i \in 1 .. n - 1 : s[i] = launching[i]
  BY <1>7
<1>10. QED
  BY <1>6, <1>7, <1>8, <1>9 DEF n, s

LEMMA ReturnDistinct ==
  ASSUME Distinct, launching # <<>>,
         launching' = SubSeq(launching, 1, Len(launching) - 1)
  PROVE  Distinct'
BY ReturnFacts, SMTT(30) DEF Distinct

\* An opened window has the next number, and the others keep theirs.
LEMMA OpenFacts ==
  ASSUME window \in [Windows -> 0 .. MaxStarts], started \in 0 .. MaxStarts,
         NEW w \in Windows, OpenWindow(w)
  PROVE  /\ window' \in [Windows -> 0 .. MaxStarts]
         /\ started' \in 0 .. MaxStarts /\ started' = started + 1
         /\ window'[w] = started + 1
         /\ \A v \in Windows \ {w} : window'[v] = window[v]
BY Constants DEF OpenWindow

-----------------------------------------------------------------------------
(* Types.                                                                   *)

LEMMA ReservationType ==
  ASSUME TypeOK, opening \in Requests, window[opening.profile] # 0
  PROVE  Reservation \in Lease
<1>1. MaxStarts \in Nat /\ MaxWrites \in Nat /\ Deadline \in Nat
  BY Constants
<1>2. /\ opening.profile \in Profiles /\ opening.folder \in Folders
      /\ window[opening.profile] \in 1 .. MaxStarts
  BY <1>1 DEF TypeOK, Requests, Windows
<1>3. Generation(opening.profile) \in 0 .. MaxWrites
  BY <1>1, <1>2 DEF Generation, TypeOK
<1>4. QED
  BY <1>1, <1>2, <1>3 DEF Reservation, Lease

\* The timer changes only the age and the status of a reservation.
LEMMA PumpType ==
  ASSUME SessionPump
  PROVE  /\ lease \in Lease /\ lease' \in Lease
         /\ lease'.profile = lease.profile /\ lease'.process = lease.process
         /\ lease'.before = lease.before
<1>1. lease \in Lease /\ Deadline \in Nat
  BY Constants DEF SessionPump, LeaseProcess
<1>2. lease.age \in 0 .. Deadline + 1
  BY <1>1 DEF Lease
<1>3. CASE lease' = [lease EXCEPT !.status = "confirmed"]
  BY <1>1, <1>3 DEF Lease
<1>4. CASE lease' = [lease EXCEPT !.status = "timeout"]
  BY <1>1, <1>4 DEF Lease
<1>5. CASE lease.age <= Deadline /\ lease' = [lease EXCEPT !.age = @ + 1]
  <2>1. lease.age + 1 \in 0 .. Deadline + 1
    BY <1>1, <1>2, <1>5
  <2>2. \A a \in 0 .. Deadline + 1 : [lease EXCEPT !.age = a] \in Lease
    BY <1>1 DEF Lease
  <2>3. QED
    BY <1>1, <1>5, <2>1, <2>2 DEF Lease
<1>6. QED
  BY <1>1, <1>2, <1>3, <1>4, <1>5 DEF SessionPump

LEMMA TypeStep == TypeOK /\ [Next]_vars => TypeOK'
<1> SUFFICES ASSUME TypeOK, [Next]_vars PROVE TypeOK'
  OBVIOUS
<1> USE DEF TypeOK
<1>0. /\ Distinct
      /\ \A p \in Profiles : p \in Windows
      /\ Foreign \in Windows
      /\ MaxStarts \in Nat /\ MaxWrites \in Nat /\ MaxLosses \in Nat /\ Deadline \in Nat
  BY Constants DEF Distinct, Windows
<1>1. CASE OpenForeign
  BY <1>0, <1>1, OpenFacts DEF OpenForeign
<1>2. ASSUME NEW w \in Windows, Close(w) PROVE TypeOK'
  BY <1>0, <1>2 DEF Close, bounds
<1>3. ASSUME NEW p \in Profiles, NEW f \in Folders, WriteDescriptor(p, f)
      PROVE  TypeOK'
  BY <1>0, <1>3 DEF WriteDescriptor
<1>4. ASSUME NEW p \in Profiles, NEW f \in Folders, Ask(p, f) PROVE TypeOK'
  BY <1>0, <1>4 DEF Ask, bounds, Requests
<1>5. ASSUME NEW remains \in {None, Damaged}, Lose(remains) PROVE TypeOK'
  BY <1>0, <1>5 DEF Lose
<1>6. ASSUME NEW p \in Profiles, Launch(p) PROVE TypeOK'
  <2>1. Distinct'
    BY <1>0, <1>6, WaitDistinct, EmptySeq DEF Launch, InProgress
  <2>2. QED
    BY <1>6, <2>1 DEF Launch, bounds, Distinct
<1>7. ASSUME NEW p \in Profiles, Restart(p) PROVE TypeOK'
  BY <1>7 DEF Restart, bounds
<1>8. ASSUME NEW p \in Profiles, RestartPump(p) PROVE TypeOK'
  <2>1. Distinct'
    BY <1>0, <1>8, WaitDistinct DEF RestartPump, Distinct
  <2>2. QED
    BY <1>8, <2>1 DEF RestartPump, bounds, Distinct
<1>9. CASE Launched
  <2>1. Distinct'
    BY <1>0, <1>9, ReturnDistinct DEF Launched
  <2>2. launching[Len(launching)] \in Windows
    BY <1>0, <1>9, ReturnFacts DEF Launched
  <2>3. window' \in [Windows -> 0 .. MaxStarts] /\ started' \in 0 .. MaxStarts
    BY <1>9, <2>2, OpenFacts DEF Launched
  <2>4. QED
    BY <1>9, <2>1, <2>3 DEF Launched, Distinct
<1>10. CASE Cancel
  BY <1>10 DEF Cancel, GiveUp, bounds
<1>11. CASE Confirm
  <2>1. CASE GiveUp
    BY <2>1 DEF GiveUp, bounds
  <2>2. CASE ~GiveUp
    <3>1. opening \in Requests /\ launching = <<>>
      BY <1>11 DEF Confirm, Asking
    <3>2. opening.profile \in Profiles
      BY <3>1 DEF Requests
    <3>6. Wait(opening.profile) \/ UNCHANGED launching
      BY <1>11, <2>2 DEF Confirm
    <3>7. ~InProgress(opening.profile)
      BY <3>1, EmptySeq DEF InProgress
    <3>3. Distinct'
      BY <1>0, <3>2, <3>6, <3>7, WaitDistinct DEF Distinct
    <3>4. opening' \in Requests
      BY <1>11, <2>2, <3>1 DEF Confirm, Requests
    <3>5. QED
      BY <1>11, <2>2, <3>3, <3>4 DEF Confirm, bounds, Distinct
  <2>3. QED
    BY <2>1, <2>2
<1>12. CASE Reserve
  <2>1. CASE GiveUp
    BY <2>1 DEF GiveUp, bounds
  <2>2. CASE ~GiveUp
    <3>1. opening \in Requests
      BY <1>12 DEF Reserve
    <3>2. /\ opening.profile \in Profiles /\ opening.folder \in Folders
          /\ window[opening.profile] \in 1 .. MaxStarts
      BY <1>0, <1>12, <2>2, <3>1 DEF Reserve, Requests
    <3>4. Reservation \in Lease
      BY <3>1, <3>2, ReservationType
    <3>7. /\ lease' = Reservation
          /\ opening' = [opening EXCEPT !.phase = "reserved",
                                        !.process = window[opening.profile]]
          /\ UNCHANGED <<window, descriptor, recorded, kept, launching,
                         pending, resumed, bounds>>
      BY <1>12, <2>2 DEF Reserve
    <3>5. opening' \in Requests
      BY <1>0, <3>1, <3>2, <3>7 DEF Requests
    <3>6. QED
      BY <3>4, <3>5, <3>7 DEF bounds
  <2>3. QED
    BY <2>1, <2>2
<1>13. CASE Record
  <2>1. opening' \in Requests \cup {None}
    BY <1>13 DEF Record, Requests
  <2>2. QED
    BY <1>13, <2>1 DEF Record, bounds
<1>14. CASE Send
  BY <1>14 DEF Send, MarkFailed, Lease, bounds
<1>15. CASE SessionPump
  <2>1. lease \in Lease
    BY <1>15 DEF SessionPump, LeaseProcess
  <2>2. lease' \in Lease
    BY <1>15, PumpType
  <2>3. QED
    BY <1>15, <2>2 DEF SessionPump, bounds
<1>16. CASE Crash
  <2>1. launching # <<>> => launching[Len(launching)] \in Windows
    BY <1>0, EmptySeq
  <2>2. window' \in [Windows -> 0 .. MaxStarts] /\ started' \in 0 .. MaxStarts
    BY <1>16, <2>1, OpenFacts DEF Crash
  <2>3. launching' \in Seq(Profiles) /\ Len(launching') = 0
    BY <1>16, EmptySeq DEF Crash
  <2>4. QED
    BY <1>16, <2>2, <2>3 DEF Crash
<1>17. CASE UNCHANGED vars
  BY <1>17 DEF vars
<1>18. QED
  BY <1>1, <1>2, <1>3, <1>4, <1>5, <1>6, <1>7, <1>8, <1>9, <1>10, <1>11, <1>12,
     <1>13, <1>14, <1>15, <1>16, <1>17 DEF Next

LEMMA InitTypes == Init => TypeOK
<1> SUFFICES ASSUME Init PROVE TypeOK
  OBVIOUS
<1>1. MaxStarts \in Nat /\ MaxWrites \in Nat /\ MaxLosses \in Nat
  BY Constants
<1>2. window \in [Windows -> 0 .. MaxStarts]
  BY <1>1 DEF Init
<1>3. descriptor \in [Profiles ->
        {None} \cup [folder : Folders, generation : 0 .. MaxWrites]]
  BY <1>1 DEF Init
<1>4. launching \in Seq(Profiles) /\ Len(launching) = 0
  BY EmptySeq DEF Init
<1>5. started \in 0 .. MaxStarts /\ writes \in 0 .. MaxWrites /\ losses \in 0 .. MaxLosses
  BY <1>1 DEF Init
<1>6. recorded \in BOOLEAN /\ kept \in BOOLEAN /\ (kept => recorded)
  BY DEF Init
<1>7. \A i, j \in 1 .. Len(launching) : launching[i] = launching[j] => i = j
  BY <1>4
<1>8. lease = None /\ opening = None /\ pending = {}
  BY DEF Init
<1>9. QED
  BY <1>2, <1>3, <1>4, <1>5, <1>6, <1>7, <1>8 DEF TypeOK

\* Every reachable state of the bridge is well typed; no profile is launched
\* twice at a time, and the saved mark of a reservation is never ahead of the
\* one in memory.
THEOREM TypeCorrect == Spec => []TypeOK
<1>1. Init => TypeOK
  BY InitTypes
<1>2. QED
  BY <1>1, TypeStep, PTL DEF Spec
-----------------------------------------------------------------------------
(* What the steps do to windows.                                            *)

\* Numbers of windows grow: one that is opened has a number no other had.
Numbers ==
  /\ \A w \in Windows : window[w] <= started
  /\ resumed \subseteq [profile : Profiles, process : 1 .. MaxStarts]
  /\ \A r \in resumed : r.process <= started

\* A step closes windows or opens one with the next number.
LEMMA WindowStep ==
  ASSUME TypeOK, [Next]_vars
  PROVE  /\ started <= started'
         /\ \A w \in Windows :
              \/ window'[w] \in {window[w], 0}
              \/ window'[w] = started + 1 /\ started' = started + 1
<1>0. /\ \A p \in Profiles : p \in Windows
      /\ Foreign \in Windows
      /\ started \in Nat /\ window \in [Windows -> 0 .. MaxStarts]
  BY Constants DEF TypeOK, Windows
<1>1. ASSUME NEW w \in Windows, OpenWindow(w)
      PROVE  /\ started <= started'
             /\ \A v \in Windows :
                  \/ window'[v] \in {window[v], 0}
                  \/ window'[v] = started + 1 /\ started' = started + 1
  BY <1>0, <1>1 DEF OpenWindow
<1>2. CASE UNCHANGED <<window, started>>
  BY <1>0, <1>2
<1>3. launching # <<>> => launching[Len(launching)] \in Windows
  BY <1>0, EmptySeq DEF TypeOK
<1>4. CASE OpenForeign
  BY <1>0, <1>1, <1>4 DEF OpenForeign
<1>5. CASE Launched \/ Crash
  BY <1>1, <1>2, <1>3, <1>5 DEF Launched, Crash
<1>6. ASSUME NEW w \in Windows, Close(w)
      PROVE  /\ started <= started'
             /\ \A v \in Windows : window'[v] \in {window[v], 0}
  BY <1>0, <1>6 DEF Close, bounds
<1>7. CASE \/ \E p \in Profiles, f \in Folders : WriteDescriptor(p, f) \/ Ask(p, f)
           \/ \E remains \in {None, Damaged} : Lose(remains)
           \/ \E p \in Profiles : Launch(p) \/ Restart(p) \/ RestartPump(p)
           \/ Cancel \/ Confirm \/ Reserve \/ Record \/ Send \/ SessionPump
           \/ UNCHANGED vars
  BY <1>2, <1>7 DEF WriteDescriptor, Ask, Lose, Launch, Restart, RestartPump,
       Cancel, GiveUp, Confirm, Reserve, Record, Send, SessionPump, bounds, vars
<1>8. QED
  BY <1>4, <1>5, <1>6, <1>7 DEF Next

\* An event is sent to the open window of the profile that was chosen.
Sends == /\ opening # None /\ opening \in Requests /\ opening.phase = "recorded"
         /\ resumed' = resumed \cup {Resume}
         /\ window[opening.profile] = opening.process
         /\ ~Competing(opening.profile)
         /\ opening' = None /\ UNCHANGED <<window, started, kept, launching>>

LEMMA ResumedStep ==
  ASSUME TypeOK, [Next]_vars
  PROVE  resumed' = resumed \/ (Send /\ Sends)
<1>1. CASE Send
  BY <1>1 DEF Send, Sends, TypeOK, bounds
<1>2. CASE ~Send
  BY <1>2 DEF Next, vars, OpenForeign, Close, WriteDescriptor, Ask, Lose, Launch,
       Restart, RestartPump, Launched, Cancel, GiveUp, Confirm, Reserve, Record,
       SessionPump, Crash, bounds
<1>3. QED
  BY <1>1, <1>2

\* The session has been reserved for the request AppDeck is working on.
InHand == opening # None /\ opening.phase \in {"reserved", "recorded"}

\* The reservation file either names that process, or it was lost or damaged.
Holds(p, n) ==
  \/ lease \in {None, Damaged}
  \/ lease \in Lease /\ lease.profile = p /\ lease.process = n

\* From the reservation to the event nothing is launched, and the event is sent
\* only with the mark of the reservation saved.
Held ==
  InHand => /\ launching = <<>> /\ opening.process # 0
            /\ Holds(opening.profile, opening.process)
            /\ opening.phase = "recorded" => kept

\* While a window owns the session, what remains of its reservation and its
\* saved mark keep every other profile from being launched.
Owners ==
  \A r \in Owning :
    /\ kept /\ Holds(r.profile, r.process)
    /\ \A i \in 1 .. Len(launching) : launching[i] = r.profile
    /\ \A p \in Profiles \ {r.profile} : window[p] = 0

LEMMA NumbersStep ==
  ASSUME TypeOK, Numbers, Held, [Next]_vars
  PROVE  Numbers'
<1>0. /\ started \in Nat /\ started' \in Nat /\ MaxStarts \in Nat
      /\ window \in [Windows -> 0 .. MaxStarts]
      /\ window' \in [Windows -> 0 .. MaxStarts]
      /\ Profiles \subseteq Windows
  BY TypeStep, Constants, SMTT(30) DEF TypeOK, Windows
<1>1. \A w \in Windows : window'[w] <= started'
  BY <1>0, WindowStep DEF Numbers
<1>2. CASE resumed' = resumed
  BY <1>0, <1>1, <1>2, WindowStep DEF Numbers
<1>3. CASE Sends
  <2>1. /\ opening.profile \in Profiles
        /\ opening.process \in 1 .. MaxStarts /\ opening.process <= started
    BY <1>0, <1>3 DEF Sends, Requests, Held, InHand, Numbers
  <2>2. /\ Resume \in [profile : Profiles, process : 1 .. MaxStarts]
        /\ Resume.process <= started'
    BY <1>0, <2>1, WindowStep DEF Resume
  <2>3. QED
    BY <1>0, <1>1, <1>3, <2>2, WindowStep DEF Numbers, Sends
<1>4. QED
  BY <1>2, <1>3, ResumedStep

\* A window that owns the session has owned it since the event was sent.
LEMMA OwningStep ==
  ASSUME TypeOK, Numbers, [Next]_vars, NEW r \in resumed, r \in Owning'
  PROVE  /\ r \in Owning /\ r.profile \in Profiles
         /\ r.process \in 1 .. MaxStarts /\ window[r.profile] = r.process
<1>1. /\ r.profile \in Windows /\ r.profile \in Profiles
      /\ r.process \in 1 .. MaxStarts /\ r.process <= started
      /\ started \in Nat /\ MaxStarts \in Nat
  BY Constants DEF Numbers, Windows, TypeOK
<1>2. window'[r.profile] = r.process
  BY DEF Owning
<1>3. r.process # 0 /\ r.process # started + 1
  BY <1>1
<1>4. window[r.profile] = r.process
  BY <1>1, <1>2, <1>3, WindowStep
<1>5. QED
  BY <1>1, <1>4 DEF Owning

-----------------------------------------------------------------------------
(* One window for a session.                                                *)

\* What an owner or a request in hand relies on survives every step that does
\* not replace the reservation.
LEMMA HoldsStep ==
  ASSUME TypeOK, [Next]_vars, ~Reserve, NEW p, NEW n, Holds(p, n)
  PROVE  Holds(p, n)'
<1>0. TypeOK'
  BY TypeStep
<1>1. CASE UNCHANGED lease
  BY <1>1 DEF Holds
<1>2. ASSUME NEW remains \in {None, Damaged}, Lose(remains) PROVE Holds(p, n)'
  BY <1>2 DEF Lose, Holds
<1>3. CASE MarkFailed
  <2>1. CASE lease' = lease
    BY <2>1 DEF Holds
  <2>2. CASE lease \in Lease /\ lease' = [lease EXCEPT !.status = "transport-error"]
    <3>1. lease' \in Lease /\ lease'.profile = lease.profile
          /\ lease'.process = lease.process
      BY <2>2 DEF Lease
    <3>2. lease.profile = p /\ lease.process = n
      BY <2>2, NotALease DEF Holds
    <3>3. QED
      BY <3>1, <3>2 DEF Holds
  <2>3. QED
    BY <1>3, <2>1, <2>2 DEF MarkFailed
<1>4. CASE SessionPump
  <2>1. lease \in Lease /\ lease.profile = p /\ lease.process = n
    BY <1>4, NotALease DEF SessionPump, LeaseProcess, Holds
  <2>2. lease' \in Lease /\ lease'.profile = p /\ lease'.process = n
    BY <1>4, <2>1, PumpType
  <2>4. QED
    BY <2>2 DEF Holds
<1>5. CASE ~SessionPump /\ ~MarkFailed /\ ~\E remains \in {None, Damaged} : Lose(remains)
  <2>1. UNCHANGED lease
    BY <1>5 DEF Next, vars, OpenForeign, Close, WriteDescriptor, Ask, Launch,
         Restart, RestartPump, Launched, Cancel, GiveUp, Confirm, Record, Send, Crash
  <2>2. QED
    BY <1>1, <2>1
<1>6. QED
  BY <1>2, <1>3, <1>4, <1>5

\* A step that leaves a request in hand found it so, or is its reservation.
LEMMA InHandStep ==
  ASSUME TypeOK, Held, [Next]_vars, InHand', ~Reserve
  PROVE  /\ InHand /\ UNCHANGED launching
         /\ opening'.profile = opening.profile /\ opening'.process = opening.process
         /\ opening'.phase = "recorded" => kept'
<1>1. opening \in Requests \cup {None} /\ (kept => recorded)
  BY DEF TypeOK
<1>2. CASE Record
  BY <1>1, <1>2 DEF Record, InHand, Requests, Held
<1>3. CASE Confirm
  <2>1. opening \in Requests /\ (opening' = None \/ opening' = [opening EXCEPT !.phase = "launched"])
    BY <1>1, <1>3 DEF Confirm, Asking, GiveUp
  <2>2. ~InHand'
    BY <2>1 DEF InHand, Requests
  <2>3. QED
    BY <2>2
<1>4. CASE \E p \in Profiles, f \in Folders : Ask(p, f)
  <2>1. ~InHand'
    BY <1>4 DEF Ask, InHand
  <2>2. QED
    BY <2>1
<1>5. CASE Send \/ Cancel \/ Crash
  <2>1. ~InHand'
    BY <1>5 DEF Send, Cancel, GiveUp, Crash, InHand
  <2>2. QED
    BY <2>1
<1>6. CASE UNCHANGED <<opening, kept>>
  <2>1. InHand /\ launching = <<>>
    BY <1>6 DEF InHand, Held
  <2>2. ~Launched /\ ~\E p \in Profiles : Launch(p) \/ RestartPump(p)
    BY <2>1 DEF Launched, Launch, RestartPump, Asking, Ticking, InHand
  <2>3. UNCHANGED launching
    BY <1>2, <1>3, <1>4, <1>5, <2>2 DEF Next, vars, OpenForeign, Close,
         WriteDescriptor, Ask, Lose, Restart, Cancel, GiveUp, Confirm, Record,
         Send, SessionPump, Crash
  <2>4. QED
    BY <1>6, <2>1, <2>3 DEF Held, InHand
<1>7. QED
  <2>1. \/ Record \/ Confirm \/ Send \/ Cancel \/ Crash
        \/ \E p \in Profiles, f \in Folders : Ask(p, f)
        \/ UNCHANGED <<opening, kept>>
    BY DEF Next, vars, OpenForeign, Close, WriteDescriptor, Lose, Launch, Restart,
       RestartPump, Launched, SessionPump, bounds
  <2>2. QED
    BY <1>2, <1>3, <1>4, <1>5, <1>6, <2>1

\* A reservation is made of the only window there is.
LEMMA ReserveFacts ==
  ASSUME TypeOK, Reserve, ~GiveUp
  PROVE  /\ Readable /\ launching = <<>> /\ ~Competing(opening.profile)
         /\ opening.profile \in Profiles
         /\ opening'.profile = opening.profile /\ opening'.phase = "reserved"
         /\ opening'.process = window[opening.profile] /\ opening'.process # 0
         /\ lease' \in Lease /\ lease'.profile = opening.profile
         /\ lease'.process = window[opening.profile]
         /\ UNCHANGED <<window, kept, launching, resumed>>
<1>1. opening \in Requests
  BY DEF Reserve, TypeOK
<1>2. /\ lease' = Reservation /\ Readable /\ launching = <<>>
      /\ ~Competing(opening.profile) /\ window[opening.profile] # 0
      /\ opening' = [opening EXCEPT !.phase = "reserved",
                                    !.process = window[opening.profile]]
      /\ UNCHANGED <<window, kept, launching, resumed>>
  BY DEF Reserve
<1>3. opening'.phase = "reserved" /\ opening'.process = window[opening.profile]
      /\ opening'.profile = opening.profile /\ opening.profile \in Profiles
  BY <1>1, <1>2 DEF Requests
<1>4. Reservation.profile = opening.profile
      /\ Reservation.process = window[opening.profile]
  BY DEF Reservation
<1>5. lease' \in Lease
  BY <1>1, <1>2, ReservationType
<1>6. QED
  BY <1>2, <1>3, <1>4, <1>5

LEMMA HeldStep ==
  ASSUME TypeOK, Held, [Next]_vars
  PROVE  Held'
<1> SUFFICES ASSUME InHand'
             PROVE  /\ launching' = <<>> /\ opening'.process # 0
                    /\ Holds(opening.profile, opening.process)'
                    /\ opening'.phase = "recorded" => kept'
  BY DEF Held
<1>1. CASE Reserve
  <2>1. ~GiveUp
    BY DEF GiveUp, InHand
  <2>2. /\ launching' = <<>> /\ opening'.process # 0
        /\ opening'.phase = "reserved"
        /\ lease' \in Lease /\ lease'.profile = opening'.profile
        /\ lease'.process = opening'.process
    BY <1>1, <2>1, ReserveFacts
  <2>3. QED
    BY <2>2 DEF Holds
<1>2. CASE ~Reserve
  <2>1. /\ InHand /\ UNCHANGED launching
        /\ opening'.profile = opening.profile /\ opening'.process = opening.process
        /\ opening'.phase = "recorded" => kept'
    BY <1>2, InHandStep
  <2>2. Holds(opening.profile, opening.process)
    BY <2>1 DEF Held
  <2>3. \/ lease' \in {None, Damaged}
        \/ /\ lease' \in Lease /\ lease'.profile = opening.profile
           /\ lease'.process = opening.process
    BY <1>2, <2>2, HoldsStep DEF Holds
  <2>4. QED
    BY <2>1, <2>3 DEF Held, Holds
<1>3. QED
  BY <1>1, <1>2

\* A profile whose launch is let through while a window owns the session is that
\* window's own.
LEMMA GateFacts ==
  ASSUME TypeOK, Numbers, Owners, NEW r \in Owning, NEW p \in Profiles, Gate(p)
  PROVE  p = r.profile
<1>1. Holds(r.profile, r.process) /\ kept /\ window[r.profile] = r.process
  BY DEF Owners, Owning
<1>2. recorded
  BY <1>1 DEF TypeOK
<1>3. lease \in Lease
  BY <1>2 DEF Gate, Readable
<1>4. lease.profile = r.profile /\ lease.process = r.process
  BY <1>1, <1>3, NotALease DEF Holds
<1>5. LeaseProcess
  BY <1>1, <1>3, <1>4 DEF LeaseProcess
<1>6. QED
  BY <1>4, <1>5 DEF Gate

\* While a window owns the session only its own profile waits to be launched.
LEMMA LaunchingStep ==
  ASSUME TypeOK, Numbers, Owners, [Next]_vars, NEW r \in Owning,
         NEW i \in 1 .. Len(launching')
  PROVE  launching'[i] = r.profile
<1>0. /\ launching \in Seq(Profiles) /\ Len(launching) \in Nat
      /\ \A j \in 1 .. Len(launching) : launching[j] = r.profile
  BY DEF TypeOK, Owners
<1>1. ASSUME NEW p \in Profiles, Gate(p), Wait(p)
      PROVE  launching'[i] = r.profile
  <2>1. p = r.profile
    BY <1>1, GateFacts
  <2>2. QED
    BY <1>0, <1>1, <2>1, WaitFacts
<1>2. CASE UNCHANGED launching
  BY <1>0, <1>2
<1>3. CASE \E p \in Profiles : Launch(p) \/ RestartPump(p)
  BY <1>1, <1>2, <1>3 DEF Launch, RestartPump
<1>4. CASE Confirm
  <2>1. opening \in Requests
    BY <1>4 DEF Confirm, Asking, TypeOK
  <2>2. opening.profile \in Profiles
    BY <2>1 DEF Requests
  <2>3. QED
    BY <1>1, <1>2, <1>4, <2>2 DEF Confirm, GiveUp
<1>5. CASE Launched
  BY <1>0, <1>5, ReturnFacts DEF Launched
<1>6. CASE Crash
  BY <1>6, EmptySeq DEF Crash
<1>7. QED
  BY <1>2, <1>3, <1>4, <1>5, <1>6 DEF Next, vars, OpenForeign, Close,
     WriteDescriptor, Ask, Lose, Restart, Cancel, GiveUp, Reserve, Record, Send,
     SessionPump

\* While a window owns the session no window of another profile appears.
LEMMA RivalStep ==
  ASSUME TypeOK, Numbers, Owners, [Next]_vars, NEW r \in Owning,
         NEW p \in Profiles, p # r.profile
  PROVE  window'[p] = 0
<1>0. /\ window[p] = 0 /\ p \in Windows /\ p # Foreign
      /\ window \in [Windows -> 0 .. MaxStarts]
  BY Constants DEF Owners, TypeOK, Windows
<1>1. launching # <<>> => launching[Len(launching)] = r.profile
  <2>1. launching # <<>> => Len(launching) \in 1 .. Len(launching)
    BY EmptySeq DEF TypeOK
  <2>2. QED
    BY <2>1 DEF Owners
<1>2. CASE Launched \/ Crash
  BY <1>0, <1>1, <1>2 DEF Launched, Crash, OpenWindow
<1>3. CASE OpenForeign
  BY <1>0, <1>3 DEF OpenForeign, OpenWindow
<1>4. CASE \E w \in Windows : Close(w)
  BY <1>0, <1>4 DEF Close
<1>5. CASE UNCHANGED window
  BY <1>0, <1>5
<1>6. QED
  BY <1>2, <1>3, <1>4, <1>5 DEF Next, vars, WriteDescriptor, Ask, Lose, Launch,
     Restart, RestartPump, Cancel, GiveUp, Confirm, Reserve, Record, Send,
     SessionPump

LEMMA KeptStep ==
  ASSUME TypeOK, [Next]_vars, kept
  PROVE  kept'
BY DEF Next, vars, OpenForeign, Close, WriteDescriptor, Ask, Lose, Launch, Restart,
   RestartPump, Launched, Cancel, GiveUp, Confirm, Reserve, Record, Send,
   SessionPump, Crash

LEMMA OwnersStep ==
  ASSUME TypeOK, Numbers, Held, Owners, [Next]_vars
  PROVE  Owners'
<1> SUFFICES ASSUME NEW r \in Owning'
             PROVE  /\ kept' /\ Holds(r.profile, r.process)'
                    /\ \A i \in 1 .. Len(launching') : launching'[i] = r.profile
                    /\ \A p \in Profiles \ {r.profile} : window'[p] = 0
  BY DEF Owners
<1>1. CASE r \in resumed
  <2>1. /\ r \in Owning /\ r.profile \in Profiles
        /\ r.process \in 1 .. MaxStarts /\ window[r.profile] = r.process
    BY <1>1, OwningStep
  <2>2. kept /\ Holds(r.profile, r.process)
    BY <2>1 DEF Owners
  <2>3. Holds(r.profile, r.process)'
    <3>1. CASE ~Reserve
      BY <2>2, <3>1, HoldsStep
    <3>2. CASE GiveUp
      BY <2>2, <3>2 DEF GiveUp, Holds
    <3>3. CASE Reserve /\ ~GiveUp
      <4>1. opening.profile = r.profile
        BY <2>1, <3>3, ReserveFacts DEF Competing, Windows
      <4>2. QED
        BY <2>1, <3>3, <4>1, ReserveFacts DEF Holds
    <3>4. QED
      BY <3>1, <3>2, <3>3
  <2>4. QED
    BY <2>1, <2>2, <2>3, KeptStep, LaunchingStep, RivalStep
<1>2. CASE r \notin resumed
  <2>1. Send /\ Sends /\ r = Resume
    BY <1>2, ResumedStep DEF Owning, Sends
  <2>2. InHand /\ opening.phase = "recorded" /\ opening.profile \in Profiles
    BY <2>1 DEF Sends, InHand, Requests
  <2>3. /\ kept /\ launching = <<>>
        /\ Holds(opening.profile, opening.process)
    BY <2>2 DEF Held
  <2>4. r.profile = opening.profile /\ r.process = opening.process
    BY <2>1 DEF Resume
  <2>5. Holds(r.profile, r.process)
    BY <2>3, <2>4
  <2>6. ~Reserve
    BY <2>2 DEF Reserve
  <2>7. Holds(r.profile, r.process)'
    BY <2>5, <2>6, HoldsStep
  <2>8. \A p \in Profiles \ {r.profile} : window'[p] = 0
    BY <2>1, <2>4 DEF Sends, Competing, Windows
  <2>9. Len(launching') = 0 /\ kept'
    BY <2>1, <2>3, EmptySeq DEF Sends
  <2>10. QED
    BY <2>7, <2>8, <2>9
<1>3. QED
  BY <1>1, <1>2

\* The saved mark of a reservation and what is left of its file keep every rival
\* away from a window that continues the session.
Reserved == TypeOK /\ Numbers /\ Held /\ Owners

LEMMA Reservations == Spec => []Reserved
<1>1. Init => Reserved
  <2> SUFFICES ASSUME Init PROVE Numbers /\ Held /\ Owners
    BY InitTypes DEF Reserved
  <2>1. Numbers
    BY DEF Init, Numbers
  <2>2. Held /\ Owners
    BY DEF Init, Held, InHand, Owners, Owning
  <2>3. QED
    BY <2>1, <2>2
<1>2. Reserved /\ [Next]_vars => Reserved'
  BY TypeStep, NumbersStep, HeldStep, OwnersStep DEF Reserved
<1>3. QED
  BY <1>1, <1>2, PTL DEF Spec

\* ARCHITECTURE.md:101: from the resume event to the end of the process that got
\* it no other shared profile has a window, in spite of crashes, waiting
\* launches, unconfirmed registrations and lost reservation files.
THEOREM RivalsStayAway == Spec => []NoRivalWindow
<1>1. Reserved => NoRivalWindow
  BY DEF Reserved, Owners, NoRivalWindow
<1>2. QED
  BY <1>1, Reservations, PTL

-----------------------------------------------------------------------------
(* AppDeck never blocks itself.                                             *)

\* While no file was lost the reservation can be read, and it is there from the
\* moment a request is in hand.
Present ==
  losses = 0 => Readable /\ (InHand => lease \in Lease)

LEMMA PresentStep ==
  ASSUME TypeOK, Held, Present, [Next]_vars
  PROVE  Present'
<1>0. TypeOK' /\ losses \in Nat
  BY TypeStep, Constants DEF TypeOK
<1>1. CASE \E remains \in {None, Damaged} : Lose(remains)
  BY <1>0, <1>1 DEF Lose, Present
<1> SUFFICES ASSUME losses' = 0, losses = 0,
                    ~\E remains \in {None, Damaged} : Lose(remains)
             PROVE  Readable' /\ (InHand' => lease' \in Lease)
  <2>1. ~(\E remains \in {None, Damaged} : Lose(remains)) => losses' = losses
    BY DEF Next, vars, OpenForeign, Close, WriteDescriptor, Ask, Launch, Restart,
       RestartPump, Launched, Cancel, GiveUp, Confirm, Reserve, Record, Send,
       SessionPump, Crash, bounds
  <2>2. QED
    BY <1>1, <2>1 DEF Present
<1>2. Readable /\ (InHand => lease \in Lease)
  BY DEF Present
<1>3. lease \in Lease => lease' \in Lease
  <2>1. CASE Reserve
    BY <2>1, ReserveFacts DEF GiveUp
  <2>2. CASE ~Reserve
    <3>1. ASSUME lease \in Lease PROVE lease' \in {lease} \/ SessionPump \/ MarkFailed
      BY <2>2, <3>1 DEF Next, vars, OpenForeign, Close, WriteDescriptor, Ask, Launch,
         Restart, RestartPump, Launched, Cancel, GiveUp, Confirm, Record, Send, Crash
    <3>2. ASSUME lease \in Lease, SessionPump \/ MarkFailed PROVE lease' \in Lease
      <4>2. CASE MarkFailed
        BY <3>2, <4>2 DEF MarkFailed, Lease
      <4>3. CASE SessionPump
        BY <4>3, PumpType
      <4>4. QED
        BY <3>2, <4>2, <4>3
    <3>3. QED
      BY <3>1, <3>2
  <2>3. QED
    BY <2>1, <2>2
<1>4. CASE lease \in Lease
  BY <1>3, <1>4 DEF Readable
<1>5. CASE lease \notin Lease
  <2>1. lease = None /\ ~recorded /\ ~InHand /\ ~kept
    BY <1>2, <1>5 DEF Readable, TypeOK
  <2>2. CASE Reserve
    BY <1>2, <2>1, <2>2, ReserveFacts DEF GiveUp, Readable, InHand
  <2>3. CASE ~Reserve
    <3>1. ~InHand'
      BY <2>1, <2>3, InHandStep
    <3>2. ~Record /\ ~Send /\ ~SessionPump
      BY <1>5, <2>1 DEF Record, Send, SessionPump, LeaseProcess, InHand
    <3>3. lease' = lease /\ (recorded' = recorded \/ recorded' = kept)
      BY <2>3, <3>2 DEF Next, vars, OpenForeign, Close, WriteDescriptor, Ask, Launch,
         Restart, RestartPump, Launched, Cancel, GiveUp, Confirm, Crash
    <3>4. QED
      BY <2>1, <3>1, <3>3 DEF Readable
  <2>4. QED
    BY <2>2, <2>3
<1>6. QED
  BY <1>4, <1>5

\* claude_session_views.hpp:43-44: a crash between writing the reservation and
\* saving its mark never looks like a reservation that went missing.
THEOREM NothingBlocksItself == Spec => []NeverBlocksItself
<1>1. Init => Present
  BY DEF Init, Present, Readable, InHand
<1>2. Reserved /\ Present /\ [Next]_vars => Present'
  BY PresentStep DEF Reserved
<1>3. Present => NeverBlocksItself
  BY DEF Present, NeverBlocksItself
<1>4. QED
  BY <1>1, <1>2, <1>3, Reservations, PTL DEF Spec

-----------------------------------------------------------------------------
(* A confirmation rests on a new record.                                    *)

\* Records of the target have only been renewed since the reservation.
Evidence ==
  /\ \A p \in Profiles : Generation(p) \in 0 .. writes
  /\ lease \in Lease =>
       /\ lease.before <= Generation(lease.profile)
       /\ lease.status = "confirmed" => lease.before < Generation(lease.profile)

LEMMA EvidenceStep ==
  ASSUME TypeOK, Evidence, [Next]_vars
  PROVE  Evidence'
<1>0. /\ writes \in Nat /\ MaxWrites \in Nat /\ TypeOK'
      /\ lease \in Lease => lease.profile \in Profiles /\ lease.before \in 0 .. MaxWrites
  BY TypeStep, Constants, SMTT(30) DEF TypeOK, Lease
<1>1. ASSUME NEW p \in Profiles, NEW f \in Folders, WriteDescriptor(p, f)
      PROVE  Evidence'
  <2>1. /\ lease' = lease /\ writes' = writes + 1
        /\ descriptor' = [descriptor EXCEPT
                            ![p] = [folder |-> f, generation |-> writes + 1]]
    BY <1>1 DEF WriteDescriptor
  <2>2. \A q \in Profiles : Generation(q)' = IF q = p THEN writes + 1 ELSE Generation(q)
    <3>1. [folder |-> f, generation |-> writes + 1] # None
      <4>1. writes + 1 \in 0 .. MaxWrites
        BY <1>0, <1>1 DEF WriteDescriptor
      <4>2. QED
        BY <4>1, Constants
    <3>2. QED
      BY <2>1, <3>1 DEF Generation, TypeOK
  <2>3. QED
    BY <1>0, <2>1, <2>2 DEF Evidence
<1>2. CASE UNCHANGED <<descriptor, writes>>
  <2>1. \A p \in Profiles : Generation(p)' = Generation(p)
    BY <1>2 DEF Generation
  <2>2. CASE lease' \notin Lease \/ lease' = lease
    BY <1>2, <2>1, <2>2, <1>0 DEF Evidence
  <2>3. CASE Reserve /\ ~GiveUp
    <3>1. lease' = Reservation /\ opening \in Requests
      BY <2>3 DEF Reserve, TypeOK
    <3>2. /\ lease'.profile = opening.profile /\ opening.profile \in Profiles
          /\ lease'.before = Generation(opening.profile)
          /\ lease'.status = "pending"
      BY <3>1 DEF Reservation, Requests
    <3>3. QED
      BY <1>0, <1>2, <2>1, <3>2 DEF Evidence
  <2>4. CASE SessionPump \/ MarkFailed
    <3>1. CASE lease \notin Lease
      BY <2>2, <2>4, <3>1 DEF SessionPump, MarkFailed, LeaseProcess
    <3>2. CASE lease \in Lease
      <4>1. /\ lease'.profile = lease.profile /\ lease'.before = lease.before
            /\ lease'.status = "confirmed" =>
                 lease.status = "confirmed" \/ Acknowledged
        BY <2>4, <3>2 DEF SessionPump, MarkFailed, Lease
      <4>2. Acknowledged => lease.before # Generation(lease.profile)
        BY DEF Acknowledged
      <4>3. QED
        BY <1>0, <1>2, <2>1, <3>2, <4>1, <4>2 DEF Evidence
    <3>3. QED
      BY <3>1, <3>2
  <2>5. lease' \in {lease, None, Damaged} \/ (Reserve /\ ~GiveUp) \/ SessionPump \/ MarkFailed
    BY DEF Next, vars, OpenForeign, Close, WriteDescriptor, Ask, Lose, Launch,
       Restart, RestartPump, Launched, Cancel, GiveUp, Confirm, Reserve, Record,
       Send, Crash
  <2>6. QED
    BY <2>2, <2>3, <2>4, <2>5, NotALease
<1>3. QED
  BY <1>1, <1>2 DEF Next, vars, OpenForeign, Close, Ask, Lose, Launch, Restart,
     RestartPump, Launched, Cancel, GiveUp, Confirm, Reserve, Record, Send,
     SessionPump, Crash, bounds

\* USER_GUIDE.md:174, "An old descriptor is not confirmation".
THEOREM OldRecordsProveNothing == Spec => []OldRecordIsNoEvidence
<1>1. Init => Evidence
  <2> SUFFICES ASSUME Init PROVE Evidence
    OBVIOUS
  <2>1. lease \notin Lease /\ writes = 0
    BY NotALease DEF Init
  <2>2. \A p \in Profiles : Generation(p) = 0
    BY DEF Init, Generation
  <2>3. QED
    BY <2>1, <2>2 DEF Evidence
<1>2. TypeOK /\ Evidence /\ [Next]_vars => Evidence'
  BY EvidenceStep
<1>3. TypeOK /\ Evidence => OldRecordIsNoEvidence
  BY DEF Evidence, OldRecordIsNoEvidence
<1>4. QED
  BY <1>1, <1>2, <1>3, TypeCorrect, PTL DEF Spec

-----------------------------------------------------------------------------
(* The reservation implements the lock SessionOwner.                        *)

\* A profile whose launch waits for its process has no window.
Waiting == \A i \in 1 .. Len(launching) : window[launching[i]] = 0

LEMMA WaitKeepsWaiting ==
  ASSUME TypeOK, Waiting, NEW p \in Profiles, Wait(p), window[p] = 0, UNCHANGED window
  PROVE  Waiting'
<1>1. Len(launching) \in Nat /\ launching \in Seq(Profiles)
  BY DEF TypeOK
<1>2. QED
  BY <1>1, WaitFacts DEF Waiting

LEMMA WaitingStep ==
  ASSUME TypeOK, Waiting, [Next]_vars
  PROVE  Waiting'
<1>0. /\ launching \in Seq(Profiles) /\ Len(launching) \in Nat /\ Distinct
      /\ window \in [Windows -> 0 .. MaxStarts] /\ Profiles \subseteq Windows
      /\ \A i \in 1 .. Len(launching) : launching[i] \in Windows /\ launching[i] # Foreign
  BY Constants DEF TypeOK, Distinct, Windows
<1>1. CASE OpenForeign
  BY <1>0, <1>1 DEF OpenForeign, OpenWindow, Waiting
<1>2. CASE \E w \in Windows : Close(w)
  BY <1>0, <1>2 DEF Close, Waiting
<1>3. CASE \E p \in Profiles : Launch(p) \/ RestartPump(p)
  BY <1>3, WaitKeepsWaiting DEF Launch, RestartPump, Waiting
<1>4. CASE Confirm
  <2>1. opening \in Requests
    BY <1>4 DEF Confirm, Asking, TypeOK
  <2>2. opening.profile \in Profiles
    BY <2>1 DEF Requests
  <2>3. QED
    BY <1>4, <2>2, WaitKeepsWaiting DEF Confirm, GiveUp, Waiting
<1>5. CASE Launched
  <2>1. /\ Len(launching') = Len(launching) - 1 /\ Len(launching) \in Nat \ {0}
        /\ \A i \in 1 .. Len(launching') : launching'[i] = launching[i]
    BY <1>0, <1>5, ReturnFacts DEF Launched
  <2>2. \A i \in 1 .. Len(launching') :
          i \in 1 .. Len(launching) /\ launching'[i] # launching[Len(launching)]
    BY <2>1 DEF TypeOK
  <2>3. \A w \in Windows \ {launching[Len(launching)]} : window'[w] = window[w]
    BY <1>0, <1>5 DEF Launched, OpenWindow
  <2>4. QED
    BY <1>0, <2>1, <2>2, <2>3 DEF Waiting
<1>6. CASE Crash
  BY <1>6, EmptySeq DEF Crash, Waiting
<1>7. CASE UNCHANGED <<window, launching>>
  BY <1>7 DEF Waiting
<1>8. QED
  BY <1>1, <1>2, <1>3, <1>4, <1>5, <1>6, <1>7 DEF Next, vars, WriteDescriptor, Ask, Lose,
     Restart, Cancel, GiveUp, Reserve, Record, Send, SessionPump

OpenOnes == {w \in Windows : window[w] # 0}

Holders == {r.profile : r \in Owning}

\* A launched process opens a window that was not there while nobody holds the
\* session.
LEMMA OpenRefines ==
  ASSUME Reserved, Waiting, [Next]_vars, resumed' = resumed,
         launching # <<>>, NEW p \in Profiles, p = launching[Len(launching)], OpenWindow(p)
  PROVE  Session!Open(p)
<1>1. /\ p \in Windows /\ window[p] = 0
      /\ \A r \in Owning : r.profile = p
  <2>1. Len(launching) \in 1 .. Len(launching)
    BY EmptySeq DEF Reserved, TypeOK
  <2>2. QED
    BY <2>1 DEF Reserved, TypeOK, Waiting, Owners, Windows
<1>2. Owning = {}
  <2> SUFFICES ASSUME NEW r \in Owning PROVE FALSE
    OBVIOUS
  <2>1. window[r.profile] = r.process /\ r.process \in 1 .. MaxStarts /\ MaxStarts \in Nat
    BY Constants DEF Owning, Reserved, Numbers
  <2>2. QED
    BY <1>1, <2>1
<1>3. Owning' = {}
  BY <1>2, OwningStep DEF Owning, Reserved
<1>4. OpenOnes' = OpenOnes \cup {p}
  <2>1. /\ window \in [Windows -> 0 .. MaxStarts] /\ started \in Nat
        /\ window' = [window EXCEPT ![p] = started + 1]
    BY Constants DEF Reserved, TypeOK, OpenWindow
  <2>2. QED
    BY <1>1, <2>1 DEF OpenOnes
<1>5. p \notin OpenOnes
  BY <1>1 DEF OpenOnes
<1>6. QED
  BY <1>2, <1>3, <1>4, <1>5 DEF Session!Open, OpenOnes

LEMMA ForeignRefines ==
  ASSUME Reserved, OpenForeign
  PROVE  Session!Open(Foreign)
<1>1. /\ window \in [Windows -> 0 .. MaxStarts] /\ started \in Nat /\ Foreign \in Windows
      /\ window' = [window EXCEPT ![Foreign] = started + 1] /\ window[Foreign] = 0
      /\ resumed' = resumed /\ Foreign \notin Profiles /\ Profiles \subseteq Windows
  BY Constants DEF Reserved, TypeOK, OpenForeign, OpenWindow, Windows
<1>2. OpenOnes' = OpenOnes \cup {Foreign} /\ Foreign \notin OpenOnes
  BY <1>1 DEF OpenOnes
<1>3. Owning' = Owning
  <2>1. \A r \in resumed : r.profile \in Profiles
    BY DEF Reserved, Numbers
  <2>2. QED
    BY <1>1, <2>1 DEF Owning
<1>4. QED
  BY <1>1, <1>2, <1>3 DEF Session!Open, OpenOnes

LEMMA CloseRefines ==
  ASSUME Reserved, NEW w \in Windows, Close(w)
  PROVE  Session!Close(w)
<1>1. /\ window \in [Windows -> 0 .. MaxStarts] /\ window[w] # 0
      /\ window' = [window EXCEPT ![w] = 0]
      /\ resumed' = resumed /\ Profiles \subseteq Windows
  BY DEF Reserved, TypeOK, Close, Windows
<1>2. OpenOnes' = OpenOnes \ {w} /\ w \in OpenOnes
  BY <1>1 DEF OpenOnes
<1>3. Owning' = {r \in Owning : r.profile # w}
  <2>1. \A r \in resumed : r.profile \in Windows /\ r.process \in 1 .. MaxStarts
    BY <1>1 DEF Reserved, Numbers
  <2>2. \A r \in resumed : r.process # 0
    BY <2>1, Constants
  <2>3. QED
    BY <1>1, <2>1, <2>2 DEF Owning
<1>4. {r.profile : r \in Owning}' = {r.profile : r \in Owning} \ {w}
  BY <1>3
<1>5. QED
  BY <1>2, <1>4 DEF Session!Close, OpenOnes

LEMMA GrantRefines ==
  ASSUME Reserved, Sends
  PROVE  \E p \in Profiles : Session!Grant(p)
<1>0. PICK p \in Profiles : p = opening.profile
  BY DEF Sends, Requests
<1>1. /\ window[p] = opening.process /\ ~Competing(p)
      /\ window' = window /\ resumed' = resumed \cup {Resume}
  BY <1>0 DEF Sends
<1>2. opening.process # 0
  BY DEF Sends, Reserved, Held, InHand
<1>3. OpenOnes = {p} /\ OpenOnes' = OpenOnes
  BY <1>1, <1>2 DEF OpenOnes, Competing, Windows
<1>4. \A r \in Owning : r.profile = p
  <2> SUFFICES ASSUME NEW r \in Owning, r.profile # p PROVE FALSE
    OBVIOUS
  <2>1. window[p] = 0
    BY <1>1 DEF Reserved, Owners
  <2>2. QED
    BY <1>1, <1>2, <2>1
<1>5. Owning' = Owning \cup {Resume} /\ Resume.profile = p
  BY <1>0, <1>1 DEF Owning, Resume
<1>6. {r.profile : r \in Owning}' = {p}
  BY <1>4, <1>5
<1>7. Session!Grant(p)
  BY <1>3, <1>6 DEF Session!Grant, OpenOnes
<1>8. QED
  BY <1>7

LEMMA NextRefines == Reserved /\ Waiting /\ [Next]_vars => [Session!Next]_(Session!vars)
<1> SUFFICES ASSUME Reserved, Waiting, [Next]_vars
             PROVE  Session!Next \/ UNCHANGED Session!vars
  OBVIOUS
<1>1. CASE Sends
  BY <1>1, GrantRefines DEF Session!Next
<1>2. CASE resumed' = resumed
  <2>1. CASE OpenForeign
    BY <2>1, ForeignRefines DEF Session!Next
  <2>2. CASE \E w \in Windows : Close(w)
    BY <2>2, CloseRefines DEF Session!Next, Windows
  <2>3. ASSUME launching # <<>>, OpenWindow(launching[Len(launching)])
        PROVE  Session!Next
    <3>1. PICK p \in Profiles : p = launching[Len(launching)]
      BY <2>3, EmptySeq DEF Reserved, TypeOK
    <3>2. QED
      BY <1>2, <2>3, <3>1, OpenRefines DEF Session!Next
  <2>4. CASE UNCHANGED window
    BY <1>2, <2>4 DEF Session!vars, Owning
  <2>5. QED
    BY <2>1, <2>2, <2>3, <2>4 DEF Next, vars, WriteDescriptor, Ask, Lose, Launch, Restart,
       RestartPump, Launched, Cancel, GiveUp, Confirm, Reserve, Record, Send, SessionPump, Crash
<1>3. QED
  BY <1>1, <1>2, ResumedStep DEF Reserved

\* From the request to the end of the window that got the session, with its
\* reservation file, its mark, crashes and waiting launches in between, the
\* bridge works like a lock (ARCHITECTURE.md:101).
THEOREM SessionsAreLocked == Spec => OwnedLikeALock
<1>1. Init => Session!Init
  BY DEF Init, Session!Init, Owning
<1>2. Init => Waiting
  BY EmptySeq DEF Init, Waiting
<1>3. Reserved /\ Waiting /\ [Next]_vars => Waiting'
  BY WaitingStep DEF Reserved
<1>4. QED
  BY <1>1, <1>2, <1>3, NextRefines, Reservations, PTL DEF Spec, OwnedLikeALock, Session!Spec
=============================================================================
