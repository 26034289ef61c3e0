------------------------ MODULE ProjectServerProofs ------------------------
(***************************************************************************)
(* What ProjectServer promises for any records, native projects and tasks  *)
(* and any number of changes and failures.                                 *)
(***************************************************************************)
EXTENDS ProjectServer, TLAPS

(* The inductive invariant. ***********************************************)

\* A native id is used once, what AppDeck removed is gone, and the server
\* still knows the key under which it imported a project that is there.
Registered ==
  /\ \A n \in Natives : native[n] = "unborn" => history.imported[n] = None
  /\ \A n \in history.removed : native[n] = "gone"
  /\ \A n \in Natives :
       Exists(n) /\ history.imported[n] # None => known[history.imported[n]] = n

\* A record is mapped to a project that was there, and to one AppDeck removed
\* only if the record is deleted, was added again, or shares it by an import.
Mapped(map) ==
  \A k \in Keys :
    /\ map[k] # None => native[map[k]] # "unborn" /\ wanted[k] # "never"
    /\ map[k] \in history.removed \ history.recovered
         => k \in Deleted \cup history.readded

\* A talk only adds to the saved mapping.
Grown == \A k \in Keys : mapping[k] # None => talk.map[k] = mapping[k]

\* The list and what was confirmed since are the registry, but for projects
\* another window touched; nothing new appears behind the talk's back.
Seen ==
  \A n \in Natives :
    /\ talk.view[n] = None => ~Exists(n)
    /\ n \notin history.touched => talk.view[n] = Listing[n]

\* No live record shares a deleted one's project, but by an import.
Apart ==
  \A k \in Live, d \in Deleted :
    talk.map[d] # None /\ talk.map[d] = talk.map[k]
      => talk.map[k] \in history.recovered

\* A record that is imported with other content is written next.
Pending ==
  /\ talk.left \subseteq Live
  /\ talk.current # None =>
       /\ talk.current \in talk.left
       /\ talk.map[talk.current] # None
       /\ talk.view[talk.map[talk.current]] # wanted[talk.current]

\* A record that was pushed is in the registry as the talk knows it.
Agreed(k) ==
  /\ talk.map[k] # None
  /\ \/ Shared(k)
     \/ talk.map[k] \in Undone
     \/ talk.view[talk.map[k]] = wanted[k]

\* The members of the project about to be removed were listed, or came later.
Emptied ==
  talk.current # None => \A t \in Tasks :
    task[t] # None /\ task[t] = talk.map[talk.current]
      => t \in talk.freeing \cup history.late

Gone(d) == ~Exists(talk.map[d])

InTalk ==
  /\ Mapped(talk.map) /\ Grown
  /\ talk.stage = "list" => talk.current = None
  /\ talk.stage # "list" => Seen /\ Apart
  /\ talk.stage = "push" => Pending /\ \A k \in Live \ talk.left : Agreed(k)
  /\ talk.stage \in {"delete", "done"} => \A k \in Live : Agreed(k)
  /\ talk.stage = "delete" =>
       talk.left \subseteq Deleted /\ Emptied /\ \A d \in Deleted \ talk.left : Gone(d)
  /\ talk.stage = "done" => \A d \in Deleted : Gone(d)

IndInv == TypeOK /\ Registered /\ Mapped(mapping) /\ (talk # None => InTalk)

-----------------------------------------------------------------------------
(* Types. *****************************************************************)

LEMMA IdentifiedType ==
  ASSUME NEW map \in [Keys -> Natives \cup {None}], NEW view, NEW keys
  PROVE  Identified(map, view, keys) \in [Keys -> Natives \cup {None}]
BY DEF Identified

LEMMA ListingType ==
  ASSUME TypeOK
  PROVE  Listing \in [Natives -> Contents \cup {None}]
BY DEF TypeOK, Listing, Exists

LEMMA WrittenType ==
  ASSUME talk \in Talk, NEW k \in Keys, NEW n \in Natives, NEW c \in Contents
  PROVE  Written(k, n, c) \in Talk
BY DEF Talk, Written

\* However the call goes, the talk, the mapping and the budget keep their types.
LEMMA AnsweredType ==
  ASSUME TypeOK, talk \in Talk, NEW t, t \in Talk, Answered(t)
  PROVE  /\ talk' = None \/ talk' \in Talk
         /\ mapping' \in [Keys -> Natives \cup {None}]
         /\ budget' \in [changes : 0 .. MaxChanges, failures : 0 .. MaxFailures]
BY Constants DEF TypeOK, Talk, Answered, Broken, Ended

LEMMA TypeInit == Init => TypeOK
BY Constants DEF Init, TypeOK

LEMMA TypeOthers == TypeOK /\ Others => TypeOK'
<1> SUFFICES ASSUME TypeOK, Others PROVE TypeOK'
  OBVIOUS
<1> USE Constants
<1>1. ASSUME NEW k \in Keys, NEW c \in Contents, Add(k, c) \/ Edit(k, c)
      PROVE  TypeOK'
  BY <1>1 DEF TypeOK, Add, Edit, Reconciled, Changed
<1>2. ASSUME NEW k \in Keys, NEW c \in Contents, Readd(k, c)
      PROVE  TypeOK'
  BY <1>2 DEF TypeOK, Readd, Reconciled, Changed
<1>3. ASSUME NEW k \in Keys, NEW n \in Natives, NEW c \in Contents, DesktopAdd(k, n, c)
      PROVE  TypeOK'
  BY <1>3 DEF TypeOK, DesktopAdd, Reconciled, Changed
<1>4. ASSUME NEW k \in Keys, Drop(k)
      PROVE  TypeOK'
  BY <1>4 DEF TypeOK, Drop, Reconciled, Changed
<1>5. ASSUME NEW n \in Natives, NEW v \in Contents \cup {"gone"}, NativeChange(n, v)
      PROVE  TypeOK'
  BY <1>5 DEF TypeOK, NativeChange, Changed
<1>6. ASSUME NEW t \in Tasks, NEW n \in Natives, TaskJoins(t, n)
      PROVE  TypeOK'
  BY <1>6 DEF TypeOK, TaskJoins, Changed
<1> QED BY <1>1, <1>2, <1>3, <1>4, <1>5, <1>6 DEF Others

\* What a talk writes are contents.
PushesLive == talk # None /\ talk.stage = "push" => talk.left \subseteq Live

LEMMA TypeAppDeck == TypeOK /\ PushesLive /\ AppDeck => TypeOK'
<1> SUFFICES ASSUME TypeOK, PushesLive, AppDeck PROVE TypeOK'
  OBVIOUS
<1> USE Constants
<1>1. CASE Start
  <2>1. talk' \in Talk
    BY <1>1 DEF Start, Talk, TypeOK
  <2>2. QED BY <1>1, <2>1 DEF Start, TypeOK
<1>2. CASE List
  <2> DEFINE view == Listing
             map == Identified(talk.map, view, Live)
             both == Identified(map, view, Deleted)
             missing == Missing(map, view)
  <2>1. /\ talk \in Talk /\ talk.map \in [Keys -> Natives \cup {None}]
        /\ UNCHANGED <<native, known, task, history>>
    BY <1>2 DEF List, TypeOK, Talk
  <2>2. map \in [Keys -> Natives \cup {None}] /\ both \in [Keys -> Natives \cup {None}]
    BY <2>1, IdentifiedType
  <2>3. view \in [Natives -> Contents \cup {None}]
    BY ListingType
  <2> HIDE DEF view, map, both, missing
  <2>4. CASE AcceptNativeDeletes(map, missing)
    BY <2>1, <2>2, <2>4 DEF AcceptNativeDeletes, TypeOK
  <2>5. CASE /\ talk' = None /\ mapping' \in {mapping, map, both}
             /\ UNCHANGED <<wanted, budget>>
    BY <2>1, <2>2, <2>5 DEF TypeOK
  <2>6. CASE /\ Answered([talk EXCEPT !.stage = "push", !.view = view,
                                      !.map = both, !.left = Live])
             /\ UNCHANGED wanted
    <3> DEFINE t == [talk EXCEPT !.stage = "push", !.view = view,
                                 !.map = both, !.left = Live]
    <3>1. t \in Talk
      BY <2>1, <2>2, <2>3 DEF Talk, Live
    <3> HIDE DEF t
    <3>2. Answered(t)
      BY <2>6 DEF t
    <3>3. /\ talk' = None \/ talk' \in Talk
          /\ mapping' \in [Keys -> Natives \cup {None}]
          /\ budget' \in [changes : 0 .. MaxChanges, failures : 0 .. MaxFailures]
      BY <2>1, <3>1, <3>2, AnsweredType
    <3>4. QED BY <2>1, <2>6, <3>3 DEF TypeOK
  <2>7. QED BY <1>2, <2>4, <2>5, <2>6 DEF List, view, map, both, missing
<1>3. CASE Pushed
  <2>1. talk' \in Talk
    BY <1>3 DEF Pushed, Talk, TypeOK, Deleted
  <2>2. QED BY <1>3, <2>1 DEF Pushed, TypeOK
<1>4. CASE Finish
  <2>1. talk \in Talk
    BY <1>4 DEF Finish, TypeOK
  <2>2. talk' = None \/ talk' \in Talk
    BY <1>4, <2>1 DEF Finish, Talk, Ended
  <2>3. mapping' \in [Keys -> Natives \cup {None}]
    BY <1>4, <2>1 DEF Finish, Talk, Ended, TypeOK
  <2>4. QED BY <1>4, <2>2, <2>3 DEF Finish, TypeOK
<1>5. CASE Save
  BY <1>5 DEF Save, Broken, Ended, Talk, TypeOK
<1>6. ASSUME NEW k \in Keys, Skip(k) \/ SkipDeleted(k)
      PROVE  TypeOK'
  <2>1. talk' \in Talk
    BY <1>6 DEF Skip, SkipDeleted, Pushing, Deleting, Talk, TypeOK
  <2>2. QED BY <1>6, <2>1 DEF Skip, SkipDeleted, TypeOK
<1>7. ASSUME NEW k \in Keys, Update(k)
      PROVE  TypeOK'
  <2> DEFINE n == talk.map[k]
  <2>1. talk \in Talk /\ n \in Natives \cup {None} /\ UNCHANGED <<known, task, wanted, history>>
    BY <1>7 DEF Update, Pushing, TypeOK, Talk
  <2>2. CASE ~Exists(n)
    <3>1. talk' = None /\ mapping' \in {mapping, talk.map} /\ UNCHANGED <<native, budget>>
      BY <1>7, <2>2 DEF Update, Ended
    <3>2. QED BY <2>1, <3>1 DEF TypeOK, Talk
  <2>3. CASE Exists(n)
    <3>1. /\ n \in Natives /\ wanted[k] \in Contents
          /\ native' = [native EXCEPT ![n] = wanted[k]]
          /\ Answered(Written(k, n, wanted[k]))
      BY <1>7, <2>1, <2>3 DEF Update, Exists, Pushing, PushesLive, Live
    <3>2. /\ talk' = None \/ talk' \in Talk
          /\ mapping' \in [Keys -> Natives \cup {None}]
          /\ budget' \in [changes : 0 .. MaxChanges, failures : 0 .. MaxFailures]
      BY <2>1, <3>1, WrittenType, AnsweredType
    <3>3. QED BY <2>1, <3>1, <3>2 DEF TypeOK
  <2>4. QED BY <2>2, <2>3
<1>8. ASSUME NEW k \in Keys, Import(k)
      PROVE  TypeOK'
  <2>1. talk \in Talk /\ k \in Live /\ UNCHANGED <<task, wanted>>
    BY <1>8 DEF Import, Pushing, PushesLive, TypeOK
  <2>2. CASE talk' = None /\ mapping' \in {mapping, talk.map}
             /\ UNCHANGED <<native, known, history, budget>>
    BY <2>1, <2>2 DEF TypeOK, Talk
  <2>3. ASSUME NEW n \in ImportTargets(k), NEW c,
               c = IF Exists(n) THEN native[n] ELSE wanted[k],
               native' = [native EXCEPT ![n] = c],
               known' = [known EXCEPT ![k] = n],
               history' = IF Exists(n)
                          THEN [history EXCEPT !.recovered = @ \cup {n}]
                          ELSE [history EXCEPT !.imported[n] = k],
               Answered(Written(k, n, c))
        PROVE  TypeOK'
    <3>1. n \in Natives /\ c \in Contents
      BY <2>1, <2>3 DEF ImportTargets, Fresh, Exists, Live
    <3>2. /\ talk' = None \/ talk' \in Talk
          /\ mapping' \in [Keys -> Natives \cup {None}]
          /\ budget' \in [changes : 0 .. MaxChanges, failures : 0 .. MaxFailures]
      BY <2>1, <2>3, <3>1, WrittenType, AnsweredType
    <3>3. history' \in [imported : [Natives -> Keys \cup {None}], removed : SUBSET Natives,
                        recovered : SUBSET Natives, readded : SUBSET Keys,
                        touched : SUBSET Natives, late : SUBSET Tasks]
      <4>1. CASE Exists(n)
        BY <2>3, <3>1, <4>1 DEF TypeOK
      <4>2. CASE ~Exists(n)
        BY <2>3, <3>1, <4>2 DEF TypeOK
      <4>3. QED BY <4>1, <4>2
    <3>4. QED BY <2>1, <2>3, <3>1, <3>2, <3>3 DEF TypeOK
  <2>4. QED BY <1>8, <2>2, <2>3 DEF Import, Ended
<1>9. ASSUME NEW k \in Keys, Members(k)
      PROVE  TypeOK'
  <2> DEFINE t == [talk EXCEPT !.freeing = {u \in Tasks : task[u] = talk.map[k]},
                               !.current = k]
  <2>1. talk \in Talk /\ UNCHANGED <<native, known, task, wanted>>
        /\ history' = [history EXCEPT !.late = {}]
    BY <1>9 DEF Members, Deleting, TypeOK
  <2>2. t \in Talk
    BY <2>1 DEF Talk
  <2>3. Answered(t)
    BY <1>9 DEF Members
  <2> HIDE DEF t
  <2>4. /\ talk' = None \/ talk' \in Talk
        /\ mapping' \in [Keys -> Natives \cup {None}]
        /\ budget' \in [changes : 0 .. MaxChanges, failures : 0 .. MaxFailures]
    BY <2>1, <2>2, <2>3, AnsweredType
  <2>5. QED BY <2>1, <2>4 DEF TypeOK
<1>10. ASSUME NEW k \in Keys, Remove(k)
       PROVE  TypeOK'
  <2> DEFINE n == talk.map[k]
             t == [talk EXCEPT !.view[n] = None, !.left = @ \ {k}, !.current = None]
  <2>1. talk \in Talk /\ UNCHANGED <<known, wanted>>
    BY <1>10 DEF Remove, Deleting, TypeOK
  <2>2. CASE ~Exists(n)
    <3>1. talk' = None /\ mapping' \in {mapping, talk.map}
          /\ UNCHANGED <<native, task, history, budget>>
      BY <1>10, <2>2 DEF Remove, Ended
    <3>2. QED BY <2>1, <3>1 DEF TypeOK, Talk
  <2>3. CASE Exists(n)
    <3>1. /\ n \in Natives
          /\ native' = [native EXCEPT ![n] = "gone"]
          /\ task' = [u \in Tasks |-> IF task[u] = n THEN None ELSE task[u]]
          /\ history' = [history EXCEPT !.removed = @ \cup {n}]
          /\ Answered(t)
      BY <1>10, <2>3 DEF Remove, Exists
    <3>2. t \in Talk
      BY <2>1, <3>1 DEF Talk
    <3> HIDE DEF t, n
    <3>3. /\ talk' = None \/ talk' \in Talk
          /\ mapping' \in [Keys -> Natives \cup {None}]
          /\ budget' \in [changes : 0 .. MaxChanges, failures : 0 .. MaxFailures]
      BY <2>1, <3>1, <3>2, AnsweredType
    <3>4. QED BY <2>1, <3>1, <3>3 DEF TypeOK
  <2>4. QED BY <2>2, <2>3
<1>11. ASSUME NEW u \in Tasks, Free(u)
       PROVE  TypeOK'
  <2> DEFINE t == [talk EXCEPT !.freeing = @ \ {u}]
  <2>1. talk \in Talk /\ UNCHANGED <<native, known, wanted, history>>
        /\ task' = [task EXCEPT ![u] = None]
    BY <1>11 DEF Free, TypeOK
  <2>2. t \in Talk /\ Answered(t)
    BY <1>11, <2>1 DEF Talk, Free
  <2> HIDE DEF t
  <2>3. /\ talk' = None \/ talk' \in Talk
        /\ mapping' \in [Keys -> Natives \cup {None}]
        /\ budget' \in [changes : 0 .. MaxChanges, failures : 0 .. MaxFailures]
    BY <2>1, <2>2, AnsweredType
  <2>4. QED BY <2>1, <2>3 DEF TypeOK
<1>12. QED
  BY <1>1, <1>2, <1>3, <1>4, <1>5, <1>6, <1>7, <1>8, <1>9, <1>10, <1>11 DEF AppDeck

LEMMA TypeStep == TypeOK /\ PushesLive /\ [Next]_vars => TypeOK'
<1>1. TypeOK /\ UNCHANGED vars => TypeOK'
  BY DEF TypeOK, vars
<1>2. QED BY <1>1, TypeOthers, TypeAppDeck DEF Next

-----------------------------------------------------------------------------
(* The registry and the mappings. *****************************************)

LEMMA InvInit == Init => IndInv
<1> SUFFICES ASSUME Init PROVE IndInv
  OBVIOUS
<1>1. TypeOK
  BY TypeInit
<1>2. Registered
  BY Constants DEF Init, Registered, Exists
<1>3. Mapped(mapping) /\ talk = None
  BY Constants DEF Init, Mapped
<1>4. QED BY <1>1, <1>2, <1>3 DEF IndInv

\* What another window and the users change is no talk's doing.
LEMMA RegisteredOthers ==
  ASSUME TypeOK, Registered, Others
  PROVE  Registered'
<1> USE Constants
<1>1. ASSUME NEW k \in Keys, Drop(k) \/ \E c \in Contents : Add(k, c) \/ Edit(k, c) \/ Readd(k, c)
      PROVE  Registered'
  <2>1. /\ native' = native /\ known' = known
        /\ history'.imported = history.imported /\ history'.removed = history.removed
    BY <1>1 DEF Add, Edit, Drop, Readd, TypeOK
  <2>2. QED BY <2>1 DEF Registered, Exists
<1>2. ASSUME NEW k \in Keys, NEW n \in Natives, NEW c \in Contents, DesktopAdd(k, n, c)
      PROVE  Registered'
  BY <1>2 DEF DesktopAdd, Fresh, Registered, Exists, TypeOK
<1>3. ASSUME NEW n \in Natives, NEW v \in Contents \cup {"gone"}, NativeChange(n, v)
      PROVE  Registered'
  <2>1. /\ Exists(n) /\ native' = [native EXCEPT ![n] = v] /\ known' = known
        /\ history'.imported = history.imported /\ history'.removed = history.removed
    BY <1>3 DEF NativeChange, TypeOK
  <2>2. QED BY <2>1 DEF Registered, Exists, TypeOK
<1>4. ASSUME NEW t \in Tasks, NEW n \in Natives, TaskJoins(t, n)
      PROVE  Registered'
  <2>1. /\ native' = native /\ known' = known
        /\ history'.imported = history.imported /\ history'.removed = history.removed
    BY <1>4 DEF TaskJoins, TypeOK
  <2>2. QED BY <2>1 DEF Registered, Exists
<1> QED BY <1>1, <1>2, <1>3, <1>4 DEF Others

LEMMA RegisteredAppDeck ==
  ASSUME TypeOK, PushesLive, Registered, AppDeck
  PROVE  Registered'
<1> USE Constants
<1>1. CASE /\ UNCHANGED <<native, known>>
           /\ history'.imported = history.imported /\ history'.removed = history.removed
  BY <1>1 DEF Registered, Exists
<1>2. CASE Start \/ List \/ Pushed \/ Finish \/ Save
  <2>1. /\ UNCHANGED <<native, known>>
        /\ history'.imported = history.imported /\ history'.removed = history.removed
    BY <1>2 DEF Start, List, Pushed, Finish, Save, TypeOK
  <2>2. QED BY <2>1, <1>1
<1>3. ASSUME NEW k \in Keys, Skip(k) \/ Members(k) \/ SkipDeleted(k)
      PROVE  Registered'
  <2>1. /\ UNCHANGED <<native, known>>
        /\ history'.imported = history.imported /\ history'.removed = history.removed
    BY <1>3 DEF Skip, Members, SkipDeleted, TypeOK
  <2>2. QED BY <2>1, <1>1
<1>4. ASSUME NEW t \in Tasks, Free(t)
      PROVE  Registered'
  BY <1>1, <1>4 DEF Free
<1>5. ASSUME NEW k \in Keys, Update(k)
      PROVE  Registered'
  <2>1. wanted[k] \in Contents /\ UNCHANGED <<known, history>>
    BY <1>5 DEF Update, Pushing, PushesLive, Live
  <2>2. CASE native' = native
    BY <1>1, <2>1, <2>2
  <2>3. CASE /\ Exists(talk.map[k])
             /\ native' = [native EXCEPT ![talk.map[k]] = wanted[k]]
    BY <2>1, <2>3 DEF Registered, Exists, TypeOK
  <2>4. QED BY <1>5, <2>2, <2>3 DEF Update
<1>6. ASSUME NEW k \in Keys, Import(k)
      PROVE  Registered'
  <2>1. CASE UNCHANGED <<native, known, history>>
    BY <1>1, <2>1
  <2>2. ASSUME NEW n \in ImportTargets(k), NEW c,
               c = IF Exists(n) THEN native[n] ELSE wanted[k],
               native' = [native EXCEPT ![n] = c],
               known' = [known EXCEPT ![k] = n],
               history' = IF Exists(n)
                          THEN [history EXCEPT !.recovered = @ \cup {n}]
                          ELSE [history EXCEPT !.imported[n] = k]
        PROVE  Registered'
    <3>1. CASE Exists(known[k])
      <4>1. n = known[k] /\ Exists(n) /\ n \in Natives
        BY <2>2, <3>1 DEF ImportTargets, Exists
      <4>2. native' = native /\ known' = known
        BY <2>2, <4>1 DEF TypeOK
      <4>3. history'.imported = history.imported /\ history'.removed = history.removed
        BY <2>2, <4>1 DEF TypeOK
      <4>4. QED BY <1>1, <4>2, <4>3
    <3>2. CASE ~Exists(known[k])
      <4>1. n \in Natives /\ native[n] = "unborn" /\ ~Exists(n)
        BY <2>2, <3>2 DEF ImportTargets, Fresh, Exists
      <4>2. wanted[k] \in Contents
        BY <1>6 DEF Import, Pushing, PushesLive, Live
      <4>3. /\ native' = [native EXCEPT ![n] = wanted[k]]
            /\ history'.imported = [history.imported EXCEPT ![n] = k]
            /\ history'.removed = history.removed
        BY <2>2, <4>1 DEF TypeOK
      <4>4. \A m \in Natives : Exists(m) => history.imported[m] # k
        BY <3>2 DEF Registered
      <4>5. QED BY <2>2, <4>1, <4>2, <4>3, <4>4 DEF Registered, Exists, TypeOK
    <3>3. QED BY <3>1, <3>2
  <2>3. QED BY <1>6, <2>1, <2>2 DEF Import
<1>7. ASSUME NEW k \in Keys, Remove(k)
      PROVE  Registered'
  <2>1. CASE UNCHANGED <<native, history>>
    BY <1>1, <1>7, <2>1 DEF Remove
  <2>2. CASE /\ Exists(talk.map[k])
             /\ native' = [native EXCEPT ![talk.map[k]] = "gone"]
             /\ history' = [history EXCEPT !.removed = @ \cup {talk.map[k]}]
    BY <1>7, <2>2 DEF Remove, Registered, Exists, TypeOK
  <2>3. QED BY <1>7, <2>1, <2>2 DEF Remove
<1>8. QED BY <1>2, <1>3, <1>4, <1>5, <1>6, <1>7 DEF AppDeck

\* A mapping stays right when the talk, whose own it is a part of, goes on.
LEMMA MappedStays ==
  ASSUME IndInv, Next, NEW map \in [Keys -> Natives \cup {None}], Mapped(map),
         talk # None => \A k \in Keys : map[k] # None => talk.map[k] = map[k]
  PROVE  Mapped(map)'
<1> USE Constants
<1>1. TypeOK /\ Registered /\ (talk # None => InTalk) /\ PushesLive
  BY DEF IndInv, InTalk, Pending, PushesLive
<1>2. CASE /\ UNCHANGED <<native, wanted>>
           /\ history'.removed = history.removed
           /\ history.recovered \subseteq history'.recovered
           /\ history'.readded = history.readded
  BY <1>2 DEF Mapped, Deleted
<1>3. CASE Others
  <2>1. ASSUME NEW k \in Keys, Drop(k) \/ \E c \in Contents : Add(k, c) \/ Edit(k, c) \/ Readd(k, c)
        PROVE  Mapped(map)'
    <3>1. /\ native' = native /\ history'.removed = history.removed
          /\ history'.recovered = history.recovered
          /\ history.readded \subseteq history'.readded
      BY <1>1, <2>1 DEF Add, Edit, Drop, Readd, TypeOK
    <3>2. \A j \in Keys : wanted[j] # "never" => wanted'[j] # "never"
      BY <1>1, <2>1 DEF Add, Edit, Drop, Readd, Reconciled, TypeOK
    <3>3. \A j \in Deleted : j \in (Deleted \cup history.readded)'
      BY <1>1, <2>1 DEF Add, Edit, Drop, Readd, Reconciled, TypeOK, Deleted, Live
    <3>4. QED BY <3>1, <3>2, <3>3 DEF Mapped
  <2>2. ASSUME NEW k \in Keys, NEW n \in Natives, NEW c \in Contents, DesktopAdd(k, n, c)
        PROVE  Mapped(map)'
    BY <1>1, <2>2 DEF DesktopAdd, Reconciled, Fresh, Mapped, Deleted, TypeOK
  <2>3. ASSUME NEW n \in Natives, NEW v \in Contents \cup {"gone"}, NativeChange(n, v)
        PROVE  Mapped(map)'
    <3>1. /\ native' = [native EXCEPT ![n] = v] /\ wanted' = wanted
          /\ history'.removed = history.removed
          /\ history'.recovered = history.recovered
          /\ history'.readded = history.readded
      BY <1>1, <2>3 DEF NativeChange, TypeOK
    <3>2. QED BY <1>1, <3>1 DEF Mapped, Deleted, TypeOK
  <2>4. ASSUME NEW t \in Tasks, NEW n \in Natives, TaskJoins(t, n)
        PROVE  Mapped(map)'
    BY <1>1, <1>2, <2>4 DEF TaskJoins, TypeOK
  <2>5. QED BY <1>3, <2>1, <2>2, <2>3, <2>4 DEF Others
<1>4. CASE Start \/ Pushed \/ Finish \/ Save
  BY <1>1, <1>2, <1>4 DEF Start, Pushed, Finish, Save, TypeOK
<1>5. CASE List
  <2>1. UNCHANGED <<native, history>> /\ Deleted \subseteq Deleted'
        /\ \A j \in Keys : wanted[j] # "never" => wanted'[j] # "never"
    BY <1>1, <1>5 DEF List, AcceptNativeDeletes, Deleted, TypeOK
  <2>2. QED BY <2>1 DEF Mapped
<1>6. ASSUME NEW k \in Keys, Skip(k) \/ Members(k) \/ SkipDeleted(k)
      PROVE  Mapped(map)'
  BY <1>1, <1>2, <1>6 DEF Skip, Members, SkipDeleted, TypeOK
<1>7. ASSUME NEW t \in Tasks, Free(t)
      PROVE  Mapped(map)'
  BY <1>2, <1>7 DEF Free
<1>8. ASSUME NEW k \in Keys, Update(k)
      PROVE  Mapped(map)'
  <2>1. wanted[k] \in Contents /\ UNCHANGED <<wanted, history>>
    BY <1>1, <1>8 DEF Update, Pushing, PushesLive, Live
  <2>2. native' = native \/ native' = [native EXCEPT ![talk.map[k]] = wanted[k]]
    BY <1>8 DEF Update
  <2>3. QED BY <1>1, <2>1, <2>2 DEF Mapped, Deleted, TypeOK
<1>9. ASSUME NEW k \in Keys, Import(k)
      PROVE  Mapped(map)'
  <2>1. /\ wanted[k] \in Contents /\ wanted' = wanted
        /\ history'.removed = history.removed
        /\ history.recovered \subseteq history'.recovered
        /\ history'.readded = history.readded
    BY <1>1, <1>9 DEF Import, Pushing, PushesLive, Live, TypeOK
  <2>2. \/ native' = native
        \/ \E n \in Natives : native' = [native EXCEPT ![n] = wanted[k]]
        \/ \E n \in Natives : native' = [native EXCEPT ![n] = native[n]]
    BY <1>9 DEF Import, ImportTargets, Fresh, Exists
  <2>3. QED BY <1>1, <2>1, <2>2 DEF Mapped, Deleted, TypeOK
<1>10. ASSUME NEW k \in Keys, Remove(k)
       PROVE  Mapped(map)'
  <2>1. CASE UNCHANGED <<native, history>>
    BY <1>2, <1>10, <2>1 DEF Remove
  <2>2. CASE /\ Exists(talk.map[k])
             /\ native' = [native EXCEPT ![talk.map[k]] = "gone"]
             /\ history' = [history EXCEPT !.removed = @ \cup {talk.map[k]}]
    <3>1. /\ talk # None /\ talk.stage = "delete" /\ k \in talk.left /\ wanted' = wanted
      BY <1>10 DEF Remove, Deleting
    <3>2. Apart /\ k \in Deleted
      BY <1>1, <3>1 DEF InTalk
    <3>3. \A j \in Live : map[j] = talk.map[k] => map[j] \in history.recovered
      BY <2>2, <3>1, <3>2 DEF Apart, Exists, Live
    <3>4. \A j \in Keys : map[j] # None => j \in Live \cup Deleted
      BY <1>1 DEF Mapped, Live, Deleted, TypeOK
    <3>5. QED BY <1>1, <2>2, <3>1, <3>3, <3>4 DEF Mapped, Deleted, Exists, TypeOK
  <2>3. QED BY <1>10, <2>1, <2>2 DEF Remove
<1>11. QED
  BY <1>3, <1>4, <1>5, <1>6, <1>7, <1>8, <1>9, <1>10 DEF Next, AppDeck

LEMMA IdentifiedMapped ==
  ASSUME TypeOK, Registered, NEW map \in [Keys -> Natives \cup {None}], Mapped(map),
         NEW view, view = Listing, NEW keys \in SUBSET (Live \cup Deleted)
  PROVE  /\ Mapped(Identified(map, view, keys))
         /\ \A k \in Keys : map[k] # None => Identified(map, view, keys)[k] = map[k]
<1>1. \A k \in Keys : Identified(map, view, keys)[k] # map[k]
        => /\ map[k] = None /\ Identified(map, view, keys)[k] = k
           /\ k \in keys /\ k \in Natives /\ Exists(k)
  BY DEF Identified, Listing
<1>2. \A k \in keys : wanted[k] # "never"
  BY Constants DEF Live, Deleted
<1>3. \A k \in Natives : Exists(k) => native[k] # "unborn" /\ k \notin history.removed
  BY Constants DEF Exists, Registered, TypeOK
<1>4. QED BY <1>1, <1>2, <1>3 DEF Mapped

\* What the checks after the list are made with.
LEMMA ListMaps ==
  ASSUME IndInv, talk # None,
         NEW map, map = Identified(talk.map, Listing, Live),
         NEW both, both = Identified(map, Listing, Deleted)
  PROVE  /\ map \in [Keys -> Natives \cup {None}] /\ both \in [Keys -> Natives \cup {None}]
         /\ Mapped(map) /\ Mapped(both)
         /\ \A k \in Keys : mapping[k] # None => both[k] = mapping[k]
<1>1. TypeOK /\ Registered /\ Mapped(talk.map) /\ Grown
  BY DEF IndInv, InTalk
<1>2. talk.map \in [Keys -> Natives \cup {None}]
  BY <1>1 DEF TypeOK, Talk
<1>3. map \in [Keys -> Natives \cup {None}] /\ both \in [Keys -> Natives \cup {None}]
  BY <1>2, IdentifiedType
<1>4. Mapped(map) /\ \A k \in Keys : talk.map[k] # None => map[k] = talk.map[k]
  BY <1>1, <1>2, IdentifiedMapped
<1>5. Mapped(both) /\ \A k \in Keys : map[k] # None => both[k] = map[k]
  BY <1>1, <1>3, <1>4, IdentifiedMapped
<1>6. QED BY <1>1, <1>3, <1>4, <1>5 DEF Grown

\* Recording deletions keeps every mapping.
LEMMA MappedKept ==
  ASSUME IndInv, List, NEW map \in [Keys -> Natives \cup {None}], Mapped(map)
  PROVE  Mapped(map)'
<1>1. UNCHANGED <<native, history>> /\ Deleted \subseteq Deleted'
      /\ \A j \in Keys : wanted[j] # "never" => wanted'[j] # "never"
  BY Constants DEF List, AcceptNativeDeletes, Deleted, IndInv, TypeOK
<1>2. QED BY <1>1 DEF Mapped

LEMMA MappingStep ==
  ASSUME IndInv, Next
  PROVE  Mapped(mapping)'
<1>1. TypeOK /\ Mapped(mapping) /\ (talk # None => Mapped(talk.map) /\ Grown)
  BY DEF IndInv, InTalk
<1>2. CASE mapping' = mapping
  <2>1. PICK m : m = mapping
    OBVIOUS
  <2>2. Mapped(m)'
    BY <1>1, <2>1, MappedStays DEF TypeOK, Grown
  <2>3. QED BY <1>2, <2>1, <2>2 DEF Mapped
<1>3. CASE talk # None /\ mapping' = talk.map
  <2>1. PICK m : m = talk.map
    OBVIOUS
  <2>2. Mapped(m)'
    BY <1>1, <1>3, <2>1, MappedStays DEF TypeOK, Talk
  <2>3. QED BY <1>3, <2>1, <2>2 DEF Mapped
<1>4. CASE List
  <2>1. PICK map : map = Identified(talk.map, Listing, Live)
    OBVIOUS
  <2>2. PICK both : both = Identified(map, Listing, Deleted)
    OBVIOUS
  <2>3. talk # None
    BY <1>4 DEF List
  <2>4. mapping' \in {mapping, talk.map, map, both}
    BY <1>4, <2>1, <2>2 DEF List, AcceptNativeDeletes, Answered, Broken, Ended
  <2>5. Mapped(map)' /\ Mapped(both)'
    BY <1>4, <2>1, <2>2, <2>3, ListMaps, MappedKept
  <2>6. QED BY <1>2, <1>3, <2>3, <2>4, <2>5 DEF Mapped
<1>5. ASSUME NEW k \in Keys, NEW n \in Natives, NEW c \in Contents, DesktopAdd(k, n, c)
      PROVE  Mapped(mapping)'
  BY <1>1, <1>5, Constants
  DEF DesktopAdd, Reconciled, Fresh, Mapped, Deleted, TypeOK, IndInv, Registered
<1>6. CASE Others
  <2>1. \/ mapping' = mapping
        \/ \E k \in Keys, n \in Natives, c \in Contents : DesktopAdd(k, n, c)
    BY <1>6 DEF Others, Add, Edit, Readd, Drop, NativeChange, TaskJoins
  <2>2. QED BY <1>2, <1>5, <2>1
<1>7. CASE AppDeck
  <2>1. List \/ mapping' = mapping \/ (talk # None /\ mapping' = talk.map)
    BY <1>7 DEF AppDeck, Start, Pushed, Finish, Save, Skip, Update, Import, Members,
      Remove, SkipDeleted, Free, Answered, Broken, Ended, Pushing, Deleting
  <2>2. QED BY <1>2, <1>3, <1>4, <2>1
<1>8. QED BY <1>6, <1>7 DEF Next

-----------------------------------------------------------------------------
(* The talk, step by step. ************************************************)

\* What the steps below start from.
LEMMA Known ==
  ASSUME IndInv
  PROVE  TypeOK /\ Registered /\ Mapped(mapping) /\ PushesLive /\ (talk # None => InTalk)
BY DEF IndInv, InTalk, Pending, PushesLive

\* The maps of a talk that goes on.
LEMMA MapStep ==
  ASSUME IndInv, Next, talk # None, talk'.map = talk.map, mapping' = mapping
  PROVE  Mapped(talk.map)' /\ Grown'
<1>1. TypeOK /\ Mapped(talk.map) /\ Grown
  BY DEF IndInv, InTalk
<1>2. PICK m : m = talk.map
  OBVIOUS
<1>3. talk \in Talk
  BY <1>1 DEF TypeOK
<1>4. Mapped(m)'
  BY <1>1, <1>2, <1>3, MappedStays DEF Talk
<1>5. QED BY <1>1, <1>2, <1>4 DEF Mapped, Grown

LEMMA StartKeeps ==
  ASSUME IndInv, Start
  PROVE  InTalk'
<1>1. TypeOK /\ Mapped(mapping) /\ talk = None
  BY DEF IndInv, Start
<1>2. PICK m : m = mapping
  OBVIOUS
<1>3. Mapped(m)'
  BY <1>1, <1>2, MappedStays DEF TypeOK, Next, AppDeck
<1>4. talk'.map = m /\ mapping' = m /\ talk'.stage = "list" /\ talk'.current = None
  BY <1>2 DEF Start
<1>5. QED BY <1>3, <1>4 DEF InTalk, Mapped, Grown

LEMMA ListKeeps ==
  ASSUME IndInv, List, talk' # None
  PROVE  InTalk'
<1>1. /\ TypeOK /\ talk # None /\ InTalk /\ talk.stage = "list"
      /\ talk \in Talk /\ talk.map \in [Keys -> Natives \cup {None}]
  BY DEF IndInv, List, TypeOK, Talk
<1>2. PICK map : map = Identified(talk.map, Listing, Live)
  OBVIOUS
<1>3. PICK both : both = Identified(map, Listing, Deleted)
  OBVIOUS
<1>4. /\ both \in [Keys -> Natives \cup {None}] /\ Mapped(both)
      /\ \A k \in Keys : mapping[k] # None => both[k] = mapping[k]
  BY <1>1, <1>2, <1>3, ListMaps
<1>5. Mapped(both)'
  BY <1>4, MappedKept
<1>6. /\ ~Conflict(both)
      /\ talk' = [talk EXCEPT !.stage = "push", !.view = Listing, !.map = both, !.left = Live]
      /\ UNCHANGED <<native, wanted, mapping, history>>
  BY <1>2, <1>3 DEF List, AcceptNativeDeletes, Answered, Broken, Ended
<1>7. /\ talk'.stage = "push" /\ talk'.view = Listing /\ talk'.map = both
      /\ talk'.left = Live /\ talk'.current = None
  BY <1>1, <1>6 DEF Talk, InTalk
<1>8. Seen'
  BY <1>1, <1>6, <1>7, Constants DEF Seen, Listing, Exists
<1>9. Apart'
  BY <1>6, <1>7 DEF Apart, Conflict, Live, Deleted
<1>10. Pending' /\ \A k \in (Live \ talk.left)' : Agreed(k)'
  BY <1>6, <1>7 DEF Pending, Live
<1>11. Mapped(talk.map)' /\ Grown'
  BY <1>4, <1>5, <1>6, <1>7 DEF Mapped, Grown
<1>12. QED BY <1>7, <1>8, <1>9, <1>10, <1>11 DEF InTalk

LEMMA SkipKeeps ==
  ASSUME IndInv, NEW k \in Keys, Skip(k)
  PROVE  InTalk'
<1>1. /\ TypeOK /\ talk # None /\ InTalk /\ talk.stage = "push" /\ talk \in Talk
      /\ k \in talk.left /\ talk.current \in {None, k} /\ Current(k)
      /\ UNCHANGED <<native, wanted, mapping, history>>
  BY DEF IndInv, Skip, Pushing, TypeOK
<1>2. /\ talk'.stage = "push" /\ talk'.map = talk.map /\ talk'.view = talk.view
      /\ talk'.left = talk.left \ {k} /\ talk'.current = talk.current
  BY <1>1 DEF Skip, Talk
<1>3. talk.current = None
  BY <1>1 DEF InTalk, Pending, Current
<1>4. Mapped(talk.map)' /\ Grown'
  BY <1>1, <1>2, MapStep DEF Next, AppDeck
<1>5. Seen' /\ Apart'
  BY <1>1, <1>2 DEF InTalk, Seen, Apart, Exists, Listing, Live, Deleted
<1>6. Pending'
  BY <1>1, <1>2, <1>3 DEF InTalk, Pending, Live
<1>7. \A j \in (Live \ talk.left)' : Agreed(j)'
  BY <1>1, <1>2 DEF InTalk, Agreed, Shared, Undone, Live, Current
<1>8. QED BY <1>2, <1>4, <1>5, <1>6, <1>7 DEF InTalk

LEMMA UpdateKeeps ==
  ASSUME IndInv, NEW k \in Keys, Update(k), talk' # None
  PROVE  InTalk'
<1>1. PICK n : n = talk.map[k]
  OBVIOUS
<1>2. PICK c : c = wanted[k]
  OBVIOUS
<1>3. /\ TypeOK /\ talk # None /\ InTalk /\ talk.stage = "push" /\ talk \in Talk
      /\ k \in talk.left /\ k \in Live /\ c \in Contents /\ n \in Natives /\ Exists(n)
      /\ native' = [native EXCEPT ![n] = c] /\ talk' = Written(k, n, c)
      /\ UNCHANGED <<wanted, mapping, history>>
  BY <1>1, <1>2, Known
  DEF Update, Pushing, TypeOK, PushesLive, Live, Exists, Answered, Broken, Ended
<1>4. /\ talk'.stage = "push" /\ talk'.map = talk.map
      /\ talk'.view = [talk.view EXCEPT ![n] = c]
      /\ talk'.left = talk.left \ {k} /\ talk'.current = None
  BY <1>1, <1>2, <1>3 DEF Written, Talk
<1>5. Mapped(talk.map)' /\ Grown'
  BY <1>3, <1>4, MapStep DEF Next, AppDeck
<1>6. Seen'
  BY <1>3, <1>4, Constants DEF InTalk, Seen, Exists, Listing, TypeOK, Talk
<1>7. Apart' /\ Pending'
  BY <1>3, <1>4 DEF InTalk, Apart, Pending, Live, Deleted
<1>8. ASSUME NEW j \in (Live \ talk.left)'
      PROVE  Agreed(j)'
  <2>1. j \in Live /\ (j = k \/ j \notin talk.left)
    BY <1>3, <1>4 DEF Live
  <2>2. CASE j = k
    BY <1>1, <1>2, <1>3, <1>4, <2>2, Constants DEF Agreed, Talk
  <2>3. CASE j # k /\ talk.map[j] = n
    BY <1>1, <1>3, <1>4, <2>1, <2>3, Constants DEF Agreed, Shared, Live
  <2>4. CASE j # k /\ talk.map[j] # n
    BY <1>3, <1>4, <2>1, <2>4 DEF InTalk, Agreed, Shared, Undone, Live, Talk
  <2>5. QED BY <2>2, <2>3, <2>4
<1>9. QED BY <1>4, <1>5, <1>6, <1>7, <1>8 DEF InTalk

LEMMA ImportKeeps ==
  ASSUME IndInv, NEW k \in Keys, Import(k), talk' # None
  PROVE  InTalk'
<1>1. PICK n \in ImportTargets(k) :
        LET c == IF Exists(n) THEN native[n] ELSE wanted[k] IN
        /\ native' = [native EXCEPT ![n] = c]
        /\ known' = [known EXCEPT ![k] = n]
        /\ history' = IF Exists(n)
                      THEN [history EXCEPT !.recovered = @ \cup {n}]
                      ELSE [history EXCEPT !.imported[n] = k]
        /\ Answered(Written(k, n, c))
  BY DEF Import, Ended
<1>2. PICK c : c = IF Exists(n) THEN native[n] ELSE wanted[k]
  OBVIOUS
<1>3. /\ TypeOK /\ Registered /\ talk # None /\ InTalk /\ talk.stage = "push"
      /\ talk \in Talk /\ k \in talk.left /\ k \in Live /\ wanted[k] \in Contents
      /\ talk.map[k] = None /\ talk.current \in {None, k}
  BY Known DEF Import, Pushing, PushesLive, Live, TypeOK
<1>4. /\ n \in Natives /\ c \in Contents /\ (Exists(n) \/ native[n] = "unborn")
      /\ native' = [native EXCEPT ![n] = c] /\ talk' = Written(k, n, c)
      /\ UNCHANGED <<wanted, mapping>>
  BY <1>1, <1>2, <1>3 DEF ImportTargets, Fresh, Exists, Import, Answered, Broken, Ended
<1>5. /\ history'.removed = history.removed /\ history'.readded = history.readded
      /\ history'.touched = history.touched
      /\ history.recovered \subseteq history'.recovered
      /\ Exists(n) => n \in history'.recovered
  BY <1>1, <1>3 DEF TypeOK
<1>6. /\ talk'.stage = "push" /\ talk'.map = [talk.map EXCEPT ![k] = n]
      /\ talk'.view = [talk.view EXCEPT ![n] = c]
      /\ IF c = wanted[k]
         THEN talk'.left = talk.left \ {k} /\ talk'.current = None
         ELSE talk'.left = talk.left /\ talk'.current = k
  BY <1>3, <1>4 DEF Written, Talk
<1>7. n \notin history.removed \/ n \in history'.recovered
  BY <1>3, <1>4, <1>5, Constants DEF Registered
<1>8. Mapped(talk.map)' /\ Grown'
  <2>1. PICK m : m = talk.map
    OBVIOUS
  <2>2. Mapped(m)'
    BY <1>3, <2>1, MappedStays DEF InTalk, Talk, Next, AppDeck
  <2>3. Mapped(talk.map)'
    BY <1>3, <1>4, <1>5, <1>6, <1>7, <2>1, <2>2, Constants DEF Mapped, TypeOK, Talk
  <2>4. QED BY <1>3, <1>4, <1>6, <2>3 DEF InTalk, Grown, Talk
<1>9. Seen'
  BY <1>3, <1>4, <1>5, <1>6, Constants DEF InTalk, Seen, Exists, Listing, TypeOK, Talk
<1>10. Apart'
  <2>1. \A d \in Keys : talk.map[d] = n => native[n] # "unborn"
    BY <1>3, <1>4, Constants DEF InTalk, Mapped
  <2>2. Live' = Live /\ Deleted' = Deleted /\ k \notin Deleted
    BY <1>3, <1>4, Constants DEF Live, Deleted
  <2>3. Apart
    BY <1>3 DEF InTalk
  <2>4. ASSUME NEW j \in Live, NEW d \in Deleted,
               talk'.map[d] # None, talk'.map[d] = talk'.map[j]
        PROVE  talk'.map[j] \in history'.recovered
    <3>1. d # k /\ talk'.map[d] = talk.map[d] /\ d \in Keys /\ j \in Keys
      BY <1>3, <1>6, <2>2 DEF Talk, Live, Deleted
    <3>2. CASE j = k
      BY <1>3, <1>4, <1>5, <1>6, <2>1, <2>4, <3>1, <3>2 DEF Talk
    <3>3. CASE j # k
      BY <1>3, <1>5, <1>6, <2>3, <2>4, <3>1, <3>3 DEF Talk, Apart
    <3>4. QED BY <3>2, <3>3
  <2>5. QED BY <2>2, <2>4 DEF Apart
<1>11. Pending'
  BY <1>3, <1>4, <1>6, Constants DEF InTalk, Pending, Live, Talk
<1>12. ASSUME NEW j \in (Live \ talk.left)'
       PROVE  Agreed(j)'
  <2>1. j \in Live /\ Live' = Live /\ j \in Keys
    BY <1>4 DEF Live
  <2>2. CASE j = k
    BY <1>3, <1>4, <1>6, <2>2, Constants DEF Agreed, Talk
  <2>3. CASE j # k /\ talk.map[j] = n
    <3>1. talk'.map[j] = n /\ talk'.map[k] = n
      BY <1>3, <1>6, <2>1, <2>3 DEF Talk
    <3>2. QED BY <1>3, <1>4, <2>1, <2>3, <3>1, Constants DEF Agreed, Shared
  <2>4. CASE j # k /\ talk.map[j] # n
    <3>1. Agreed(j)
      BY <1>3, <1>6, <2>1, <2>4 DEF InTalk
    <3>2. talk'.map[j] = talk.map[j] /\ talk.map[j] # None
      BY <1>3, <1>6, <2>1, <2>4, <3>1 DEF Talk, Agreed
    <3>3. Shared(j) => Shared(j)'
      BY <1>3, <1>6, <2>1, <3>2 DEF Shared, Talk, Live
    <3>4. Undone \subseteq Undone'
      BY <1>5 DEF Undone
    <3>5. talk.map[j] \in Natives /\ talk'.view[talk.map[j]] = talk.view[talk.map[j]]
      BY <1>3, <1>6, <2>1, <2>4, <3>2 DEF Talk
    <3>6. QED BY <1>4, <3>1, <3>2, <3>3, <3>4, <3>5 DEF Agreed
  <2>5. QED BY <2>2, <2>3, <2>4
<1>13. QED BY <1>6, <1>8, <1>9, <1>10, <1>11, <1>12 DEF InTalk

LEMMA PushedKeeps ==
  ASSUME IndInv, Pushed
  PROVE  InTalk'
<1>1. /\ TypeOK /\ talk # None /\ InTalk /\ talk.stage = "push" /\ talk \in Talk
      /\ talk.left = {} /\ UNCHANGED <<native, task, wanted, mapping, history>>
  BY DEF IndInv, Pushed, TypeOK
<1>2. /\ talk'.stage = "delete" /\ talk'.map = talk.map /\ talk'.view = talk.view
      /\ talk'.left = {d \in Deleted : talk.map[d] # None}
      /\ talk'.current = talk.current
  BY <1>1 DEF Pushed, Talk
<1>3. talk.current = None
  BY <1>1 DEF InTalk, Pending
<1>4. Mapped(talk.map)' /\ Grown'
  BY <1>1, <1>2, MapStep DEF Next, AppDeck
<1>5. Seen' /\ Apart'
  BY <1>1, <1>2 DEF InTalk, Seen, Apart, Exists, Listing, Live, Deleted
<1>6. \A j \in Live' : Agreed(j)'
  BY <1>1, <1>2 DEF InTalk, Agreed, Shared, Undone, Live
<1>7. (talk.left \subseteq Deleted)' /\ Emptied'
  BY <1>1, <1>2, <1>3 DEF Emptied, Deleted
<1>8. \A d \in (Deleted \ talk.left)' : Gone(d)'
  BY <1>1, <1>2, Constants DEF Gone, Exists, Deleted
<1>9. QED BY <1>2, <1>4, <1>5, <1>6, <1>7, <1>8 DEF InTalk

LEMMA MembersKeeps ==
  ASSUME IndInv, NEW k \in Keys, Members(k), talk' # None
  PROVE  InTalk'
<1>1. /\ TypeOK /\ talk # None /\ InTalk /\ talk.stage = "delete" /\ talk \in Talk
      /\ history' = [history EXCEPT !.late = {}]
      /\ talk' = [talk EXCEPT !.freeing = {t \in Tasks : task[t] = talk.map[k]},
                              !.current = k]
      /\ UNCHANGED <<native, task, wanted, mapping>>
  BY DEF IndInv, Members, Deleting, TypeOK, Answered, Broken, Ended
<1>2. /\ talk'.stage = "delete" /\ talk'.map = talk.map /\ talk'.view = talk.view
      /\ talk'.left = talk.left /\ talk'.current = k
      /\ talk'.freeing = {t \in Tasks : task[t] = talk.map[k]}
  BY <1>1 DEF Talk
<1>3. /\ history'.touched = history.touched /\ history'.recovered = history.recovered
      /\ history'.removed = history.removed
  BY <1>1 DEF TypeOK
<1>4. Mapped(talk.map)' /\ Grown'
  BY <1>1, <1>2, MapStep DEF Next, AppDeck
<1>5. Seen' /\ Apart'
  BY <1>1, <1>2, <1>3 DEF InTalk, Seen, Apart, Exists, Listing, Live, Deleted
<1>6. \A j \in Live' : Agreed(j)'
  BY <1>1, <1>2, <1>3 DEF InTalk, Agreed, Shared, Undone, Live
<1>7. (talk.left \subseteq Deleted)' /\ Emptied'
  BY <1>1, <1>2 DEF InTalk, Emptied, Deleted
<1>8. \A d \in (Deleted \ talk.left)' : Gone(d)'
  BY <1>1, <1>2 DEF InTalk, Gone, Exists, Deleted
<1>9. QED BY <1>2, <1>4, <1>5, <1>6, <1>7, <1>8 DEF InTalk

LEMMA FreeKeeps ==
  ASSUME IndInv, NEW t \in Tasks, Free(t), talk' # None
  PROVE  InTalk'
<1>1. /\ TypeOK /\ talk # None /\ InTalk /\ talk \in Talk
      /\ task' = [task EXCEPT ![t] = None]
      /\ talk' = [talk EXCEPT !.freeing = @ \ {t}]
      /\ UNCHANGED <<native, wanted, mapping, history>>
  BY DEF IndInv, Free, TypeOK, Answered, Broken, Ended
<1>2. /\ talk'.stage = talk.stage /\ talk'.map = talk.map /\ talk'.view = talk.view
      /\ talk'.left = talk.left /\ talk'.current = talk.current
      /\ talk'.freeing = talk.freeing \ {t}
  BY <1>1 DEF Talk
<1>3. Mapped(talk.map)' /\ Grown'
  BY <1>1, <1>2, MapStep DEF Next, AppDeck
<1>4. talk.stage # "list" => Seen' /\ Apart'
  BY <1>1, <1>2 DEF InTalk, Seen, Apart, Exists, Listing, Live, Deleted
<1>5. talk.stage = "push" => Pending'
  BY <1>1, <1>2 DEF InTalk, Pending, Live
<1>6. \A j \in Live : Agreed(j) => Agreed(j)'
  BY <1>1, <1>2 DEF Agreed, Shared, Undone, Live
<1>7. talk.stage = "delete" => Emptied'
  <2> SUFFICES ASSUME talk.stage = "delete", talk.current # None, NEW u \in Tasks,
                      task'[u] # None, task'[u] = talk.map[talk.current]
               PROVE  u \in (talk.freeing \ {t}) \cup history.late
    BY <1>1, <1>2 DEF Emptied
  <2>1. talk.left \subseteq Deleted /\ Emptied
    BY <1>1 DEF InTalk
  <2>2. u # t
    BY <1>1 DEF TypeOK
  <2>3. task'[u] = task[u]
    BY <1>1, <2>2 DEF TypeOK
  <2>4. QED BY <2>1, <2>2, <2>3 DEF Emptied
<1>8. \A d \in Deleted : Gone(d) => Gone(d)'
  BY <1>1, <1>2 DEF Gone, Exists, Deleted
<1>9. Live' = Live /\ Deleted' = Deleted
  BY <1>1 DEF Live, Deleted
<1>10. QED BY <1>1, <1>2, <1>3, <1>4, <1>5, <1>6, <1>7, <1>8, <1>9 DEF InTalk

LEMMA RemoveKeeps ==
  ASSUME IndInv, NEW k \in Keys, Remove(k), talk' # None
  PROVE  InTalk'
<1>1. PICK n : n = talk.map[k]
  OBVIOUS
<1>2. /\ TypeOK /\ talk # None /\ InTalk /\ talk.stage = "delete" /\ talk \in Talk
      /\ k \in talk.left /\ n \in Natives /\ native' = [native EXCEPT ![n] = "gone"]
      /\ history' = [history EXCEPT !.removed = @ \cup {n}]
      /\ talk' = [talk EXCEPT !.view[n] = None, !.left = @ \ {k}, !.current = None]
      /\ UNCHANGED <<wanted, mapping>>
  BY <1>1 DEF IndInv, Remove, Deleting, TypeOK, Exists, Answered, Broken, Ended
<1>3. /\ talk'.stage = "delete" /\ talk'.map = talk.map
      /\ talk'.view = [talk.view EXCEPT ![n] = None]
      /\ talk'.left = talk.left \ {k} /\ talk'.current = None
  BY <1>2 DEF Talk
<1>4. /\ history'.touched = history.touched /\ history'.recovered = history.recovered
      /\ history'.removed = history.removed \cup {n}
  BY <1>2 DEF TypeOK
<1>5. Live' = Live /\ Deleted' = Deleted /\ k \in Deleted
  BY <1>2 DEF InTalk, Live, Deleted
<1>6. Mapped(talk.map)' /\ Grown'
  BY <1>2, <1>3, MapStep DEF Next, AppDeck
<1>7. Seen'
  BY <1>2, <1>3, <1>4, Constants DEF InTalk, Seen, Exists, Listing, TypeOK, Talk
<1>8. Apart'
  BY <1>2, <1>3, <1>4, <1>5 DEF InTalk, Apart
<1>9. ASSUME NEW j \in Live
      PROVE  Agreed(j)'
  <2>1. Agreed(j)
    BY <1>2 DEF InTalk
  <2>2. CASE talk.map[j] = n
    <3>1. n \in history.recovered
      BY <1>1, <1>2, <1>5, <2>1, <2>2 DEF InTalk, Apart, Agreed
    <3>2. QED BY <1>3, <1>4, <2>1, <2>2, <3>1 DEF Agreed, Undone
  <2>3. CASE talk.map[j] # n
    BY <1>2, <1>3, <1>4, <1>5, <2>1, <2>3 DEF Agreed, Shared, Undone, Live, Talk
  <2>4. QED BY <2>2, <2>3
<1>10. Emptied' /\ talk'.left \subseteq Deleted
  BY <1>2, <1>3 DEF InTalk, Emptied
<1>11. ASSUME NEW d \in Deleted \ talk'.left
       PROVE  Gone(d)'
  <2>1. d = k \/ Gone(d)
    BY <1>2, <1>3 DEF InTalk
  <2>2. QED BY <1>1, <1>2, <1>3, <2>1, Constants DEF Gone, Exists, TypeOK
<1>12. QED BY <1>3, <1>5, <1>6, <1>7, <1>8, <1>9, <1>10, <1>11 DEF InTalk

LEMMA SkipDeletedKeeps ==
  ASSUME IndInv, NEW k \in Keys, SkipDeleted(k)
  PROVE  InTalk'
<1>1. /\ TypeOK /\ talk # None /\ InTalk /\ talk.stage = "delete" /\ talk \in Talk
      /\ k \in talk.left /\ talk.view[talk.map[k]] = None
      /\ UNCHANGED <<native, task, wanted, mapping, history>>
  BY DEF IndInv, SkipDeleted, Deleting, Listed, TypeOK
<1>2. /\ talk'.stage = "delete" /\ talk'.map = talk.map /\ talk'.view = talk.view
      /\ talk'.left = talk.left \ {k} /\ talk'.current = talk.current
      /\ talk'.freeing = talk.freeing
  BY <1>1 DEF SkipDeleted, Talk
<1>3. Mapped(talk.map)' /\ Grown'
  BY <1>1, <1>2, MapStep DEF Next, AppDeck
<1>4. Seen' /\ Apart'
  BY <1>1, <1>2 DEF InTalk, Seen, Apart, Exists, Listing, Live, Deleted
<1>5. \A j \in Live' : Agreed(j)'
  BY <1>1, <1>2 DEF InTalk, Agreed, Shared, Undone, Live
<1>6. (talk.left \subseteq Deleted)' /\ Emptied'
  BY <1>1, <1>2 DEF InTalk, Emptied, Deleted
<1>7. Gone(k)
  BY <1>1 DEF InTalk, Seen, Gone, Exists
<1>8. \A d \in (Deleted \ talk.left)' : Gone(d)'
  BY <1>1, <1>2, <1>7 DEF InTalk, Gone, Exists, Deleted
<1>9. QED BY <1>2, <1>3, <1>4, <1>5, <1>6, <1>8 DEF InTalk

LEMMA FinishKeeps ==
  ASSUME IndInv, Finish, talk' # None
  PROVE  InTalk'
<1>1. /\ TypeOK /\ talk # None /\ InTalk /\ talk.stage = "delete" /\ talk \in Talk
      /\ talk.left = {} /\ talk' = [talk EXCEPT !.stage = "done"]
      /\ UNCHANGED <<native, wanted, mapping, history>>
  BY DEF IndInv, Finish, TypeOK, Ended
<1>2. talk'.stage = "done" /\ talk'.map = talk.map /\ talk'.view = talk.view
  BY <1>1 DEF Talk
<1>3. Mapped(talk.map)' /\ Grown'
  BY <1>1, <1>2, MapStep DEF Next, AppDeck
<1>4. Seen' /\ Apart'
  BY <1>1, <1>2 DEF InTalk, Seen, Apart, Exists, Listing, Live, Deleted
<1>5. \A j \in Live' : Agreed(j)'
  BY <1>1, <1>2 DEF InTalk, Agreed, Shared, Undone, Live
<1>6. \A d \in Deleted' : Gone(d)'
  BY <1>1, <1>2 DEF InTalk, Gone, Exists, Deleted
<1>7. QED BY <1>2, <1>3, <1>4, <1>5, <1>6 DEF InTalk

\* Another window during a talk.
LEMMA OthersKeep ==
  ASSUME IndInv, Others, talk' # None
  PROVE  InTalk'
<1>1. ASSUME NEW n \in Natives, NEW v \in Contents \cup {"gone"}, NativeChange(n, v)
      PROVE  InTalk'
  <2>1. /\ TypeOK /\ talk # None /\ InTalk /\ talk \in Talk /\ Exists(n) /\ talk' = talk
        /\ native' = [native EXCEPT ![n] = v]
        /\ \A t \in Tasks : task'[t] # None => task'[t] = task[t]
        /\ UNCHANGED <<wanted, mapping>>
    BY <1>1 DEF IndInv, NativeChange, TypeOK
  <2>2. /\ history'.touched = history.touched \cup {n}
        /\ history'.recovered = history.recovered /\ history'.removed = history.removed
        /\ history'.late = history.late
    BY <1>1, <2>1 DEF NativeChange, TypeOK
  <2>3. Mapped(talk.map)' /\ Grown'
    BY <1>1, <2>1, MapStep DEF Next, Others
  <2>4. talk.stage # "list" => Seen' /\ Apart'
    <3>1. CASE talk.stage # "list"
      <4>1. \A m \in Natives : Exists(m)' => Exists(m)
        BY <2>1 DEF Exists, TypeOK
      <4>2. \A m \in Natives \ {n} : native'[m] = native[m]
        BY <2>1 DEF TypeOK
      <4>3. Seen'
        BY <2>1, <2>2, <3>1, <4>1, <4>2 DEF InTalk, Seen, Listing, Exists
      <4>4. QED BY <2>1, <2>2, <3>1, <4>3 DEF InTalk, Apart, Live, Deleted
    <3>2. QED BY <3>1
  <2>5. talk.stage = "push" => Pending'
    BY <2>1 DEF InTalk, Pending, Live
  <2>6. \A j \in Live : Agreed(j) => Agreed(j)'
    BY <2>1, <2>2 DEF Agreed, Shared, Undone, Live
  <2>7. talk.stage = "delete" => Emptied'
    BY <2>1, <2>2 DEF InTalk, Emptied
  <2>8. \A d \in Deleted : Gone(d) => Gone(d)'
    BY <2>1 DEF Gone, Exists, TypeOK
  <2>9. Live' = Live /\ Deleted' = Deleted
    BY <2>1 DEF Live, Deleted
  <2>10. QED BY <2>1, <2>3, <2>4, <2>5, <2>6, <2>7, <2>8, <2>9 DEF InTalk
<1>2. ASSUME NEW t \in Tasks, NEW n \in Natives, TaskJoins(t, n)
      PROVE  InTalk'
  <2>1. /\ TypeOK /\ talk # None /\ InTalk /\ talk \in Talk /\ talk' = talk
        /\ task' = [task EXCEPT ![t] = n]
        /\ UNCHANGED <<native, wanted, mapping>>
    BY <1>2 DEF IndInv, TaskJoins, TypeOK
  <2>2. /\ history'.touched = history.touched
        /\ history'.recovered = history.recovered /\ history'.removed = history.removed
        /\ history'.late = history.late \cup {t}
    BY <1>2, <2>1 DEF TaskJoins, TypeOK
  <2>3. Mapped(talk.map)' /\ Grown'
    BY <1>2, <2>1, MapStep DEF Next, Others
  <2>4. talk.stage # "list" => Seen' /\ Apart'
    BY <2>1, <2>2 DEF InTalk, Seen, Apart, Exists, Listing, Live, Deleted
  <2>5. talk.stage = "push" => Pending'
    BY <2>1 DEF InTalk, Pending, Live
  <2>6. \A j \in Live : Agreed(j) => Agreed(j)'
    BY <2>1, <2>2 DEF Agreed, Shared, Undone, Live
  <2>7. talk.stage = "delete" => Emptied'
    BY <2>1, <2>2 DEF InTalk, Emptied, TypeOK
  <2>8. \A d \in Deleted : Gone(d) => Gone(d)'
    BY <2>1 DEF Gone, Exists
  <2>9. Live' = Live /\ Deleted' = Deleted
    BY <2>1 DEF Live, Deleted
  <2>10. QED BY <2>1, <2>3, <2>4, <2>5, <2>6, <2>7, <2>8, <2>9 DEF InTalk
<1>3. QED
  BY <1>1, <1>2 DEF Others, Add, Edit, Readd, Drop, DesktopAdd, Reconciled

LEMMA InvStep == IndInv /\ [Next]_vars => IndInv'
<1>1. CASE IndInv /\ UNCHANGED vars
  BY <1>1 DEF vars, IndInv, TypeOK, Registered, Exists, Mapped, InTalk, Grown, Seen,
    Listing, Apart, Pending, Agreed, Shared, Undone, Emptied, Gone, Live, Deleted
<1>2. ASSUME IndInv, Next
      PROVE  IndInv'
  <2>1. TypeOK' /\ Registered' /\ Mapped(mapping)'
    BY <1>2, Known, TypeStep, RegisteredOthers, RegisteredAppDeck, MappingStep DEF Next
  <2>2. talk' # None => InTalk'
    BY <1>2, OthersKeep, StartKeeps, ListKeeps, SkipKeeps, UpdateKeeps, ImportKeeps,
      PushedKeeps, MembersKeeps, FreeKeeps, RemoveKeeps, SkipDeletedKeeps, FinishKeeps
    DEF Next, AppDeck, Save, Broken, Ended
  <2>3. QED BY <2>1, <2>2 DEF IndInv
<1>3. QED BY <1>1, <1>2

LEMMA InvHolds == Spec => []IndInv
BY InvInit, InvStep, PTL DEF Spec

-----------------------------------------------------------------------------
(* The theorems. **********************************************************)

\* Every variable keeps its type, and so does the running talk.
THEOREM TypeCorrect == Spec => []TypeOK
<1>1. IndInv => TypeOK
  BY DEF IndInv
<1>2. QED BY <1>1, InvHolds, PTL

\* project_server_sync.hpp:112: whatever replies and saves are lost, two imports
\* never leave one record in two native projects.
THEOREM EveryRecordIsImportedOnce == Spec => []ImportedOnce
<1>1. IndInv => ImportedOnce
  BY DEF IndInv, Registered, ImportedOnce, TypeOK
<1>2. QED BY <1>1, InvHolds, PTL

\* project_server_sync.hpp:109-124: a talk that ends well leaves every live
\* record's contents in the registry and no deleted record's project.
THEOREM SuccessIsAgreement == Spec => []ConfirmedAgrees
<1>1. ASSUME IndInv, talk # None, talk.stage = "done"
      PROVE  ConfirmedAgrees
  <2>1. /\ TypeOK /\ talk \in Talk /\ Seen /\ \A d \in Deleted : Gone(d)
        /\ \A k \in Live : Agreed(k)
    BY <1>1 DEF IndInv, InTalk, TypeOK
  <2>2. ASSUME NEW k \in Live, ~Shared(k),
               talk.map[k] \notin history.touched \cup Undone
        PROVE  talk.map[k] # None /\ native[talk.map[k]] = wanted[k]
    <3>1. /\ talk.map[k] # None /\ talk.view[talk.map[k]] = wanted[k]
          /\ wanted[k] \in Contents /\ talk.map[k] \in Natives
      BY <2>1, <2>2 DEF Agreed, Live, Talk
    <3>2. talk.view[talk.map[k]] = Listing[talk.map[k]]
      BY <2>1, <2>2, <3>1 DEF Seen
    <3>3. QED BY <3>1, <3>2, Constants DEF Listing
  <2>3. QED BY <2>1, <2>2 DEF ConfirmedAgrees, Gone
<1>2. IndInv => ConfirmedAgrees
  BY <1>1 DEF ConfirmedAgrees
<1>3. QED BY <1>2, InvHolds, PTL

\* project_server_sync.hpp:106-108, 121-124: what AppDeck removes is no live
\* record's, but by an import, and no task's it could have listed.
THEOREM RemovalsAreSafe == Spec => RemovalIsSafe
<1> DEFINE Step == /\ \A t \in Tasks : Removes(task[t]) => t \in history.late
                   /\ talk # None => \A k \in Live :
                        Removes(talk.map[k]) => talk.map[k] \in history.recovered
<1>1. ASSUME IndInv, NEW k \in Keys, Remove(k), Exists(talk.map[k])
      PROVE  Step
  <2>1. /\ InTalk /\ TypeOK /\ talk # None /\ talk.stage = "delete" /\ talk.current = k
        /\ k \in talk.left /\ talk.freeing = {} /\ talk.map[k] \in Natives
        /\ history'.removed = history.removed \cup {talk.map[k]}
    BY <1>1 DEF IndInv, Remove, Deleting, Exists, TypeOK
  <2>2. \A n : Removes(n) => n = talk.map[k]
    BY <2>1 DEF Removes
  <2>3. ASSUME NEW t \in Tasks, Removes(task[t])
        PROVE  t \in history.late
    BY <1>1, <2>1, <2>2, <2>3, Constants DEF InTalk, Emptied
  <2>4. ASSUME NEW j \in Live, Removes(talk.map[j])
        PROVE  talk.map[j] \in history.recovered
    BY <2>1, <2>2, <2>4, Constants DEF InTalk, Apart
  <2>5. QED BY <2>3, <2>4
<1>2. ASSUME IndInv, NEW k \in Keys, Import(k)
      PROVE  history'.removed = history.removed
  BY <1>2 DEF Import, IndInv, TypeOK
<1>3. ASSUME IndInv, Next, \A k \in Keys : ~(Remove(k) /\ Exists(talk.map[k]))
      PROVE  history'.removed = history.removed
  <2>1. CASE Others
    BY <1>3, <2>1 DEF IndInv, TypeOK, Others, Add, Edit, Readd, Drop, DesktopAdd,
      NativeChange, TaskJoins
  <2>2. CASE AppDeck
    BY <1>2, <1>3, <2>2 DEF IndInv, TypeOK, AppDeck, Start, List, Pushed, Finish, Save, Skip,
      Update, Members, Remove, SkipDeleted, Free
  <2>3. QED BY <1>3, <2>1, <2>2 DEF Next
<1>4. ASSUME IndInv, history'.removed = history.removed
      PROVE  Step
  BY <1>4 DEF Removes
<1>5. IndInv /\ [Next]_vars => [Step]_vars
  BY <1>1, <1>3, <1>4
<1>6. QED BY <1>5, InvHolds, PTL DEF Spec, RemovalIsSafe

\* group_sync.hpp:77-86: a record is deleted for the registry's sake only if the
\* very project it is mapped to was deleted, and not by AppDeck for another.
THEOREM DeletionsHaveEvidence == Spec => NativeEvidence
<1> DEFINE Step == \A k \in Keys \ history.readded :
               talk # None /\ wanted[k] \in Contents /\ wanted'[k] = "deleted"
               => /\ talk.stage = "list"
                  /\ talk.map[k] # None \/ k \in Natives
                  /\ native[mapping'[k]] = "gone"
                  /\ mapping'[k] \notin history.removed \ history.recovered
<1>1. ASSUME IndInv, List
      PROVE  Step
  <2>1. TypeOK /\ InTalk /\ talk # None /\ talk.stage = "list"
    BY <1>1 DEF IndInv, List
  <2>2. PICK map : map = Identified(talk.map, Listing, Live)
    OBVIOUS
  <2>3. PICK both : both = Identified(map, Listing, Deleted)
    OBVIOUS
  <2>4. map \in [Keys -> Natives \cup {None}] /\ Mapped(map)
    BY <1>1, <2>1, <2>2, <2>3, ListMaps
  <2> SUFFICES ASSUME NEW k \in Keys \ history.readded,
                      wanted[k] \in Contents, wanted'[k] = "deleted"
               PROVE  /\ talk.map[k] # None \/ k \in Natives
                      /\ native[mapping'[k]] = "gone"
                      /\ mapping'[k] \notin history.removed \ history.recovered
    BY <2>1
  <2>5. mapping' = map /\ k \in Missing(map, Listing)
    BY <1>1, <2>1, <2>2, Constants DEF List, AcceptNativeDeletes, TypeOK
  <2>6. k \in Live /\ map[k] \in Natives /\ Listing[map[k]] = None
    BY <2>4, <2>5 DEF Missing
  <2>7. ~Exists(map[k])
    BY <2>1, <2>6, Constants DEF Listing, Exists
  <2>8. native[map[k]] # "unborn" /\ map[k] \notin history.removed \ history.recovered
    BY <2>4, <2>6, Constants DEF Mapped, Live, Deleted
  <2>9. talk.map[k] # None \/ k \in Natives
    BY <2>2, <2>6, Constants DEF Identified
  <2>10. QED BY <2>1, <2>5, <2>6, <2>7, <2>8, <2>9 DEF TypeOK, Exists
<1>2. ASSUME IndInv, Next, ~List, talk # None
      PROVE  wanted' = wanted
  BY <1>2 DEF Next, Others, AppDeck, Add, Edit, Readd, Drop, DesktopAdd, Reconciled,
    NativeChange, TaskJoins, Start, Pushed, Finish, Save, Skip, Update, Import, Members,
    Remove, SkipDeleted, Free
<1>3. IndInv /\ [Next]_vars => [Step]_vars
  <2>1. ASSUME wanted' = wanted
        PROVE  Step
    BY <2>1, Constants
  <2>2. ASSUME talk = None
        PROVE  Step
    BY <2>2
  <2>3. QED BY <1>1, <1>2, <2>1, <2>2
<1>4. QED BY <1>3, InvHolds, PTL DEF Spec, NativeEvidence

=============================================================================
