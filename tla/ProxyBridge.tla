---------------------------- MODULE ProxyBridge ----------------------------
(***************************************************************************)
(* The local bridge of a profile behind a proxy (proxy_bridge.cpp): every  *)
(* connection of the app has a thread of its own, which looks for an       *)
(* upstream in failover order, starting from the one that worked last.     *)
(* The threads share that memory and a counter of connections.             *)
(*                                                                         *)
(* A connection carries one request: the bridge asks for Connection: close.*)
(* A request is its head and the parts that follow; a plain http:// request*)
(* through HTTP upstreams is judged by the first answer, everything else   *)
(* is a tunnel that is open or not.  The bytes themselves are left out.    *)
(***************************************************************************)
EXTENDS Integers, FiniteSets

CONSTANTS
  Conns,      \* the connections the app makes
  N,          \* gCount, the endpoints in failover order
  MaxClients,
  Acts,       \* Acts[i]: what endpoint i may do: be "dead", "refuse" the
              \* login, "answer", or "drop" a connection
  MaxParts    \* bound on what the app sends after the head

ASSUME Constants ==
  /\ IsFiniteSet(Conns)
  /\ N \in Nat \ {0} /\ MaxClients \in Nat \ {0} /\ MaxParts \in Nat
  /\ Acts \in [0 .. N - 1 -> SUBSET {"dead", "refuse", "answer", "drop"}]

VARIABLES
  last,     \* gLast
  clients,  \* gClients
  conn,     \* the threads (see Init)
  history   \* what happened to each request, not kept by the code

vars == <<last, clients, conn, history>>

Endpoints == 0 .. N - 1

\* What the bridge answers itself, besides what endpoints answer.
BadRequest == N
BadGateway == N + 1

Init ==
  /\ last = 0
  /\ clients = 0
  /\ conn = [c \in Conns |->
       [stage |-> "none", kind |-> "plain", repeatable |-> FALSE,
        first |-> 0, k |-> 0,     \* the order, and the place in it
        resend |-> FALSE,         \* FirstHead.resend
        timed |-> FALSE,          \* FirstHead.deadline is set
        reply |-> "none"]]        \* what is held back from the app
  /\ history = [acted |-> [c \in Conns |-> {}],  \* upstreams that may have acted
                got |-> [c \in Conns |-> {}],    \* whose bytes the app received
                tried |-> [c \in Conns |-> {}],
                parts |-> [c \in Conns |-> 0],   \* read from the app
                lost |-> [c \in Conns |-> 0]]    \* ... and sent elsewhere

\* Mutant: the order follows the shared memory.
HereMutant(c) == (last + conn[c].k) % N

\* The endpoint c is at; its order was fixed when the request came.
Here(c) == (conn[c].first + conn[c].k) % N

\* Adds x to c's set of that history.
Noted(h, field, c, x) == [h EXCEPT ![field][c] = @ \cup {x}]

\* The thread stops judging.
Free(c, stage) ==
  [conn[c] EXCEPT !.stage = stage, !.resend = FALSE, !.timed = FALSE,
                  !.reply = "none"]

-----------------------------------------------------------------------------
(* Connections come and go.                                                 *)

\* Mutant: a connection that is turned away keeps its place.
AcceptMutant(c) ==
  /\ conn[c].stage = "none"
  /\ clients' = clients + 1
  /\ \/ clients < MaxClients /\ conn' = [conn EXCEPT ![c].stage = "head"]
     \/ conn' = [conn EXCEPT ![c].stage = "over"]
  /\ UNCHANGED <<last, history>>

\* acceptLoop: a thread, or the connection is closed: there are too many, or
\* no thread can be made.
Accept(c) ==
  /\ conn[c].stage = "none"
  /\ \/ /\ clients < MaxClients
        /\ clients' = clients + 1
        /\ conn' = [conn EXCEPT ![c].stage = "head"]
     \/ UNCHANGED clients /\ conn' = [conn EXCEPT ![c].stage = "over"]
  /\ UNCHANGED <<last, history>>

\* The end of serveClient.
Leave(c) ==
  /\ conn[c].stage = "left"
  /\ clients' = clients - 1
  /\ conn' = [conn EXCEPT ![c].stage = "over"]
  /\ UNCHANGED <<last, history>>

\* handle: the head is complete, is not one (400), or does not come.
Request(c) ==
  /\ conn[c].stage = "head"
  /\ \/ \E kind \in {"plain", "tunnel"}, r \in BOOLEAN :
          /\ conn' = [conn EXCEPT ![c] =
               [@ EXCEPT !.stage = "seeking", !.kind = kind,
                         !.repeatable = r /\ kind = "plain", !.first = last]]
          /\ UNCHANGED history
     \/ /\ conn' = [conn EXCEPT ![c].stage = "left"]
        /\ history' \in {history, Noted(history, "got", c, BadRequest)}
  /\ UNCHANGED <<last, clients>>

-----------------------------------------------------------------------------
(* The endpoints in order.                                                  *)

\* finish with 502.
Fail(c, h) ==
  /\ conn' = [conn EXCEPT ![c] = Free(c, "left")]
  /\ history' = Noted(h, "got", c, BadGateway)

Exhausted(c) ==
  /\ conn[c].stage = "seeking" /\ conn[c].k = N
  /\ Fail(c, history)
  /\ UNCHANGED <<last, clients>>

\* No connection, or no tunnel: the next endpoint.
Skip(c) ==
  /\ conn[c].stage = "seeking" /\ conn[c].k < N
  /\ "dead" \in Acts[Here(c)] \/ (conn[c].kind = "tunnel"
                                   /\ Acts[Here(c)] # {"answer"})
  /\ conn' = [conn EXCEPT ![c].k = @ + 1]
  /\ history' = Noted(history, "tried", c, Here(c))
  /\ UNCHANGED <<last, clients>>

\* tunnel: the handshake is done, what follows is passed on both ways, unless
\* it is a request whose head cannot be rewritten.
OpenTunnel(c) ==
  /\ conn[c].stage = "seeking" /\ conn[c].k < N /\ conn[c].kind = "tunnel"
  /\ "answer" \in Acts[Here(c)]
  /\ last' = Here(c)
  /\ LET h == Noted(history, "tried", c, Here(c)) IN
     \/ /\ conn' = [conn EXCEPT ![c].stage = "passing"]
        /\ history' = Noted(Noted(h, "got", c, Here(c)), "acted", c, Here(c))
     \/ /\ conn' = [conn EXCEPT ![c].stage = "left"]
        /\ history' = Noted(h, "got", c, BadRequest)
  /\ UNCHANGED clients

\* Mutant: silence is never a failure.
DialMutant(c) ==
  /\ conn[c].stage = "seeking" /\ conn[c].k < N /\ conn[c].kind = "plain"
  /\ Acts[Here(c)] # {"dead"}
  /\ history' = [Noted(history, "tried", c, Here(c)) EXCEPT
                   !.lost[c] = history.parts[c]]
  /\ conn' = [conn EXCEPT ![c] =
       [@ EXCEPT !.stage = "judging", !.resend = TRUE, !.reply = "none",
                 !.timed = FALSE]]
  /\ UNCHANGED <<last, clients>>

\* plainHttp: the head and what came with it are given to this endpoint.
\* Only a request that may be repeated, and not at the last endpoint, has a
\* deadline.  A head that cannot be rewritten, with the login of this endpoint,
\* is answered with 400.
Dial(c) ==
  /\ conn[c].stage = "seeking" /\ conn[c].k < N /\ conn[c].kind = "plain"
  /\ Acts[Here(c)] # {"dead"}
  /\ LET h == Noted(history, "tried", c, Here(c)) IN
     \/ /\ history' = [h EXCEPT !.lost[c] = history.parts[c]]
        /\ conn' = [conn EXCEPT ![c] =
             [@ EXCEPT !.stage = "judging", !.resend = TRUE, !.reply = "none",
                       !.timed = conn[c].repeatable /\ conn[c].k < N - 1]]
     \/ /\ history' = Noted(h, "got", c, BadRequest)
        /\ conn' = [conn EXCEPT ![c].stage = "left"]
  /\ UNCHANGED <<last, clients>>

-----------------------------------------------------------------------------
(* relay, while the first answer is judged.                                 *)

\* The upstream passes the request on; it does not ask for the login then.
Act(c) ==
  /\ conn[c].stage = "judging" /\ Acts[Here(c)] \cap {"answer", "drop"} # {}
  /\ conn[c].reply = "none"
  /\ history' = Noted(history, "acted", c, Here(c))
  /\ UNCHANGED <<last, clients, conn>>

\* What a round may bring from the upstream: nothing, the beginning of an
\* answer, the head of a 407, any other head, more than a head may have, the
\* end of the stream, or an error.
FromUpstream(c) ==
  {"nothing"}
    \cup (IF "answer" \in Acts[Here(c)]
          THEN {"part", "head", "long"} ELSE {})
    \cup (IF "refuse" \in Acts[Here(c)] /\ Here(c) \notin history.acted[c]
          THEN {"part", "refusal"} ELSE {})
    \cup (IF "drop" \in Acts[Here(c)] THEN {"end", "error"} ELSE {})

\* The next endpoint; nothing was sent to the app.
Retry(c, h) ==
  /\ conn' = [conn EXCEPT ![c] = [Free(c, "seeking") EXCEPT !.k = @ + 1]]
  /\ history' = h
  /\ UNCHANGED last

\* Mutant: a refused request is always sent again.
RefusedMutant(c, resend, h) == Retry(c, h)

\* A 407: to the next endpoint with the request if the app has sent no more,
\* else the app gets 502 and the next request starts there.
Refused(c, resend, h) ==
  IF resend THEN Retry(c, h)
  ELSE /\ last' = (Here(c) + 1) % N
       /\ Fail(c, h)

\* Mutant: any request is repeated.
MayRepeatMutant(c, resend) == resend

MayRepeat(c, resend) == conn[c].repeatable /\ resend

\* One round of poll: what the app sends is read before what the upstream
\* sends, and expired says that the deadline is over.
Round(c, more, up, expired) ==
  LET here == Here(c)
      resend == conn[c].resend /\ ~more
      timed == conn[c].timed /\ ~more
      reply == IF up \in {"part", "head", "refusal"} THEN up
               ELSE conn[c].reply
      h == [history EXCEPT !.parts[c] = IF more THEN @ + 1 ELSE @]
      gone == reply = "none" /\ up \in {"end", "error"}
      late == reply # "head" /\ timed /\ expired
  IN
  /\ conn[c].stage = "judging"
  /\ more => history.parts[c] < MaxParts
  /\ up \in FromUpstream(c)
  /\ expired => conn[c].timed
  /\ UNCHANGED clients
  /\ IF reply = "refusal" THEN Refused(c, resend, h)
     ELSE IF (gone \/ late) /\ MayRepeat(c, resend) THEN Retry(c, h)
     ELSE IF reply = "head"
     THEN /\ last' = here
          /\ conn' = [conn EXCEPT ![c] = Free(c, "passing")]
          /\ history' = Noted(h, "got", c, here)
     ELSE IF up = "error"
     THEN /\ conn' = [conn EXCEPT ![c] = Free(c, "left")]
          /\ history' = h /\ UNCHANGED last
     ELSE IF up \in {"end", "long"}
     THEN /\ conn' = [conn EXCEPT ![c] = Free(c, "passing")]
          /\ history' = IF gone THEN h ELSE Noted(h, "got", c, here)
          /\ UNCHANGED last
     ELSE /\ conn' = [conn EXCEPT ![c] =
               [@ EXCEPT !.resend = resend, !.timed = timed, !.reply = reply]]
          /\ history' = h /\ UNCHANGED last

Expire(c) == Round(c, FALSE, "nothing", TRUE)

\* Both directions are finished, one side failed, or the app went away.
End(c) ==
  /\ conn[c].stage \in {"judging", "passing"}
  /\ conn' = [conn EXCEPT ![c] = Free(c, "left")]
  /\ UNCHANGED <<last, clients, history>>

Next ==
  \E c \in Conns :
    \/ Accept(c) \/ Leave(c) \/ Request(c)
    \/ Exhausted(c) \/ Skip(c) \/ OpenTunnel(c) \/ Dial(c)
    \/ Act(c) \/ End(c)
    \/ \E more, expired \in BOOLEAN : \E up \in FromUpstream(c) :
         Round(c, more, up, expired)

Spec == Init /\ [][Next]_vars

\* A thread goes on, and its poll returns at the deadline.
FairSpec ==
  /\ Spec
  /\ \A c \in Conns :
       /\ WF_vars(Request(c)) /\ WF_vars(Leave(c)) /\ WF_vars(Expire(c))
       /\ WF_vars(Exhausted(c) \/ Skip(c) \/ OpenTunnel(c) \/ Dial(c))

-----------------------------------------------------------------------------
(* Properties.                                                              *)

Threads ==
  [stage : {"none", "head", "seeking", "judging", "passing", "left", "over"},
   kind : {"plain", "tunnel"}, repeatable : BOOLEAN, first : Endpoints,
   k : 0 .. N, resend : BOOLEAN, timed : BOOLEAN, reply : {"none", "part"}]

Histories ==
  [acted : [Conns -> SUBSET Endpoints], got : [Conns -> SUBSET (0 .. BadGateway)],
   tried : [Conns -> SUBSET Endpoints], parts : [Conns -> 0 .. MaxParts],
   lost : [Conns -> 0 .. MaxParts]]

\* Every variable has its type.
TypeOK ==
  /\ last \in Endpoints /\ clients \in 0 .. MaxClients
  /\ conn \in [Conns -> Threads]
  /\ history \in Histories

\* proxy_policy.hpp:161-162, "the first upstream may have passed the request
\* on, so anything else waits for its answer": a request that must not be
\* repeated is acted on by one upstream at the most.
ActedOnce ==
  \A c \in Conns : ~conn[c].repeatable => Cardinality(history.acted[c]) <= 1

\* proxy_bridge.cpp:228-232, "only then can the request go to another endpoint
\* unchanged" and "has been sent nothing": no endpoint is given the head of a
\* request whose next parts went to another, and the app gets the answer of one
\* upstream or of the bridge, never parts of two.
ExchangeIsWhole ==
  \A c \in Conns : history.lost[c] = 0 /\ Cardinality(history.got[c]) <= 1

\* A request that could have gone anywhere fails only after every endpoint
\* was tried, also while other connections change the order.
NoEarlyFailure ==
  \A c \in Conns :
    BadGateway \in history.got[c] /\ history.parts[c] = 0
      => history.tried[c] = Endpoints

\* A connection that ends or is turned away gives its place back: the bridge
\* never ends up refusing every connection.
PlacesReturn ==
  clients = Cardinality({c \in Conns :
                           conn[c].stage \notin {"none", "over"}})

\* proxy_bridge.cpp:284-286: a silent upstream does not hold up a request that
\* may be repeated, unless it is the last one or the app has sent more.
SilenceIsSkipped ==
  \A c \in Conns :
    conn[c].stage = "seeking" /\ conn[c].repeatable ~>
      \/ conn[c].stage \in {"passing", "left", "over"}
      \/ conn[c].k >= N - 1
      \/ history.parts[c] > 0
=============================================================================
