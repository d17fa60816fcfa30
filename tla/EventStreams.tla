---------------------------- MODULE EventStreams ----------------------------
(***************************************************************************)
(* The live events of the dashboard in one campaign_manager process: the   *)
(* broker with its bounded queues and limits (events.py), the one-time     *)
(* tokens that open a stream and the check of an open stream's access      *)
(* (api/events.py), over the accounts and rights that operators change.    *)
(*                                                                         *)
(* The broker's methods do not await, so each is one step; the handlers    *)
(* await Postgres, Redis and the client in between.  A connection slot is  *)
(* used again once its stream is over, an SSE token once it has expired.   *)
(***************************************************************************)
EXTENDS Accounts, Sequences

CONSTANTS Viewers,         \* users who watch the dashboard
          Connections,     \* GET /events/stream, concurrent ones
          SseTokens,       \* SSE tokens alive at a time
          MaxSubscribers,  \* SSE_MAX_SUBSCRIBERS
          MaxPerUser,      \* SSE_MAX_SUBSCRIBERS_PER_USER
          MaxQueue,        \* MAX_QUEUE
          None             \* no token, no owner

ASSUME StreamsAssumption ==
  /\ Viewers \subseteq Users
  /\ MaxSubscribers \in Nat \ {0}
  /\ MaxPerUser \in Nat \ {0}
  /\ MaxQueue \in Nat \ {0}
  /\ None \notin SseTokens
  /\ None \notin [user: Users, ver: 0 .. MaxVersion]

VARIABLES sse,          \* what each SSE token says
          used,         \* auth:sse_used:{jti}
          conn,         \* the progress of each connection
          subscribers,  \* _subscribers
          perUser,      \* _per_user
          queue,        \* the queue of each subscription
          closed        \* _closed

streamVars == <<sse, used, conn, subscribers, perUser, queue, closed>>
eventVars == <<accountVars, streamVars>>

Access == [user: Users, ver: 0 .. MaxVersion]

ConnPhases == {"idle", "once", "subscribe", "accepted", "open", "leaving", "background"}

NoConn == [phase |-> "idle", token |-> None, access |-> None]

StreamsInit ==
  /\ AccountsInit
  /\ sse = [k \in SseTokens |-> None]
  /\ used = {}
  /\ conn = [c \in Connections |-> NoConn]
  /\ subscribers = {}
  /\ perUser = [u \in Users |-> 0]
  /\ queue = [c \in Connections |-> <<>>]
  /\ closed = FALSE

ConnAt(c, phase) == conn[c].phase = phase

GotoConn(c, phase) == conn' = [conn EXCEPT ![c].phase = phase]

\* Mutant: the right is not looked at again.
SameVersion(a) == Active(a.user) /\ account[a.user].ver = a.ver

\* _stream_access: the account and its version, then the right of its role.
Allowed(a) ==
  /\ Active(a.user)
  /\ account[a.user].ver = a.ver
  /\ ~account[a.user].mustChange
  /\ "dashboard" \in RightsOf(account[a.user].role)

-----------------------------------------------------------------------------
\* POST /events/token
IssueToken(k, u) ==
  /\ sse[k] = None
  /\ Registered(u)
  /\ Allowed([user |-> u, ver |-> account[u].ver])
  /\ sse' = [sse EXCEPT ![k] = [user |-> u, ver |-> account[u].ver]]
  /\ UNCHANGED <<accountVars, used, conn, subscribers, perUser, queue, closed>>

\* 60 seconds later the token is worth nothing and its mark is gone; nobody
\* takes that long between the two checks of a connection.
ExpireToken(k) ==
  /\ sse[k] # None
  /\ \A c \in Connections : ConnAt(c, "once") => conn[c].token # k
  /\ sse' = [sse EXCEPT ![k] = None]
  /\ used' = used \ {k}
  /\ conn' = [c \in Connections |-> IF conn[c].token = k
                                    THEN [conn[c] EXCEPT !.token = None] ELSE conn[c]]
  /\ UNCHANGED <<accountVars, subscribers, perUser, queue, closed>>

\* require_sse_token: the database first, in a short session of its own ...
Connect(c, k) ==
  /\ ConnAt(c, "idle")
  /\ sse[k] # None
  /\ Allowed(sse[k])
  /\ conn' = [conn EXCEPT ![c] = [phase |-> "once", token |-> k, access |-> sse[k]]]
  /\ UNCHANGED <<accountVars, sse, used, subscribers, perUser, queue, closed>>

Fresh(k) == k \notin used

\* ... then SET NX of the jti; a second connection is a 401.
UseOnce(c) ==
  LET k == conn[c].token IN
  /\ ConnAt(c, "once")
  /\ used' = used \cup {k}
  /\ IF Fresh(k) THEN GotoConn(c, "subscribe") ELSE conn' = [conn EXCEPT ![c] = NoConn]
  /\ UNCHANGED <<accountVars, sse, subscribers, perUser, queue, closed>>

\* Redis fails, before or after it has set the mark: a 503.
StoreDown(c) ==
  /\ ConnAt(c, "once")
  /\ used' \in {used, used \cup {conn[c].token}}
  /\ conn' = [conn EXCEPT ![c] = NoConn]
  /\ UNCHANGED <<accountVars, sse, subscribers, perUser, queue, closed>>

Full(u) ==
  \/ Cardinality(subscribers) >= MaxSubscribers
  \/ perUser[u] >= MaxPerUser

\* stream and EventBroker.subscribe: 503 and 429 before the response begins.
Subscribe(c) ==
  LET u == conn[c].access.user IN
  /\ ConnAt(c, "subscribe")
  /\ IF closed \/ Full(u)
     THEN /\ conn' = [conn EXCEPT ![c] = NoConn]
          /\ UNCHANGED <<subscribers, perUser, queue>>
     ELSE /\ GotoConn(c, "accepted")
          /\ subscribers' = subscribers \cup {c}
          /\ perUser' = [perUser EXCEPT ![u] = @ + 1]
          /\ queue' = [queue EXCEPT ![c] = <<>>]
  /\ UNCHANGED <<accountVars, sse, used, closed>>

\* Mutant: every call of unsubscribe counts.
CountedTwice(c) == TRUE

\* The queue is the owner's until it is taken out of the broker once.
Owned(c) == c \in subscribers

\* EventBroker.unsubscribe, called by the generator and by the response.
Unsubscribe(c) ==
  /\ subscribers' = subscribers \ {c}
  /\ perUser' = [perUser EXCEPT ![conn[c].access.user] = IF Owned(c) THEN @ - 1 ELSE @]

\* The response asks the generator for its first message.
StartStream(c) ==
  /\ ConnAt(c, "accepted")
  /\ GotoConn(c, "open")
  /\ UNCHANGED <<accountVars, sse, used, subscribers, perUser, queue, closed>>

\* sse_response_stream: the next event; the closing signal ends the stream.
NextEvent(c) ==
  /\ ConnAt(c, "open")
  /\ queue[c] # <<>>
  /\ queue' = [queue EXCEPT ![c] = Tail(@)]
  /\ IF Head(queue[c]) = "closed" THEN GotoConn(c, "leaving") ELSE UNCHANGED conn
  /\ UNCHANGED <<accountVars, sse, used, subscribers, perUser, closed>>

\* revalidate(): once per REVALIDATE_INTERVAL, in a session of its own; a
\* database that does not answer closes the stream, too.
Revalidate(c) ==
  /\ ConnAt(c, "open")
  /\ ~Allowed(conn[c].access)
  /\ GotoConn(c, "leaving")
  /\ UNCHANGED <<accountVars, sse, used, subscribers, perUser, queue, closed>>

\* The client is gone, or the revalidation failed; before the first message
\* the generator never runs, and only the response cleans up.
Disconnect(c) ==
  /\ conn[c].phase \in {"accepted", "open"}
  /\ GotoConn(c, IF ConnAt(c, "open") THEN "leaving" ELSE "background")
  /\ UNCHANGED <<accountVars, sse, used, subscribers, perUser, queue, closed>>

\* The generator's finally.
Leave(c) ==
  /\ ConnAt(c, "leaving")
  /\ Unsubscribe(c)
  /\ GotoConn(c, "background")
  /\ UNCHANGED <<accountVars, sse, used, queue, closed>>

\* The response's background task.
Background(c) ==
  /\ ConnAt(c, "background")
  /\ Unsubscribe(c)
  /\ conn' = [conn EXCEPT ![c] = NoConn]
  /\ queue' = [queue EXCEPT ![c] = <<>>]
  /\ UNCHANGED <<accountVars, sse, used, closed>>

-----------------------------------------------------------------------------
\* _flush_loop and EventBroker.publish: a full queue loses the event.
Publish ==
  /\ subscribers # {}
  /\ queue' = [c \in Connections |->
       IF c \in subscribers /\ Len(queue[c]) < MaxQueue
       THEN Append(queue[c], "stats") ELSE queue[c]]
  /\ UNCHANGED <<accountVars, sse, used, conn, subscribers, perUser, closed>>

\* Mutant: the signal is put like any event, and a full queue loses it.
NoRoomMade(q) == IF Len(q) < MaxQueue THEN Append(q, "closed") ELSE q

Signalled(q) == Append(IF Len(q) = MaxQueue THEN Tail(q) ELSE q, "closed")

\* SIGTERM, EventBroker.close
Close ==
  /\ ~closed
  /\ closed' = TRUE
  /\ queue' = [c \in Connections |-> IF c \in subscribers THEN Signalled(queue[c]) ELSE queue[c]]
  /\ UNCHANGED <<accountVars, sse, used, conn, subscribers, perUser>>

ConnStep(c) ==
  \/ \E k \in SseTokens : Connect(c, k)
  \/ UseOnce(c) \/ StoreDown(c) \/ Subscribe(c) \/ StartStream(c)
  \/ NextEvent(c) \/ Revalidate(c)
  \/ Disconnect(c) \/ Leave(c) \/ Background(c)

StreamsNext ==
  \/ \E e \in Edits : EditStep(e) /\ UNCHANGED streamVars
  \/ \E k \in SseTokens, u \in Viewers : IssueToken(k, u)
  \/ \E k \in SseTokens : ExpireToken(k)
  \/ \E c \in Connections : ConnStep(c)
  \/ Publish
  \/ Close

StreamsSpec == StreamsInit /\ [][StreamsNext]_eventVars

(***************************************************************************)
(* The event loop runs every task, and a client that stays connected reads *)
(* what it is sent.  Nobody has to connect, to leave or to shut down.      *)
(***************************************************************************)
Handler(c) == UseOnce(c) \/ Subscribe(c) \/ StartStream(c) \/ Leave(c) \/ Background(c)

StreamsFairness ==
  \A c \in Connections :
    WF_eventVars(Handler(c)) /\ WF_eventVars(NextEvent(c)) /\ WF_eventVars(Revalidate(c))

FairStreamsSpec == StreamsSpec /\ StreamsFairness

-----------------------------------------------------------------------------
\* Every variable keeps its type; no queue outgrows its bound.
StreamsTypeOK ==
  /\ AccountsTypeOK
  /\ rowLock \in [Users -> Edits \cup {NoRequest}]
  /\ sse \in [SseTokens -> Access \cup {None}]
  /\ used \subseteq SseTokens
  /\ conn \in [Connections -> [phase: ConnPhases, token: SseTokens \cup {None},
                               access: Access \cup {None}]]
  /\ subscribers \subseteq Connections
  /\ perUser \in [Users -> 0 .. MaxPerUser]
  /\ \A c \in Connections : queue[c] \in Seq({"stats", "closed"}) /\ Len(queue[c]) <= MaxQueue
  /\ closed \in BOOLEAN

Streams(u) == {c \in Connections :
                 /\ conn[c].phase \in {"accepted", "open"}
                 /\ conn[c].access.user = u}

(***************************************************************************)
(* No operator takes all the places of a replica (events.py:19): however   *)
(* streams begin, break off before their first message or end, a user has  *)
(* no more of them than his limit, and together they keep to theirs.       *)
(***************************************************************************)
PlacesLimited ==
  /\ \A u \in Users : Cardinality(Streams(u)) <= MaxPerUser
  /\ Cardinality(UNION {Streams(u) : u \in Users}) <= MaxSubscribers

(***************************************************************************)
(* An SSE token opens one stream (api/events.py:17): two connections that  *)
(* come with it at once do not both get past its mark.                     *)
(***************************************************************************)
TokenOpensOneStream ==
  \A c, d \in Connections :
    /\ c # d
    /\ conn[c].token = conn[d].token
    /\ {conn[c].phase, conn[d].phase} \cap {"idle", "once"} = {}
    => conn[c].token = None

LimitsHold == StreamsTypeOK /\ PlacesLimited /\ TokenOpensOneStream

(***************************************************************************)
(* Access that was lost does not come back to whoever has it: once the     *)
(* role, the status or the password of an account has changed, no later    *)
(* change makes a token or a stream of before valid again, so a stream     *)
(* that is looked at only now and then (events.py:23) misses nothing.      *)
(***************************************************************************)
LossIsFinal ==
  [][\A c \in Connections, u \in Users :
       /\ conn[c].phase # "idle"
       /\ conn[c].access.user = u
       /\ account[u].ver # conn[c].access.ver \/ Signed(u)' # Signed(u)
       => account'[u].ver # conn[c].access.ver]_eventVars

(***************************************************************************)
(* An open stream closes once its access is gone for good (events.py:23):  *)
(* the account disabled or its tokens ended, or the right withdrawn.       *)
(***************************************************************************)
AccessLost(c) ==
  LET a == conn[c].access IN
  /\ ConnAt(c, "open")
  /\ \/ ~Active(a.user)
     \/ account[a.user].ver # a.ver
     \/ "dashboard" \notin RightsOf(account[a.user].role)

RevokedStreamsEnd == \A c \in Connections : ~<>[]AccessLost(c)

(***************************************************************************)
(* A shutdown ends every stream by itself (events.py:21), full queues and  *)
(* events published behind the signal notwithstanding.                     *)
(***************************************************************************)
ShutdownDrains == closed ~> subscribers = {}
=============================================================================
