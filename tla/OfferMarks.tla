------------------------------ MODULE OfferMarks ------------------------------
(***************************************************************************)
(* The contact policy of recommendation_api for one user: rule R3 marks a  *)
(* campaign as shown in Redis, rule R4 counts the offers of the last 24    *)
(* hours, each with a GET and a later SETEX while the request is still     *)
(* being evaluated; offers that could not be stored give both back.        *)
(*                                                                         *)
(* Every await on Redis or Postgres is a step of its own, so requests of   *)
(* one user (two devices, a retry) interleave between any two of them.     *)
(* The history variables note when one request reads a key that another    *)
(* has read and not yet written; no step depends on them.                  *)
(* R1, R2 and R7 come before R3 and R4 and touch nothing: a candidate they *)
(* reject is one that is not ranked.  The horizon is the 24 hours of R4,   *)
(* in which no key expires.                                                *)
(***************************************************************************)
EXTENDS ShownOffers, Sequences, SequencesExt

CONSTANTS TopK,        \* top_k
          Concurrency  \* how many of the requests may overlap

MarksAssumption ==
  /\ IsFiniteSet(Campaigns)
  /\ IsFiniteSet(Requests)
  /\ Limit \in Nat
  /\ TopK \in Nat \ {0}
  /\ Concurrency \in Nat \ {0}

VARIABLE request  \* the progress of each request

vars == <<marked, count, shown, contended, raced, request>>

Phases == {"new", "get_mark", "set_mark", "get_count", "set_count", "persist",
           "drop_mark", "get_back", "set_back", "over"}

\* todo: ranked candidates; passed: those through the BRE; unserved: those
\* whose marks are to be taken back; read: what the last GET returned.
Request == [phase: Phases, todo: SeqOf(Campaigns, Cardinality(Campaigns)),
            passed: SUBSET Campaigns, unserved: SUBSET Campaigns, read: 0..Limit]

Blank(p) == [phase |-> p, todo |-> <<>>, passed |-> {}, unserved |-> {}, read |-> 0]

\* Every variable keeps its type; the counter never leaves 0..Limit.
TypeOK ==
  /\ marked \subseteq Campaigns
  /\ count \in 0 .. Limit
  /\ shown \subseteq Campaigns \X Requests
  /\ contended \subseteq Campaigns
  /\ raced \in BOOLEAN
  /\ request \in [Requests -> Request]

Init ==
  /\ marked = {}
  /\ count = 0
  /\ shown = {}
  /\ contended = {}
  /\ raced = FALSE
  /\ request = [r \in Requests |-> Blank("new")]

Running == {r \in Requests : request[r].phase \notin {"new", "over"}}

At(r, p) == request[r].phase = p

\* Another request has read the mark of the campaign and is about to set it.
Marking(r, c) ==
  \E s \in Requests \ {r} : At(s, "set_mark") /\ Head(request[s].todo) = c

\* Another request has read the count and is about to write it.
Counting(r) == \E s \in Requests \ {r} : At(s, "set_count") \/ At(s, "set_back")

-----------------------------------------------------------------------------
\* The model ranks the categories that have a campaign.  A second category of
\* a campaign meets the mark of the first and is rejected without effect, so
\* every campaign is ranked once.
Start(r) ==
  /\ At(r, "new")
  /\ Cardinality(Running) < Concurrency
  /\ \E ranking \in SetToAllKPermutations(Campaigns) \ {<<>>} :
       request' = [request EXCEPT ![r].phase = "get_mark", ![r].todo = ranking]
  /\ UNCHANGED <<marked, count, shown, contended, raced>>

\* The candidate is done with; the loop ends at TopK or with the ranking.
Onwards(q, passed) ==
  [q EXCEPT !.todo = Tail(@), !.passed = passed, !.read = 0,
            !.phase = IF Len(q.todo) = 1 \/ Cardinality(passed) >= TopK
                      THEN "persist" ELSE "get_mark"]

\* Mutant: R3 does not look at its key.
NeverSeen(c) == FALSE

Seen(c) == c \in marked

\* R3, GET: an offer shown lately is rejected.
GetMark(r) ==
  LET q == request[r] IN
  /\ At(r, "get_mark")
  /\ request' = [request EXCEPT ![r] =
       IF Seen(Head(q.todo)) THEN Onwards(q, q.passed) ELSE [q EXCEPT !.phase = "set_mark"]]
  /\ contended' = IF ~Seen(Head(q.todo)) /\ Marking(r, Head(q.todo))
                  THEN contended \cup {Head(q.todo)} ELSE contended
  /\ UNCHANGED <<marked, count, shown, raced>>

\* R3, SETEX.
SetMark(r) ==
  /\ At(r, "set_mark")
  /\ marked' = marked \cup {Head(request[r].todo)}
  /\ request' = [request EXCEPT ![r].phase = "get_count"]
  /\ UNCHANGED <<count, shown, contended, raced>>

LimitReached(n) == n >= Limit

\* R4, GET: at the limit the candidate is rejected, and R3's mark stays.
GetCount(r) ==
  LET q == request[r] IN
  /\ At(r, "get_count")
  /\ request' = [request EXCEPT ![r] =
       IF LimitReached(count) THEN Onwards(q, q.passed)
       ELSE [q EXCEPT !.phase = "set_count", !.read = count]]
  /\ raced' = (raced \/ (~LimitReached(count) /\ Counting(r)))
  /\ UNCHANGED <<marked, count, shown, contended>>

\* R4, SETEX, and R5 and R6, which look at the request and the campaign only;
\* a candidate they reject leaves both marks behind.
SetCount(r) ==
  LET q == request[r] IN
  /\ At(r, "set_count")
  /\ count' = q.read + 1
  /\ \E passed \in {q.passed, q.passed \cup {Head(q.todo)}} :
       request' = [request EXCEPT ![r] = Onwards(q, passed)]
  /\ UNCHANGED <<marked, shown, contended, raced>>

NotServed(q, stored) == q.passed \ stored

\* One transaction stores a row per offer.  It fails as a whole, or leaves out
\* the offers whose campaign is gone; the client gets what was stored.
Persist(r) ==
  LET q == request[r] IN
  /\ At(r, "persist")
  /\ \E stored \in SUBSET q.passed :
       /\ shown' = shown \cup (stored \X {r})
       /\ request' = [request EXCEPT ![r] =
            IF q.passed = stored THEN Blank("over")
            ELSE [Blank("drop_mark") EXCEPT !.unserved = NotServed(q, stored)]]
  /\ UNCHANGED <<marked, count, contended, raced>>

\* R3, release.  _release_unserved takes the offers in order, the model in any.
DropMark(r) ==
  \E c \in request[r].unserved :
    /\ At(r, "drop_mark")
    /\ marked' = marked \ {c}
    /\ request' = [request EXCEPT ![r].phase = "get_back", ![r].unserved = @ \ {c}]
    /\ UNCHANGED <<count, shown, contended, raced>>

NextRelease(q) == IF q.unserved = {} THEN Blank("over")
                  ELSE [q EXCEPT !.phase = "drop_mark", !.read = 0]

\* R4, release: GET, and nothing to give back without a key.
GetBack(r) ==
  /\ At(r, "get_back")
  /\ request' = [request EXCEPT ![r] =
       IF count = 0 THEN NextRelease(request[r])
       ELSE [request[r] EXCEPT !.phase = "set_back", !.read = count]]
  /\ raced' = (raced \/ (count # 0 /\ Counting(r)))
  /\ UNCHANGED <<marked, count, shown, contended>>

OneLess(n) == n - 1

\* R4, release: SETEX of one less, or DEL.
SetBack(r) ==
  /\ At(r, "set_back")
  /\ count' = OneLess(request[r].read)
  /\ request' = [request EXCEPT ![r] = NextRelease(@)]
  /\ UNCHANGED <<marked, shown, contended, raced>>

\* Redis fails while one offer is released: logged, the next one follows.
ReleaseFails(r) ==
  LET q == request[r] IN
  /\ \/ \E c \in q.unserved :
          /\ At(r, "drop_mark")
          /\ request' = [request EXCEPT ![r] =
               NextRelease([q EXCEPT !.unserved = @ \ {c}])]
     \/ /\ q.phase \in {"get_back", "set_back"}
        /\ request' = [request EXCEPT ![r] = NextRelease(q)]
  /\ UNCHANGED <<marked, count, shown, contended, raced>>

\* Redis fails inside the evaluation (500), or the process dies.
Fail(r) ==
  /\ r \in Running
  /\ request' = [request EXCEPT ![r] = Blank("over")]
  /\ UNCHANGED <<marked, count, shown, contended, raced>>

-----------------------------------------------------------------------------
Next ==
  \E r \in Requests :
    \/ Start(r) \/ GetMark(r) \/ SetMark(r) \/ GetCount(r) \/ SetCount(r)
    \/ Persist(r) \/ DropMark(r) \/ GetBack(r) \/ SetBack(r)
    \/ ReleaseFails(r) \/ Fail(r)

Spec == Init /\ [][Next]_vars
=============================================================================
