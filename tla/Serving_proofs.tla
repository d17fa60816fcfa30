---------------------------- MODULE Serving_proofs ----------------------------
(***************************************************************************)
(* Theorems about how offers are served, for every choice of the           *)
(* constants.  OfferMarks: for any number of requests at once, one thing   *)
(* only can break the contact policy: a key read by one of them between    *)
(* the GET and the SETEX of another.  CircuitBreaker: for any number of calls, any    *)
(* threshold and any time to reset.  MLLimits and FeatureStore: what has   *)
(* taken effect stays in effect, for any number of publishers, processes   *)
(* and lookups.  ModelRollout: only models that were in Production serve,  *)
(* for any number of promoters, replicas and failures.                     *)
(***************************************************************************)
EXTENDS OfferMarks, CircuitBreaker, MLLimits, FeatureStore, ModelRollout,
        FiniteSetTheorems, SequenceTheorems, WellFoundedInduction, TLAPS

-----------------------------------------------------------------------------
(***************************************************************************)
(* The inductive invariant of the types: a candidate that is looked at is  *)
(* there, and the counter to be written is within its bounds.              *)
(***************************************************************************)
Ranked == {"get_mark", "set_mark", "get_count", "set_count"}
Releasing == {"drop_mark", "get_back", "set_back"}

ReadsFit ==
  \A r \in Requests :
    /\ request[r].phase \in Ranked => request[r].todo # <<>>
    /\ request[r].phase = "set_count" => request[r].read < Limit
    /\ request[r].phase = "set_back" => request[r].read > 0

Typed == TypeOK /\ ReadsFit

-----------------------------------------------------------------------------
(***************************************************************************)
(* Lemma: the sequences up to a length are those of at most that length.   *)
(***************************************************************************)
LEMMA RankingsAre ==
  ASSUME MarksAssumption
  PROVE  SeqOf(Campaigns, Cardinality(Campaigns))
           = {s \in Seq(Campaigns) : Len(s) <= Cardinality(Campaigns)}
<1> DEFINE n == Cardinality(Campaigns)
<1>1. n \in Nat
  BY FS_CardinalityType DEF MarksAssumption
<1> HIDE DEF n
<1>2. ASSUME NEW s \in SeqOf(Campaigns, n)
      PROVE  s \in Seq(Campaigns) /\ Len(s) <= n
  <2>1. PICK m \in 0 .. n : s \in [1 .. m -> Campaigns]
    BY DEF SeqOf
  <2>2. QED
    BY <1>1, <2>1
<1>3. ASSUME NEW s \in Seq(Campaigns), Len(s) <= n
      PROVE  s \in SeqOf(Campaigns, n)
  <2>1. Len(s) \in 0 .. n /\ s \in [1 .. Len(s) -> Campaigns]
    BY <1>1, <1>3
  <2>2. QED
    BY <2>1 DEF SeqOf
<1>4. QED
  BY <1>2, <1>3 DEF n

(***************************************************************************)
(* Lemma: a ranking of some campaigns is such a sequence.                  *)
(***************************************************************************)
LEMMA RankingTyped ==
  ASSUME MarksAssumption, NEW ranking \in SetToAllKPermutations(Campaigns)
  PROVE  ranking \in SeqOf(Campaigns, Cardinality(Campaigns))
<1>1. PICK S \in SUBSET Campaigns : ranking \in SetToSeqs(S)
  BY DEF SetToAllKPermutations
<1>2. Cardinality(S) \in Nat /\ Cardinality(S) <= Cardinality(Campaigns)
      /\ Cardinality(Campaigns) \in Nat
  BY FS_Subset, FS_CardinalityType DEF MarksAssumption
<1>3. ranking \in [1 .. Cardinality(S) -> S]
  BY <1>1 DEF SetToSeqs
<1>4. ranking \in [1 .. Cardinality(S) -> Campaigns]
  BY <1>3
<1>5. Cardinality(S) \in 0 .. Cardinality(Campaigns)
  BY <1>2
<1>6. QED
  BY <1>4, <1>5 DEF SeqOf

(***************************************************************************)
(* One request moves to a new record, the others stay.                     *)
(***************************************************************************)
Becomes(r, new) ==
  /\ new \in Request
  /\ request' = [d \in Requests |-> request'[d]]
  /\ request'[r] = new
  /\ \A d \in Requests \ {r} : request'[d] = request[d]

(***************************************************************************)
(* Lemma: what giving a request a new record means.                        *)
(***************************************************************************)
LEMMA Moved ==
  ASSUME TypeOK, NEW r \in Requests, NEW new \in Request,
         request' = [request EXCEPT ![r] = new]
  PROVE  Becomes(r, new)
BY DEF TypeOK, Becomes

(***************************************************************************)
(* What the history variables have noted they do not forget.               *)
(***************************************************************************)
HistoryKept ==
  /\ contended \subseteq contended' /\ contended' \subseteq Campaigns
  /\ raced' \in BOOLEAN /\ (raced => raced')

(***************************************************************************)
(* Lemma: a step that notes nothing keeps the history.                     *)
(***************************************************************************)
LEMMA NothingNoted ==
  ASSUME Typed, UNCHANGED <<contended, raced>>
  PROVE  HistoryKept
BY DEF Typed, TypeOK, HistoryKept

(***************************************************************************)
(* Lemma: a request that moves so keeps the types, if what it is to write  *)
(* fits.                                                                   *)
(***************************************************************************)
LEMMA MovedTyped ==
  ASSUME Typed, NEW r \in Requests, NEW new, Becomes(r, new),
         new.phase \in Ranked => new.todo # <<>>,
         new.phase = "set_count" => new.read < Limit,
         new.phase = "set_back" => new.read > 0,
         marked' \subseteq Campaigns, count' \in 0 .. Limit,
         shown' \subseteq Campaigns \X Requests, HistoryKept
  PROVE  Typed'
<1>1. request' \in [Requests -> Request]
  BY DEF Typed, TypeOK, Becomes
<1>2. ReadsFit'
  BY DEF Typed, ReadsFit, Becomes
<1>3. QED
  BY <1>1, <1>2 DEF Typed, TypeOK, HistoryKept

(***************************************************************************)
(* Lemma: a request that has not begun, or is over, holds nothing.         *)
(***************************************************************************)
LEMMA BlankTyped ==
  ASSUME MarksAssumption, NEW p \in Phases
  PROVE  /\ Blank(p) \in Request
         /\ Blank(p).phase = p /\ Blank(p).todo = <<>> /\ Blank(p).read = 0
         /\ Blank(p).passed = {} /\ Blank(p).unserved = {}
<1>1. Cardinality(Campaigns) \in Nat
  BY FS_CardinalityType DEF MarksAssumption
<1>2. <<>> \in Seq(Campaigns) /\ Len(<<>>) <= Cardinality(Campaigns)
  BY <1>1
<1>3. <<>> \in SeqOf(Campaigns, Cardinality(Campaigns))
  BY <1>2, RankingsAre
<1>4. QED
  BY <1>3 DEF Blank, Request, MarksAssumption

(***************************************************************************)
(* Lemma: the evaluation goes on with the rest of the ranking, or to the   *)
(* transaction.                                                            *)
(***************************************************************************)
LEMMA OnwardsIs ==
  ASSUME MarksAssumption, NEW q \in Request, q.todo # <<>>, NEW passed \in SUBSET Campaigns
  PROVE  /\ Onwards(q, passed) \in Request
         /\ Onwards(q, passed).phase \in {"persist", "get_mark"}
         /\ Onwards(q, passed).phase = "get_mark" => Onwards(q, passed).todo # <<>>
         /\ Onwards(q, passed).passed = passed
         /\ Onwards(q, passed).unserved = q.unserved
<1>1. /\ q.todo \in Seq(Campaigns) /\ Len(q.todo) <= Cardinality(Campaigns)
      /\ Cardinality(Campaigns) \in Nat
  BY RankingsAre, FS_CardinalityType DEF Request, MarksAssumption
<1>2. /\ Tail(q.todo) \in Seq(Campaigns) /\ Len(q.todo) \in Nat
      /\ Len(Tail(q.todo)) = Len(q.todo) - 1
  BY <1>1, HeadTailProperties
<1>3. PICK rest : rest = Tail(q.todo)
  OBVIOUS
<1>4. Len(rest) <= Cardinality(Campaigns)
  BY <1>1, <1>2, <1>3
<1>5. rest \in SeqOf(Campaigns, Cardinality(Campaigns))
  BY <1>2, <1>3, <1>4, RankingsAre
<1>6. PICK phase \in {"persist", "get_mark"} :
        phase = IF Len(q.todo) = 1 \/ Cardinality(passed) >= TopK THEN "persist" ELSE "get_mark"
  OBVIOUS
<1>7. phase = "get_mark" => rest # <<>>
  <2>1. phase = "get_mark" => Len(q.todo) # 1
    BY <1>6
  <2>2. Len(q.todo) # 1 => Len(rest) # 0
    BY <1>2, <1>3
  <2>3. QED
    BY <2>1, <2>2
<1>8. Onwards(q, passed) = [q EXCEPT !.todo = rest, !.passed = passed, !.read = 0,
                                     !.phase = phase]
  BY <1>3, <1>6 DEF Onwards, Request
<1>9. 0 \in 0 .. Limit
  BY DEF MarksAssumption
<1>10. QED
  BY <1>5, <1>7, <1>8, <1>9 DEF Request, Phases

-----------------------------------------------------------------------------
(***************************************************************************)
(* What a step of a request makes of it, action by action; the types with  *)
(* each.                                                                   *)
(***************************************************************************)
Moves(r) ==
  /\ Typed'
  /\ HistoryKept
  /\ \A d \in Requests \ {r} : request'[d] = request[d]

(***************************************************************************)
(* Lemma: a request that begins has a ranking.                             *)
(***************************************************************************)
LEMMA StartIs ==
  ASSUME MarksAssumption, Typed, NEW r \in Requests, Start(r)
  PROVE  /\ Moves(r)
         /\ request[r].phase = "new" /\ request'[r].phase = "get_mark"
         /\ request'[r].passed = request[r].passed
         /\ request'[r].unserved = request[r].unserved
<1>1. request[r] \in Request
  BY DEF Typed, TypeOK
<1>2. PICK ranking \in SetToAllKPermutations(Campaigns) :
        /\ ranking # <<>>
        /\ request' = [request EXCEPT ![r].phase = "get_mark", ![r].todo = ranking]
  BY DEF Start
<1>3. ranking \in SeqOf(Campaigns, Cardinality(Campaigns))
  BY RankingTyped
<1> DEFINE new == [request[r] EXCEPT !.phase = "get_mark", !.todo = ranking]
<1>4. /\ new \in Request /\ new.phase = "get_mark" /\ new.todo = ranking
      /\ new.passed = request[r].passed /\ new.unserved = request[r].unserved
  BY <1>1, <1>3 DEF Request, Phases
<1>5. request' = [request EXCEPT ![r] = new]
  BY <1>2 DEF Typed, TypeOK
<1> HIDE DEF new
<1>6. Becomes(r, new)
  BY <1>4, <1>5, Moved DEF Typed
<1>7. HistoryKept
  BY NothingNoted DEF Start
<1>8. Typed'
  BY <1>2, <1>4, <1>6, <1>7, MovedTyped DEF Start, Typed, TypeOK
<1>9. QED
  BY <1>4, <1>6, <1>7, <1>8 DEF Start, At, Becomes, Moves

(***************************************************************************)
(* Lemma: R3 passes a candidate on that has no mark.                       *)
(***************************************************************************)
LEMMA GetMarkIs ==
  ASSUME MarksAssumption, Typed, NEW r \in Requests, GetMark(r)
  PROVE  /\ Moves(r)
         /\ request[r].phase = "get_mark"
         /\ request'[r].passed = request[r].passed
         /\ request'[r].unserved = request[r].unserved
         /\ \/ request'[r].phase \in {"persist", "get_mark"}
            \/ /\ request'[r].phase = "set_mark"
               /\ request'[r].todo = request[r].todo
               /\ Head(request[r].todo) \notin marked
               /\ \/ Head(request[r].todo) \in contended'
                  \/ ~Marking(r, Head(request[r].todo))
<1> DEFINE q == request[r]
<1>1. q \in Request /\ q.phase = "get_mark" /\ q.todo # <<>>
  BY DEF Typed, TypeOK, ReadsFit, GetMark, At, Ranked
<1>2. UNCHANGED <<marked, count, shown, raced>>
  BY DEF GetMark
<1>3. Head(q.todo) \in Campaigns
  <2>1. q.todo \in Seq(Campaigns)
    BY <1>1, RankingsAre DEF Request
  <2>2. QED
    BY <1>1, <2>1, HeadTailProperties
<1>4. HistoryKept
  BY <1>2, <1>3 DEF GetMark, HistoryKept, Typed, TypeOK
<1>5. \/ Head(q.todo) \in marked \/ Head(q.todo) \in contended'
      \/ ~Marking(r, Head(q.todo))
  BY DEF GetMark, Seen
<1>6. request' = [request EXCEPT ![r] = IF Head(q.todo) \in marked THEN Onwards(q, q.passed)
                                        ELSE [q EXCEPT !.phase = "set_mark"]]
  BY DEF GetMark, Seen
<1>7. CASE Head(q.todo) \in marked
  <2>1. q.passed \in SUBSET Campaigns
    BY <1>1 DEF Request
  <2>2. PICK new : new = Onwards(q, q.passed)
    OBVIOUS
  <2>3. /\ new \in Request /\ new.phase \in {"persist", "get_mark"}
        /\ new.phase = "get_mark" => new.todo # <<>>
        /\ new.passed = q.passed /\ new.unserved = q.unserved
    BY <1>1, <2>1, <2>2, OnwardsIs
  <2>4. Becomes(r, new)
    BY <1>6, <1>7, <2>2, <2>3, Moved DEF Typed
  <2>5. Typed'
    BY <1>2, <1>4, <2>3, <2>4, MovedTyped DEF Typed, TypeOK, Ranked
  <2>6. QED
    BY <1>1, <1>4, <2>3, <2>4, <2>5 DEF Becomes, Moves
<1>8. CASE Head(q.todo) \notin marked
  <2>1. PICK new : new = [q EXCEPT !.phase = "set_mark"]
    OBVIOUS
  <2>2. /\ new \in Request /\ new.phase = "set_mark" /\ new.todo = q.todo
        /\ new.passed = q.passed /\ new.unserved = q.unserved
    BY <1>1, <2>1 DEF Request, Phases
  <2>3. Becomes(r, new)
    BY <1>6, <1>8, <2>1, <2>2, Moved DEF Typed
  <2>4. Typed'
    BY <1>1, <1>2, <1>4, <2>2, <2>3, MovedTyped DEF Typed, TypeOK, Ranked
  <2>5. QED
    BY <1>1, <1>8, <1>4, <1>5, <2>2, <2>3, <2>4 DEF Becomes, Moves
<1>9. QED
  BY <1>7, <1>8

(***************************************************************************)
(* Lemma: R3 marks the candidate it has passed on.                         *)
(***************************************************************************)
LEMMA SetMarkIs ==
  ASSUME MarksAssumption, Typed, NEW r \in Requests, SetMark(r)
  PROVE  /\ Moves(r)
         /\ request[r].phase = "set_mark" /\ request'[r].phase = "get_count"
         /\ request'[r].todo = request[r].todo
         /\ request'[r].passed = request[r].passed
         /\ request'[r].unserved = request[r].unserved
         /\ marked' = marked \cup {Head(request[r].todo)}
         /\ UNCHANGED <<count, shown>>
<1> DEFINE q == request[r]
<1>1. q \in Request /\ q.phase = "set_mark" /\ q.todo # <<>>
  BY DEF Typed, TypeOK, ReadsFit, SetMark, At, Ranked
<1>2. marked' = marked \cup {Head(q.todo)} /\ UNCHANGED <<count, shown, contended, raced>>
  BY DEF SetMark
<1>3. PICK new : new = [q EXCEPT !.phase = "get_count"]
  OBVIOUS
<1>4. /\ new \in Request /\ new.phase = "get_count" /\ new.todo = q.todo
      /\ new.passed = q.passed /\ new.unserved = q.unserved
  BY <1>1, <1>3 DEF Request, Phases
<1>5. request' = [request EXCEPT ![r] = new]
  BY <1>3 DEF SetMark, Typed, TypeOK
<1>6. Becomes(r, new)
  BY <1>4, <1>5, Moved DEF Typed
<1>7. Head(q.todo) \in Campaigns
  <2>1. q.todo \in Seq(Campaigns)
    BY <1>1, RankingsAre DEF Request
  <2>2. QED
    BY <1>1, <2>1, HeadTailProperties
<1>8. HistoryKept
  BY <1>2, NothingNoted
<1>9. Typed'
  BY <1>1, <1>2, <1>4, <1>6, <1>7, <1>8, MovedTyped DEF Typed, TypeOK
<1>10. QED
  BY <1>1, <1>2, <1>4, <1>6, <1>8, <1>9 DEF Becomes, Moves

(***************************************************************************)
(* Lemma: R4 passes a candidate on with the count it read below the limit. *)
(***************************************************************************)
LEMMA GetCountIs ==
  ASSUME MarksAssumption, Typed, NEW r \in Requests, GetCount(r)
  PROVE  /\ Moves(r)
         /\ request[r].phase = "get_count"
         /\ request'[r].passed = request[r].passed
         /\ request'[r].unserved = request[r].unserved
         /\ \/ request'[r].phase \in {"persist", "get_mark"}
            \/ /\ request'[r].phase = "set_count"
               /\ request'[r].todo = request[r].todo
               /\ request'[r].read = count
               /\ raced' \/ ~Counting(r)
         /\ UNCHANGED <<marked, count, shown>>
<1> DEFINE q == request[r]
<1>1. q \in Request /\ q.phase = "get_count" /\ q.todo # <<>>
  BY DEF Typed, TypeOK, ReadsFit, GetCount, At, Ranked
<1>2. UNCHANGED <<marked, count, shown, contended>> /\ count \in 0 .. Limit
  BY DEF GetCount, Typed, TypeOK
<1>3. HistoryKept
  BY <1>2 DEF GetCount, HistoryKept, Typed, TypeOK
<1>4. count >= Limit \/ raced' \/ ~Counting(r)
  BY DEF GetCount, LimitReached
<1>5. request' = [request EXCEPT ![r] = IF count >= Limit THEN Onwards(q, q.passed)
                                        ELSE [q EXCEPT !.phase = "set_count", !.read = count]]
  BY DEF GetCount, LimitReached
<1>6. CASE count >= Limit
  <2>1. q.passed \in SUBSET Campaigns
    BY <1>1 DEF Request
  <2>2. PICK new : new = Onwards(q, q.passed)
    OBVIOUS
  <2>3. /\ new \in Request /\ new.phase \in {"persist", "get_mark"}
        /\ new.phase = "get_mark" => new.todo # <<>>
        /\ new.passed = q.passed /\ new.unserved = q.unserved
    BY <1>1, <2>1, <2>2, OnwardsIs
  <2>4. Becomes(r, new)
    BY <1>5, <1>6, <2>2, <2>3, Moved DEF Typed
  <2>5. Typed'
    BY <1>2, <1>3, <2>3, <2>4, MovedTyped DEF Typed, TypeOK, Ranked
  <2>6. QED
    BY <1>1, <1>2, <1>3, <2>3, <2>4, <2>5 DEF Becomes, Moves
<1>7. CASE ~(count >= Limit)
  <2>1. PICK new : new = [q EXCEPT !.phase = "set_count", !.read = count]
    OBVIOUS
  <2>2. /\ new \in Request /\ new.phase = "set_count" /\ new.todo = q.todo
        /\ new.passed = q.passed /\ new.unserved = q.unserved /\ new.read = count
    BY <1>1, <1>2, <2>1 DEF Request, Phases
  <2>3. Becomes(r, new)
    BY <1>5, <1>7, <2>1, <2>2, Moved DEF Typed
  <2>4. count < Limit
    BY <1>2, <1>7 DEF MarksAssumption
  <2>5. Typed'
    BY <1>1, <1>2, <1>3, <2>2, <2>3, <2>4, MovedTyped DEF Typed, TypeOK, Ranked
  <2>6. QED
    BY <1>1, <1>2, <1>7, <1>3, <1>4, <2>2, <2>3, <2>5 DEF Becomes, Moves
<1>8. QED
  BY <1>6, <1>7

(***************************************************************************)
(* Lemma: R4 counts the candidate, which R5 and R6 may still reject.       *)
(***************************************************************************)
LEMMA SetCountIs ==
  ASSUME MarksAssumption, Typed, NEW r \in Requests, SetCount(r)
  PROVE  /\ Moves(r)
         /\ request[r].phase = "set_count" /\ request'[r].phase \in {"persist", "get_mark"}
         /\ request'[r].passed \in {request[r].passed,
                                    request[r].passed \cup {Head(request[r].todo)}}
         /\ request'[r].unserved = request[r].unserved
         /\ count' = request[r].read + 1
         /\ UNCHANGED <<marked, shown>>
<1> DEFINE q == request[r]
<1>1. q \in Request /\ q.phase = "set_count" /\ q.todo # <<>> /\ q.read < Limit
  BY DEF Typed, TypeOK, ReadsFit, SetCount, At, Ranked
<1>2. UNCHANGED <<marked, shown, contended, raced>> /\ count' = q.read + 1
  BY DEF SetCount
<1>3. PICK passed \in {q.passed, q.passed \cup {Head(q.todo)}} :
        request' = [request EXCEPT ![r] = Onwards(q, passed)]
  BY DEF SetCount
<1>4. Head(q.todo) \in Campaigns
  <2>1. q.todo \in Seq(Campaigns)
    BY <1>1, RankingsAre DEF Request
  <2>2. QED
    BY <1>1, <2>1, HeadTailProperties
<1>5. passed \in SUBSET Campaigns
  BY <1>1, <1>4 DEF Request
<1>6. PICK new : new = Onwards(q, passed)
  OBVIOUS
<1>7. /\ new \in Request /\ new.phase \in {"persist", "get_mark"}
      /\ new.phase = "get_mark" => new.todo # <<>>
      /\ new.passed = passed /\ new.unserved = q.unserved
  BY <1>1, <1>5, <1>6, OnwardsIs
<1>8. Becomes(r, new)
  BY <1>3, <1>6, <1>7, Moved DEF Typed
<1>9. count' \in 0 .. Limit
  BY <1>1, <1>2 DEF Request, MarksAssumption
<1>10. HistoryKept
  BY <1>2, NothingNoted
<1>11. Typed'
  BY <1>2, <1>7, <1>8, <1>9, <1>10, MovedTyped DEF Typed, TypeOK, Ranked
<1>12. QED
  BY <1>1, <1>2, <1>3, <1>7, <1>8, <1>10, <1>11 DEF Becomes, Moves

(***************************************************************************)
(* Lemma: what is stored is shown, the rest of the offers is to be taken   *)
(* back.                                                                   *)
(***************************************************************************)
LEMMA PersistIs ==
  ASSUME MarksAssumption, Typed, NEW r \in Requests, Persist(r)
  PROVE  /\ Moves(r)
         /\ request[r].phase = "persist" /\ request'[r].phase \in {"over", "drop_mark"}
         /\ request'[r].phase = "over" => request'[r].unserved = {}
         /\ request'[r].passed = {}
         /\ \E stored \in SUBSET request[r].passed :
              /\ shown' = shown \cup (stored \X {r})
              /\ request'[r].unserved = request[r].passed \ stored
         /\ UNCHANGED <<marked, count>>
<1> DEFINE q == request[r]
<1>1. q \in Request /\ q.phase = "persist"
  BY DEF Typed, TypeOK, Persist, At
<1>2. UNCHANGED <<marked, count, contended, raced>> /\ HistoryKept
  BY NothingNoted DEF Persist
<1>3. PICK stored \in SUBSET q.passed :
        /\ shown' = shown \cup (stored \X {r})
        /\ request' = [request EXCEPT ![r] =
             IF q.passed = stored THEN Blank("over")
             ELSE [Blank("drop_mark") EXCEPT !.unserved = q.passed \ stored]]
  BY DEF Persist, NotServed
<1>4. shown' \subseteq Campaigns \X Requests
  BY <1>1, <1>3 DEF Typed, TypeOK, Request
<1>5. /\ Blank("over") \in Request /\ Blank("drop_mark") \in Request
      /\ Blank("over").phase = "over" /\ Blank("drop_mark").phase = "drop_mark"
      /\ Blank("over").passed = {} /\ Blank("drop_mark").passed = {}
      /\ Blank("over").unserved = {}
  BY BlankTyped DEF Phases
<1>6. CASE q.passed = stored
  <2>1. Becomes(r, Blank("over"))
    BY <1>3, <1>5, <1>6, Moved DEF Typed
  <2>2. Typed'
    BY <1>2, <1>4, <1>5, <2>1, MovedTyped DEF Typed, TypeOK, Ranked
  <2>3. q.passed \ stored = {}
    BY <1>6
  <2>4. QED
    BY <1>1, <1>2, <1>3, <1>5, <2>1, <2>2, <2>3 DEF Becomes, Moves
<1>7. CASE q.passed # stored
  <2>1. PICK new : new = [Blank("drop_mark") EXCEPT !.unserved = q.passed \ stored]
    OBVIOUS
  <2>2. /\ new \in Request /\ new.phase = "drop_mark" /\ new.passed = {}
        /\ new.unserved = q.passed \ stored
    BY <1>1, <1>5, <2>1 DEF Request
  <2>3. Becomes(r, new)
    BY <1>3, <1>7, <2>1, <2>2, Moved DEF Typed
  <2>4. Typed'
    BY <1>2, <1>4, <2>2, <2>3, MovedTyped DEF Typed, TypeOK, Ranked
  <2>5. QED
    BY <1>1, <1>2, <1>3, <2>2, <2>3, <2>4 DEF Becomes, Moves
<1>8. QED
  BY <1>6, <1>7

(***************************************************************************)
(* Lemma: after one offer is released comes the next one, or the end.      *)
(***************************************************************************)
LEMMA NextReleaseIs ==
  ASSUME MarksAssumption, NEW q \in Request
  PROVE  /\ NextRelease(q) \in Request
         /\ NextRelease(q).phase \in {"over", "drop_mark"}
         /\ NextRelease(q).phase = "over" => NextRelease(q).unserved = {}
         /\ NextRelease(q).passed \subseteq q.passed
         /\ NextRelease(q).unserved = q.unserved
<1>1. CASE q.unserved = {}
  BY <1>1, BlankTyped DEF NextRelease, Phases
<1>2. CASE q.unserved # {}
  <2>1. 0 \in 0 .. Limit
    BY DEF MarksAssumption
  <2>2. NextRelease(q) = [q EXCEPT !.phase = "drop_mark", !.read = 0]
    BY <1>2 DEF NextRelease
  <2>3. QED
    BY <2>1, <2>2 DEF Request, Phases
<1>3. QED
  BY <1>1, <1>2

(***************************************************************************)
(* Lemma: the mark of an offer nobody was shown is deleted.                *)
(***************************************************************************)
LEMMA DropMarkIs ==
  ASSUME MarksAssumption, Typed, NEW r \in Requests, DropMark(r)
  PROVE  /\ Moves(r)
         /\ request[r].phase = "drop_mark" /\ request'[r].phase = "get_back"
         /\ request'[r].passed = request[r].passed
         /\ \E c \in request[r].unserved :
              /\ marked' = marked \ {c}
              /\ request'[r].unserved = request[r].unserved \ {c}
         /\ UNCHANGED <<count, shown>>
<1> DEFINE q == request[r]
<1>1. PICK c \in q.unserved :
        /\ marked' = marked \ {c}
        /\ request' = [request EXCEPT ![r].phase = "get_back",
                                      ![r].unserved = request[r].unserved \ {c}]
  BY DEF DropMark, Typed, TypeOK
<1>2. q \in Request /\ q.phase = "drop_mark" /\ UNCHANGED <<count, shown>>
      /\ HistoryKept
  BY NothingNoted DEF Typed, TypeOK, DropMark, At
<1>3. PICK new : new = [q EXCEPT !.phase = "get_back", !.unserved = q.unserved \ {c}]
  OBVIOUS
<1>4. /\ new \in Request /\ new.phase = "get_back" /\ new.passed = q.passed
      /\ new.unserved = q.unserved \ {c}
  BY <1>2, <1>3 DEF Request, Phases
<1>5. request' = [request EXCEPT ![r] = new]
  BY <1>1, <1>3 DEF Typed, TypeOK
<1>6. Becomes(r, new)
  BY <1>4, <1>5, Moved DEF Typed
<1>7. Typed'
  BY <1>1, <1>2, <1>4, <1>6, MovedTyped DEF Typed, TypeOK, Ranked
<1>8. QED
  BY <1>1, <1>2, <1>4, <1>6, <1>7 DEF Becomes, Moves

(***************************************************************************)
(* Lemma: the counter is read to be given back, unless there is none.      *)
(***************************************************************************)
LEMMA GetBackIs ==
  ASSUME MarksAssumption, Typed, NEW r \in Requests, GetBack(r)
  PROVE  /\ Moves(r)
         /\ request[r].phase = "get_back"
         /\ request'[r].passed \subseteq request[r].passed
         /\ request'[r].unserved = request[r].unserved
         /\ \/ /\ request'[r].phase \in {"over", "drop_mark"}
               /\ request'[r].phase = "over" => request'[r].unserved = {}
            \/ /\ request'[r].phase = "set_back" /\ request'[r].read = count
               /\ raced' \/ ~Counting(r)
         /\ UNCHANGED <<marked, count, shown>>
<1> DEFINE q == request[r]
<1>1. q \in Request /\ q.phase = "get_back" /\ count \in 0 .. Limit
      /\ UNCHANGED <<marked, count, shown>>
      /\ HistoryKept /\ (count = 0 \/ raced' \/ ~Counting(r))
  BY DEF Typed, TypeOK, GetBack, At, HistoryKept
<1>2. request' = [request EXCEPT ![r] = IF count = 0 THEN NextRelease(q)
                                        ELSE [q EXCEPT !.phase = "set_back", !.read = count]]
  BY DEF GetBack
<1>3. CASE count = 0
  <2>1. PICK new : new = NextRelease(q)
    OBVIOUS
  <2>2. /\ new \in Request /\ new.phase \in {"over", "drop_mark"}
        /\ new.phase = "over" => new.unserved = {}
        /\ new.passed \subseteq q.passed /\ new.unserved = q.unserved
    BY <1>1, <2>1, NextReleaseIs
  <2>3. Becomes(r, new)
    BY <1>2, <1>3, <2>1, <2>2, Moved DEF Typed
  <2>4. Typed'
    BY <1>1, <2>2, <2>3, MovedTyped DEF Typed, TypeOK, Ranked
  <2>5. QED
    BY <1>1, <2>2, <2>3, <2>4 DEF Becomes, Moves
<1>4. CASE count # 0
  <2>1. PICK new : new = [q EXCEPT !.phase = "set_back", !.read = count]
    OBVIOUS
  <2>2. /\ new \in Request /\ new.phase = "set_back" /\ new.read = count
        /\ new.passed = q.passed /\ new.unserved = q.unserved
    BY <1>1, <2>1 DEF Request, Phases
  <2>3. Becomes(r, new)
    BY <1>2, <1>4, <2>1, <2>2, Moved DEF Typed
  <2>4. count > 0
    BY <1>1, <1>4 DEF MarksAssumption
  <2>5. Typed'
    BY <1>1, <2>2, <2>3, <2>4, MovedTyped DEF Typed, TypeOK, Ranked
  <2>6. QED
    BY <1>1, <1>4, <2>2, <2>3, <2>5 DEF Becomes, Moves
<1>5. QED
  BY <1>3, <1>4

(***************************************************************************)
(* Lemma: one less than was read is written.                               *)
(***************************************************************************)
LEMMA SetBackIs ==
  ASSUME MarksAssumption, Typed, NEW r \in Requests, SetBack(r)
  PROVE  /\ Moves(r)
         /\ request[r].phase = "set_back" /\ request'[r].phase \in {"over", "drop_mark"}
         /\ request'[r].phase = "over" => request'[r].unserved = {}
         /\ request'[r].passed \subseteq request[r].passed
         /\ request'[r].unserved = request[r].unserved
         /\ count' = request[r].read - 1
         /\ UNCHANGED <<marked, shown>>
<1> DEFINE q == request[r]
<1>1. q \in Request /\ q.phase = "set_back" /\ q.read > 0
  BY DEF Typed, TypeOK, ReadsFit, SetBack, At
<1>2. count' = q.read - 1 /\ UNCHANGED <<marked, shown>> /\ HistoryKept
  BY NothingNoted DEF SetBack, OneLess
<1>3. PICK new : new = NextRelease(q)
  OBVIOUS
<1>4. /\ new \in Request /\ new.phase \in {"over", "drop_mark"}
      /\ new.phase = "over" => new.unserved = {}
      /\ new.passed \subseteq q.passed /\ new.unserved = q.unserved
  BY <1>1, <1>3, NextReleaseIs
<1>5. request' = [request EXCEPT ![r] = new]
  BY <1>3 DEF SetBack, Typed, TypeOK
<1>6. Becomes(r, new)
  BY <1>4, <1>5, Moved DEF Typed
<1>7. count' \in 0 .. Limit
  BY <1>1, <1>2 DEF Request, MarksAssumption
<1>8. Typed'
  BY <1>2, <1>4, <1>6, <1>7, MovedTyped DEF Typed, TypeOK, Ranked
<1>9. QED
  BY <1>1, <1>2, <1>4, <1>6, <1>8 DEF Becomes, Moves

(***************************************************************************)
(* Lemma: a release that fails leaves its mark or its count behind.        *)
(***************************************************************************)
LEMMA ReleaseFailsIs ==
  ASSUME MarksAssumption, Typed, NEW r \in Requests, ReleaseFails(r)
  PROVE  /\ Moves(r)
         /\ request[r].phase \in Releasing /\ request'[r].phase \in {"over", "drop_mark"}
         /\ request'[r].phase = "over" => request'[r].unserved = {}
         /\ request'[r].passed \subseteq request[r].passed
         /\ request'[r].unserved \subseteq request[r].unserved
         /\ UNCHANGED <<marked, count, shown>>
<1> DEFINE q == request[r]
<1>1. q \in Request /\ q.phase \in Releasing /\ UNCHANGED <<marked, count, shown>>
      /\ HistoryKept
  BY NothingNoted DEF Typed, TypeOK, ReleaseFails, At, Releasing
<1>2. PICK left \in SUBSET q.unserved :
        request' = [request EXCEPT ![r] = NextRelease([q EXCEPT !.unserved = left])]
  <2>1. CASE \E c \in q.unserved :
               request' = [request EXCEPT ![r] = NextRelease([q EXCEPT !.unserved = @ \ {c}])]
    BY <1>1, <2>1 DEF Request
  <2>2. CASE request' = [request EXCEPT ![r] = NextRelease(q)]
    <3>1. q = [q EXCEPT !.unserved = q.unserved]
      BY <1>1 DEF Request
    <3>2. QED
      BY <2>2, <3>1
  <2>3. QED
    BY <2>1, <2>2 DEF ReleaseFails
<1>3. PICK rest : rest = [q EXCEPT !.unserved = left]
  OBVIOUS
<1>4. rest \in Request /\ rest.passed = q.passed /\ rest.unserved = left
  BY <1>1, <1>3 DEF Request
<1>5. PICK new : new = NextRelease(rest)
  OBVIOUS
<1>6. /\ new \in Request /\ new.phase \in {"over", "drop_mark"}
      /\ new.phase = "over" => new.unserved = {}
      /\ new.passed \subseteq q.passed /\ new.unserved = left
  BY <1>4, <1>5, NextReleaseIs
<1>7. Becomes(r, new)
  BY <1>2, <1>3, <1>5, <1>6, Moved DEF Typed
<1>8. Typed'
  BY <1>1, <1>6, <1>7, MovedTyped DEF Typed, TypeOK, Ranked
<1>9. QED
  BY <1>1, <1>6, <1>7, <1>8 DEF Becomes, Moves

(***************************************************************************)
(* Lemma: a request that fails is over, and leaves everything behind.      *)
(***************************************************************************)
LEMMA FailIs ==
  ASSUME MarksAssumption, Typed, NEW r \in Requests, Fail(r)
  PROVE  /\ Moves(r)
         /\ r \in Running
         /\ request'[r].phase = "over"
         /\ request'[r].passed = {} /\ request'[r].unserved = {}
         /\ UNCHANGED <<marked, count, shown>>
<1>1. /\ Blank("over") \in Request /\ Blank("over").phase = "over"
      /\ Blank("over").passed = {} /\ Blank("over").unserved = {}
  BY BlankTyped DEF Phases
<1>2. Becomes(r, Blank("over"))
  BY <1>1, Moved DEF Fail, Typed
<1>3. HistoryKept
  BY NothingNoted DEF Fail
<1>4. Typed'
  BY <1>1, <1>2, <1>3, MovedTyped DEF Fail, Typed, TypeOK, Ranked
<1>5. QED
  BY <1>1, <1>2, <1>3, <1>4 DEF Fail, Becomes, Moves

(***************************************************************************)
(* Lemma: the types hold at first and are kept.                            *)
(***************************************************************************)
LEMMA InitMarksTyped ==
  ASSUME MarksAssumption, Init
  PROVE  Typed
<1>1. Blank("new") \in Request /\ Blank("new").phase = "new"
  BY BlankTyped DEF Phases
<1>2. TypeOK
  <2>1. request \in [Requests -> Request]
    BY <1>1 DEF Init
  <2>2. count \in 0 .. Limit
    BY DEF Init, MarksAssumption
  <2>3. marked \subseteq Campaigns /\ shown \subseteq Campaigns \X Requests
        /\ contended \subseteq Campaigns /\ raced \in BOOLEAN
    BY DEF Init
  <2>4. QED
    BY <2>1, <2>2, <2>3 DEF TypeOK
<1>3. ReadsFit
  BY <1>1 DEF Init, ReadsFit, Ranked
<1>4. QED
  BY <1>2, <1>3 DEF Typed

(***************************************************************************)
(* Theorem: the types hold in every state; the counter in Redis never      *)
(* leaves 0 .. Limit, however many requests overlap: what a request writes *)
(* is one more than a count below the limit, or one less than a positive   *)
(* one, however old.                                                       *)
(***************************************************************************)
THEOREM MarksTyped ==
  ASSUME MarksAssumption
  PROVE  Spec => []TypeOK
<1>1. Init => Typed
  BY InitMarksTyped
<1>2. Typed /\ [Next]_vars => Typed'
  <2> SUFFICES ASSUME Typed, [Next]_vars
               PROVE  Typed'
      OBVIOUS
  <2>1. CASE UNCHANGED vars
    BY <2>1 DEF vars, Typed, TypeOK, ReadsFit
  <2>2. ASSUME NEW r \in Requests,
               \/ Start(r) \/ GetMark(r) \/ SetMark(r) \/ GetCount(r) \/ SetCount(r)
               \/ Persist(r) \/ DropMark(r) \/ GetBack(r) \/ SetBack(r)
               \/ ReleaseFails(r) \/ Fail(r)
        PROVE  Typed'
    BY <2>2, StartIs, GetMarkIs, SetMarkIs, GetCountIs, SetCountIs, PersistIs, DropMarkIs,
       GetBackIs, SetBackIs, ReleaseFailsIs, FailIs DEF Moves
  <2>3. QED
    BY <2>1, <2>2 DEF Next
<1>3. Typed => TypeOK
  BY DEF Typed
<1>4. QED
  BY <1>1, <1>2, <1>3, PTL DEF Spec

-----------------------------------------------------------------------------
(***************************************************************************)
(* The inductive invariant of the contact policy, for any number of        *)
(* requests at once.  A request holds a campaign from the GET that found   *)
(* no mark until the offer is shown, rejected or released.                 *)
(***************************************************************************)
IsShown(c) == \E s \in shown : s[1] = c

Candidate(r, c) == Head(request[r].todo) = c

Offered(r, c) == c \in request[r].passed \/ c \in request[r].unserved

HasMark(r, c) ==
  Offered(r, c) \/ (request[r].phase \in {"get_count", "set_count"} /\ Candidate(r, c))

Holds(r, c) == HasMark(r, c) \/ (request[r].phase = "set_mark" /\ Candidate(r, c))

\* Of a campaign no two requests were marking at once: one request holds it,
\* and only while nobody was shown it; its mark stays until it is taken back.
MarkInv(c) ==
  /\ \A r, s \in Requests : Holds(r, c) /\ Holds(s, c) => r = s
  /\ \A r \in Requests : Holds(r, c) => ~IsShown(c)
  /\ \A r \in Requests : HasMark(r, c) => c \in marked
  /\ ShownOnce(c) /\ Remembered(c)

\* What a request holds goes through its phases in order.
PhasesFit(r) ==
  /\ request[r].phase \notin Ranked \cup {"persist"} => request[r].passed = {}
  /\ request[r].phase \notin Releasing => request[r].unserved = {}
  /\ request[r].phase \in Ranked \cup {"new", "persist"} => \A s \in shown : s[2] # r
  /\ \A c \in request[r].unserved : <<c, r>> \notin shown

\* As long as no two requests were writing the count at once: one of them
\* writes it at a time, and it is what that one has read.
Writes(r) == request[r].phase \in {"set_count", "set_back"}

OneWriter ==
  \A r \in Requests : Writes(r) => /\ request[r].read = count
                                   /\ \A s \in Requests : Writes(s) => s = r

\* Then the count covers the offers that were shown, those that still may be,
\* and those whose mark is gone and whose count is about to go.
Counted == shown \cup {p \in Campaigns \X Requests : Offered(p[2], p[1])}

GivingBack == {r \in Requests : request[r].phase \in {"get_back", "set_back"}}

Covered == Cardinality(Counted) + Cardinality(GivingBack) <= count

ContactInv ==
  /\ Typed
  /\ \A r \in Requests : PhasesFit(r)
  /\ \A c \in Campaigns \ contended : MarkInv(c)
  /\ ~raced => OneWriter /\ Covered

-----------------------------------------------------------------------------
(***************************************************************************)
(* Lemma: a request that holds no more campaigns than before disturbs      *)
(* nobody's, as long as no mark goes.                                      *)
(***************************************************************************)
LEMMA HoldsNoMore ==
  ASSUME NEW c, MarkInv(c), NEW r \in Requests, Moves(r),
         shown' = shown, marked \subseteq marked',
         Holds(r, c)' => Holds(r, c),
         HasMark(r, c)' => HasMark(r, c) \/ c \in marked'
  PROVE  MarkInv(c)'
<1>1. \A s \in Requests : Holds(s, c)' => Holds(s, c)
  BY DEF Moves, Holds, HasMark, Offered, Candidate
<1>2. \A s \in Requests : HasMark(s, c)' => c \in marked'
  BY DEF MarkInv, Moves, HasMark, Offered, Candidate
<1>3. IsShown(c)' <=> IsShown(c)
  BY DEF IsShown
<1>4. ShownOnce(c)' /\ Remembered(c)'
  BY DEF MarkInv, ShownOnce, Remembered
<1>5. QED
  BY <1>1, <1>2, <1>3, <1>4 DEF MarkInv

(***************************************************************************)
(* Lemma: a candidate with no mark is nobody's, unless another request is  *)
(* about to mark it: then it is contended.                                 *)
(***************************************************************************)
LEMMA LookingKeepsMarks ==
  ASSUME MarksAssumption, Typed, NEW r \in Requests, GetMark(r),
         NEW c \in Campaigns \ contended', MarkInv(c)
  PROVE  MarkInv(c)'
<1>1. /\ Moves(r) /\ request[r].phase = "get_mark"
      /\ request'[r].passed = request[r].passed
      /\ request'[r].unserved = request[r].unserved
      /\ \/ request'[r].phase \in {"persist", "get_mark"}
         \/ /\ request'[r].phase = "set_mark"
            /\ request'[r].todo = request[r].todo
            /\ Head(request[r].todo) \notin marked
            /\ \/ Head(request[r].todo) \in contended'
               \/ ~Marking(r, Head(request[r].todo))
      /\ UNCHANGED <<marked, shown>>
  BY GetMarkIs DEF GetMark
<1>2. HasMark(r, c)' => HasMark(r, c)
  BY <1>1 DEF HasMark, Offered
<1>3. CASE ~(request'[r].phase = "set_mark" /\ Candidate(r, c))
  <2>1. Holds(r, c)' => Holds(r, c)
    BY <1>1, <1>2, <1>3 DEF Holds, Candidate
  <2>2. QED
    BY <1>1, <1>2, <2>1, HoldsNoMore
<1>4. CASE request'[r].phase = "set_mark" /\ Candidate(r, c)
  <2>1. c \notin marked /\ ~Marking(r, c)
    BY <1>1, <1>4 DEF Candidate
  <2>2. ~IsShown(c)
    BY <2>1 DEF MarkInv, Remembered, IsShown
  <2>3. \A s \in Requests : ~HasMark(s, c)
    BY <2>1 DEF MarkInv
  <2>4. \A s \in Requests \ {r} : ~Holds(s, c)
    BY <2>1, <2>3 DEF Holds, Marking, At, Candidate
  <2>5. \A s \in Requests \ {r} : ~(Holds(s, c)')
    BY <1>1, <2>4 DEF Moves, Holds, HasMark, Offered, Candidate
  <2>6. \A s \in Requests : ~(HasMark(s, c)')
    BY <1>1, <1>2, <2>3, <2>5 DEF Holds
  <2>7. ~(IsShown(c)') /\ ShownOnce(c)' /\ Remembered(c)'
    BY <1>1, <2>2 DEF MarkInv, IsShown, ShownOnce, Remembered
  <2>8. QED
    BY <2>5, <2>6, <2>7 DEF MarkInv
<1>5. QED
  BY <1>3, <1>4

(***************************************************************************)
(* Lemma: an offer that is stored was its request's alone, and new to the  *)
(* user; the rest it still holds.                                          *)
(***************************************************************************)
LEMMA ShowingKeepsMarks ==
  ASSUME MarksAssumption, Typed, NEW r \in Requests, Persist(r), PhasesFit(r),
         NEW c \in Campaigns, MarkInv(c)
  PROVE  MarkInv(c)'
<1>1. PICK stored \in SUBSET request[r].passed :
        /\ shown' = shown \cup (stored \X {r})
        /\ request'[r].unserved = request[r].passed \ stored
  BY PersistIs
<1>2. /\ Moves(r) /\ request[r].phase = "persist"
      /\ request'[r].phase \in {"over", "drop_mark"} /\ request'[r].passed = {}
      /\ marked' = marked
  BY PersistIs
<1>3. \A s \in Requests \ {r} :
        (Holds(s, c)' <=> Holds(s, c)) /\ (HasMark(s, c)' <=> HasMark(s, c))
  BY <1>2 DEF Moves, Holds, HasMark, Offered, Candidate
<1>4. Holds(r, c)' => c \in request[r].passed \ stored
  BY <1>1, <1>2 DEF Holds, HasMark, Offered
<1>5. HasMark(r, c)' => HasMark(r, c)
  BY <1>1, <1>2 DEF HasMark, Offered
<1>6. CASE c \in stored
  <2>1. Holds(r, c) /\ c \in marked /\ ~IsShown(c)
    BY <1>6 DEF MarkInv, Holds, HasMark, Offered
  <2>2. \A s \in Requests : ~(Holds(s, c)')
    BY <1>3, <1>4, <1>6, <2>1 DEF MarkInv
  <2>3. \A s \in shown' : s[1] = c => s = <<c, r>>
    BY <1>1, <2>1 DEF IsShown
  <2>4. ShownOnce(c)' /\ Remembered(c)'
    BY <1>2, <2>1, <2>3 DEF ShownOnce, Remembered
  <2>5. \A s \in Requests : ~(HasMark(s, c)')
    BY <2>2 DEF Holds
  <2>6. QED
    BY <2>2, <2>4, <2>5 DEF MarkInv
<1>7. CASE c \notin stored
  <2>1. \A s \in shown' : s[1] = c => s \in shown
    BY <1>1, <1>7
  <2>2. shown \subseteq shown'
    BY <1>1
  <2>3. (IsShown(c)' <=> IsShown(c)) /\ ShownOnce(c)' /\ Remembered(c)'
    BY <1>2, <2>1, <2>2 DEF MarkInv, IsShown, ShownOnce, Remembered
  <2>4. Holds(r, c)' => Holds(r, c)
    BY <1>4 DEF Holds, HasMark, Offered
  <2>5. \A s \in Requests : (Holds(s, c)' => Holds(s, c)) /\ (HasMark(s, c)' => HasMark(s, c))
    BY <1>3, <1>5, <2>4
  <2>6. QED
    BY <1>2, <2>3, <2>5 DEF MarkInv
<1>8. QED
  BY <1>6, <1>7

(***************************************************************************)
(* Lemma: the mark that is deleted is that of an offer nobody was shown    *)
(* and nobody else holds.                                                  *)
(***************************************************************************)
LEMMA ReleasingKeepsMarks ==
  ASSUME MarksAssumption, Typed, NEW r \in Requests, DropMark(r), PhasesFit(r),
         NEW c \in Campaigns, MarkInv(c)
  PROVE  MarkInv(c)'
<1>1. PICK d \in request[r].unserved :
        marked' = marked \ {d} /\ request'[r].unserved = request[r].unserved \ {d}
  BY DropMarkIs
<1>2. /\ Moves(r) /\ request[r].phase = "drop_mark" /\ request'[r].phase = "get_back"
      /\ request'[r].passed = request[r].passed /\ shown' = shown
  BY DropMarkIs
<1>3. request[r].passed = {}
  BY <1>2 DEF PhasesFit, Ranked
<1>4. \A s \in Requests \ {r} :
        (Holds(s, c)' <=> Holds(s, c)) /\ (HasMark(s, c)' <=> HasMark(s, c))
  BY <1>2 DEF Moves, Holds, HasMark, Offered, Candidate
<1>5. Holds(r, c)' => c # d /\ HasMark(r, c)
  BY <1>1, <1>2, <1>3 DEF Holds, HasMark, Offered
<1>6. (IsShown(c)' <=> IsShown(c)) /\ ShownOnce(c)'
  BY <1>2 DEF MarkInv, IsShown, ShownOnce
<1>7. CASE c = d
  <2>1. Holds(r, c)
    BY <1>7 DEF Holds, HasMark, Offered
  <2>2. \A s \in Requests : ~(Holds(s, c)')
    BY <1>4, <1>5, <1>7, <2>1 DEF MarkInv
  <2>3. \A s \in Requests : ~(HasMark(s, c)')
    BY <2>2 DEF Holds
  <2>4. ~(IsShown(c)')
    BY <1>6, <2>1 DEF MarkInv
  <2>5. Remembered(c)'
    BY <2>4 DEF Remembered, IsShown
  <2>6. QED
    BY <1>6, <2>2, <2>3, <2>4, <2>5 DEF MarkInv
<1>8. CASE c # d
  <2>1. c \in marked' <=> c \in marked
    BY <1>1, <1>8
  <2>2. \A s \in Requests : (Holds(s, c)' => Holds(s, c)) /\ (HasMark(s, c)' => HasMark(s, c))
    BY <1>4, <1>5 DEF Holds
  <2>3. Remembered(c)'
    BY <1>2, <2>1 DEF MarkInv, Remembered
  <2>4. QED
    BY <1>6, <2>1, <2>2, <2>3 DEF MarkInv
<1>9. QED
  BY <1>7, <1>8

(***************************************************************************)
(* Lemma: whatever a request does, a campaign that is not contended keeps  *)
(* its invariant.                                                          *)
(***************************************************************************)
LEMMA MarksGoOn ==
  ASSUME MarksAssumption, ContactInv, NEW r \in Requests,
         \/ Start(r) \/ GetMark(r) \/ SetMark(r) \/ GetCount(r) \/ SetCount(r)
         \/ Persist(r) \/ DropMark(r) \/ GetBack(r) \/ SetBack(r)
         \/ ReleaseFails(r) \/ Fail(r),
         NEW c \in Campaigns \ contended'
  PROVE  MarkInv(c)'
<1>1. Typed /\ PhasesFit(r)
  BY DEF ContactInv
<1>2. Moves(r)
  BY <1>1, StartIs, GetMarkIs, SetMarkIs, GetCountIs, SetCountIs, PersistIs, DropMarkIs,
     GetBackIs, SetBackIs, ReleaseFailsIs, FailIs
<1>3. MarkInv(c)
  BY <1>2 DEF ContactInv, Moves, HistoryKept
<1>4. CASE GetMark(r)
  BY <1>1, <1>3, <1>4, LookingKeepsMarks
<1>5. CASE Persist(r)
  BY <1>1, <1>3, <1>5, ShowingKeepsMarks
<1>6. CASE DropMark(r)
  BY <1>1, <1>3, <1>6, ReleasingKeepsMarks
<1>7. CASE SetMark(r)
  <2>1. /\ request[r].phase = "set_mark" /\ request'[r].phase = "get_count"
        /\ request'[r].todo = request[r].todo
        /\ request'[r].passed = request[r].passed
        /\ request'[r].unserved = request[r].unserved
        /\ marked' = marked \cup {Head(request[r].todo)} /\ shown' = shown
    BY <1>1, <1>7, SetMarkIs
  <2>2. HasMark(r, c)' => HasMark(r, c) \/ c \in marked'
    BY <2>1 DEF HasMark, Offered, Candidate
  <2>3. Holds(r, c)' => Holds(r, c)
    BY <2>1 DEF Holds, HasMark, Offered, Candidate
  <2>4. QED
    BY <1>2, <1>3, <2>1, <2>2, <2>3, HoldsNoMore
<1>8. CASE GetCount(r) \/ SetCount(r)
  <2>1. /\ UNCHANGED <<marked, shown>>
        /\ request[r].phase \in {"get_count", "set_count"}
        /\ request'[r].phase \in {"persist", "get_mark", "set_count"}
        /\ request'[r].phase = "set_count" => request'[r].todo = request[r].todo
        /\ request'[r].passed \in {request[r].passed,
                                   request[r].passed \cup {Head(request[r].todo)}}
        /\ request'[r].unserved = request[r].unserved
    BY <1>1, <1>8, GetCountIs, SetCountIs
  <2>2. HasMark(r, c)' => HasMark(r, c)
    BY <2>1 DEF HasMark, Offered, Candidate
  <2>3. Holds(r, c)' => Holds(r, c)
    BY <2>1, <2>2 DEF Holds
  <2>4. QED
    BY <1>2, <1>3, <2>1, <2>2, <2>3, HoldsNoMore
<1>9. CASE Start(r) \/ GetBack(r) \/ SetBack(r) \/ ReleaseFails(r) \/ Fail(r)
  <2>1. /\ UNCHANGED <<marked, shown>>
        /\ request'[r].phase \in {"get_mark", "over", "drop_mark", "set_back"}
        /\ request'[r].passed \subseteq request[r].passed
        /\ request'[r].unserved \subseteq request[r].unserved
    BY <1>1, <1>9, StartIs, GetBackIs, SetBackIs, ReleaseFailsIs, FailIs DEF Start
  <2>2. HasMark(r, c)' => HasMark(r, c)
    BY <2>1 DEF HasMark, Offered
  <2>3. Holds(r, c)' => Holds(r, c)
    BY <2>1, <2>2 DEF Holds
  <2>4. QED
    BY <1>2, <1>3, <2>1, <2>2, <2>3, HoldsNoMore
<1>10. QED
  BY <1>4, <1>5, <1>6, <1>7, <1>8, <1>9

-----------------------------------------------------------------------------
(***************************************************************************)
(* Lemma: every request keeps to the order of its phases.                  *)
(***************************************************************************)
LEMMA OrderGoesOn ==
  ASSUME MarksAssumption, ContactInv, NEW r \in Requests,
         \/ Start(r) \/ GetMark(r) \/ SetMark(r) \/ GetCount(r) \/ SetCount(r)
         \/ Persist(r) \/ DropMark(r) \/ GetBack(r) \/ SetBack(r)
         \/ ReleaseFails(r) \/ Fail(r)
  PROVE  Moves(r) /\ \A d \in Requests : PhasesFit(d)'
<1> USE DEF Ranked, Releasing
<1>1. Typed /\ PhasesFit(r) /\ \A d \in Requests : PhasesFit(d)
  BY DEF ContactInv
<1>2. Moves(r)
  BY <1>1, StartIs, GetMarkIs, SetMarkIs, GetCountIs, SetCountIs, PersistIs, DropMarkIs,
     GetBackIs, SetBackIs, ReleaseFailsIs, FailIs
<1>3. CASE Persist(r)
  <2>1. PICK stored \in SUBSET request[r].passed :
          /\ shown' = shown \cup (stored \X {r})
          /\ request'[r].unserved = request[r].passed \ stored
    BY <1>1, <1>3, PersistIs
  <2>2. /\ request[r].phase = "persist" /\ request'[r].phase \in {"over", "drop_mark"}
        /\ request'[r].phase = "over" => request'[r].unserved = {}
        /\ request'[r].passed = {}
    BY <1>1, <1>3, PersistIs
  <2>3. \A s \in shown' : s \in shown \/ (s[2] = r /\ s[1] \in stored)
    BY <2>1
  <2>4. \A s \in shown : s[2] # r
    BY <1>1, <2>2 DEF PhasesFit
  <2>5. \A c \in request'[r].unserved : <<c, r>> \notin shown'
    <3>1. SUFFICES ASSUME NEW c \in request[r].passed \ stored, <<c, r>> \in shown'
                   PROVE  FALSE
      BY <2>1
    <3>2. <<c, r>> \in shown
      BY <2>3, <3>1
    <3>3. QED
      BY <2>4, <3>2
  <2>6. PhasesFit(r)'
    BY <2>2, <2>5 DEF PhasesFit
  <2>7. ASSUME NEW d \in Requests \ {r}
        PROVE  PhasesFit(d)'
    <3>1. request'[d] = request[d] /\ PhasesFit(d)
      BY <1>1, <1>2 DEF Moves
    <3>2. \A s \in shown' : s[2] = d => s \in shown
      BY <2>3
    <3>3. \A c : <<c, d>> \in shown' => <<c, d>> \in shown
      BY <2>3
    <3>4. QED
      BY <3>1, <3>2, <3>3 DEF PhasesFit
  <2>8. QED
    BY <1>2, <2>6, <2>7
<1>4. CASE ~Persist(r)
  <2>1. shown' = shown
    BY <1>4 DEF Start, GetMark, SetMark, GetCount, SetCount, DropMark, GetBack, SetBack,
                ReleaseFails, Fail
  <2>2. \A d \in Requests \ {r} : PhasesFit(d)'
    BY <1>1, <1>2, <2>1 DEF Moves, PhasesFit
  <2>3. CASE Start(r) \/ GetMark(r) \/ SetMark(r) \/ GetCount(r) \/ SetCount(r)
    <3>1. /\ request[r].phase \in Ranked \cup {"new"}
          /\ request'[r].phase \in Ranked \cup {"persist"}
          /\ request'[r].unserved = request[r].unserved
      BY <1>1, <2>3, StartIs, GetMarkIs, SetMarkIs, GetCountIs, SetCountIs
    <3>2. PhasesFit(r)'
      BY <1>1, <2>1, <3>1 DEF PhasesFit
    <3>3. QED
      BY <1>2, <2>2, <3>2
  <2>4. CASE DropMark(r) \/ GetBack(r) \/ SetBack(r) \/ ReleaseFails(r) \/ Fail(r)
    <3>1. /\ request[r].phase \in Releasing \/ request'[r].passed = {}
          /\ request'[r].phase \in Releasing \cup {"over"}
          /\ request'[r].phase = "over" => request'[r].unserved = {}
          /\ request'[r].passed \subseteq request[r].passed
          /\ request'[r].unserved \subseteq request[r].unserved
      BY <1>1, <2>4, DropMarkIs, GetBackIs, SetBackIs, ReleaseFailsIs, FailIs
    <3>2. request'[r].passed = {}
      BY <1>1, <3>1 DEF PhasesFit
    <3>3. PhasesFit(r)'
      BY <1>1, <2>1, <3>1, <3>2 DEF PhasesFit
    <3>4. QED
      BY <1>2, <2>2, <3>3
  <2>5. QED
    BY <1>4, <2>3, <2>4
<1>5. QED
  BY <1>3, <1>4

-----------------------------------------------------------------------------
(***************************************************************************)
(* Lemma: one request still writes the count at a time.                    *)
(***************************************************************************)
LEMMA OneWriterGoesOn ==
  ASSUME OneWriter, NEW r \in Requests, Moves(r),
         count' = count \/ Writes(r),
         Writes(r)' => request'[r].read = count /\ count' = count /\ ~Counting(r)
  PROVE  OneWriter'
<1>1. \A d \in Requests \ {r} : Writes(d)' <=> Writes(d)
  BY DEF Moves, Writes
<1>2. CASE Writes(r)'
  <2>1. \A d \in Requests \ {r} : ~Writes(d)
    BY <1>2 DEF Counting, At, Writes
  <2>2. QED
    BY <1>1, <1>2, <2>1 DEF OneWriter
<1>3. CASE ~(Writes(r)')
  <2>1. \A d \in Requests \ {r} : Writes(d) => count' = count
    BY DEF OneWriter
  <2>2. \A d \in Requests \ {r} : request'[d] = request[d]
    BY DEF Moves
  <2>3. QED
    BY <1>1, <1>3, <2>1, <2>2 DEF OneWriter
<1>4. QED
  BY <1>2, <1>3

(***************************************************************************)
(* Lemma: what is to be covered is finite.                                 *)
(***************************************************************************)
LEMMA CountedIsFinite ==
  ASSUME MarksAssumption, Typed
  PROVE  /\ IsFiniteSet(Counted) /\ IsFiniteSet(GivingBack)
         /\ Cardinality(Counted) \in Nat /\ Cardinality(GivingBack) \in Nat
         /\ count \in Nat
<1>1. IsFiniteSet(Campaigns \X Requests)
  BY FS_Product DEF MarksAssumption
<1>2. Counted \subseteq Campaigns \X Requests /\ GivingBack \subseteq Requests
  BY DEF Counted, GivingBack, Typed, TypeOK
<1>3. IsFiniteSet(Counted) /\ IsFiniteSet(GivingBack)
  BY <1>1, <1>2, FS_Subset DEF MarksAssumption
<1>4. count \in Nat
  BY DEF Typed, TypeOK, MarksAssumption
<1>5. QED
  BY <1>3, <1>4, FS_CardinalityType

(***************************************************************************)
(* Lemma: what is offered only by the request that moves.                  *)
(***************************************************************************)
LEMMA CountedOfOthers ==
  ASSUME NEW r \in Requests, Moves(r), NEW p \in Campaigns \X Requests, p[2] # r
  PROVE  Offered(p[2], p[1])' <=> Offered(p[2], p[1])
<1>1. p[2] \in Requests \ {r}
  OBVIOUS
<1>2. request'[p[2]] = request[p[2]]
  BY <1>1 DEF Moves
<1>3. QED
  BY <1>2 DEF Offered

(***************************************************************************)
(* Lemma: as long as no two requests wrote the count at once, it covers    *)
(* what was shown and what is still offered, whatever a request does.      *)
(***************************************************************************)
LEMMA CountGoesOn ==
  ASSUME MarksAssumption, ContactInv, NEW r \in Requests,
         \/ Start(r) \/ GetMark(r) \/ SetMark(r) \/ GetCount(r) \/ SetCount(r)
         \/ Persist(r) \/ DropMark(r) \/ GetBack(r) \/ SetBack(r)
         \/ ReleaseFails(r) \/ Fail(r),
         Moves(r), ~(raced')
  PROVE  OneWriter' /\ Covered'
<1>1. Typed /\ PhasesFit(r) /\ Typed' /\ ~raced
  BY DEF ContactInv, Moves, HistoryKept
<1>2. OneWriter /\ Covered
  BY <1>1 DEF ContactInv
<1> DEFINE n == Cardinality(Counted)
<1> DEFINE k == Cardinality(GivingBack)
<1> DEFINE m == Cardinality(Counted')
<1> DEFINE l == Cardinality(GivingBack')
<1>3. /\ IsFiniteSet(Counted) /\ IsFiniteSet(GivingBack)
      /\ n \in Nat /\ k \in Nat /\ count \in Nat
  BY <1>1, CountedIsFinite
<1>4. IsFiniteSet(Counted') /\ IsFiniteSet(GivingBack') /\ m \in Nat /\ l \in Nat /\ count' \in Nat
  <2>1. Typed' => /\ IsFiniteSet(Counted') /\ IsFiniteSet(GivingBack')
                  /\ Cardinality(Counted') \in Nat /\ Cardinality(GivingBack') \in Nat
                  /\ count' \in Nat
    <3>1. IsFiniteSet(Campaigns \X Requests)
      BY FS_Product DEF MarksAssumption
    <3>2. Typed' => Counted' \subseteq Campaigns \X Requests /\ GivingBack' \subseteq Requests
                    /\ count' \in Nat
      BY DEF Counted, GivingBack, Typed, TypeOK, MarksAssumption
    <3>3. Typed' => IsFiniteSet(Counted') /\ IsFiniteSet(GivingBack')
      BY <3>1, <3>2, FS_Subset DEF MarksAssumption
    <3>4. QED
      BY <3>2, <3>3, FS_CardinalityType
  <2>2. QED
    BY <1>1, <2>1
<1>5. n + k <= count
  BY <1>2 DEF Covered
<1>6. SUFFICES OneWriter' /\ m + l <= count'
  BY DEF Covered
<1>7. \A p \in Campaigns \X Requests : p[2] # r => (Offered(p[2], p[1])' <=> Offered(p[2], p[1]))
  BY CountedOfOthers
<1>8. \A d \in Requests \ {r} : d \in GivingBack' <=> d \in GivingBack
  BY DEF Moves, GivingBack
<1> HIDE DEF n, k, m, l
<1>9. ASSUME shown' = shown,
             request'[r].passed \subseteq request[r].passed,
             request'[r].unserved \subseteq request[r].unserved
      PROVE  Counted' \subseteq Counted
  <2>1. \A p \in Campaigns \X Requests : Offered(p[2], p[1])' => Offered(p[2], p[1])
    BY <1>7, <1>9 DEF Offered
  <2>2. QED
    BY <1>9, <2>1 DEF Counted
<1>10. Counted' \subseteq Counted => m <= n
  BY <1>3, FS_Subset DEF m, n
<1>11. (r \in GivingBack' => r \in GivingBack) => l <= k
  <2>1. (r \in GivingBack' => r \in GivingBack) => GivingBack' \subseteq GivingBack
    BY <1>8 DEF GivingBack
  <2>2. QED
    BY <1>3, <2>1, FS_Subset DEF l, k
<1>12. CASE Start(r) \/ GetMark(r) \/ SetMark(r) \/ GetCount(r) \/ GetBack(r)
            \/ ReleaseFails(r) \/ Fail(r)
  <2>1. /\ shown' = shown /\ count' = count
        /\ request'[r].passed \subseteq request[r].passed
        /\ request'[r].unserved \subseteq request[r].unserved
        /\ Writes(r)' => request'[r].read = count /\ ~Counting(r)
        /\ r \in GivingBack' => r \in GivingBack
    <3>1. CASE Start(r) \/ GetMark(r) \/ SetMark(r)
      <4>1. /\ shown' = shown /\ count' = count
            /\ request'[r].phase \in {"get_mark", "set_mark", "get_count", "persist"}
            /\ request'[r].passed = request[r].passed
            /\ request'[r].unserved = request[r].unserved
        BY <1>1, <3>1, StartIs, GetMarkIs, SetMarkIs DEF Start, GetMark
      <4>2. QED
        BY <4>1 DEF Writes, GivingBack
    <3>2. CASE GetCount(r)
      <4>1. /\ shown' = shown /\ count' = count
            /\ request'[r].phase \in {"persist", "get_mark", "set_count"}
            /\ request'[r].phase = "set_count" => request'[r].read = count /\ ~Counting(r)
            /\ request'[r].passed = request[r].passed
            /\ request'[r].unserved = request[r].unserved
        BY <1>1, <3>2, GetCountIs
      <4>2. QED
        BY <4>1 DEF Writes, GivingBack
    <3>3. CASE GetBack(r)
      <4>1. /\ shown' = shown /\ count' = count /\ request[r].phase = "get_back"
            /\ request'[r].phase \in {"over", "drop_mark", "set_back"}
            /\ request'[r].phase = "set_back" => request'[r].read = count /\ ~Counting(r)
            /\ request'[r].passed \subseteq request[r].passed
            /\ request'[r].unserved = request[r].unserved
        BY <1>1, <3>3, GetBackIs
      <4>2. QED
        BY <4>1 DEF Writes, GivingBack
    <3>4. CASE ReleaseFails(r) \/ Fail(r)
      <4>1. /\ shown' = shown /\ count' = count
            /\ request'[r].phase \in {"over", "drop_mark"}
            /\ request'[r].passed \subseteq request[r].passed
            /\ request'[r].unserved \subseteq request[r].unserved
        BY <1>1, <3>4, ReleaseFailsIs, FailIs
      <4>2. QED
        BY <4>1 DEF Writes, GivingBack
    <3>5. QED
      BY <1>12, <3>1, <3>2, <3>3, <3>4
  <2>2. OneWriter'
    BY <1>2, <2>1, OneWriterGoesOn
  <2>3. m <= n /\ l <= k
    BY <1>9, <1>10, <1>11, <2>1
  <2>4. QED
    BY <1>3, <1>4, <1>5, <2>1, <2>2, <2>3
<1>13. CASE SetCount(r)
  <2>1. /\ request[r].phase = "set_count" /\ request'[r].phase \in {"persist", "get_mark"}
        /\ request'[r].passed \in {request[r].passed,
                                   request[r].passed \cup {Head(request[r].todo)}}
        /\ request'[r].unserved = request[r].unserved
        /\ count' = request[r].read + 1 /\ shown' = shown
    BY <1>1, <1>13, SetCountIs
  <2>2. OneWriter'
    BY <1>2, <2>1, OneWriterGoesOn DEF Writes
  <2>3. count' = count + 1
    BY <1>2, <2>1 DEF OneWriter, Writes
  <2>4. PICK new : new = <<Head(request[r].todo), r>>
    OBVIOUS
  <2>5. Counted' \subseteq Counted \cup {new}
    <3>1. SUFFICES ASSUME NEW p \in Campaigns \X Requests, Offered(p[2], p[1])'
                   PROVE  Offered(p[2], p[1]) \/ p = new
      BY <2>1 DEF Counted
    <3>2. CASE p[2] # r
      BY <1>7, <3>1, <3>2
    <3>3. CASE p[2] = r
      BY <2>1, <2>4, <3>1, <3>3 DEF Offered
    <3>4. QED
      BY <3>2, <3>3
  <2>6. m <= n + 1
    <3>1. /\ IsFiniteSet(Counted \cup {new})
          /\ Cardinality(Counted \cup {new}) \in {n, n + 1}
      BY <1>3, FS_AddElement DEF n
    <3>2. m <= Cardinality(Counted \cup {new})
      BY <2>5, <3>1, FS_Subset DEF m
    <3>3. QED
      BY <1>3, <1>4, <3>1, <3>2
  <2>7. l <= k
    BY <1>11, <2>1 DEF GivingBack
  <2>8. QED
    BY <1>3, <1>4, <1>5, <2>2, <2>3, <2>6, <2>7
<1>14. CASE Persist(r)
  <2>1. PICK stored \in SUBSET request[r].passed :
          /\ shown' = shown \cup (stored \X {r})
          /\ request'[r].unserved = request[r].passed \ stored
    BY <1>1, <1>14, PersistIs
  <2>2. /\ request'[r].phase \in {"over", "drop_mark"} /\ request'[r].passed = {}
        /\ count' = count
    BY <1>1, <1>14, PersistIs
  <2>3. OneWriter'
    BY <1>2, <2>2, OneWriterGoesOn DEF Writes
  <2>4. stored \X {r} \subseteq Counted
    <3>1. request[r].passed \subseteq Campaigns
      BY <1>1 DEF Typed, TypeOK, Request
    <3>2. \A p \in stored \X {r} : p \in Campaigns \X Requests /\ p[1] \in request[p[2]].passed
      BY <3>1
    <3>3. QED
      BY <3>2 DEF Counted, Offered
  <2>5. \A p \in Campaigns \X Requests : Offered(p[2], p[1])' => Offered(p[2], p[1])
    <3>1. \A p \in Campaigns \X Requests :
            p[2] = r /\ Offered(p[2], p[1])' => p[1] \in request[p[2]].passed
      BY <2>1, <2>2 DEF Offered
    <3>2. QED
      BY <1>7, <3>1 DEF Offered
  <2>6. Counted' \subseteq Counted
    BY <2>1, <2>4, <2>5 DEF Counted
  <2>7. m <= n /\ l <= k
    BY <1>10, <1>11, <2>2, <2>6 DEF GivingBack
  <2>8. QED
    BY <1>3, <1>4, <1>5, <2>2, <2>3, <2>7
<1>15. CASE DropMark(r)
  <2>1. PICK c \in request[r].unserved : request'[r].unserved = request[r].unserved \ {c}
    BY <1>1, <1>15, DropMarkIs
  <2>2. /\ request[r].phase = "drop_mark" /\ request'[r].phase = "get_back"
        /\ request'[r].passed = request[r].passed /\ UNCHANGED <<count, shown>>
    BY <1>1, <1>15, DropMarkIs
  <2>3. OneWriter'
    BY <1>2, <2>2, OneWriterGoesOn DEF Writes
  <2>4. request[r].passed = {} /\ <<c, r>> \notin shown
    BY <1>1, <2>1, <2>2 DEF PhasesFit, Ranked
  <2>5. PICK old : old = <<c, r>>
    OBVIOUS
  <2>6. old \in Counted
    <3>1. c \in Campaigns
      BY <1>1, <2>1 DEF Typed, TypeOK, Request
    <3>2. old \in Campaigns \X Requests /\ old[1] = c /\ old[2] = r
      BY <2>5, <3>1
    <3>3. QED
      BY <2>1, <3>2 DEF Counted, Offered
  <2>7. Counted' \subseteq Counted \ {old}
    <3>1. Counted' \subseteq Counted
      BY <1>9, <2>1, <2>2
    <3>2. ~(Offered(r, c)')
      BY <2>1, <2>2, <2>4 DEF Offered
    <3>3. old \notin Counted'
      BY <2>2, <2>4, <2>5, <3>2 DEF Counted
    <3>4. QED
      BY <3>1, <3>3
  <2>8. m <= n - 1
    <3>1. IsFiniteSet(Counted \ {old}) /\ Cardinality(Counted \ {old}) = n - 1
      BY <1>3, <2>6, FS_RemoveElement DEF n
    <3>2. QED
      BY <2>7, <3>1, FS_Subset DEF m
  <2>9. l <= k + 1
    <3>1. GivingBack' \subseteq GivingBack \cup {r}
      BY <1>8 DEF GivingBack
    <3>2. /\ IsFiniteSet(GivingBack \cup {r})
          /\ Cardinality(GivingBack \cup {r}) \in {k, k + 1}
      BY <1>3, FS_AddElement DEF k
    <3>3. l <= Cardinality(GivingBack \cup {r})
      BY <3>1, <3>2, FS_Subset DEF l
    <3>4. QED
      BY <1>3, <1>4, <3>2, <3>3
  <2>10. QED
    BY <1>3, <1>4, <1>5, <2>2, <2>3, <2>8, <2>9
<1>16. CASE SetBack(r)
  <2>1. /\ request[r].phase = "set_back" /\ request'[r].phase \in {"over", "drop_mark"}
        /\ request'[r].passed \subseteq request[r].passed
        /\ request'[r].unserved = request[r].unserved
        /\ count' = request[r].read - 1 /\ shown' = shown
    BY <1>1, <1>16, SetBackIs
  <2>2. OneWriter'
    BY <1>2, <2>1, OneWriterGoesOn DEF Writes
  <2>3. count' = count - 1
    BY <1>2, <2>1 DEF OneWriter, Writes
  <2>4. m <= n
    BY <1>9, <1>10, <2>1
  <2>5. l <= k - 1
    <3>1. r \in GivingBack /\ r \notin GivingBack'
      BY <2>1 DEF GivingBack
    <3>2. GivingBack' \subseteq GivingBack \ {r}
      BY <1>8, <3>1 DEF GivingBack
    <3>3. IsFiniteSet(GivingBack \ {r}) /\ Cardinality(GivingBack \ {r}) = k - 1
      BY <1>3, <3>1, FS_RemoveElement DEF k
    <3>4. QED
      BY <3>2, <3>3, FS_Subset DEF l
  <2>6. QED
    BY <1>3, <1>4, <1>5, <2>2, <2>3, <2>4, <2>5
<1>17. QED
  BY <1>12, <1>13, <1>14, <1>15, <1>16

-----------------------------------------------------------------------------
(***************************************************************************)
(* Lemma: nothing is shown, counted or held at first.                      *)
(***************************************************************************)
LEMMA InitContact ==
  ASSUME MarksAssumption, Init
  PROVE  ContactInv
<1>1. /\ shown = {} /\ count = 0 /\ contended = {}
      /\ \A r \in Requests : request[r] = Blank("new")
  BY DEF Init
<1>2. \A r \in Requests : /\ request[r].phase = "new"
                          /\ request[r].passed = {} /\ request[r].unserved = {}
  BY <1>1, BlankTyped DEF Phases
<1>3. \A r \in Requests : PhasesFit(r)
  BY <1>1, <1>2 DEF PhasesFit
<1>4. \A r \in Requests : ~Writes(r) /\ \A c \in Campaigns : ~Holds(r, c) /\ ~Offered(r, c)
  BY <1>2 DEF Writes, Holds, HasMark, Offered
<1>5. \A c \in Campaigns : MarkInv(c)
  BY <1>1, <1>4 DEF MarkInv, Holds, ShownOnce, Remembered
<1>6. Counted = {} /\ GivingBack = {}
  <2>1. \A p \in Campaigns \X Requests : ~Offered(p[2], p[1])
    BY <1>4
  <2>2. QED
    BY <1>1, <1>2, <2>1 DEF Counted, GivingBack
<1>7. Covered
  BY <1>1, <1>6, FS_EmptySet DEF Covered
<1>8. QED
  BY <1>3, <1>4, <1>5, <1>7, InitMarksTyped DEF ContactInv, OneWriter

(***************************************************************************)
(* Lemma: every step keeps the invariant.                                  *)
(***************************************************************************)
LEMMA StepKeepsContact ==
  ASSUME MarksAssumption, ContactInv, [Next]_vars
  PROVE  ContactInv'
<1>1. CASE UNCHANGED vars
  <2>1. Typed'
    BY <1>1 DEF ContactInv, Typed, TypeOK, ReadsFit, vars
  <2>2. \A r \in Requests : PhasesFit(r)'
    BY <1>1 DEF ContactInv, PhasesFit, vars
  <2>3. \A c \in Campaigns \ contended' : MarkInv(c)'
    BY <1>1 DEF ContactInv, MarkInv, Holds, HasMark, Offered, Candidate, IsShown, ShownOnce,
                Remembered, vars
  <2>4. ~(raced') => OneWriter' /\ Covered'
    <3>1. Counted' = Counted /\ GivingBack' = GivingBack /\ (OneWriter' <=> OneWriter)
      BY <1>1 DEF Counted, Offered, GivingBack, OneWriter, Writes, vars
    <3>2. QED
      BY <1>1, <3>1 DEF ContactInv, Covered, vars
  <2>5. QED
    BY <2>1, <2>2, <2>3, <2>4 DEF ContactInv
<1>2. ASSUME NEW r \in Requests,
             \/ Start(r) \/ GetMark(r) \/ SetMark(r) \/ GetCount(r) \/ SetCount(r)
             \/ Persist(r) \/ DropMark(r) \/ GetBack(r) \/ SetBack(r)
             \/ ReleaseFails(r) \/ Fail(r)
      PROVE  ContactInv'
  <2>1. Moves(r) /\ \A d \in Requests : PhasesFit(d)'
    BY <1>2, OrderGoesOn
  <2>2. \A c \in Campaigns \ contended' : MarkInv(c)'
    BY <1>2, MarksGoOn
  <2>3. ~(raced') => OneWriter' /\ Covered'
    BY <1>2, <2>1, CountGoesOn
  <2>4. QED
    BY <2>1, <2>2, <2>3 DEF ContactInv, Moves
<1>3. QED
  BY <1>1, <1>2 DEF Next

(***************************************************************************)
(* Theorem: however many requests of a user overlap, and whatever fails in *)
(* them, a campaign is shown twice, or its mark taken back after it was    *)
(* shown, only if two requests were between the GET and the SETEX of its   *)
(* mark at once (anti_fatigue.py); and the user is shown more offers than  *)
(* the limit, or more than are counted, only if two requests were between  *)
(* the GET and the SETEX of the count at once (frequency_gate.py).         *)
(***************************************************************************)
THEOREM ContactPolicyHolds ==
  ASSUME MarksAssumption
  PROVE  Spec => []ContactPolicy
<1>1. Init => ContactInv
  BY InitContact
<1>2. ContactInv /\ [Next]_vars => ContactInv'
  BY StepKeepsContact
<1>3. ASSUME ContactInv
      PROVE  ContactPolicy
  <2>1. \A c \in Campaigns \ contended : ShownOnce(c) /\ Remembered(c)
    BY <1>3 DEF ContactInv, MarkInv
  <2>2. ASSUME ~raced
        PROVE  WithinLimit
    <3>1. Covered /\ Typed
      BY <1>3, <2>2 DEF ContactInv
    <3>2. /\ IsFiniteSet(Counted)
          /\ Cardinality(Counted) \in Nat /\ Cardinality(GivingBack) \in Nat
      BY <3>1, CountedIsFinite
    <3>3. /\ IsFiniteSet(shown)
          /\ Cardinality(shown) <= Cardinality(Counted)
      BY <3>2, FS_Subset DEF Counted
    <3>4. Cardinality(shown) \in Nat
      BY <3>3, FS_CardinalityType
    <3>5. count \in 0 .. Limit /\ Limit \in Nat
      BY <3>1 DEF Typed, TypeOK, MarksAssumption
    <3>6. Cardinality(shown) <= count /\ count <= Limit
      BY <3>1, <3>2, <3>3, <3>4, <3>5 DEF Covered
    <3>7. QED
      BY <3>6 DEF WithinLimit
  <2>3. QED
    BY <2>1, <2>2 DEF ContactPolicy
<1>4. QED
  BY <1>1, <1>2, <1>3, PTL DEF Spec

-----------------------------------------------------------------------------
(***************************************************************************)
(* Rule R7's limits (MLLimits).  Lemma: every step keeps the types.        *)
(***************************************************************************)
LEMMA LimitsGoOn ==
  ASSUME MLLimitsAssumption, LimitsTypeOK, [LimitsNext]_limitVars
  PROVE  LimitsTypeOK'
<1> USE DEF Publishers
<1>1. ASSUME NEW p \in Puts, Put(p) PROVE LimitsTypeOK'
  <2>1. PICK rows \in SUBSET Rows \ {{}} : \E m \in Updates(table, rows) :
          /\ own' = [own EXCEPT ![p] = rows]
          /\ wish' = [wish EXCEPT ![p] = m]
          /\ read' = [read EXCEPT ![p] = table]
          /\ publisher' = [publisher EXCEPT ![p] =
                             IF "global" \in rows THEN "global" ELSE "commit"]
    BY <1>1 DEF Put
  <2>2. Updates(table, rows) \subseteq Limits
    BY DEF Updates, MLLimitsAssumption
  <2>3. QED
    BY <1>1, <2>1, <2>2 DEF LimitsTypeOK, Put, ruleVars
<1>2. ASSUME NEW p \in Puts, GetGlobal(p) PROVE LimitsTypeOK'
  <2>1. [read[p] EXCEPT !.global = table.global] \in Limits
    BY <1>2 DEF LimitsTypeOK, GetGlobal, Limits
  <2>2. read' = [read EXCEPT ![p] = [read[p] EXCEPT !.global = table.global]]
    BY <1>2 DEF LimitsTypeOK, GetGlobal
  <2>3. QED
    BY <1>2, <2>1, <2>2 DEF LimitsTypeOK, GetGlobal, putVars, ruleVars
<1>3. ASSUME NEW p \in Puts, Commit(p) PROVE LimitsTypeOK'
  <2>1. Written(read[p], wish[p], table) \in Limits
    BY <1>3 DEF LimitsTypeOK, Commit, Written, Limits
  <2>2. own' \in [Publishers -> SUBSET Rows]
    BY <1>3 DEF LimitsTypeOK, Commit
  <2>3. \A q \in Publishers : own'[q] # {} => own[q] # {}
    BY <1>3 DEF LimitsTypeOK, Commit
  <2>4. QED
    BY <1>3, <2>1, <2>2, <2>3 DEF LimitsTypeOK, Commit, ruleVars
<1>4. ASSUME NEW p \in Jobs, Republish(p) PROVE LimitsTypeOK'
  BY <1>4 DEF LimitsTypeOK, Republish, putVars, ruleVars
<1>5. ASSUME NEW p \in Publishers, ReadTable(p) PROVE LimitsTypeOK'
  <2>1. Selected(p) \in Limits
    BY DEF LimitsTypeOK, Selected, Limits
  <2>2. QED
    BY <1>5, <2>1 DEF LimitsTypeOK, ReadTable, ruleVars
<1>6. ASSUME NEW p \in Publishers, WriteSnapshot(p) PROVE LimitsTypeOK'
  BY <1>6 DEF LimitsTypeOK, WriteSnapshot, putVars, ruleVars
<1>7. ASSUME NEW p \in Publishers, PublishFails(p) PROVE LimitsTypeOK'
  BY <1>7 DEF LimitsTypeOK, PublishFails, ruleVars
<1>8. ASSUME LoseSnapshot PROVE LimitsTypeOK'
  BY <1>8 DEF LimitsTypeOK, LoseSnapshot, putVars, ruleVars
<1>9. ASSUME NEW w \in Workers, CacheExpires(w) PROVE LimitsTypeOK'
  BY <1>9 DEF LimitsTypeOK, CacheExpires, Cache, putVars
<1>10. \A w \in Workers, rate \in Rates, l \in Limits \cup {NoLimits} :
         Decides(w, l, rate) => verdict' \in [Workers -> [rate: Rates, outcome: Outcomes]]
  BY DEF LimitsTypeOK, Decides, Decide, Outcomes
<1>11. ASSUME NEW w \in Workers, NEW rate \in Rates, UseCopy(w, rate) PROVE LimitsTypeOK'
  <2>1. cache[w].limits \in Limits \cup {NoLimits}
    BY DEF LimitsTypeOK, Cache
  <2>2. verdict' \in [Workers -> [rate: Rates, outcome: Outcomes]]
    BY <1>10, <1>11, <2>1 DEF UseCopy
  <2>3. QED
    BY <1>11, <2>2 DEF LimitsTypeOK, UseCopy, putVars
<1>12. \A w \in Workers, k \in Lookups, x \in Answers :
         lookup' = [lookup EXCEPT ![w][k] = x] => lookup' \in [Workers -> [Lookups -> Answers]]
  BY DEF LimitsTypeOK
<1>13. ASSUME NEW w \in Workers, NEW k \in Lookups, Ask(w, k) PROVE LimitsTypeOK'
  <2>1. lookup' = [lookup EXCEPT ![w][k] = [NotAsked EXCEPT !.step = "asked"]]
    BY <1>13 DEF LimitsTypeOK, Ask
  <2>2. [NotAsked EXCEPT !.step = "asked"] \in Answers
    BY DEF NotAsked, Answers
  <2>3. QED
    BY <1>12, <1>13, <2>1, <2>2 DEF LimitsTypeOK, Ask, putVars
<1>14. ASSUME NEW w \in Workers, NEW k \in Lookups, Answer(w, k) PROVE LimitsTypeOK'
  <2>1. \E l \in Limits \cup {NoLimits} :
          lookup' = [lookup EXCEPT ![w][k] = [step |-> "answered", limits |-> l]]
    BY <1>14 DEF LimitsTypeOK, Answer
  <2>2. \A l \in Limits \cup {NoLimits} : [step |-> "answered", limits |-> l] \in Answers
    BY DEF Answers
  <2>3. lookup' \in [Workers -> [Lookups -> Answers]]
    BY <1>12, <2>1, <2>2
  <2>4. QED
    BY <1>14, <2>3 DEF LimitsTypeOK, Answer, putVars
<1>15. ASSUME NEW w \in Workers, NEW k \in Lookups, NEW rate \in Rates, Resume(w, k, rate)
       PROVE  LimitsTypeOK'
  <2> DEFINE l == lookup[w][k].limits
  <2>1. l \in Limits \cup {NoLimits}
    BY DEF LimitsTypeOK, Answers
  <2>2. [limits |-> l, fresh |-> TRUE] \in Cache
    BY <2>1 DEF Cache
  <2>3. NotAsked \in Answers
    BY DEF NotAsked, Answers
  <2>4. /\ Decides(w, l, rate)
        /\ cache' = IF l = NoLimits THEN cache
                    ELSE [cache EXCEPT ![w] = [limits |-> l, fresh |-> TRUE]]
        /\ lookup' = [lookup EXCEPT ![w][k] = NotAsked]
        /\ UNCHANGED <<putVars, snapshot, publisher, read>>
    BY <1>15 DEF Resume
  <2> HIDE DEF l
  <2>5. verdict' \in [Workers -> [rate: Rates, outcome: Outcomes]]
    BY <1>10, <2>1, <2>4
  <2>6. cache' \in [Workers -> Cache]
    BY <2>2, <2>4 DEF LimitsTypeOK
  <2>7. lookup' \in [Workers -> [Lookups -> Answers]]
    BY <1>12, <2>3, <2>4
  <2>8. QED
    BY <2>4, <2>5, <2>6, <2>7 DEF LimitsTypeOK, putVars
<1>16. ASSUME UNCHANGED limitVars PROVE LimitsTypeOK'
  BY <1>16 DEF LimitsTypeOK, limitVars, putVars, ruleVars
<1>17. QED
  BY <1>1, <1>2, <1>3, <1>4, <1>5, <1>6, <1>7, <1>8, <1>9, <1>11, <1>13, <1>14, <1>15, <1>16
  DEF LimitsNext, Evaluation

(***************************************************************************)
(* Theorem: every variable of the limits keeps its type.                   *)
(***************************************************************************)
THEOREM LimitsTyped ==
  ASSUME MLLimitsAssumption
  PROVE  LimitsSpec => []LimitsTypeOK
<1>1. LimitsInit => LimitsTypeOK
  <2> SUFFICES ASSUME LimitsInit PROVE LimitsTypeOK
      OBVIOUS
  <2>1. table \in Limits /\ table.min \in Rates
    BY DEF LimitsInit, MLLimitsAssumption, Limits
  <2>2. (CHOOSE r \in Rates : TRUE) \in Rates
    BY <2>1
  <2>3. /\ [limits |-> NoLimits, fresh |-> FALSE] \in Cache
        /\ NotAsked \in Answers
    BY DEF Cache, NotAsked, Answers
  <2>4. QED
    BY <2>1, <2>2, <2>3 DEF LimitsInit, LimitsTypeOK, Outcomes
<1>2. LimitsTypeOK /\ [LimitsNext]_limitVars => LimitsTypeOK'
  BY LimitsGoOn
<1>3. QED
  BY <1>1, <1>2, PTL DEF LimitsSpec

(***************************************************************************)
(* Lemma: a verdict on the table's limits, or on none, is in effect.       *)
(***************************************************************************)
LEMMA DecidesInEffect ==
  ASSUME MLLimitsAssumption, LimitsTypeOK, table' = table,
         \A v \in Workers : InEffect(v),
         NEW w \in Workers, NEW rate \in Rates, NEW l \in {NoLimits, table},
         Decides(w, l, rate)
  PROVE  \A v \in Workers : InEffect(v)'
<1>1. \A v \in Workers \ {w} : verdict'[v] = verdict[v]
  BY DEF LimitsTypeOK, Decides
<1>2. verdict'[w] = [rate |-> rate, outcome |-> Decide(l, rate)]
  BY DEF LimitsTypeOK, Decides
<1>3. InEffect(w)'
  <2>1. CASE l = NoLimits
    BY <1>2, <2>1 DEF InEffect, Decide
  <2>2. CASE l = table /\ l # NoLimits
    <3>1. rate \in Nat /\ table.min \in Nat /\ table.max \in Nat
      BY DEF LimitsTypeOK, MLLimitsAssumption, Limits
    <3>2. Decide(table, rate) =
            IF table.global /\ table.enabled /\ rate \in table.min .. table.max
            THEN "PASS" ELSE "REJECT"
      BY <2>2, <3>1 DEF Decide
    <3>3. QED
      BY <1>2, <2>2, <3>2 DEF InEffect
  <2>3. QED
    BY <2>1, <2>2
<1>4. QED
  BY <1>1, <1>3 DEF InEffect

(***************************************************************************)
(* Lemma: limits are equal if their columns are.                           *)
(***************************************************************************)
LEMMA SameLimits ==
  ASSUME NEW l \in Limits, NEW m \in Limits,
         l.global = m.global, l.enabled = m.enabled, l.min = m.min, l.max = m.max
  PROVE  l = m
<1>1. /\ l = [global |-> l.global, enabled |-> l.enabled, min |-> l.min, max |-> l.max]
      /\ m = [global |-> m.global, enabled |-> m.enabled, min |-> m.min, max |-> m.max]
  BY DEF Limits
<1>2. QED
  BY <1>1

(***************************************************************************)
(* Lemma: a publisher that holds nothing else than the table selects it.   *)
(***************************************************************************)
LEMMA SelectedIs ==
  ASSUME LimitsTypeOK, table' = table, NEW p,
         own'[p] = {} \/ wish'[p] = table
  PROVE  Selected(p)' = table
<1>1. Selected(p)' = [global |-> table.global, enabled |-> table.enabled,
                      min |-> table.min, max |-> table.max]
  BY DEF Selected
<1>2. table = [global |-> table.global, enabled |-> table.enabled,
               min |-> table.min, max |-> table.max]
  BY DEF LimitsTypeOK, Limits
<1>3. QED
  BY <1>1, <1>2

(***************************************************************************)
(* Lemma: the limits that everybody has stay while the table does.  A PUT  *)
(* that read what the table has either changes it with its COMMIT or set   *)
(* nothing else than it read.                                              *)
(***************************************************************************)
LEMMA SettledGoesOn ==
  ASSUME MLLimitsAssumption, LimitsTypeOK, [LimitsNext]_limitVars, Settled, table' = table
  PROVE  Settled'
<1> USE DEF Publishers
<1> DEFINE OfPublishers == \A p \in Publishers :
             /\ read[p] \in {NoLimits, table}
             /\ publisher[p] = "read" => Selected(p) = table
           OfWorkers == \A w \in Workers :
             /\ cache[w].limits \in {NoLimits, table}
             /\ \A k \in Lookups : lookup[w][k].limits \in {NoLimits, table}
             /\ InEffect(w)
<1>1. UNCHANGED ruleVars => OfWorkers'
  BY DEF Settled, ruleVars, InEffect
<1>2. UNCHANGED <<putVars, publisher, read>> => OfPublishers'
  BY DEF Settled, putVars, Selected
<1>3. ASSUME NEW p \in Publishers,
             \A q \in Publishers \ {p} :
               own'[q] = own[q] /\ wish'[q] = wish[q] /\ read'[q] = read[q]
               /\ publisher'[q] = publisher[q],
             read'[p] \in {NoLimits, table},
             publisher'[p] = "read" => Selected(p)' = table
      PROVE  OfPublishers'
  <2>1. \A q \in Publishers \ {p} : Selected(q)' = Selected(q)
    BY <1>3 DEF Selected
  <2>2. QED
    BY <1>3, <2>1 DEF Settled
<1>4. snapshot' \in {NoLimits, table} /\ OfPublishers' /\ OfWorkers' => Settled'
  BY DEF Settled
<1>5. snapshot \in {NoLimits, table}
  BY DEF Settled
<1> DEFINE Others(p) == \A q \in Publishers \ {p} :
             own'[q] = own[q] /\ wish'[q] = wish[q] /\ read'[q] = read[q]
             /\ publisher'[q] = publisher[q]
<1>6. ASSUME NEW p \in Puts, Put(p) PROVE Settled'
  <2>1. Others(p) /\ read'[p] = table /\ publisher'[p] # "read"
    BY <1>6 DEF LimitsTypeOK, Put
  <2>2. UNCHANGED <<snapshot, ruleVars>>
    BY <1>6 DEF Put
  <2> HIDE DEF OfPublishers, OfWorkers
  <2>3. OfPublishers'
    BY <1>3, <2>1
  <2>4. QED
    BY <1>1, <1>4, <1>5, <2>2, <2>3
<1>7. ASSUME NEW p \in Puts, GetGlobal(p) PROVE Settled'
  <2>1. Others(p) /\ publisher'[p] # "read"
    BY <1>7 DEF LimitsTypeOK, GetGlobal, putVars
  <2>2. read'[p] = table
    <3>1. read[p] = table
      BY <1>7 DEF LimitsTypeOK, GetGlobal, Settled, MLLimitsAssumption
    <3>2. [table EXCEPT !.global = table.global] = table
      BY DEF LimitsTypeOK, Limits
    <3>3. QED
      BY <1>7, <3>1, <3>2 DEF LimitsTypeOK, GetGlobal
  <2>3. UNCHANGED <<snapshot, ruleVars>>
    BY <1>7 DEF GetGlobal
  <2> HIDE DEF OfPublishers, OfWorkers
  <2>4. OfPublishers'
    BY <1>3, <2>1, <2>2
  <2>5. QED
    BY <1>1, <1>4, <1>5, <2>3, <2>4
<1>8. ASSUME NEW p \in Puts, Commit(p) PROVE Settled'
  <2>1. Others(p) /\ read'[p] = NoLimits /\ wish'[p] = wish[p]
    BY <1>8 DEF LimitsTypeOK, Commit
  <2>2. wish[p] = table
    <3>1. read[p] = table
      BY <1>8 DEF LimitsTypeOK, Commit, Settled, MLLimitsAssumption
    <3>2. Written(table, wish[p], table) = table
      BY <1>8, <3>1 DEF Commit
    <3>3. /\ wish[p].global = table.global /\ wish[p].enabled = table.enabled
          /\ wish[p].min = table.min /\ wish[p].max = table.max
      BY <3>2 DEF Written
    <3>4. wish[p] \in Limits /\ table \in Limits
      BY <1>8 DEF LimitsTypeOK, Commit
    <3>5. QED
      BY <3>3, <3>4, SameLimits
  <2>3. Selected(p)' = table
    BY <2>1, <2>2, SelectedIs
  <2>4. UNCHANGED <<snapshot, ruleVars>>
    BY <1>8 DEF Commit
  <2> HIDE DEF OfPublishers, OfWorkers
  <2>5. OfPublishers'
    BY <1>3, <2>1, <2>3
  <2>6. QED
    BY <1>1, <1>4, <1>5, <2>4, <2>5
<1>9. ASSUME NEW p \in Jobs, Republish(p) PROVE Settled'
  <2>1. Others(p) /\ read'[p] \in {NoLimits, table}
    BY <1>9 DEF LimitsTypeOK, Republish, putVars, Settled
  <2>2. own[p] = {}
    BY <1>9 DEF LimitsTypeOK, Republish
  <2>3. Selected(p)' = table
    BY <1>9, <2>2, SelectedIs DEF Republish, putVars
  <2>4. UNCHANGED <<snapshot, ruleVars>>
    BY <1>9 DEF Republish
  <2> HIDE DEF OfPublishers, OfWorkers
  <2>5. OfPublishers'
    BY <1>3, <2>1, <2>3
  <2>6. QED
    BY <1>1, <1>4, <1>5, <2>4, <2>5
<1>10. ASSUME NEW p \in Publishers, ReadTable(p) PROVE Settled'
  <2>1. Others(p) /\ read'[p] = table /\ publisher'[p] # "read"
    BY <1>10 DEF LimitsTypeOK, ReadTable, Settled
  <2>2. UNCHANGED <<snapshot, ruleVars>>
    BY <1>10 DEF ReadTable
  <2> HIDE DEF OfPublishers, OfWorkers
  <2>3. OfPublishers'
    BY <1>3, <2>1
  <2>4. QED
    BY <1>1, <1>4, <1>5, <2>2, <2>3
<1>11. ASSUME NEW p \in Publishers, WriteSnapshot(p) PROVE Settled'
  <2>1. Others(p) /\ read'[p] = NoLimits /\ publisher'[p] # "read"
    BY <1>11 DEF LimitsTypeOK, WriteSnapshot, putVars
  <2>2. snapshot' \in {NoLimits, table} /\ UNCHANGED ruleVars
    BY <1>11 DEF WriteSnapshot, Settled
  <2> HIDE DEF OfPublishers, OfWorkers
  <2>3. OfPublishers'
    BY <1>3, <2>1
  <2>4. QED
    BY <1>1, <1>4, <2>2, <2>3
<1>12. ASSUME NEW p \in Publishers, PublishFails(p) PROVE Settled'
  <2>1. Others(p) /\ read'[p] = NoLimits /\ publisher'[p] # "read"
    BY <1>12 DEF LimitsTypeOK, PublishFails
  <2>2. UNCHANGED <<snapshot, ruleVars>>
    BY <1>12 DEF PublishFails
  <2> HIDE DEF OfPublishers, OfWorkers
  <2>3. OfPublishers'
    BY <1>3, <2>1
  <2>4. QED
    BY <1>1, <1>4, <1>5, <2>2, <2>3
<1>13. ASSUME LoseSnapshot PROVE Settled'
  <2>1. snapshot' = NoLimits /\ UNCHANGED <<putVars, publisher, read, ruleVars>>
    BY <1>13 DEF LoseSnapshot
  <2> HIDE DEF OfPublishers, OfWorkers
  <2>2. QED
    BY <1>1, <1>2, <1>4, <2>1
<1> DEFINE Kept == UNCHANGED <<putVars, snapshot, publisher, read>>
           InTable(c, k) == \A w \in Workers :
             /\ c[w].limits \in {NoLimits, table}
             /\ \A i \in Lookups : k[w][i].limits \in {NoLimits, table}
<1>14. ASSUME Kept, InTable(cache', lookup'), \A w \in Workers : InEffect(w)'
       PROVE  Settled'
  <2>1. OfWorkers'
    BY <1>14
  <2>2. snapshot' = snapshot /\ UNCHANGED <<putVars, publisher, read>>
    BY <1>14
  <2> HIDE DEF OfPublishers, OfWorkers
  <2>3. QED
    BY <1>2, <1>4, <1>5, <2>1, <2>2
<1>15. InTable(cache, lookup) /\ \A w \in Workers : InEffect(w)
  BY DEF Settled
<1>16. verdict' = verdict => \A w \in Workers : InEffect(w)'
  BY <1>15 DEF InEffect
<1>17. ASSUME NEW w \in Workers, CacheExpires(w) PROVE Settled'
  <2>1. Kept /\ lookup' = lookup /\ verdict' = verdict
    BY <1>17 DEF CacheExpires
  <2>2. \A v \in Workers : cache'[v].limits \in {NoLimits, table}
    BY <1>15, <1>17 DEF CacheExpires, LimitsTypeOK
  <2>3. QED
    BY <1>14, <1>15, <1>16, <2>1, <2>2
<1>18. ASSUME NEW w \in Workers, NEW rate \in Rates, UseCopy(w, rate) PROVE Settled'
  <2>1. Kept /\ cache' = cache /\ lookup' = lookup /\ Decides(w, cache[w].limits, rate)
    BY <1>18 DEF UseCopy
  <2>2. \A v \in Workers : InEffect(v)'
    BY <1>15, <2>1, DecidesInEffect
  <2>3. QED
    BY <1>14, <1>15, <2>1, <2>2
<1>19. ASSUME NEW w \in Workers, NEW k \in Lookups, Ask(w, k) PROVE Settled'
  <2>1. Kept /\ cache' = cache /\ verdict' = verdict
    BY <1>19 DEF Ask
  <2>2. \A v \in Workers : \A i \in Lookups : lookup'[v][i].limits = lookup[v][i].limits
    BY <1>19 DEF Ask, LimitsTypeOK, Answers
  <2>3. QED
    BY <1>14, <1>15, <1>16, <2>1, <2>2
<1>20. ASSUME NEW w \in Workers, NEW k \in Lookups, Answer(w, k) PROVE Settled'
  <2>1. Kept /\ cache' = cache /\ verdict' = verdict
    BY <1>20 DEF Answer
  <2>2. PICK l \in {NoLimits, table} :
          lookup' = [lookup EXCEPT ![w][k] = [step |-> "answered", limits |-> l]]
    BY <1>5, <1>20 DEF Answer
  <2>3. \A v \in Workers : \A i \in Lookups : lookup'[v][i].limits \in {NoLimits, table}
    BY <1>15, <2>2 DEF LimitsTypeOK
  <2>4. QED
    BY <1>14, <1>15, <1>16, <2>1, <2>3
<1>21. ASSUME NEW w \in Workers, NEW k \in Lookups, NEW rate \in Rates, Resume(w, k, rate)
       PROVE  Settled'
  <2>1. PICK l \in {NoLimits, table} : l = lookup[w][k].limits
    BY <1>15
  <2>2. /\ Kept /\ Decides(w, l, rate)
        /\ cache' \in {cache, [cache EXCEPT ![w] = [limits |-> l, fresh |-> TRUE]]}
        /\ lookup' = [lookup EXCEPT ![w][k] = NotAsked]
    BY <1>21, <2>1 DEF Resume
  <2>3. \A v \in Workers : cache'[v].limits \in {NoLimits, table}
    <3>1. CASE cache' = cache
      BY <1>15, <3>1
    <3>2. CASE cache' = [cache EXCEPT ![w] = [limits |-> l, fresh |-> TRUE]]
      BY <1>15, <3>2 DEF LimitsTypeOK
    <3>3. QED
      BY <2>2, <3>1, <3>2
  <2>4. \A v \in Workers : \A i \in Lookups : lookup'[v][i].limits \in {NoLimits, table}
    BY <1>15, <2>2 DEF LimitsTypeOK, NotAsked
  <2>5. \A v \in Workers : InEffect(v)'
    BY <1>15, <2>2, DecidesInEffect
  <2>6. QED
    BY <1>14, <2>2, <2>3, <2>4, <2>5
<1>22. ASSUME UNCHANGED limitVars PROVE Settled'
  <2>1. UNCHANGED <<putVars, publisher, read>> /\ UNCHANGED ruleVars /\ snapshot' = snapshot
    BY <1>22 DEF limitVars
  <2> HIDE DEF OfPublishers, OfWorkers
  <2>2. QED
    BY <1>1, <1>2, <1>4, <1>5, <2>1
<1>23. QED
  BY <1>6, <1>7, <1>8, <1>9, <1>10, <1>11, <1>12, <1>13, <1>17, <1>18, <1>19, <1>20, <1>21,
     <1>22 DEF LimitsNext, Evaluation

(***************************************************************************)
(* Theorem: limits that have taken effect in every process stay in effect  *)
(* until the table changes (ml_limits.py:9), with any number of PUTs,      *)
(* jobs, processes and lookups.                                            *)
(***************************************************************************)
THEOREM LimitsStayInEffect ==
  ASSUME MLLimitsAssumption
  PROVE  LimitsSpec => LimitsStay
<1>1. LimitsTypeOK /\ [LimitsNext]_limitVars => (Settled /\ table' = table => Settled')
  BY SettledGoesOn
<1>2. QED
  BY <1>1, LimitsTyped, PTL DEF LimitsSpec, LimitsStay

-----------------------------------------------------------------------------
FeaturesInv == FeaturesTypeOK /\ InOrder

(***************************************************************************)
(* The feature vectors (FeatureStore).  Lemma: every step preserves types  *)
(* and order, and brings back nothing old.                                 *)
(***************************************************************************)
LEMMA FeaturesGoOn ==
  ASSUME FeatureAssumption, FeaturesInv, [FeaturesNext]_featureVars
  PROVE  /\ FeaturesInv'
         /\ features <= features'
         /\ Current /\ features' = features => Current'
<1> DEFINE Entry == [value : Vector \cup {NoVector}, expires : BOOLEAN]
           Task == [phase : {"idle", "insert", "push"}, vector : Vector \cup {NoVector}]
           Reader == [phase : {"idle", "query", "warm"},
                      vector : Vector \cup {NoVector}, warm : BOOLEAN]
           Goal == /\ FeaturesInv'
                   /\ features <= features'
                   /\ Current /\ features' = features => Current'
<1> USE DEF FeaturesInv, FeaturesTypeOK, InOrder, Current, NoVector, Vector, FeatureAssumption
<1>1. CASE Purchase
  BY <1>1 DEF Purchase
<1>2. CASE Compute
  BY <1>2 DEF Compute
<1>3. CASE Materialise
  BY <1>3 DEF Materialise
<1>4. CASE PushToRedis
  BY <1>4 DEF PushToRedis, WithTtl, IdleRun
<1>5. CASE RunFails
  BY <1>5 DEF RunFails, IdleRun
<1>6. ASSUME NEW r \in Readers, Lookup(r) PROVE Goal
  <2>1. purchases' = purchases /\ features' = features /\ etl' = etl
    BY <1>6 DEF Lookup, Miss, MissByFault, Query, Warm, LookupFails
  <2>2. /\ reader' \in [Readers -> Reader]
        /\ \A s \in Readers : reader'[s].vector \in {reader[s].vector, NoVector, features}
    <3>1. IdleReader \in Reader /\ IdleReader.vector = NoVector
      BY DEF IdleReader
    <3>2. \A warm \in BOOLEAN :
            [phase |-> "query", vector |-> NoVector, warm |-> warm] \in Reader
      OBVIOUS
    <3>3. [phase |-> "warm", vector |-> features, warm |-> TRUE] \in Reader
      OBVIOUS
    <3>4. PICK x \in Reader : /\ reader' = [reader EXCEPT ![r] = x]
                              /\ x.vector \in {NoVector, features}
      <4>1. CASE \E warm \in BOOLEAN : Miss(r, warm) \/ MissByFault(r, warm)
        BY <3>2, <4>1 DEF Miss, MissByFault
      <4>2. CASE Query(r)
        BY <3>1, <3>3, <4>2 DEF Query
      <4>3. CASE Warm(r) \/ LookupFails(r)
        BY <3>1, <4>3 DEF Warm, LookupFails
      <4>4. QED
        BY <1>6, <4>1, <4>2, <4>3 DEF Lookup
    <3> HIDE DEF Reader
    <3>5. reader \in [Readers -> Reader]
      BY DEF Reader
    <3>6. QED
      BY <3>4, <3>5
  <2>3. \/ entry' = entry
        \/ entry' = WithTtl(reader[r].vector)
    BY <1>6 DEF Lookup, Miss, MissByFault, Query, Warm, LookupFails
  <2>4. /\ entry' \in Entry /\ entry'.value <= features
        /\ entry' = NoEntry \/ entry'.expires
    <3>1. reader[r].vector \in Vector \cup {NoVector} /\ reader[r].vector <= features
      OBVIOUS
    <3>2. CASE entry' = entry
      BY <3>2
    <3>3. CASE entry' = WithTtl(reader[r].vector)
      <4>1. PICK v \in Vector \cup {NoVector} : v = reader[r].vector /\ v <= features
        BY <3>1
      <4>2. entry' = [value |-> v, expires |-> TRUE]
        BY <3>3, <4>1 DEF WithTtl
      <4>3. QED
        BY <4>1, <4>2
    <3>4. QED
      BY <2>3, <3>2, <3>3
  <2>5. FeaturesInv'
    BY <2>1, <2>2, <2>4
  <2>6. Current => Current'
    BY <2>1, <2>2, <2>3 DEF WithTtl
  <2>7. QED
    BY <2>1, <2>5, <2>6
<1>7. CASE Expire
  BY <1>7 DEF Expire, NoEntry
<1>8. CASE UNCHANGED featureVars
  BY <1>8 DEF featureVars
<1>9. QED
  BY <1>1, <1>2, <1>3, <1>4, <1>5, <1>6, <1>7, <1>8 DEF FeaturesNext

(***************************************************************************)
(* Theorem: nobody is ahead of whom he read, and whatever is cached ends   *)
(* by itself, with any number of lookups beside the daily run.             *)
(***************************************************************************)
THEOREM FeaturesInOrder ==
  ASSUME FeatureAssumption
  PROVE  FeaturesSpec => [](FeaturesTypeOK /\ InOrder)
<1>1. FeaturesInit => FeaturesTypeOK /\ InOrder
  BY DEF FeaturesInit, FeaturesTypeOK, InOrder, NoVector, Vector, NoEntry, IdleRun, IdleReader,
         FeatureAssumption
<1>2. FeaturesTypeOK /\ InOrder /\ [FeaturesNext]_featureVars => (FeaturesTypeOK /\ InOrder)'
  BY FeaturesGoOn DEF FeaturesInv
<1>3. QED
  BY <1>1, <1>2, PTL DEF FeaturesSpec

(***************************************************************************)
(* Theorem: the newest row never goes back, and an older vector that is    *)
(* gone does not come back to Redis (feature_store.py:101).                *)
(***************************************************************************)
THEOREM VectorsAlwaysAdvance ==
  ASSUME FeatureAssumption
  PROVE  FeaturesSpec => VectorsAdvance
<1>1. FeaturesTypeOK /\ InOrder /\ [FeaturesNext]_featureVars =>
        features <= features' /\ (Current /\ features' = features => Current')
  BY FeaturesGoOn DEF FeaturesInv
<1>2. QED
  BY <1>1, FeaturesInOrder, PTL DEF FeaturesSpec, VectorsAdvance

-----------------------------------------------------------------------------
(***************************************************************************)
(* The model rollout (ModelRollout): the inductive invariant.  A promotion *)
(* under way is of a trained version, is compared with one that was in     *)
(* Production, and past the gate has beaten it.                            *)
(***************************************************************************)
Gated(q) ==
  q.phase # "idle" =>
    /\ q.candidate \in Versions /\ stage[q.candidate] # "absent"
    /\ WasPromoted(q.prod)
    /\ q.phase = "transition" /\ q.prod # NoVersion => Better(q.candidate, q.prod)

RolloutInv == /\ RolloutTypeOK /\ ServedWasPromoted
              /\ \A p \in Promoters : Gated(promoter[p])

(***************************************************************************)
(* Lemma: the newest version of a stage is in it, if any is.               *)
(***************************************************************************)
LEMMA LatestIsThere ==
  ASSUME RolloutAssumption, NEW s
  PROVE  /\ InStage(s) = {} => Latest(s) = NoVersion
         /\ InStage(s) # {} => Latest(s) \in InStage(s)
         /\ NoVersion \notin Versions
<1>1. Cardinality(Versions) \in Nat /\ Versions = 1 .. Cardinality(Versions)
  BY FS_CardinalityType DEF RolloutAssumption
<1>2. PICK n \in Nat : Versions = 1 .. n
  BY <1>1
<1>3. NoVersion \notin Versions
  BY <1>2 DEF NoVersion
<1>4. ASSUME InStage(s) # {} PROVE Latest(s) \in InStage(s)
  <2> DEFINE T == InStage(s)
             Gap == {n - v : v \in T}
  <2>1. T \subseteq 1 .. n
    BY <1>2 DEF InStage
  <2>2. Gap \subseteq Nat /\ Gap # {}
    BY <1>4, <2>1
  <2>3. PICK g \in Gap : \A h \in Gap : ~(<<h, g>> \in OpToRel(<, Nat))
    BY <2>2, NatLessThanWellFounded, WFMin, Zenon
  <2>4. PICK v \in T : g = n - v
    BY <2>3
  <2>5. \A w \in T : v >= w
    <3> SUFFICES ASSUME NEW w \in T PROVE v >= w
        OBVIOUS
    <3>1. n - w \in Gap /\ n - w \in Nat /\ g \in Nat
      BY <2>1, <2>2, <2>3
    <3>2. ~(n - w < g)
      BY <2>3, <3>1 DEF OpToRel
    <3>3. v \in Int /\ w \in Int
      BY <2>1
    <3>4. QED
      BY <2>4, <3>2, <3>3
  <2>6. Max(T) \in T
    BY <2>5 DEF Max
  <2>7. QED
    BY <1>4, <2>6 DEF Latest
<1>5. QED
  BY <1>3, <1>4 DEF Latest

(***************************************************************************)
(* What a step does to the registry: trained versions stay and keep their  *)
(* score, and none falls back behind Production.                           *)
(***************************************************************************)
RegistryMoves ==
  \A v \in Versions : stage[v] # "absent" =>
    /\ stage'[v] # "absent" /\ score'[v] = score[v]
    /\ WasPromoted(v) => WasPromoted(v)'

PromoterType == [phase : {"idle", "compare", "transition"},
                 candidate : Versions \cup {NoVersion}, prod : Versions \cup {NoVersion}]

(***************************************************************************)
(* Lemma: then whatever was promoted, or has passed the gate, still has.   *)
(***************************************************************************)
LEMMA PromotedStays ==
  ASSUME RegistryMoves, NEW v \in Versions \cup {NoVersion}, WasPromoted(v)
  PROVE  WasPromoted(v)'
BY DEF RegistryMoves, WasPromoted

(***************************************************************************)
(* Lemma: and so does a promotion under way.                               *)
(***************************************************************************)
LEMMA GatedStays ==
  ASSUME RegistryMoves, NEW q \in PromoterType, Gated(q)
  PROVE  Gated(q)'
<1> SUFFICES ASSUME q.phase # "idle" PROVE Gated(q)'
    BY DEF Gated
<1>1. /\ q.candidate \in Versions /\ stage[q.candidate] # "absent"
      /\ WasPromoted(q.prod) /\ q.prod \in Versions \cup {NoVersion}
  BY DEF Gated, PromoterType
<1>2. stage'[q.candidate] # "absent" /\ score'[q.candidate] = score[q.candidate]
  BY <1>1 DEF RegistryMoves
<1>3. WasPromoted(q.prod)'
  BY <1>1, PromotedStays
<1>4. q.prod # NoVersion => score'[q.prod] = score[q.prod]
  BY <1>1 DEF RegistryMoves, WasPromoted
<1>5. QED
  BY <1>1, <1>2, <1>3, <1>4 DEF Gated, Better

(***************************************************************************)
(* Lemma: a transition keeps the registry typed, and moves it as above.    *)
(***************************************************************************)
LEMMA TransitionMoves ==
  ASSUME RolloutTypeOK, NEW v \in Versions, NEW archive \in BOOLEAN, stage[v] # "absent",
         stage' = Promoted(v, archive), UNCHANGED <<score, sample>>
  PROVE  /\ stage' \in [Versions -> Stages]
         /\ \A w \in Versions : stage'[w] # "absent" => stage[w] # "absent"
         /\ RegistryMoves
BY DEF RolloutTypeOK, Stages, Promoted, RegistryMoves, WasPromoted

(***************************************************************************)
(* Lemma: what the registry answers is there, and for these two stages has *)
(* been promoted.                                                          *)
(***************************************************************************)
LEMMA LatestTyped ==
  ASSUME RolloutAssumption, NEW s \in {"Production", "Archived"}
  PROVE  Latest(s) \in Versions \cup {NoVersion} /\ WasPromoted(Latest(s))
<1>1. CASE InStage(s) = {}
  BY <1>1, LatestIsThere DEF WasPromoted
<1>2. CASE InStage(s) # {}
  <2>1. PICK v \in InStage(s) : v = Latest(s)
    BY <1>2, LatestIsThere
  <2>2. v \in Versions /\ stage[v] = s
    BY DEF InStage
  <2>3. QED
    BY <2>1, <2>2 DEF WasPromoted
<1>3. QED
  BY <1>1, <1>2

(***************************************************************************)
(* Lemma: the registry alone changes ...                                   *)
(***************************************************************************)
LEMMA RegistryStep ==
  ASSUME RolloutInv, RegistryMoves,
         stage' \in [Versions -> Stages],
         score' \in [Versions -> Scores \cup {NoVersion}],
         sample' \in [Versions -> Samples \cup {NoVersion}],
         \A v \in Versions : stage'[v] # "absent" => score'[v] \in Scores /\ sample'[v] \in Samples,
         promoter' \in [Promoters -> PromoterType],
         \A p \in Promoters : promoter'[p] = promoter[p] \/ promoter'[p] = Idle,
         rollback' \in {rollback, NoVersion}, watcher' = watcher
  PROVE  RolloutInv'
<1> USE DEF RolloutInv
<1>1. RolloutTypeOK'
  BY DEF RolloutTypeOK, PromoterType
<1>2. ServedWasPromoted'
  <2>1. PICK b \in Versions \cup {NoVersion} : b = rollback /\ WasPromoted(b)
    BY DEF RolloutTypeOK, ServedWasPromoted
  <2>2. WasPromoted(rollback)'
    <3>1. WasPromoted(b)'
      BY <2>1, PromotedStays
    <3>2. QED
      BY <2>1, <3>1 DEF WasPromoted
  <2>3. ASSUME NEW w \in Watchers
        PROVE  /\ WasPromoted(watcher[w].loaded)' /\ WasPromoted(watcher[w].holdout)'
               /\ WasPromoted(watcher[w].next)'
    <3>1. {watcher[w].loaded, watcher[w].holdout, watcher[w].next}
            \subseteq Versions \cup {NoVersion}
      BY DEF RolloutTypeOK
    <3>2. /\ WasPromoted(watcher[w].loaded) /\ WasPromoted(watcher[w].holdout)
          /\ WasPromoted(watcher[w].next)
      BY DEF ServedWasPromoted
    <3>3. \A v \in Versions \cup {NoVersion} : WasPromoted(v) => WasPromoted(v)'
      BY PromotedStays
    <3>4. QED
      BY <3>1, <3>2, <3>3 DEF WasPromoted
  <2>4. QED
    BY <2>2, <2>3 DEF ServedWasPromoted
<1>3. ASSUME NEW p \in Promoters PROVE Gated(promoter[p])'
  <2>1. CASE promoter'[p] = promoter[p]
    <3>1. PICK q \in PromoterType : q = promoter[p]
      BY DEF RolloutTypeOK, PromoterType
    <3>2. Gated(q)'
      BY <3>1, GatedStays
    <3>3. QED
      BY <2>1, <3>1, <3>2 DEF Gated
  <2>2. CASE promoter'[p] = Idle
    BY <2>2 DEF Gated, Idle
  <2>3. QED
    BY <2>1, <2>2
<1>4. QED
  BY <1>1, <1>2, <1>3

(***************************************************************************)
(* Lemma: ... or one promoter goes on ...                                  *)
(***************************************************************************)
LEMMA PromoterStep ==
  ASSUME RolloutInv, NEW p \in Promoters, NEW q \in PromoterType, Gated(q),
         promoter' = [promoter EXCEPT ![p] = q],
         UNCHANGED <<stage, score, sample, rollback, watcher>>
  PROVE  RolloutInv'
<1> USE DEF RolloutInv
<1>1. promoter' \in [Promoters -> PromoterType]
  BY DEF RolloutTypeOK, PromoterType
<1>2. RolloutTypeOK' /\ ServedWasPromoted'
  BY <1>1 DEF RolloutTypeOK, ServedWasPromoted, WasPromoted, PromoterType
<1>3. ASSUME NEW r \in Promoters PROVE Gated(promoter[r])'
  <2>1. promoter'[r] = IF r = p THEN q ELSE promoter[r]
    BY DEF RolloutTypeOK
  <2>2. QED
    BY <2>1 DEF Gated, WasPromoted, Better
<1>4. QED
  BY <1>2, <1>3

WatcherType == [phase : {"poll", "load", "holdout", "holdoutLoad"},
                loaded : Versions \cup {NoVersion}, holdout : Versions \cup {NoVersion},
                next : Versions \cup {NoVersion}]

Watched(q) == WasPromoted(q.loaded) /\ WasPromoted(q.holdout) /\ WasPromoted(q.next)

(***************************************************************************)
(* Lemma: ... or one replica does.                                         *)
(***************************************************************************)
LEMMA WatcherStep ==
  ASSUME RolloutInv, NEW w \in Watchers, NEW q \in WatcherType, Watched(q),
         watcher' = [watcher EXCEPT ![w] = q],
         UNCHANGED <<stage, score, sample, promoter, rollback>>
  PROVE  RolloutInv'
<1> USE DEF RolloutInv
<1>1. watcher' \in [Watchers -> WatcherType]
  BY DEF RolloutTypeOK, WatcherType
<1>2. RolloutTypeOK'
  BY <1>1 DEF RolloutTypeOK, WatcherType
<1>3. \A x \in Watchers : watcher'[x] = IF x = w THEN q ELSE watcher[x]
  BY DEF RolloutTypeOK
<1>4. ServedWasPromoted'
  BY <1>3 DEF ServedWasPromoted, Watched, WasPromoted
<1>5. \A p \in Promoters : Gated(promoter[p])'
  BY DEF Gated, WasPromoted, Better
<1>6. QED
  BY <1>2, <1>4, <1>5

(***************************************************************************)
(* Lemma: every step preserves the invariant.                              *)
(***************************************************************************)
LEMMA PromotionGoesOn ==
  ASSUME RolloutAssumption, RolloutInv, NEW p \in Promoters, Promotion(p)
  PROVE  RolloutInv'
<1> USE DEF RolloutInv
<1>1. PICK o \in PromoterType : o = promoter[p] /\ Gated(o)
  BY DEF RolloutTypeOK, PromoterType
<1>2. Idle \in PromoterType /\ Gated(Idle)
  BY DEF Idle, PromoterType, Gated
<1>3. ASSUME NEW v \in Versions, LookUp(p, v) \/ LookUpFails(p, v) PROVE RolloutInv'
  <2>1. PICK prod \in Versions \cup {NoVersion} :
          /\ WasPromoted(prod)
          /\ promoter' = [promoter EXCEPT ![p] =
                            [phase |-> "compare", candidate |-> v, prod |-> prod]]
    <3>1. CASE LookUp(p, v)
      BY <3>1, LatestTyped DEF LookUp
    <3>2. CASE LookUpFails(p, v)
      BY <3>2 DEF LookUpFails, WasPromoted
    <3>3. QED
      BY <1>3, <3>1, <3>2
  <2>2. PICK q \in PromoterType : q = [phase |-> "compare", candidate |-> v, prod |-> prod]
    BY DEF PromoterType
  <2>3. stage[v] # "absent" /\ UNCHANGED <<stage, score, sample, rollback, watcher>>
    BY <1>3 DEF LookUp, LookUpFails
  <2>4. Gated(q)
    BY <2>1, <2>2, <2>3 DEF Gated
  <2>5. QED
    BY <2>1, <2>2, <2>3, <2>4, PromoterStep
<1>4. ASSUME Compare(p) \/ CompareBlind(p) PROVE RolloutInv'
  <2>1. PICK q \in PromoterType : q = [o EXCEPT !.phase = "transition"]
    BY DEF PromoterType
  <2>2. UNCHANGED <<stage, score, sample, rollback, watcher>> /\ o.phase = "compare"
    BY <1>1, <1>4 DEF Compare, CompareBlind
  <2>3. \/ promoter' = [promoter EXCEPT ![p] = Idle]
        \/ /\ o.prod # NoVersion => Better(o.candidate, o.prod)
           /\ promoter' = [promoter EXCEPT ![p] = q]
    BY <1>1, <1>4, <2>1 DEF Compare, CompareBlind
  <2>4. CASE promoter' = [promoter EXCEPT ![p] = Idle]
    BY <1>2, <2>2, <2>4, PromoterStep
  <2>5. CASE /\ o.prod # NoVersion => Better(o.candidate, o.prod)
             /\ promoter' = [promoter EXCEPT ![p] = q]
    <3>1. q.candidate = o.candidate /\ q.prod = o.prod
      BY <2>1 DEF PromoterType
    <3>2. Gated(q)
      BY <1>1, <2>2, <2>5, <3>1 DEF Gated
    <3>3. QED
      BY <2>2, <2>5, <3>2, PromoterStep
  <2>6. QED
    BY <2>3, <2>4, <2>5
<1>5. ASSUME Transition(p) PROVE RolloutInv'
  <2>1. o.candidate \in Versions /\ stage[o.candidate] # "absent"
    BY <1>1, <1>5 DEF Transition, Gated
  <2>2. PICK archive \in BOOLEAN : archive = (o.prod # NoVersion)
    OBVIOUS
  <2>3. /\ stage' = Promoted(o.candidate, archive)
        /\ promoter' = [promoter EXCEPT ![p] = Idle]
        /\ UNCHANGED <<score, sample, rollback, watcher>>
    BY <1>1, <1>5, <2>2 DEF Transition
  <2>4. /\ stage' \in [Versions -> Stages]
        /\ \A w \in Versions : stage'[w] # "absent" => stage[w] # "absent"
        /\ RegistryMoves
    BY <2>1, <2>3, TransitionMoves
  <2>5. /\ promoter' \in [Promoters -> PromoterType]
        /\ \A r \in Promoters : promoter'[r] = promoter[r] \/ promoter'[r] = Idle
    BY <1>2, <2>3 DEF RolloutTypeOK, PromoterType
  <2>6. /\ score' \in [Versions -> Scores \cup {NoVersion}]
        /\ sample' \in [Versions -> Samples \cup {NoVersion}]
        /\ \A w \in Versions : stage'[w] # "absent" => score'[w] \in Scores /\ sample'[w] \in Samples
    BY <2>3, <2>4 DEF RolloutTypeOK
  <2>7. QED
    BY <2>3, <2>4, <2>5, <2>6, RegistryStep
<1>6. ASSUME PromotionFails(p) PROVE RolloutInv'
  BY <1>2, <1>6, PromoterStep DEF PromotionFails
<1>7. QED
  BY <1>3, <1>4, <1>5, <1>6 DEF Promotion

(***************************************************************************)
(* Lemma: the watcher's steps, a poll that fails and a replica that        *)
(* restarts preserve the invariant.                                        *)
(***************************************************************************)
LEMMA WatcherGoesOn ==
  ASSUME RolloutAssumption, RolloutInv, NEW w \in Watchers,
         Polls(w) \/ PollFails(w) \/ Restart(w)
  PROVE  RolloutInv'
<1> USE DEF RolloutInv
<1>1. PICK o \in WatcherType : o = watcher[w] /\ Watched(o)
  BY DEF RolloutTypeOK, WatcherType, ServedWasPromoted, Watched
<1>2. PICK latest \in Versions \cup {NoVersion} :
        latest = Latest("Production") /\ WasPromoted(latest)
  BY LatestTyped
<1>3. PICK archived \in Versions \cup {NoVersion} :
        archived = Latest("Archived") /\ WasPromoted(archived)
  BY LatestTyped
<1>4. PICK q \in WatcherType : Watched(q) /\ watcher' = [watcher EXCEPT ![w] = q]
  <2>1. CASE FetchProduction(w)
    BY <1>1, <1>2, <2>1 DEF FetchProduction, WatcherType, Watched
  <2>2. CASE LoadProduction(w)
    BY <1>1, <2>2 DEF LoadProduction, WatcherType, Watched, WasPromoted
  <2>3. CASE FetchHoldout(w)
    BY <1>1, <1>3, <2>3 DEF FetchHoldout, WatcherType, Watched
  <2>4. CASE LoadHoldout(w)
    BY <1>1, <2>4 DEF LoadHoldout, WatcherType, Watched, WasPromoted
  <2>5. CASE PollFails(w)
    BY <1>1, <2>5 DEF PollFails, WatcherType, Watched, WasPromoted
  <2>6. CASE Restart(w)
    BY <2>6 DEF Restart, NewWatcher, WatcherType, Watched, WasPromoted
  <2>7. QED
    BY <2>1, <2>2, <2>3, <2>4, <2>5, <2>6 DEF Polls, Loads
<1>5. UNCHANGED <<stage, score, sample, promoter, rollback>>
  BY DEF Polls, Loads, FetchProduction, LoadProduction, FetchHoldout, LoadHoldout,
         PollFails, Restart
<1>6. QED
  BY <1>4, <1>5, WatcherStep

(***************************************************************************)
(* Lemma: every step preserves the invariant.                              *)
(***************************************************************************)
LEMMA RolloutGoesOn ==
  ASSUME RolloutAssumption, RolloutInv, [RolloutNext]_rolloutVars
  PROVE  RolloutInv'
<1>1. ASSUME NEW v \in Versions, NEW auc \in Scores, NEW data \in Samples, Train(v, auc, data)
      PROVE  RolloutInv'
  <2>1. /\ stage' \in [Versions -> Stages]
        /\ score' \in [Versions -> Scores \cup {NoVersion}]
        /\ sample' \in [Versions -> Samples \cup {NoVersion}]
        /\ \A w \in Versions : stage'[w] # "absent" => score'[w] \in Scores /\ sample'[w] \in Samples
    BY <1>1 DEF Train, RolloutInv, RolloutTypeOK, Stages
  <2>2. RegistryMoves
    BY <1>1 DEF Train, RegistryMoves, WasPromoted, RolloutInv, RolloutTypeOK
  <2>3. promoter' \in [Promoters -> PromoterType] /\ UNCHANGED <<promoter, rollback, watcher>>
    BY <1>1 DEF Train, RolloutInv, RolloutTypeOK, PromoterType
  <2>4. QED
    BY <2>1, <2>2, <2>3, RegistryStep
<1>2. ASSUME NEW p \in Promoters, Promotion(p) PROVE RolloutInv'
  BY <1>2, PromotionGoesOn
<1>3. ASSUME ChoosePrevious PROVE RolloutInv'
  <2>1. rollback' \in Versions \cup {NoVersion} /\ WasPromoted(rollback)'
    BY <1>3, LatestTyped DEF ChoosePrevious, WasPromoted
  <2>2. QED
    BY <1>3, <2>1 DEF ChoosePrevious, RolloutInv, RolloutTypeOK, ServedWasPromoted, WasPromoted,
                      Gated, Better
<1>4. ASSUME RollBack PROVE RolloutInv'
  <2>1. PICK b \in Versions : b = rollback /\ stage[b] # "absent"
    BY <1>4 DEF RollBack, RolloutInv, RolloutTypeOK, ServedWasPromoted, WasPromoted
  <2>2. stage' = Promoted(b, TRUE) /\ rollback' = NoVersion
        /\ UNCHANGED <<score, sample, promoter, watcher>>
    BY <1>4, <2>1 DEF RollBack
  <2>3. /\ stage' \in [Versions -> Stages]
        /\ \A w \in Versions : stage'[w] # "absent" => stage[w] # "absent"
        /\ RegistryMoves
    BY <2>1, <2>2, TransitionMoves DEF RolloutInv
  <2>4. /\ score' \in [Versions -> Scores \cup {NoVersion}]
        /\ sample' \in [Versions -> Samples \cup {NoVersion}]
        /\ \A w \in Versions : stage'[w] # "absent" => score'[w] \in Scores /\ sample'[w] \in Samples
        /\ promoter' \in [Promoters -> PromoterType]
    BY <2>2, <2>3 DEF RolloutInv, RolloutTypeOK, PromoterType
  <2>5. QED
    BY <2>2, <2>3, <2>4, RegistryStep
<1>5. ASSUME NEW w \in Watchers, Polls(w) \/ PollFails(w) \/ Restart(w) PROVE RolloutInv'
  BY <1>5, WatcherGoesOn
<1>6. ASSUME UNCHANGED rolloutVars PROVE RolloutInv'
  BY <1>6 DEF rolloutVars, RolloutInv, RolloutTypeOK, ServedWasPromoted, WasPromoted, Gated, Better
<1>7. QED
  BY <1>1, <1>2, <1>3, <1>4, <1>5, <1>6 DEF RolloutNext

(***************************************************************************)
(* Theorem: for any number of promoters, replicas, rollbacks and failures  *)
(* the rollout is typed and no replica serves, or is about to load, a      *)
(* version that was never in Production.                                   *)
(***************************************************************************)
THEOREM OnlyPromotedServe ==
  ASSUME RolloutAssumption
  PROVE  RolloutSpec => [](RolloutTypeOK /\ ServedWasPromoted)
<1>1. RolloutInit => RolloutInv
  BY DEF RolloutInit, RolloutInv, RolloutTypeOK, ServedWasPromoted, WasPromoted, Gated,
         Idle, NewWatcher, Stages
<1>2. RolloutInv /\ [RolloutNext]_rolloutVars => RolloutInv'
  BY RolloutGoesOn
<1>3. RolloutInv => RolloutTypeOK /\ ServedWasPromoted
  BY DEF RolloutInv
<1>4. QED
  BY <1>1, <1>2, <1>3, PTL DEF RolloutSpec

(***************************************************************************)
(* Theorem: for any number of promoters, rollbacks and failures a          *)
(* promotion replaces the Production version it found only by one that     *)
(* beats it: a registration, a promotion or a rollback in between changes  *)
(* no score (promote_model.py:195).                                        *)
(***************************************************************************)
THEOREM PromotionsReplaceForBetter ==
  ASSUME RolloutAssumption
  PROVE  RolloutSpec => ReplacesForBetter
<1> DEFINE Step == \A p \in Promoters, v \in Versions :
                     Replaces(p, v) => Better(promoter[p].candidate, v)
<1>1. RolloutInit => RolloutInv
  BY DEF RolloutInit, RolloutInv, RolloutTypeOK, ServedWasPromoted, WasPromoted, Gated,
         Idle, NewWatcher, Stages
<1>2. RolloutInv /\ [RolloutNext]_rolloutVars => RolloutInv'
  BY RolloutGoesOn
<1>3. RolloutInv => Step
  <2> SUFFICES ASSUME RolloutInv, NEW p \in Promoters, NEW v \in Versions, Replaces(p, v)
               PROVE  Better(promoter[p].candidate, v)
      OBVIOUS
  <2>1. promoter[p].phase = "transition" /\ promoter[p].prod = v /\ Gated(promoter[p])
    BY DEF Replaces, Transition, RolloutInv
  <2>2. v # NoVersion
    BY LatestIsThere
  <2>3. QED
    BY <2>1, <2>2 DEF Gated
<1>4. QED
  BY <1>1, <1>2, <1>3, PTL DEF RolloutSpec, ReplacesForBetter

-----------------------------------------------------------------------------
USE BreakerAssumption

BreakerInv == BreakerTypeOK /\ OpenIffFailing

(***************************************************************************)
(* Lemma: a call that ends leaves the others alone.                        *)
(***************************************************************************)
LEMMA OverTypes ==
  ASSUME BreakerTypeOK, NEW k \in Calls, Over(k)
  PROVE  call' \in [Calls -> CallStates]
BY DEF BreakerTypeOK, Over, CallStates

(***************************************************************************)
(* Lemma: every step preserves the invariant.                              *)
(***************************************************************************)
LEMMA BreakerGoesOn == BreakerInv /\ [BreakerNext]_breakerVars => BreakerInv'
<1> SUFFICES ASSUME BreakerInv, [BreakerNext]_breakerVars PROVE BreakerInv'
    OBVIOUS
<1>1. ASSUME NEW k \in Calls, Admit(k) PROVE BreakerInv'
  BY <1>1 DEF BreakerInv, BreakerTypeOK, OpenIffFailing, Admit, CallStates
<1>2. ASSUME NEW k \in Calls, RecordSuccess(k) PROVE BreakerInv'
  <2>1. call' \in [Calls -> CallStates]
    BY <1>2, OverTypes DEF BreakerInv, RecordSuccess
  <2>2. failures' = 0 /\ age' = NotOpen /\ up' = up
    BY <1>2 DEF RecordSuccess, CounterReset, Reclosed
  <2>3. QED
    BY <2>1, <2>2 DEF BreakerInv, BreakerTypeOK, OpenIffFailing
<1>3. ASSUME NEW k \in Calls, RecordFailure(k) PROVE BreakerInv'
  <2>1. call' \in [Calls -> CallStates]
    BY <1>3, OverTypes DEF BreakerInv, RecordFailure
  <2>2. CASE failures + 1 < Threshold
    <3>1. failures' = failures + 1 /\ age' = age /\ up' = up
      BY <1>3, <2>2 DEF RecordFailure, BreakerInv, BreakerTypeOK
    <3>2. QED
      BY <2>1, <2>2, <3>1 DEF BreakerInv, BreakerTypeOK, OpenIffFailing
  <2>3. CASE failures + 1 = Threshold
    <3>1. failures' = Threshold /\ age' = 0 /\ up' = up
      BY <1>3, <2>3 DEF RecordFailure, BreakerInv, BreakerTypeOK, OpenIffFailing
    <3>2. QED
      BY <2>1, <3>1 DEF BreakerInv, BreakerTypeOK, OpenIffFailing
  <2>4. CASE failures = Threshold
    <3>1. failures' = failures /\ age' = age /\ up' = up
      BY <1>3, <2>4 DEF RecordFailure, BreakerInv, BreakerTypeOK, OpenIffFailing
    <3>2. QED
      BY <2>1, <3>1 DEF BreakerInv, BreakerTypeOK, OpenIffFailing
  <2>5. QED
    BY <2>2, <2>3, <2>4 DEF BreakerInv, BreakerTypeOK
<1>4. ASSUME NEW k \in Calls, Cancel(k) PROVE BreakerInv'
  BY <1>4, OverTypes DEF BreakerInv, BreakerTypeOK, OpenIffFailing, Cancel
<1>5. ASSUME Second PROVE BreakerInv'
  BY <1>5 DEF BreakerInv, BreakerTypeOK, OpenIffFailing, Second, state
<1>6. ASSUME Flip PROVE BreakerInv'
  BY <1>6 DEF BreakerInv, BreakerTypeOK, OpenIffFailing, Flip
<1>7. ASSUME UNCHANGED breakerVars PROVE BreakerInv'
  BY <1>7 DEF BreakerInv, BreakerTypeOK, OpenIffFailing, breakerVars
<1>8. QED
  BY <1>1, <1>2, <1>3, <1>4, <1>5, <1>6, <1>7 DEF BreakerNext

(***************************************************************************)
(* Theorem: the breaker is open exactly when the failures since the last   *)
(* success reached the threshold, however many calls overlap.              *)
(***************************************************************************)
THEOREM OpenMeansFailing == BreakerSpec => [](BreakerTypeOK /\ OpenIffFailing)
<1>1. BreakerInit => BreakerInv
  BY DEF BreakerInit, BreakerInv, BreakerTypeOK, OpenIffFailing, CallStates
<1>2. BreakerInv /\ [BreakerNext]_breakerVars => BreakerInv'
  BY BreakerGoesOn
<1>3. BreakerInv => BreakerTypeOK /\ OpenIffFailing
  BY DEF BreakerInv
<1>4. QED
  BY <1>1, <1>2, <1>3, PTL DEF BreakerSpec
=============================================================================
