----------------------------- MODULE Activation -----------------------------
(***************************************************************************)
(* POST /v1/mobile/recommendations/{id}/respond of mobile_api.             *)
(*                                                                         *)
(* An accept runs one Postgres transaction around a Redis write: the       *)
(* conditional UPDATE of the offer row (which takes its row lock), the Lua *)
(* script that sets the hot key unless the attempt was voided, COMMIT.     *)
(* Any other way out voids the attempt: a second script sets the fence of  *)
(* the attempt and deletes the key if it still holds this attempt's value. *)
(* Redis may run a script after the caller stopped waiting for it, or lose *)
(* its reply; the COMMIT may succeed while its acknowledgement is lost;    *)
(* the process may die at any point.                                       *)
(***************************************************************************)
EXTENDS CashbackStore

CONSTANT NoOffer         \* an attempt that holds no offer

ASSUME NoOfferAssumption == NoOffer \notin Offers

VARIABLES attempt,       \* the progress of each accept request
          inflight,      \* activation scripts sent and not yet executed
          fence          \* attempts whose fence key exists

activationVars == <<attempt, inflight, fence>>

Running == {"sent", "written"}                      \* inside the transaction
Phases == {"idle", "begun"} \cup Running
            \cup {"voiding", "committed", "voided", "abandoned"}

\* ARGV of the activation script: whose value it sets, for how long.
Command == [attempt : Attempts, offer : Offers, ttl : Nat]

Attempt == [phase : Phases, offer : Offers \cup {NoOffer}, at : Nat]

\* A request that is over keeps only how it ended.
At(p) == [phase |-> p, offer |-> NoOffer, at |-> 0]

ActivationTypeOK ==
  /\ attempt \in [Attempts -> Attempt]
  /\ \A a \in Attempts :
       attempt[a].phase \in Running \cup {"begun", "voiding"} => attempt[a].offer \in Offers
  /\ inflight \subseteq Command
  /\ fence \subseteq Attempts

ActivationInit ==
  /\ attempt = [a \in Attempts |-> At("idle")]
  /\ inflight = {}
  /\ fence = {}

-----------------------------------------------------------------------------
\* BEGIN: now() of the transaction is fixed here, before it waits for the row.
Begin(a, o) ==
  /\ attempt[a].phase = "idle"
  /\ attempt' = [attempt EXCEPT ![a] = [phase |-> "begun", offer |-> o, at |-> clock]]
  /\ UNCHANGED <<storeVars, inflight, fence>>

\* Mutant: UPDATE ... WHERE recommendation_id without the status.
AnswerableTwice(o, at) == ExpiresAt[o] > at

\* The WHERE of the conditional UPDATE, with now() = at.
Answerable(o, at) == status[o] \in Respondable /\ ExpiresAt[o] > at

\* Mutant: the difference the wrong way round.
TtlNegated(o, at) == at - ExpiresAt[o]

\* The rest of the offer's life by the database's clock.
Ttl(o, at) == ExpiresAt[o] - at

\* The conditional UPDATE finds the row; the activation script is sent.
Claim(a) ==
  LET o == attempt[a].offer IN
  /\ attempt[a].phase = "begun"
  /\ offerLock[o] = Nobody
  /\ Answerable(o, attempt[a].at)
  /\ offerLock' = [offerLock EXCEPT ![o] = a]
  /\ attempt' = [attempt EXCEPT ![a].phase = "sent"]
  /\ inflight' = inflight \cup
       {[attempt |-> a, offer |-> o, ttl |-> Ttl(o, attempt[a].at)]}
  /\ UNCHANGED <<clock, status, respondedAt, hotKey, fence>>

\* 404, 409 or 410: the UPDATE matched no row (so it waits for no lock).
Reject(a) ==
  /\ attempt[a].phase = "begun"
  /\ ~Answerable(attempt[a].offer, attempt[a].at)
  /\ attempt' = [attempt EXCEPT ![a] = At("idle")]
  /\ UNCHANGED <<storeVars, inflight, fence>>

\* Mutant: the activation script does not look at the fence.
NotFenced(cmd) == TRUE

\* EXISTS of the attempt's fence key.
Admitted(cmd) == cmd.attempt \notin fence

\* Redis runs the activation script: a voided attempt writes nothing.  The
\* reply reaches a caller that still waits, or is lost.
RunActivation(cmd) ==
  /\ inflight' = inflight \ {cmd}
  /\ hotKey' = IF Admitted(cmd)
               THEN [hotKey EXCEPT ![OfferSlot[cmd.offer]] =
                       [offer |-> cmd.offer, attempt |-> cmd.attempt,
                        endsAt |-> clock + cmd.ttl]]
               ELSE hotKey
  /\ \/ /\ attempt[cmd.attempt].phase = "sent"
        /\ attempt' = [attempt EXCEPT ![cmd.attempt].phase = "written"]
     \/ UNCHANGED attempt
  /\ UNCHANGED <<clock, status, respondedAt, offerLock, fence>>

\* The script never reaches Redis.
LoseActivation(cmd) ==
  /\ inflight' = inflight \ {cmd}
  /\ UNCHANGED <<storeVars, attempt, fence>>

\* The transaction of attempt a is over: its row lock is released.
Unlocked(a) == [offerLock EXCEPT ![attempt[a].offer] = Nobody]

Accepted(a) ==
  /\ status' = [status EXCEPT ![attempt[a].offer] = "ACCEPTED"]
  /\ respondedAt' = [respondedAt EXCEPT ![attempt[a].offer] = attempt[a].at]
  /\ offerLock' = Unlocked(a)
  /\ UNCHANGED <<clock, hotKey, inflight, fence>>

\* COMMIT, acknowledged.
Commit(a) ==
  /\ attempt[a].phase = "written"
  /\ Accepted(a)
  /\ attempt' = [attempt EXCEPT ![a] = At("committed")]

\* COMMIT is applied but its acknowledgement is lost: respond() sees an
\* exception and takes the way of a rollback.
CommitUnacknowledged(a) ==
  /\ attempt[a].phase = "written"
  /\ Accepted(a)
  /\ attempt' = [attempt EXCEPT ![a].phase = "voiding"]

\* The Redis write timed out or failed, COMMIT failed, or the request was
\* cancelled: Postgres rolls back, the finally block starts to void.
Rollback(a) ==
  /\ attempt[a].phase \in Running
  /\ offerLock' = Unlocked(a)
  /\ attempt' = [attempt EXCEPT ![a].phase = "voiding"]
  /\ UNCHANGED <<clock, status, respondedAt, hotKey, inflight, fence>>

\* Redis runs the void script: fence, then compare-and-delete.
Void(a) ==
  LET s == OfferSlot[attempt[a].offer] IN
  /\ attempt[a].phase = "voiding"
  /\ fence' = fence \cup {a}
  /\ hotKey' = IF hotKey[s] # NoKey /\ hotKey[s].attempt = a
               THEN [hotKey EXCEPT ![s] = NoKey] ELSE hotKey
  /\ attempt' = [attempt EXCEPT ![a] = At("voided")]
  /\ UNCHANGED <<clock, status, respondedAt, offerLock, inflight>>

\* The void never runs: Redis is down, or the process dies first.
LoseVoid(a) ==
  /\ attempt[a].phase = "voiding"
  /\ attempt' = [attempt EXCEPT ![a] = At("abandoned")]
  /\ UNCHANGED <<storeVars, inflight, fence>>

\* The process dies inside the transaction; Postgres rolls it back.
CrashAttempt(a) ==
  /\ attempt[a].phase \in Running
  /\ offerLock' = Unlocked(a)
  /\ attempt' = [attempt EXCEPT ![a] = At("abandoned")]
  /\ UNCHANGED <<clock, status, respondedAt, hotKey, inflight, fence>>

\* DECLINED or SNOOZE: the UPDATE alone, no side effect in Redis.
Answer(o, answer) ==
  /\ offerLock[o] = Nobody
  /\ Answerable(o, clock)
  /\ status' = [status EXCEPT ![o] = answer]
  /\ respondedAt' = [respondedAt EXCEPT ![o] = clock]
  /\ UNCHANGED <<clock, offerLock, hotKey, activationVars>>

-----------------------------------------------------------------------------
\* What one request does on its own.
RequestStep(a) ==
  \/ Claim(a) \/ Reject(a)
  \/ Commit(a) \/ CommitUnacknowledged(a) \/ Rollback(a)
  \/ Void(a) \/ LoseVoid(a) \/ CrashAttempt(a)

ActivationNext ==
  \/ \E a \in Attempts, o \in Offers : Begin(a, o)
  \/ \E a \in Attempts : RequestStep(a)
  \/ \E cmd \in inflight : RunActivation(cmd) \/ LoseActivation(cmd)
  \/ \E o \in Offers, answer \in {"DECLINED", "SNOOZE"} : Answer(o, answer)
=============================================================================
