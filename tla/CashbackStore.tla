--------------------------- MODULE CashbackStore ---------------------------
(***************************************************************************)
(* What mobile_api and transaction_listener share: the offer rows in       *)
(* Postgres (with their row locks), the hot key in Redis that tells the    *)
(* listener which accepted offer a purchase of a user and an MCC meets,    *)
(* and the wall clock.                                                     *)
(*                                                                         *)
(* A slot stands for one pair (user, MCC), i.e. one Redis key              *)
(* accepted_offers:{user_id}:{mcc_code}.  Time is counted in seconds, the  *)
(* precision in which producers stamp transaction_date.                    *)
(***************************************************************************)
EXTENDS Integers, FiniteSets

CONSTANTS Offers,        \* rows of recommendations
          Slots,         \* (user, MCC) pairs
          Campaigns,     \* rows of cashback_campaigns
          OfferSlot,     \* the (user_id, mcc_code) of an offer
          OfferCampaign, \* the campaign_id of an offer
          ExpiresAt,     \* the expires_at of an offer
          Attempts,      \* accept requests, one activation_id each
          Workers,       \* tasks that run AccrualEngine.accrue
          MaxTime,       \* bound of the clock
          NoKey,         \* a Redis key that does not exist
          Nobody         \* a row lock that nobody holds

VARIABLES clock,       \* now, in seconds
          status,      \* recommendations.response_status (committed)
          respondedAt, \* recommendations.responded_at (committed)
          offerLock,   \* who holds the row lock of an offer
          hotKey       \* the Redis key of a slot

storeVars == <<clock, status, respondedAt, offerLock, hotKey>>

\* What mobile_api writes into a key, with the second at which its TTL ends.
Key == [offer : Offers, attempt : Attempts, endsAt : Nat]

ASSUME StoreAssumption ==
  /\ OfferSlot \in [Offers -> Slots]
  /\ OfferCampaign \in [Offers -> Campaigns]
  /\ ExpiresAt \in [Offers -> Nat]
  /\ MaxTime \in Nat
  /\ Attempts \cap Workers = {}
  /\ Nobody \notin Attempts \cup Workers
  /\ NoKey \notin Key

\* respond() answers only these; ACCEPTED and DECLINED are terminal.
Respondable == {"PENDING", "SNOOZE"}
Statuses == Respondable \cup {"ACCEPTED", "DECLINED"}

StoreTypeOK ==
  /\ clock \in Nat
  /\ status \in [Offers -> Statuses]
  /\ respondedAt \in [Offers -> Nat]
  /\ offerLock \in [Offers -> Attempts \cup Workers \cup {Nobody}]
  /\ \A s \in Slots : \/ hotKey[s] = NoKey
                      \/ hotKey[s] \in Key /\ OfferSlot[hotKey[s].offer] = s
  /\ DOMAIN hotKey = Slots

\* recommendation_api persisted the offers; nobody answered them yet.
StoreInit ==
  /\ clock = 0
  /\ status = [o \in Offers |-> "PENDING"]
  /\ respondedAt = [o \in Offers |-> 0]
  /\ offerLock = [o \in Offers |-> Nobody]
  /\ hotKey = [s \in Slots |-> NoKey]

\* Time passes, and Redis drops the keys whose TTL is over.
Tick ==
  /\ clock < MaxTime
  /\ clock' = clock + 1
  /\ hotKey' = [s \in Slots |-> IF hotKey[s] # NoKey /\ hotKey[s].endsAt <= clock + 1
                                THEN NoKey ELSE hotKey[s]]
  /\ UNCHANGED <<status, respondedAt, offerLock>>
=============================================================================
