------------------------------- MODULE Accrual -------------------------------
(***************************************************************************)
(* AccrualEngine.accrue of transaction_listener, with the part of          *)
(* TransactionListener._process that leads to it and the SQL of migration  *)
(* 009 it runs.                                                            *)
(*                                                                         *)
(* Workers are listener tasks (pods, or the old and the new owner of a     *)
(* partition during a rebalance).  Kafka delivers a purchase at least      *)
(* once: any worker may meet any purchase at any time, and again after it  *)
(* was paid.  A worker that fails loses its transaction and its locks.     *)
(***************************************************************************)
EXTENDS CashbackStore, FiniteSetsExt

CONSTANTS Purchases,     \* transaction ids
          PurchaseSlot,  \* (user, MCC) of a purchase
          Cashback,      \* calculate_cashback(campaign, mcc, amount), in kopecks
          BudgetTotal,   \* budget_total of a campaign
          DailyLimit,    \* daily_limit of a campaign, or NoLimit
          Window,        \* the seconds t with start_date <= t < end_date
          DayLength,     \* seconds in a UTC day
          Skew,          \* how far a producer's clock may run ahead
          NoLimit,
          Never,         \* a purchase not made yet
          None           \* no purchase, no offer

ASSUME AccrualAssumption ==
  /\ PurchaseSlot \in [Purchases -> Slots]
  /\ Cashback \in [Campaigns -> [Purchases -> Nat]]
  /\ BudgetTotal \in [Campaigns -> Nat]
  /\ DailyLimit \in [Campaigns -> Nat \cup {NoLimit}]
  /\ NoLimit \notin Nat
  /\ Window \in [Campaigns -> SUBSET Nat]
  /\ DayLength \in Nat \ {0}
  /\ Skew \in Nat
  /\ Never \notin Nat
  /\ None \notin Offers \cup Purchases

VARIABLES bought,        \* transaction_date of each purchase produced so far
          live,          \* campaigns that are ACTIVE and not archived
          campaignLock,  \* who holds the row lock of a campaign
          ledger,        \* rows of cashback_accruals (committed)
          spent,         \* cashback_campaigns.budget_spent (committed)
          worker,        \* the accrual each worker is running
          announced      \* how many cashback.accrued events an offer had

accrualVars == <<bought, live, campaignLock, ledger, spent, worker, announced>>

Row == [offer : Offers, purchase : Purchases, campaign : Campaigns,
        amount : Nat, bookedAt : Nat]

\* Where a worker is: after the Redis GET, holding the offer, holding the
\* campaign too, after COMMIT with an accrual, after a duplicate that
\* consumed the offer, before the event.
Stages == {"idle", "fetched", "offer", "campaign", "booked", "duplicate", "publish"}

Run == [stage : Stages, purchase : Purchases \cup {None},
        offer : Offers \cup {None}, bookedAt : Nat]

Idle == [stage |-> "idle", purchase |-> None, offer |-> None, bookedAt |-> 0]

AccrualTypeOK ==
  /\ bought \in [Purchases -> Nat \cup {Never}]
  /\ live \subseteq Campaigns
  /\ campaignLock \in [Campaigns -> Workers \cup {Nobody}]
  /\ ledger \subseteq Row
  /\ spent \in [Campaigns -> Nat]
  /\ worker \in [Workers -> Run]
  /\ \A w \in Workers : worker[w].stage # "idle" =>
       /\ worker[w].purchase \in Purchases /\ bought[worker[w].purchase] \in Nat
       /\ worker[w].offer \in Offers
  /\ announced \in [Offers -> Nat]

AccrualInit ==
  /\ bought = [p \in Purchases |-> Never]
  /\ live = Campaigns
  /\ campaignLock = [c \in Campaigns |-> Nobody]
  /\ ledger = {}
  /\ spent = [c \in Campaigns |-> 0]
  /\ worker = [w \in Workers |-> Idle]
  /\ announced = [o \in Offers |-> 0]

-----------------------------------------------------------------------------
\* A bank transaction reaches the topic, stamped by its producer's clock.
Buy(p, ahead) ==
  /\ bought[p] = Never
  /\ bought' = [bought EXCEPT ![p] = clock + ahead]
  /\ UNCHANGED <<storeVars, live, campaignLock, ledger, spent, worker, announced>>

\* Mutant: the campaign row is read without a lock.
AnyCampaign(c) == TRUE

\* Nobody holds the row of campaign c: FOR NO KEY UPDATE does not wait.
CampaignFree(c) == campaignLock[c] = Nobody

\* An operator or the scheduler changes the status of a campaign.
SwitchCampaign(c) ==
  /\ CampaignFree(c)
  /\ live' = IF c \in live THEN live \ {c} ELSE live \cup {c}
  /\ UNCHANGED <<storeVars, bought, campaignLock, ledger, spent, worker, announced>>

-----------------------------------------------------------------------------
\* Mutant of Paid: only the offer is looked up, not the purchase.
PaidByOffer(o, p) == {r \in ledger : r.offer = o}

\* Rows of this offer, or of this purchase under any offer.
Paid(o, p) == {r \in ledger : r.offer = o \/ r.purchase = p}

PaysOffer(rows, o) == \E r \in rows : r.offer = o

\* Mutant: the status of the offer row is not checked.
AcceptableUnanswered(o, p) ==
  /\ respondedAt[o] <= bought[p]
  /\ bought[p] < ExpiresAt[o]

\* Accepted no later than the purchase, and not expired at the purchase.
Acceptable(o, p) ==
  /\ status[o] = "ACCEPTED"
  /\ respondedAt[o] <= bought[p]
  /\ bought[p] < ExpiresAt[o]

DayStart(t) == t - (t % DayLength)

SmallerOf(s, t) == IF s <= t THEN s ELSE t

Total(rows) == MapThenSumSet(LAMBDA r : r.amount, rows)

\* Mutant: the day of now() instead of LEAST(p_at, now()).
SpentSinceMidnight(c, at, dbNow) ==
  Total({r \in ledger : r.campaign = c /\ r.bookedAt >= DayStart(dbNow)})

\* eligible_campaigns.spent_today of a purchase stamped at, as of dbNow.
SpentToday(c, at, dbNow) ==
  Total({r \in ledger : r.campaign = c /\ r.bookedAt >= DayStart(SmallerOf(at, dbNow))})

\* Eligibility, a positive cashback, and room for all of it.  The client's
\* consent, segment and RFM score, which the same query reads, are not
\* modelled: a campaign that refuses the client is one that is not live.
Payable(c, p, dbNow) ==
  /\ c \in live
  /\ bought[p] \in Window[c]
  /\ Cashback[c][p] > 0
  /\ DailyLimit[c] # NoLimit =>
       SpentToday(c, bought[p], dbNow) + Cashback[c][p] <= DailyLimit[c]
  /\ Cashback[c][p] <= BudgetTotal[c] - spent[c]

-----------------------------------------------------------------------------
\* COMMIT or ROLLBACK of worker w: its row locks are released.
Released(w, locks) == [x \in DOMAIN locks |-> IF locks[x] = w THEN Nobody ELSE locks[x]]

\* _process: the Redis GET finds an offer.  accrued_at is read before the
\* next await, so no step separates the two.  Without a key the outcome is
\* no_offer and nothing changes.
Fetch(w, p) ==
  LET key == hotKey[PurchaseSlot[p]] IN
  /\ worker[w].stage = "idle"
  /\ bought[p] # Never
  /\ key # NoKey
  /\ worker' = [worker EXCEPT ![w] = [stage |-> "fetched", purchase |-> p,
                                      offer |-> key.offer, bookedAt |-> clock]]
  /\ UNCHANGED <<storeVars, bought, live, campaignLock, ledger, spent, announced>>

\* 1) SELECT ... FOR UPDATE of the offer, then the ledger, then the offer's
\* own conditions.  Every skip ends the transaction at once; a duplicate of
\* this offer still has its key to release.
LockOffer(w) ==
  LET o == worker[w].offer
      p == worker[w].purchase
      paid == Paid(o, p)
  IN
  /\ worker[w].stage = "fetched"
  /\ offerLock[o] = Nobody
  /\ \/ /\ paid = {}
        /\ Acceptable(o, p)
        /\ offerLock' = [offerLock EXCEPT ![o] = w]
        /\ worker' = [worker EXCEPT ![w].stage = "offer"]
     \/ /\ paid = {}
        /\ ~Acceptable(o, p)
        /\ worker' = [worker EXCEPT ![w] = Idle]
        /\ UNCHANGED offerLock
     \/ /\ PaysOffer(paid, o)
        /\ worker' = [worker EXCEPT ![w].stage = "duplicate"]
        /\ UNCHANGED offerLock
     \/ /\ paid # {}
        /\ ~PaysOffer(paid, o)
        /\ worker' = [worker EXCEPT ![w] = Idle]
        /\ UNCHANGED offerLock
  /\ UNCHANGED <<clock, status, respondedAt, hotKey,
                 bought, live, campaignLock, ledger, spent, announced>>

\* 2-5) FOR NO KEY UPDATE of the campaign, then eligibility, cashback, daily
\* limit and budget as of the start of the transaction (dbNow), which may lie
\* anywhere between accrued_at and now.
LockCampaign(w) ==
  LET c == OfferCampaign[worker[w].offer] IN
  /\ worker[w].stage = "offer"
  /\ CampaignFree(c)
  /\ \E dbNow \in worker[w].bookedAt .. clock : Payable(c, worker[w].purchase, dbNow)
  /\ campaignLock' = [campaignLock EXCEPT ![c] = w]
  /\ worker' = [worker EXCEPT ![w].stage = "campaign"]
  /\ UNCHANGED <<storeVars, bought, live, ledger, spent, announced>>

\* not_eligible, zero_cashback, daily_limit_reached, budget_exhausted.
SkipCampaign(w) ==
  LET c == OfferCampaign[worker[w].offer] IN
  /\ worker[w].stage = "offer"
  /\ CampaignFree(c)
  /\ \E dbNow \in worker[w].bookedAt .. clock : ~Payable(c, worker[w].purchase, dbNow)
  /\ offerLock' = Released(w, offerLock)
  /\ worker' = [worker EXCEPT ![w] = Idle]
  /\ UNCHANGED <<clock, status, respondedAt, hotKey,
                 bought, live, campaignLock, ledger, spent, announced>>

\* 6) INSERT ... ON CONFLICT DO NOTHING, the budget, COMMIT.  A conflicting
\* row of a transaction still open would be waited for: either it commits
\* before this step, or it never exists.
Book(w) ==
  LET o == worker[w].offer
      p == worker[w].purchase
      c == OfferCampaign[o]
      row == [offer |-> o, purchase |-> p, campaign |-> c,
              amount |-> Cashback[c][p], bookedAt |-> worker[w].bookedAt]
  IN
  /\ worker[w].stage = "campaign"
  /\ offerLock' = Released(w, offerLock)
  /\ campaignLock' = Released(w, campaignLock)
  /\ \/ /\ Paid(o, p) = {}
        /\ ledger' = ledger \cup {row}
        /\ spent' = [spent EXCEPT ![c] = @ + row.amount]
        /\ worker' = [worker EXCEPT ![w].stage = "booked"]
     \/ /\ PaysOffer(Paid(o, p), o)
        /\ worker' = [worker EXCEPT ![w].stage = "duplicate"]
        /\ UNCHANGED <<ledger, spent>>
     \/ /\ Paid(o, p) # {}
        /\ ~PaysOffer(Paid(o, p), o)
        /\ worker' = [worker EXCEPT ![w] = Idle]
        /\ UNCHANGED <<ledger, spent>>
  /\ UNCHANGED <<clock, status, respondedAt, hotKey, bought, live, announced>>

\* Mutant: a plain DEL.
KeyDeleted(s, o) == NoKey

\* The release script: compare the offer, delete.
KeyReleased(s, o) == IF hotKey[s] # NoKey /\ hotKey[s].offer = o THEN NoKey ELSE hotKey[s]

\* Mutant: a duplicate is published like an accrual.
AlwaysPublished(run) == [run EXCEPT !.stage = "publish"]

\* Only a worker that booked an accrual has an event to publish.
AfterRelease(run) ==
  IF run.stage = "booked" THEN [run EXCEPT !.stage = "publish"] ELSE Idle

\* After the COMMIT: the key goes if it still names this offer.  The delete
\* is best effort, the worker goes on either way.
ReleaseKey(w) ==
  LET s == PurchaseSlot[worker[w].purchase] IN
  /\ worker[w].stage \in {"booked", "duplicate"}
  /\ \/ hotKey' = [hotKey EXCEPT ![s] = KeyReleased(s, worker[w].offer)]
     \/ UNCHANGED hotKey
  /\ worker' = [worker EXCEPT ![w] = AfterRelease(@)]
  /\ UNCHANGED <<clock, status, respondedAt, offerLock,
                 bought, live, campaignLock, ledger, spent, announced>>

\* cashback.accrued, best effort.
Publish(w) ==
  /\ worker[w].stage = "publish"
  /\ \/ announced' = [announced EXCEPT ![worker[w].offer] = @ + 1]
     \/ UNCHANGED announced
  /\ worker' = [worker EXCEPT ![w] = Idle]
  /\ UNCHANGED <<storeVars, bought, live, campaignLock, ledger, spent>>

\* A database error, a lost connection or a crash: Postgres rolls back what is
\* not committed; the purchase stays in Kafka and will be delivered again.
Fail(w) ==
  /\ worker[w].stage # "idle"
  /\ worker' = [worker EXCEPT ![w] = Idle]
  /\ offerLock' = Released(w, offerLock)
  /\ campaignLock' = Released(w, campaignLock)
  /\ UNCHANGED <<clock, status, respondedAt, hotKey,
                 bought, live, ledger, spent, announced>>

-----------------------------------------------------------------------------
AccrueStep(w) ==
  \/ LockOffer(w) \/ LockCampaign(w) \/ SkipCampaign(w)
  \/ Book(w) \/ ReleaseKey(w) \/ Publish(w)

AccrualNext ==
  \/ \E p \in Purchases, ahead \in 0 .. Skew : Buy(p, ahead)
  \/ \E c \in Campaigns : SwitchCampaign(c)
  \/ \E w \in Workers, p \in Purchases : Fetch(w, p)
  \/ \E w \in Workers : AccrueStep(w) \/ Fail(w)
=============================================================================
