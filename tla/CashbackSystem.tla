--------------------------- MODULE CashbackSystem ---------------------------
(***************************************************************************)
(* The money path of the bank: mobile_api's accept protocol (Activation)   *)
(* and transaction_listener's accruals (Accrual) over the Postgres rows    *)
(* and Redis keys they share (CashbackStore).                              *)
(***************************************************************************)
EXTENDS Activation, Accrual

vars == <<storeVars, activationVars, accrualVars>>

Init == StoreInit /\ ActivationInit /\ AccrualInit

Next ==
  \/ Tick /\ UNCHANGED <<activationVars, accrualVars>>
  \/ ActivationNext /\ UNCHANGED accrualVars
  \/ AccrualNext /\ UNCHANGED activationVars

Spec == Init /\ [][Next]_vars

-----------------------------------------------------------------------------
\* Every variable keeps its type, and only a request or a worker of the
\* matching row holds a row lock.
TypeOK == StoreTypeOK /\ ActivationTypeOK /\ AccrualTypeOK

(***************************************************************************)
(* Single use (ADR 0014, "An accepted offer pays at most once"): no two    *)
(* accruals share an offer or a purchase, whatever Kafka redelivers and    *)
(* whichever key a replay meets.                                           *)
(***************************************************************************)
PaidOnce ==
  \A r, q \in ledger : r.offer = q.offer \/ r.purchase = q.purchase => r = q

(***************************************************************************)
(* Only an offer that is accepted for good pays, and only a purchase made  *)
(* between the accept and the expiry.  The key is written before COMMIT,   *)
(* may survive a rollback and may outlive expires_at, so this rests on the *)
(* row lock and the checks under it, not on Redis.                         *)
(***************************************************************************)
PaidOffersWereAccepted ==
  \A r \in ledger : /\ status[r.offer] = "ACCEPTED"
                    /\ respondedAt[r.offer] <= bought[r.purchase]
                    /\ bought[r.purchase] < ExpiresAt[r.offer]

(***************************************************************************)
(* What a transaction checked still holds when it commits.  An accept      *)
(* between its UPDATE and its COMMIT holds a row nobody else answered; an  *)
(* accrual between the two locks and its COMMIT holds an offer that is     *)
(* still acceptable, and from the second lock on a campaign that is still  *)
(* eligible with the same room in its budget and its day.  This is what    *)
(* the row locks are for: every read is before the write it decides.       *)
(***************************************************************************)
AcceptChecksHold ==
  \A a \in Attempts : attempt[a].phase \in Running =>
    /\ offerLock[attempt[a].offer] = a
    /\ Answerable(attempt[a].offer, attempt[a].at)

OfferChecksHold ==
  \A w \in Workers : worker[w].stage \in {"offer", "campaign"} =>
    /\ offerLock[worker[w].offer] = w
    /\ Acceptable(worker[w].offer, worker[w].purchase)

CampaignChecked(w) ==
  LET c == OfferCampaign[worker[w].offer] IN
  /\ campaignLock[c] = w
  /\ \E dbNow \in worker[w].bookedAt .. clock : Payable(c, worker[w].purchase, dbNow)

CampaignChecksHold ==
  \A w \in Workers : worker[w].stage = "campaign" => CampaignChecked(w)

ChecksHoldAtCommit == AcceptChecksHold /\ OfferChecksHold /\ CampaignChecksHold

(***************************************************************************)
(* budget_spent is exactly the sum of the campaign's accruals and never    *)
(* exceeds budget_total, with any number of workers booking at once.       *)
(***************************************************************************)
BudgetIsTheLedger ==
  \A c \in Campaigns : /\ spent[c] = Total({r \in ledger : r.campaign = c})
                       /\ spent[c] <= BudgetTotal[c]

(***************************************************************************)
(* The accruals a campaign books in one UTC day stay within its            *)
(* daily_limit (the campaign row lock; spent_today has no upper bound).    *)
(***************************************************************************)
DailyLimitHolds ==
  \A c \in Campaigns : DailyLimit[c] # NoLimit =>
    \A d \in {DayStart(r.bookedAt) : r \in ledger} :
      Total({r \in ledger : r.campaign = c /\ DayStart(r.bookedAt) = d}) <= DailyLimit[c]

(***************************************************************************)
(* A hot key names an offer that is accepted in the database, except while *)
(* the request that wrote it is still on its way or could not be voided.   *)
(* A write that Redis runs late, after the attempt was voided, must not    *)
(* bring a key back.                                                       *)
(***************************************************************************)
KeyNamesAcceptedOffer ==
  \A s \in Slots : hotKey[s] # NoKey =>
    \/ status[hotKey[s].offer] = "ACCEPTED"
    \/ attempt[hotKey[s].attempt].phase \in Running \cup {"voiding", "abandoned"}

(***************************************************************************)
(* cashback.accrued is published at most once per accrual, and only after  *)
(* its COMMIT: redelivered purchases and duplicates publish nothing.       *)
(***************************************************************************)
AnnouncedAtMostOnce ==
  \A o \in Offers : announced[o] <= Cardinality({r \in ledger : r.offer = o})

(***************************************************************************)
(* ACCEPTED and DECLINED are terminal: no concurrent second answer, retry  *)
(* after a 503 or late rollback changes the answer or its responded_at.    *)
(***************************************************************************)
AnswersAreFinal ==
  [][\A o \in Offers : status[o] \notin Respondable =>
       status'[o] = status[o] /\ respondedAt'[o] = respondedAt[o]]_vars

(***************************************************************************)
(* A key disappears only because its TTL ended, its offer was paid, or the *)
(* request that wrote it is being voided: neither the listener's release   *)
(* nor the void of another request deletes the key of a live offer.        *)
(***************************************************************************)
LiveKeysAreKept ==
  [][\A s \in Slots : hotKey[s] # NoKey /\ hotKey'[s] = NoKey =>
       \/ hotKey[s].endsAt <= clock'
       \/ \E r \in ledger : r.offer = hotKey[s].offer
       \/ attempt[hotKey[s].attempt].phase = "voiding"]_vars

(***************************************************************************)
(* mobile.py:317: the key is written before COMMIT so that no customer is  *)
(* left with an ACCEPTED offer that has no key.  Read: once no request for *)
(* the slot is under way, an unpaid accepted offer that has not expired    *)
(* leaves the slot a key.                                                  *)
(***************************************************************************)
AcceptedOfferHasKey ==
  \A o \in Offers :
    /\ status[o] = "ACCEPTED" /\ clock < ExpiresAt[o]
    /\ \A r \in ledger : r.offer # o
    /\ \A a \in Attempts : attempt[a].phase \notin Running \cup {"begun", "voiding"}
    => hotKey[OfferSlot[o]] # NoKey

-----------------------------------------------------------------------------
(***************************************************************************)
(* The system implements the promise: SNOOZE leaves an offer open, a       *)
(* COMMIT of Book pays, everything else is invisible.                      *)
(***************************************************************************)
Answered == [o \in Offers |-> IF status[o] \in Respondable THEN "OPEN" ELSE status[o]]

Pays == {<<r.offer, r.purchase>> : r \in ledger}

Promise == INSTANCE CashbackPromise WITH answer <- Answered, pays <- Pays

KeepsThePromise == Promise!PromiseSpec
=============================================================================
