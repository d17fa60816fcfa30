----------------------------- MODULE Deliveries -----------------------------
(***************************************************************************)
(* Which purchases the listener is bound to meet: CashbackSystem with the  *)
(* offsets of transaction_listener.  A purchase is handled once a worker   *)
(* has an outcome for it, whichever: the batch goes on, and the committed  *)
(* offset passes it.  After that it may still come again (a commit that    *)
(* fails, a new owner of the partition), but nobody is bound to bring it.  *)
(***************************************************************************)
EXTENDS CashbackSystem

VARIABLE handled  \* purchases with an outcome

deliveryVars == <<vars, handled>>

DeliveriesInit == Init /\ handled = {}

-----------------------------------------------------------------------------
\* _process: no key, no accrual; the outcome is no_offer.
PassOver(w, p) ==
  /\ worker[w].stage = "idle"
  /\ bought[p] # Never
  /\ hotKey[PurchaseSlot[p]] = NoKey
  /\ handled' = handled \cup {p}
  /\ UNCHANGED vars

\* _process: the accrual begins.
Meet(w, p) == Fetch(w, p) /\ UNCHANGED <<activationVars, handled>>

\* A step of the accrual.  Its last one has an outcome: paid or a duplicate,
\* not_eligible or any other skip.
Accrue(w, step) ==
  /\ step /\ UNCHANGED activationVars
  /\ handled' = IF worker'[w] = Idle THEN handled \cup {worker[w].purchase} ELSE handled

\* Mutant: the batch goes on after a failure.
FailedToo(w) == handled \cup {worker[w].purchase}

\* _process_batch seeks back to a message that failed.
AfterFailure(w) == handled

Break(w) ==
  /\ Fail(w) /\ UNCHANGED activationVars
  /\ handled' = AfterFailure(w)

Others ==
  /\ \/ Tick /\ UNCHANGED <<activationVars, accrualVars>>
     \/ ActivationNext /\ UNCHANGED accrualVars
     \/ (\E p \in Purchases, ahead \in 0 .. Skew : Buy(p, ahead)) /\ UNCHANGED activationVars
     \/ (\E c \in Campaigns : SwitchCampaign(c)) /\ UNCHANGED activationVars
  /\ UNCHANGED handled

DeliveriesNext ==
  \/ Others
  \/ \E w \in Workers :
       \/ \E p \in Purchases : PassOver(w, p) \/ Meet(w, p)
       \/ Accrue(w, AccrueStep(w))
       \/ Break(w)

DeliveriesSpec == DeliveriesInit /\ [][DeliveriesNext]_deliveryVars

\* What Kafka still has to deliver, first or again.
Deliver(p) == p \notin handled /\ \E w \in Workers : PassOver(w, p) \/ Meet(w, p)

-----------------------------------------------------------------------------
(***************************************************************************)
(* Fairness.  Kafka delivers what has no outcome yet, to whichever worker  *)
(* has the partition.  Postgres hands a row lock to its waiters in turn,   *)
(* so a step that waits for one is strongly fair, and a transaction does   *)
(* not fail for ever just before its COMMIT (Book).  A request runs to its *)
(* end: weak fairness.  Customers, operators, failures and the clock are   *)
(* not fair, nor is another delivery of what is handled.                   *)
(***************************************************************************)
DeliveriesFairness ==
  /\ \A a \in Attempts :
       WF_deliveryVars(RequestStep(a) /\ UNCHANGED <<accrualVars, handled>>)
  /\ \A p \in Purchases : SF_deliveryVars(Deliver(p))
  /\ \A w \in Workers :
       /\ SF_deliveryVars(Accrue(w, LockOffer(w)))
       /\ SF_deliveryVars(Accrue(w, LockCampaign(w) \/ SkipCampaign(w)))
       /\ SF_deliveryVars(Accrue(w, Book(w)))
       /\ WF_deliveryVars(Accrue(w, ReleaseKey(w) \/ Publish(w)))

FairDeliveriesSpec == DeliveriesSpec /\ DeliveriesFairness

\* The purchase meets the key of an accepted offer that may pay it, and
\* neither was paid yet.
Due(p) ==
  LET key == hotKey[PurchaseSlot[p]] IN
  /\ bought[p] # Never
  /\ key # NoKey
  /\ Paid(key.offer, p) = {}
  /\ Acceptable(key.offer, p)
  /\ Payable(OfferCampaign[key.offer], p, clock)

\* No worker has an outcome for the purchase or is about to have one.
Waiting(p) ==
  /\ p \notin handled
  /\ \A w \in Workers : worker[w].purchase # p

(***************************************************************************)
(* ADR 0014: failures delay accruals instead of losing them.  A purchase   *)
(* that is due before a worker meets it is paid, if it stays due: in spite *)
(* of crashed workers, rollbacks and another owner of the partition.  One  *)
(* that was not due when it was met (its campaign was off, its offer not   *)
(* committed, its key not written yet) is passed over for good.            *)
(***************************************************************************)
DueIsPaid == \A p \in Purchases : Due(p) /\ Waiting(p) ~> ~Due(p)
=============================================================================
