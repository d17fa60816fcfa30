--------------------------- MODULE CashbackPromise ---------------------------
(***************************************************************************)
(* What ADR 0014 promises a customer and the bank, without Redis, Kafka,   *)
(* locks or workers: an offer is answered once for good, an accepted offer *)
(* pays at most one purchase, a purchase is paid by at most one offer, and *)
(* a campaign never pays more than its budget.                             *)
(***************************************************************************)
EXTENDS Integers

CONSTANTS Offers, Purchases, Campaigns, OfferCampaign, Cashback, BudgetTotal

VARIABLES answer,  \* OPEN until the customer accepts or declines
          pays,    \* pairs <<offer, purchase>> that were paid
          spent    \* what each campaign paid so far

promiseVars == <<answer, pays, spent>>

PromiseInit ==
  /\ answer = [o \in Offers |-> "OPEN"]
  /\ pays = {}
  /\ spent = [c \in Campaigns |-> 0]

Decide(o, decision) ==
  /\ answer[o] = "OPEN"
  /\ answer' = [answer EXCEPT ![o] = decision]
  /\ UNCHANGED <<pays, spent>>

Pay(o, p) ==
  LET c == OfferCampaign[o] IN
  /\ answer[o] = "ACCEPTED"
  /\ \A pair \in pays : pair[1] # o /\ pair[2] # p
  /\ spent[c] + Cashback[c][p] <= BudgetTotal[c]
  /\ pays' = pays \cup {<<o, p>>}
  /\ spent' = [spent EXCEPT ![c] = @ + Cashback[c][p]]
  /\ UNCHANGED answer

PromiseNext ==
  \/ \E o \in Offers, decision \in {"ACCEPTED", "DECLINED"} : Decide(o, decision)
  \/ \E o \in Offers, p \in Purchases : Pay(o, p)

PromiseSpec == PromiseInit /\ [][PromiseNext]_promiseVars
=============================================================================
