------------------------------ MODULE MCLimits ------------------------------
(***************************************************************************)
(* What bounds the accruals of a campaign: a campaign whose budget covers  *)
(* one of two purchases that meet the same key, one whose daily limit      *)
(* decides about the purchases of two clients around midnight, and the     *)
(* terms that decide what a client is due.  The first state chooses which  *)
(* of them runs.                                                           *)
(***************************************************************************)
EXTENDS MCCashbackSystem, Entitlement

CONSTANTS o3, o4, p3

VARIABLE part

\* The offers of c1 share a key; those of c2 are of two clients.
LimitSlot == (o1 :> s1) @@ (o2 :> s1) @@ (o3 :> s1) @@ (o4 :> s2)
LimitCampaign == (o1 :> c1) @@ (o2 :> c1) @@ (o3 :> c2) @@ (o4 :> c2)
LimitPurchaseSlot == (p1 :> s1) @@ (p2 :> s1) @@ (p3 :> s2)

\* c1 can pay p1 or p2, c2 one purchase a day.
LimitCashback == [c \in Campaigns |-> (p1 :> 2) @@ (p2 :> 1) @@ (p3 :> 2)]
LimitBudget == (c1 :> 2) @@ (c2 :> 4)
LimitDaily == (c1 :> NoLimit) @@ (c2 :> 3)

\* The terms of a campaign: flat with each kind of minimum, limit and filter;
\* not for this MCC; progressive, entered out of order; overlapping with a gap.
TermsOf(rate, tiers, min, categoryMin, daily) ==
  [rate |-> rate, tiers |-> tiers, min |-> min, listed |-> TRUE, categoryMin |-> categoryMin,
   daily |-> daily, budget |-> 6, channels |-> {}, targets |-> {},
   rfmMin |-> Null, rfmMax |-> Null]
Span(min, max, rate) == [min |-> min, max |-> max, rate |-> rate]

Flat == TermsOf(50, <<>>, 2, Null, Null)
Elsewhere == [TermsOf(30, <<>>, Null, Null, Null) EXCEPT !.listed = FALSE]
MCTerms == {
  Flat,
  [TermsOf(50, <<>>, Null, Null, 3) EXCEPT !.channels = {"POS"}, !.rfmMin = 2],
  [TermsOf(30, <<>>, 2, 4, 3) EXCEPT !.rfmMax = 1, !.targets = {1}],
  Elsewhere,
  TermsOf(10, <<Span(5, Null, 60), Span(Null, 2, 10), Span(2, 5, 30)>>, 4, 2, Null),
  TermsOf(10, <<Span(0, 3, 40), Span(2, 4, 50), Span(6, Null, 100)>>, Null, 3, 4)}

\* Only these offers, purchases and the campaign c take part.
Confined(offers, purchases, c) ==
  /\ \A o \in Offers \ offers : status'[o] = "PENDING"
  /\ \A a \in Attempts : attempt'[a].offer \in offers \cup {NoOffer}
  /\ \A p \in Purchases \ purchases : bought'[p] = Never
  /\ Campaigns \ {c} \subseteq live'

\* One second is enough for a budget.
BudgetRun == Next /\ Confined({o1, o2}, {p1, p2}, c1) /\ clock' = 0

\* Both clients accept, by a request each that succeeds; then the days begin.
BothAccepted == \A a \in Attempts : attempt[a].phase = "committed"
Accepting ==
  /\ \A o \in Offers : status'[o] \in {"PENDING", "ACCEPTED"}
  /\ \A a \in Attempts : attempt'[a].phase \in Running \cup {"idle", "begun", "committed"}
  /\ clock' = clock /\ accrualVars' = accrualVars
DaysRun ==
  /\ Next /\ Confined({o3, o4}, {p1, p3}, c2)
  /\ BothAccepted \/ Accepting

\* The second campaign is the flat one; where the terms do not run, none applies.
MCInit ==
  /\ part \in {"budget", "days", "terms"}
  /\ Init /\ TermsInit
  /\ IF part = "terms" THEN terms[2] = Flat
     ELSE terms = [c \in CampaignIds |-> Elsewhere] /\ segment = 1 /\ rfm = Null

MCNext ==
  \/ part = "budget" /\ BudgetRun /\ UNCHANGED <<part, termVars>>
  \/ part = "days" /\ DaysRun /\ UNCHANGED <<part, termVars>>
  \/ part = "terms" /\ TermsNext /\ UNCHANGED <<part, vars>>

MCSpec == MCInit /\ [][MCNext]_<<part, vars, termVars>>
=============================================================================
