-------------------------- MODULE MCCashbackSystem --------------------------
(***************************************************************************)
(* Small instances of CashbackSystem for TLC.                              *)
(***************************************************************************)
EXTENDS CashbackSystem, TLC

CONSTANTS o1, o2, p1, p2, s1, s2, c1, c2

\* Two offers of one client on one MCC share the Redis key ...
OneSlot == [o \in Offers |-> s1]
PurchasesInOneSlot == [p \in Purchases |-> s1]

\* ... two clients have a key each.
TwoSlots == (o1 :> s1) @@ (o2 :> s2)
PurchasesInTwoSlots == (p1 :> s1) @@ (p2 :> s2)

\* ... of one campaign, or of a campaign each.
OneCampaign == [o \in Offers |-> c1]
TwoCampaigns == (o1 :> c1) @@ (o2 :> c2)

\* The whole horizon, or expiry in the middle of it.
NoExpiry == [o \in Offers |-> MaxTime + 1]
LateExpiry == [o \in Offers |-> MaxTime + Skew + 1]
OneExpiry == [o \in Offers |-> 2]
EarlyExpiry == (o1 :> 1) @@ (o2 :> 2)

MCCashback == [c \in Campaigns |-> [p \in Purchases |-> 2]]
LargeBudget == [c \in Campaigns |-> 4]
Unlimited == [c \in Campaigns |-> NoLimit]
Limited == [c \in Campaigns |-> 3]
AlwaysOpen == [c \in Campaigns |-> 0 .. MaxTime + Skew]

Symmetry == Permutations(Attempts) \cup Permutations(Workers)
=============================================================================
