----------------------------- MODULE Entitlement -----------------------------
(***************************************************************************)
(* What a client is due for a purchase: eligible_campaigns and             *)
(* calculate_cashback of migration 009, the accrual's checks on top of     *)
(* them, and the rules R2, R5 and R6 by which recommendation_api decides   *)
(* beforehand what it offers.  Three services read the same minimum, the   *)
(* same budget and the same day's spending, each with its own code.        *)
(*                                                                         *)
(* One client, one MCC; amounts in kopecks, rates in percent.  Rule R1     *)
(* never rejects: nothing fills in excluded_mccs.                          *)
(***************************************************************************)
EXTENDS Sums, Sequences, Functions

CONSTANTS CampaignIds,
          Terms,            \* the rows a campaign may have (TermsType)
          PurchaseAmounts,
          ChannelNames,
          Scores,           \* users.rfm_score
          SegmentIds,       \* users.segment_id
          MinAward,         \* min_award_threshold
          Null

Price == Nat \cup {Null}
Tier == [min : Price, max : Price, rate : Nat]

\* cashback_campaigns with the row of campaign_categories for the MCC, if any
TermsType(c) ==
  /\ DOMAIN c = {"rate", "tiers", "min", "listed", "categoryMin", "daily", "budget",
                 "channels", "targets", "rfmMin", "rfmMax"}
  /\ c.rate \in 0 .. 100 /\ c.budget \in Nat \ {0}
  /\ {c.min, c.categoryMin, c.daily, c.rfmMin, c.rfmMax} \subseteq Price
  /\ c.listed \in BOOLEAN /\ c.channels \subseteq ChannelNames /\ c.targets \subseteq SegmentIds
  /\ c.tiers \in Seq(Tier)

ASSUME EntitlementAssumption ==
  /\ PurchaseAmounts \subseteq Nat /\ MinAward \in Nat /\ Null \notin Nat
  /\ CampaignIds \subseteq Nat /\ IsFiniteSet(CampaignIds)
  /\ ChannelNames # {}
  /\ \A c \in Terms : TermsType(c)

VARIABLES terms,       \* of each campaign
          running,     \* the campaigns that are ACTIVE, not archived and in their dates
          segment, rfm, consent,  \* of the client; his latest consent
          budgetSpent,
          spentToday   \* accruals since midnight

termVars == <<terms, running, segment, rfm, consent, budgetSpent, spentToday>>

Coalesce(x, y) == IF x # Null THEN x ELSE y

-----------------------------------------------------------------------------
(***************************************************************************)
(* calculate_cashback                                                      *)
(***************************************************************************)
\* Mutant: the minimum of the campaign, as before migration 009.
CampaignMin(c) == terms[c].min

LeastAmount(c) == Coalesce(terms[c].categoryMin, terms[c].min)

\* ROUND(..., 2) of hundredths of a kopeck
Rounded(x) == (x + 50) \div 100

\* The part of an amount that lies in a tier
Segment(amount, tier) ==
  Max({0, Min({amount, Coalesce(tier.max, amount)}) - Coalesce(tier.min, 0)})

\* ORDER BY 1: the tiers by their minima, equal ones in either order
Sorted(order, tiers) ==
  \A i, j \in DOMAIN tiers :
    i < j => Coalesce(tiers[order[i]].min, 0) <= Coalesce(tiers[order[j]].min, 0)

ByMin == [tiers \in {c.tiers : c \in Terms} |->
           CHOOSE order \in Bijection(DOMAIN tiers, DOMAIN tiers) : Sorted(order, tiers)]

\* The turns of the loop before its EXIT, and what they earn
Turns(amount, tiers) ==
  {i \in DOMAIN tiers : \A j \in 1 .. i : amount > Coalesce(tiers[ByMin[tiers][j]].min, 0)}

Earned(amount, tiers) ==
  LET turn == [i \in DOMAIN tiers |->
                Segment(amount, tiers[ByMin[tiers][i]]) * tiers[ByMin[tiers][i]].rate]
  IN SumOf(turn, Turns(amount, tiers))

\* The scale, or the flat rate where there is none
Scale(c, amount) ==
  Rounded(IF terms[c].tiers = <<>> THEN amount * terms[c].rate
          ELSE Earned(amount, terms[c].tiers))

CalculateCashback(c, amount) ==
  IF ~terms[c].listed THEN 0
  ELSE IF LeastAmount(c) # Null /\ amount < LeastAmount(c) THEN 0
  ELSE Scale(c, amount)

-----------------------------------------------------------------------------
(***************************************************************************)
(* eligible_campaigns: a condition on a value that is NULL does not hold,  *)
(* a limit that is NULL is none.                                           *)
(***************************************************************************)
AtLeast(x, least) == least # Null => x >= least
AtMost(x, most) == most # Null => x <= most

RfmFits(c) ==
  terms[c].rfmMin # Null \/ terms[c].rfmMax # Null =>
    rfm # Null /\ AtLeast(rfm, terms[c].rfmMin) /\ AtMost(rfm, terms[c].rfmMax)

EligibleFor(c, amount) ==
  /\ terms[c].listed
  /\ c \in running
  /\ amount # Null => amount >= Coalesce(Coalesce(terms[c].categoryMin, terms[c].min), 0)
  /\ terms[c].targets # {} => segment \in terms[c].targets
  /\ consent = "GRANTED"
  /\ RfmFits(c)
  /\ terms[c].budget - budgetSpent[c] > 0
  /\ terms[c].daily # Null => spentToday[c] < terms[c].daily

\* AccrualEngine._accrue_locked: eligible, a positive cashback, room for all of it
PaysFor(c, amount) ==
  LET cashback == CalculateCashback(c, amount)
  IN /\ EligibleFor(c, amount)
     /\ cashback > 0
     /\ terms[c].daily # Null => spentToday[c] + cashback <= terms[c].daily
     /\ cashback <= terms[c].budget - budgetSpent[c]

-----------------------------------------------------------------------------
(***************************************************************************)
(* recommendation_api: the best campaign for the MCC, the amount unknown,  *)
(* then the rules of the engine that keep no state.                        *)
(***************************************************************************)
\* ORDER BY cashback_rate DESC, start_date DESC, campaign_id LIMIT 1; the
\* campaigns begin in the order of their numbers
Best ==
  LET eligible == {c \in CampaignIds : EligibleFor(c, Null)}
      top == {c \in eligible : \A d \in eligible : terms[d].rate <= terms[c].rate}
  IN IF top = {} THEN Null ELSE Max(top)

MinTransaction(c, amount) ==
  LET threshold == Coalesce(terms[c].categoryMin, terms[c].min)
  IN amount # Null /\ threshold # Null => amount >= threshold

ChannelApplicability(c, channel) ==
  channel # Null /\ terms[c].channels # {} => channel \in terms[c].channels

BudgetReservation(c) ==
  /\ terms[c].budget - budgetSpent[c] > MinAward
  /\ terms[c].daily # Null => spentToday[c] < terms[c].daily

Offered(c, amount, channel) ==
  MinTransaction(c, amount) /\ ChannelApplicability(c, channel) /\ BudgetReservation(c)

-----------------------------------------------------------------------------
TermsInit ==
  /\ terms \in [CampaignIds -> Terms]
  /\ running = CampaignIds
  /\ segment \in SegmentIds /\ rfm \in Scores \cup {Null} /\ consent = Null
  /\ budgetSpent = [c \in CampaignIds |-> 0]
  /\ spentToday = [c \in CampaignIds |-> 0]

Consent(answer) ==
  /\ consent' = answer
  /\ UNCHANGED <<terms, running, segment, rfm, budgetSpent, spentToday>>

AccrueDue(c, amount) ==
  LET cashback == CalculateCashback(c, amount)
  IN /\ PaysFor(c, amount)
     /\ budgetSpent' = [budgetSpent EXCEPT ![c] = @ + cashback]
     /\ spentToday' = [spentToday EXCEPT ![c] = @ + cashback]
     /\ UNCHANGED <<terms, running, segment, rfm, consent>>

Midnight ==
  /\ spentToday' = [c \in CampaignIds |-> 0]
  /\ UNCHANGED <<terms, running, segment, rfm, consent, budgetSpent>>

\* A campaign is paused, ends or is archived.
CloseCampaign(c) ==
  /\ running' = running \ {c}
  /\ UNCHANGED <<terms, segment, rfm, consent, budgetSpent, spentToday>>

TermsNext ==
  \/ \E answer \in {"GRANTED", "WITHDRAWN"} : Consent(answer)
  \/ \E c \in CampaignIds : \/ CloseCampaign(c)
                            \/ \E amount \in PurchaseAmounts : AccrueDue(c, amount)
  \/ Midnight

TermsSpec == TermsInit /\ [][TermsNext]_termVars

-----------------------------------------------------------------------------
\* Every variable keeps its type.
TermsTypeOK ==
  /\ terms \in [CampaignIds -> Terms] /\ running \subseteq CampaignIds
  /\ segment \in SegmentIds /\ rfm \in Scores \cup {Null}
  /\ consent \in {Null, "GRANTED", "WITHDRAWN"}
  /\ budgetSpent \in [CampaignIds -> Nat] /\ spentToday \in [CampaignIds -> Nat]

(***************************************************************************)
(* 001:275, 009:114: the scale is progressive.  Every kopeck of the        *)
(* purchase earns the rates of the tiers it lies in, in whatever order the *)
(* tiers were entered; so who spends more is not paid less.                *)
(***************************************************************************)
EarnedBy(k, tiers) ==
  SumOf([i \in DOMAIN tiers |-> tiers[i].rate],
    {i \in DOMAIN tiers : /\ Coalesce(tiers[i].min, 0) < k
                          /\ k <= Coalesce(tiers[i].max, k)})

ScaleIsProgressive ==
  \A c \in CampaignIds, amount \in PurchaseAmounts :
    /\ terms[c].tiers # <<>> =>
         Scale(c, amount) =
           Rounded(SumAll([k \in 1 .. amount |-> EarnedBy(k, terms[c].tiers)]))
    /\ \A less \in PurchaseAmounts : less <= amount =>
         CalculateCashback(c, less) <= CalculateCashback(c, amount)

(***************************************************************************)
(* ADR 0014: the minimum of the category goes before that of the campaign  *)
(* wherever the minimum is read.  A purchase that eligible_campaigns       *)
(* admits is not refused its cashback, or rule R2, because of the amount   *)
(* or the category, and one that it does not is paid nothing.              *)
(***************************************************************************)
MinimaAgree ==
  \A c \in CampaignIds, amount \in PurchaseAmounts :
    /\ EligibleFor(c, amount) =>
         CalculateCashback(c, amount) = Scale(c, amount) /\ MinTransaction(c, amount)
    /\ EligibleFor(c, Null) /\ CalculateCashback(c, amount) > 0 => EligibleFor(c, amount)

(***************************************************************************)
(* The rules before the offer refuse nothing that the accrual after it     *)
(* would pay, but for what is left of the budget when it is below the      *)
(* least award, and the channel, which the accrual does not read: some     *)
(* channel will do.  What it pays stays within the budget and the limit.   *)
(***************************************************************************)
RulesRefuseNoDue ==
  \A c \in CampaignIds :
    /\ spentToday[c] <= budgetSpent[c] /\ budgetSpent[c] <= terms[c].budget
    /\ terms[c].daily # Null => spentToday[c] <= terms[c].daily
    /\ \A amount \in PurchaseAmounts :
         PaysFor(c, amount) => /\ Best # Null
                               /\ terms[c].budget - budgetSpent[c] > MinAward =>
                                    \E channel \in ChannelNames : Offered(c, amount, channel)

TermsAgree == ScaleIsProgressive /\ MinimaAgree /\ RulesRefuseNoDue
=============================================================================
