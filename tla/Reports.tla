------------------------------- MODULE Reports -------------------------------
(***************************************************************************)
(* The marketing reports of campaign_manager (api/analytics.py, the        *)
(* statistics of a campaign in api/campaigns.py) and what a client sees of *)
(* his money (mobile_api), over the rows that the rest of the system       *)
(* writes: offers and their channels and answers, accruals and their       *)
(* settlement, clients and their segments.                                 *)
(*                                                                         *)
(* A report is one SQL statement, that is, an operator on a state.  Time   *)
(* is in months, which is also the unit of a report's period.              *)
(***************************************************************************)
EXTENDS Sums

CONSTANTS Clients, Campaigns, Mccs,
          Offers,      \* rows of recommendations
          Channels,    \* delivery_channel
          Purchase,    \* transaction_amount of the purchase an offer may bring
          Cashback,    \* and its cashback_amount
          Buckets,     \* SEGMENT_BUCKETS: the deciles of each bucket
          Periods,     \* lengths of the period that a report is asked for
          MaxTime,     \* bound on the clock, in months
          YearLength,  \* months in a year
          Delay        \* settle_accruals' hold

Deciles == UNION {Buckets[b] : b \in DOMAIN Buckets}
None == 0            \* no segment, no filter, no time
Unknown == "UNKNOWN"

ASSUME ReportsAssumption ==
  /\ IsFiniteSet(Clients) /\ IsFiniteSet(Offers) /\ IsFiniteSet(Mccs)
  /\ IsFiniteSet(Campaigns)
  /\ IsFiniteSet(Channels) /\ IsFiniteSet(Deciles)
  /\ None \notin Deciles \cup Campaigns \cup DOMAIN Buckets
  /\ \A b, c \in DOMAIN Buckets : b # c => Buckets[b] \cap Buckets[c] = {}
  /\ Purchase \in [Offers -> Nat] /\ Cashback \in [Offers -> Nat]
  /\ Periods \subseteq Nat \ {0}
  /\ MaxTime \in Nat /\ YearLength \in Nat \ {0} /\ Delay \in Nat

VARIABLES now,
          underway, \* campaigns ACTIVE or PAUSED and not archived
          client,   \* users: segment, created_at
          offer,    \* recommendations
          accrual   \* cashback_accruals, by recommendation_id

reportVars == <<now, underway, client, offer, accrual>>

Time == 0 .. MaxTime
NoOffer == [status |-> "absent"]
NoAccrual == [status |-> "absent"]

Opened == {"ACCEPTED", "DECLINED", "SNOOZE"}

-----------------------------------------------------------------------------
\* What the rest of the system does to the rows.
Deliver(o, u, c, m) ==
  /\ offer[o] = NoOffer
  /\ client[u].created <= now
  /\ offer' = [offer EXCEPT ![o] = [status |-> "PENDING", user |-> u, campaign |-> c,
                                    mcc |-> m, generated |-> now, channel |-> Unknown,
                                    responded |-> None]]
  /\ UNCHANGED <<now, underway, client, accrual>>

RecordChannel(o, ch) ==
  /\ offer[o] # NoOffer /\ offer[o].channel = Unknown
  /\ offer' = [offer EXCEPT ![o].channel = ch]
  /\ UNCHANGED <<now, underway, client, accrual>>

Respond(o, answer) ==
  /\ offer[o].status \in {"PENDING", "SNOOZE"}
  /\ offer' = [offer EXCEPT ![o].status = answer, ![o].responded = now]
  /\ UNCHANGED <<now, underway, client, accrual>>

Expire(o) ==
  /\ offer[o].status \in {"PENDING", "SNOOZE"}
  /\ offer' = [offer EXCEPT ![o].status = "EXPIRED"]
  /\ UNCHANGED <<now, underway, client, accrual>>

Accrue(o) ==
  /\ offer[o].status = "ACCEPTED" /\ accrual[o] = NoAccrual
  /\ accrual' = [accrual EXCEPT ![o] = [status |-> "PENDING", accrued |-> now]]
  /\ UNCHANGED <<now, underway, client, offer>>

\* settle_accruals: the accruals whose hold is over are PAID
Settle ==
  /\ \E o \in Offers : accrual[o].status = "PENDING"
  /\ accrual' = [o \in Offers |->
       IF accrual[o].status = "PENDING" /\ accrual[o].accrued < now - Delay
       THEN [accrual[o] EXCEPT !.status = "PAID"] ELSE accrual[o]]
  /\ UNCHANGED <<now, underway, client, offer>>

Resegment(u, s) ==
  /\ client' = [client EXCEPT ![u].segment = s]
  /\ UNCHANGED <<now, underway, offer, accrual>>

\* A campaign is completed, cancelled or archived; an offer that was ranked
\* before may still be delivered, accepted and paid.
Close(c) ==
  /\ c \in underway
  /\ underway' = underway \ {c}
  /\ UNCHANGED <<now, client, offer, accrual>>

Tick ==
  /\ now < MaxTime
  /\ now' = now + 1
  /\ UNCHANGED <<underway, client, offer, accrual>>

ReportsInit ==
  /\ now = 0 /\ underway = Campaigns
  /\ client \in [Clients -> [segment : Deciles \cup {None}, created : {0}]]
  /\ offer = [o \in Offers |-> NoOffer]
  /\ accrual = [o \in Offers |-> NoAccrual]

ReportsNext ==
  \/ \E o \in Offers :
       \/ \E u \in Clients, c \in Campaigns, m \in Mccs : Deliver(o, u, c, m)
       \/ \E ch \in Channels : RecordChannel(o, ch)
       \/ \E answer \in Opened : Respond(o, answer)
       \/ Expire(o) \/ Accrue(o)
  \/ Settle
  \/ \E u \in Clients, s \in Deciles \cup {None} : Resegment(u, s)
  \/ \E c \in Campaigns : Close(c)
  \/ Tick

ReportsSpec == ReportsInit /\ [][ReportsNext]_reportVars

-----------------------------------------------------------------------------
(***************************************************************************)
(* The reports' filters.                                                   *)
(***************************************************************************)
Rows == {o \in Offers : offer[o] # NoOffer}
SegmentOf(o) == client[offer[o].user].segment

\* _of_deciles and the optional campaign
Passes(o, campaign, bucket) ==
  /\ campaign # None => offer[o].campaign = campaign
  /\ bucket # None => SegmentOf(o) \in Buckets[bucket]

\* generated_at in [since, until)
Window(since, until, campaign, bucket) ==
  {o \in Rows : /\ offer[o].generated >= since /\ offer[o].generated < until
                /\ Passes(o, campaign, bucket)}

\* The request comes some time after the last row of its month.
Now == now + 1
Recent(period, campaign, bucket) == Window(Now - period, Now, campaign, bucket)

Accepted(S) == {o \in S : offer[o].status = "ACCEPTED"}

Converted(S) == {o \in Accepted(S) : accrual[o] # NoAccrual}
Paid(S) == {o \in Accepted(S) : accrual[o].status = "PAID"}
Answered(S) == {o \in S : offer[o].status \in Opened}

\* COUNT(*) and COUNT(DISTINCT user_id)
CountRows(S) == Cardinality(S)
CountUsers(S) == Cardinality({offer[o].user : o \in S})

-----------------------------------------------------------------------------
\* GET funnel: clients at every stage after the target audience
Funnel(period, campaign, bucket) ==
  LET S == Recent(period, campaign, bucket)
  IN <<CountUsers(S), CountUsers(Answered(S)), CountUsers(Accepted(S)),
       CountUsers(Converted(S)), CountUsers(Paid(S))>>

\* _safe_pct, rounded down
DropOff(child, parent) ==
  IF parent <= 0 THEN 0 ELSE Max({0, Min({100, (100 * (parent - child)) \div parent})})

\* The accruals, and sums over them
Accruals == {o \in Offers : accrual[o] # NoAccrual}
Settled(S) == {o \in S : accrual[o].status = "PAID"}

\* Mutant: without a campaign the KPIs count every row of the window.
EveryCampaign(campaign) == IF campaign = None THEN Campaigns ELSE {campaign}

\* GET kpis: the campaign asked for, whatever became of it, or those underway
InScope(campaign) == IF campaign = None THEN underway ELSE {campaign}

\* _offers delivered, reached and accepted in a window, ...
Counted(since, until, campaign, bucket) ==
  {o \in Window(since, until, None, bucket) : offer[o].campaign \in InScope(campaign)}

Kpi(since, until, campaign, bucket) ==
  LET S == Counted(since, until, campaign, bucket)
  IN [delivered |-> CountRows(S), reach |-> CountUsers(S), accepted |-> CountRows(Accepted(S))]

\* ... and _accruals booked in it
Spent(since, until, campaign, bucket) ==
  LET booked == {o \in Accruals : /\ accrual[o].accrued >= since /\ accrual[o].accrued < until
                                  /\ Passes(o, None, bucket)
                                  /\ offer[o].campaign \in InScope(campaign)}
  IN SumOf(Cashback, booked)

\* GET channels: COALESCE(channel, 'UNKNOWN')
ChannelOf(o) == offer[o].channel
ChannelStats(period, campaign, bucket) ==
  LET S == Recent(period, campaign, bucket)
      of(ch) == {o \in S : ChannelOf(o) = ch}
      known == Channels \cup {Unknown}
  IN [sent |-> [ch \in known |-> CountRows(of(ch))],
      opened |-> [ch \in known |-> CountRows(Answered(of(ch)))],
      accepted |-> [ch \in known |-> CountRows(Accepted(of(ch)))],
      converted |-> [ch \in known |-> CountRows(Converted(of(ch)))]]

\* GET segment-matrix: the clients without a segment are left out
Matrix(period, campaign, bucket) ==
  LET S == Recent(period, campaign, bucket)
      of(s, m) == {o \in S : SegmentOf(o) = s /\ offer[o].mcc = m}
  IN [impressions |-> [cell \in Deciles \X Mccs |-> CountRows(of(cell[1], cell[2]))],
      accepted |-> [cell \in Deciles \X Mccs |-> CountRows(Accepted(of(cell[1], cell[2])))]]

\* GET daily-trend: acceptances by the time of the answer and by bucket
DailyTrend(period, campaign) ==
  LET S == {o \in Accepted(Rows) : /\ offer[o].responded >= Now - period
                                   /\ Passes(o, campaign, None)}
  IN [point \in Time \X DOMAIN Buckets |->
       CountRows({o \in S : offer[o].responded = point[1]
                            /\ SegmentOf(o) \in Buckets[point[2]]})]

\* GET top-campaigns: of all time
TopCampaign(c) ==
  LET S == {o \in Rows : offer[o].campaign = c}
      booked == {o \in Accruals : offer[o].campaign = c}
  IN [delivered |-> CountUsers(S), accepted |-> CountUsers(Accepted(S)),
      transacted |-> CountUsers(Converted(S)), revenue |-> SumOf(Purchase, booked),
      cashback |-> SumOf(Cashback, booked), paid |-> SumOf(Cashback, Settled(booked))]

\* GET campaigns/{id}/stats, campaign_stats: of all time
CampaignStats(c) ==
  LET shown == {o \in Rows : offer[o].campaign = c}
      booked == {o \in Accruals : offer[o].campaign = c}
  IN [impressions |-> CountRows(shown), reach |-> CountUsers(shown),
      clicks |-> CountRows(Answered(shown)), accepted |-> CountRows(Accepted(shown)),
      acceptedUsers |-> CountUsers(Accepted(shown)),
      transactedUsers |-> CountUsers(Converted(shown)),
      transactions |-> CountRows(booked), revenue |-> SumOf(Purchase, booked),
      paid |-> SumOf(Cashback, Settled(booked))]

-----------------------------------------------------------------------------
\* mobile_api, GET cashback/history and cashback/balance of a client
History(u, since, until) ==
  {o \in Accruals : /\ offer[o].user = u
                    /\ accrual[o].accrued >= since /\ accrual[o].accrued <= until}

Balance(u) ==
  LET own == {o \in Accruals : offer[o].user = u}
  IN [pending |-> SumOf(Cashback, own \ Settled(own)),
      paid |-> SumOf(Cashback, Settled(own)), available |-> SumOf(Cashback, Settled(own))]

-----------------------------------------------------------------------------
\* GET cohort-retention: clients of a month active in each period after it;
\* a period is years * 12 + months of the age of the accrual
Period(age) == (age \div YearLength) * YearLength + (age % YearLength)

Cohort(month) == {u \in Clients : client[u].created = month}
CohortActive(month, periods) ==
  LET active == {o \in Offers : /\ accrual[o] # NoAccrual /\ offer[o].user \in Cohort(month)
                                /\ accrual[o].accrued >= month
                                /\ accrual[o].accrued < month + periods}
  IN [p \in 0 .. periods - 1 |-> {offer[o].user : o \in {x \in active :
                                    Period(accrual[x].accrued - month) = p}}]

-----------------------------------------------------------------------------
\* Every variable keeps its type.
ReportsTypeOK ==
  /\ now \in Time /\ underway \subseteq Campaigns
  /\ client \in [Clients -> [segment : Deciles \cup {None}, created : Time]]
  /\ offer \in [Offers -> {NoOffer} \cup
       [status : Opened \cup {"PENDING", "EXPIRED"}, user : Clients, campaign : Campaigns,
        mcc : Mccs, generated : Time, channel : Channels \cup {Unknown}, responded : Time]]
  /\ accrual \in [Offers -> {NoAccrual} \cup [status : {"PENDING", "PAID"}, accrued : Time]]

Filters == Periods \X (Campaigns \cup {None}) \X (DOMAIN Buckets \cup {None})

(***************************************************************************)
(* analytics.py:12: after "received" every stage of the funnel is a part   *)
(* of the one before, under every filter, though a client has offers in    *)
(* several stages at once; so is what top-campaigns divides.               *)
(***************************************************************************)
FunnelNarrows ==
  /\ \A f \in Filters :
       LET steps == Funnel(f[1], f[2], f[3])
       IN \A i \in 1 .. 4 : steps[i + 1] <= steps[i]
  /\ \A c \in Campaigns :
       LET top == TopCampaign(c) IN top.transacted <= top.accepted /\ top.accepted <= top.delivered

(***************************************************************************)
(* The reports of a dashboard agree with each other (ADR 0015): whatever   *)
(* channel an offer went by, and if it has none yet, the channels sum up   *)
(* to the matrix of a bucket and to the KPIs of the campaign asked for.    *)
(* Without one the KPIs are those of the campaigns underway, summed up, so *)
(* they are the channels' only while no offer of the window is of a closed *)
(* campaign (analytics.py:225).  Two adjacent windows sum up to the window *)
(* that spans them.                                                        *)
(***************************************************************************)
AllUnderway(S) == \A o \in S : offer[o].campaign \in underway

DashboardAgrees ==
  \A f \in Filters :
    LET channels == ChannelStats(f[1], f[2], f[3])
        kpi == Kpi(Now - f[1], Now, f[2], f[3])
        before == Kpi(Now - 2 * f[1], Now - f[1], f[2], f[3])
        matrix == Matrix(f[1], f[2], f[3])
        of(c) == Kpi(Now - f[1], Now, c, f[3])
    IN /\ f[2] # None \/ AllUnderway(Recent(f[1], None, f[3])) =>
            /\ SumAll(channels.sent) = kpi.delivered
            /\ SumAll(channels.accepted) = kpi.accepted
       /\ f[2] = None =>
            /\ SumOf([c \in Campaigns |-> of(c).delivered], underway) = kpi.delivered
            /\ SumOf([c \in Campaigns |-> of(c).accepted], underway) = kpi.accepted
       /\ f[3] # None =>
            /\ SumAll(matrix.impressions) = SumAll(channels.sent)
            /\ SumAll(matrix.accepted) = SumAll(channels.accepted)
       /\ kpi.delivered + before.delivered
            = Kpi(Now - 2 * f[1], Now, f[2], f[3]).delivered

(***************************************************************************)
(* The statistics of a campaign are those of top-campaigns (campaigns.py,  *)
(* comment 583), and their impressions, answers and money are those of the *)
(* KPIs and the channels, also once the campaign is closed: what is booked *)
(* reaches every sum once, whether it is settled or not, and what clients  *)
(* can see of it adds up to what all the campaigns spent.                  *)
(***************************************************************************)
StatsAgree ==
  /\ \A c \in Campaigns :
       LET stats == CampaignStats(c)
           top == TopCampaign(c)
           kpi == Kpi(0, Now, c, None)
           channels == ChannelStats(Now, c, None)
       IN /\ stats.reach = top.delivered /\ stats.acceptedUsers = top.accepted
          /\ stats.transactedUsers = top.transacted
          /\ stats.revenue = top.revenue /\ stats.paid = top.paid
          /\ stats.impressions = kpi.delivered /\ stats.accepted = kpi.accepted
          /\ Spent(0, Now, c, None) = top.cashback
          /\ SumAll(channels.opened) = stats.clicks
          /\ SumAll(channels.converted) = stats.transactions
  /\ LET sees(u) == Balance(u).pending + Balance(u).available
         spent == [c \in Campaigns |-> Spent(0, Now, c, None)]
         paid == SumOf(Cashback, Settled(Accruals))
     IN /\ SumAll([u \in Clients |-> sees(u)]) = SumAll(spent)
        /\ SumOf(spent, underway) = Spent(0, Now, None, None)
        /\ SumAll([u \in Clients |-> Balance(u).paid]) = paid
        /\ \A u \in Clients : SumOf(Cashback, History(u, 0, Now)) = sees(u)

(***************************************************************************)
(* analytics.py:330: a client is in the cell of the month of his accrual,  *)
(* counted from his cohort, also after a year.                             *)
(***************************************************************************)
CohortsAge ==
  \A month \in Time :
    \A p \in 0 .. MaxTime :
      CohortActive(month, MaxTime + 1)[p] =
        {u \in Cohort(month) : \E o \in Offers :
           accrual[o] # NoAccrual /\ offer[o].user = u /\ accrual[o].accrued = month + p}

(***************************************************************************)
(* The reports of a dashboard agree with each other, a stage of the funnel *)
(* is a part of the one before, a client is in the cell of the month of    *)
(* his accrual, and money booked once is once in every sum.  Before the    *)
(* first offer there is nothing to report.                                 *)
(***************************************************************************)
ReportsAgree == Rows # {} => FunnelNarrows /\ DashboardAgrees /\ StatsAgree /\ CohortsAge
=============================================================================
