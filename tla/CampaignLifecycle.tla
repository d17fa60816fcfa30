--------------------------- MODULE CampaignLifecycle ---------------------------
(***************************************************************************)
(* The life of a cashback campaign in campaign_manager: operators create,  *)
(* edit, activate, pause, complete, archive and delete it, the scheduler   *)
(* completes it after its end date, recommendation_api writes offers of it *)
(* and transaction_listener pays accruals of it.  The requests interleave: *)
(* a status change reads the row without a lock and then updates it with a *)
(* compare-and-set, an edit and a deletion hold the row lock from their    *)
(* check to their commit, and recommendation_api stores an offer some time *)
(* after it has read that the campaign is eligible.                        *)
(*                                                                         *)
(* One UPDATE statement and the commit behind it are one step: nothing is  *)
(* read in between, and whoever wants the row waits for the commit.  Of a  *)
(* campaign's terms the model keeps a rate, which stands for everything an *)
(* edit can change but the end date.  budget_spent is in CashbackStore,    *)
(* start_date and the audience conditions of eligible_campaigns stay out:  *)
(* they only narrow who is eligible.                                       *)
(***************************************************************************)
EXTENDS Integers, FiniteSets

CONSTANTS
  Campaigns,  \* campaign ids; uuid4, never used again after a deletion
  Requests,   \* HTTP requests in flight, of campaign_manager and recommendation_api
  Rates,      \* the terms an operator can give a campaign
  OfferTtl,   \* OFFER_TTL_DAYS
  MaxTime,    \* bound on the clock and on end dates
  Nobody      \* no request: the row is not locked

ASSUME LifecycleAssumption ==
  /\ OfferTtl \in Nat
  /\ MaxTime \in Nat
  /\ Nobody \notin Requests

VARIABLES
  campaign,   \* cashback_campaigns
  offers,     \* recommendations: the rate announced and expires_at, per campaign
  accruals,   \* cashback_accruals: the rates paid, per campaign
  lock,       \* the request that holds the row FOR UPDATE across statements
  request,    \* what each request has done and read so far
  clock

vars == <<campaign, offers, accruals, lock, request, clock>>

Time == 0..MaxTime
Statuses == {"DRAFT", "ACTIVE", "PAUSED", "COMPLETED"}

\* "NONE" is a campaign not created yet, "GONE" one whose row was deleted.
CampaignRow == [status: Statuses \cup {"NONE", "GONE"}, archived: BOOLEAN,
                rate: Rates, ends: Time]

OfferRow == [rate: Rates, expires: Nat]

Idle == [phase |-> "idle"]

RequestState ==
  {Idle}
  \cup [phase: {"edit", "delete"}, on: Campaigns]
  \cup [phase: {"status"}, on: Campaigns, saw: Statuses, to: Statuses, began: Time]
  \cup [phase: {"offer"}, on: Campaigns, rate: Rates]

\* The rows keep the types of their columns, a request knows only what its
\* handler has read, and a row is locked only by an edit or a deletion of it
\* that has not finished.
TypeOK ==
  /\ campaign \in [Campaigns -> CampaignRow]
  /\ offers \in [Campaigns -> SUBSET OfferRow]
  /\ accruals \in [Campaigns -> SUBSET Rates]
  /\ lock \in [Campaigns -> Requests \cup {Nobody}]
  /\ request \in [Requests -> RequestState]
  /\ clock \in Time
  /\ \A c \in Campaigns, r \in Requests :
       lock[c] = r => request[r].phase \in {"edit", "delete"} /\ request[r].on = c

Init ==
  /\ campaign \in [Campaigns -> [status: {"NONE"}, archived: {FALSE},
                                 rate: Rates, ends: {0}]]
  /\ offers = [c \in Campaigns |-> {}]
  /\ accruals = [c \in Campaigns |-> {}]
  /\ lock = [c \in Campaigns |-> Nobody]
  /\ request = [r \in Requests |-> Idle]
  /\ clock = 0

-----------------------------------------------------------------------------
(***************************************************************************)
(* The conditions of the code                                              *)
(***************************************************************************)

\* Mutant of Transitions: a completed campaign can be activated again.
Reopening ==
  {<<"DRAFT", "ACTIVE">>, <<"ACTIVE", "PAUSED">>, <<"ACTIVE", "COMPLETED">>,
   <<"PAUSED", "ACTIVE">>, <<"PAUSED", "COMPLETED">>, <<"COMPLETED", "ACTIVE">>}

\* What the state machine of the API allows, and the trigger
\* trg_campaign_status_guard again for every UPDATE of the table.
Transitions ==
  {<<"DRAFT", "ACTIVE">>, <<"ACTIVE", "PAUSED">>, <<"ACTIVE", "COMPLETED">>,
   <<"PAUSED", "ACTIVE">>, <<"PAUSED", "COMPLETED">>}

Exists(c) == campaign[c].status \in Statuses

\* Mutant of Unlocked: the handlers read without FOR UPDATE.
NeverWaits(c) == Exists(c)

\* The row can be locked, updated or referenced now; otherwise one waits.
Unlocked(c) == Exists(c) /\ lock[c] = Nobody

Referenced(c) == offers[c] # {} \/ accruals[c] # {}

\* Mutant of Eligible: the status of the campaign is not looked at.
EligibleInAnyStatus(c) ==
  Exists(c) /\ ~campaign[c].archived /\ \E at \in 0..clock : at < campaign[c].ends

\* eligible_campaigns for an instant that is not in the future: now for an
\* offer, the time of the purchase for an accrual.
Eligible(c) ==
  /\ campaign[c].status = "ACTIVE"
  /\ ~campaign[c].archived
  /\ \E at \in 0..clock : at < campaign[c].ends

\* Mutant of Swappable: the UPDATE trusts the checks made on the row it read.
SwappableEnded(q) ==
  /\ campaign[q.on].status = q.saw
  /\ ~campaign[q.on].archived
  /\ <<q.saw, q.to>> \in Transitions

\* Mutant of Swappable: the UPDATE does not look at archived_at.
SwappableArchived(q) ==
  /\ campaign[q.on].status = q.saw
  /\ q.to = "ACTIVE" => campaign[q.on].ends > q.began
  /\ <<q.saw, q.to>> \in Transitions

\* The WHERE of the compare-and-set, and the trigger behind it.  now() is the
\* start of the transaction, which is the read before the UPDATE.
Swappable(q) ==
  /\ campaign[q.on].status = q.saw
  /\ ~campaign[q.on].archived
  /\ q.to = "ACTIVE" => campaign[q.on].ends > q.began
  /\ <<q.saw, q.to>> \in Transitions

\* Mutant of Expired: only campaigns that run are completed.
ExpiredActive(c) ==
  /\ campaign[c].status = "ACTIVE"
  /\ ~campaign[c].archived
  /\ campaign[c].ends <= clock

\* The WHERE of COMPLETE_EXPIRED_SQL.
Expired(c) ==
  /\ campaign[c].status \in {"ACTIVE", "PAUSED"}
  /\ ~campaign[c].archived
  /\ campaign[c].ends <= clock

Begin(r, state) ==
  /\ request[r] = Idle
  /\ request' = [request EXCEPT ![r] = state]

Finish(r) == request' = [request EXCEPT ![r] = Idle]

Lock(r, c) == lock' = [lock EXCEPT ![c] = r]

\* Mutant of Release: a request that ends leaves its transaction open.
KeepsLock(r) == UNCHANGED lock

Release(r) == lock' = [c \in Campaigns |-> IF lock[c] = r THEN Nobody ELSE lock[c]]

-----------------------------------------------------------------------------
(***************************************************************************)
(* campaign_manager                                                        *)
(***************************************************************************)

\* POST /campaigns
CreateCampaign(c) ==
  /\ campaign[c].status = "NONE"
  /\ \E rate \in Rates, ends \in Time \ {0} :
       campaign' = [campaign EXCEPT ![c] = [status |-> "DRAFT", archived |-> FALSE,
                                            rate |-> rate, ends |-> ends]]
  /\ UNCHANGED <<offers, accruals, lock, request, clock>>

\* PATCH /campaigns/{id}: the row is read FOR UPDATE and only a draft goes on.
EditBegin(r, c) ==
  /\ Unlocked(c)
  /\ campaign[c].status = "DRAFT"
  /\ Begin(r, [phase |-> "edit", on |-> c])
  /\ Lock(r, c)
  /\ UNCHANGED <<campaign, offers, accruals, clock>>

\* The new terms, with the end date after the start date (time 0).
EditCommit(r) ==
  /\ request[r].phase = "edit"
  /\ \E rate \in Rates, ends \in Time \ {0} :
       campaign' = [campaign EXCEPT ![request[r].on].rate = rate,
                                    ![request[r].on].ends = ends]
  /\ Release(r)
  /\ Finish(r)
  /\ UNCHANGED <<offers, accruals, clock>>

\* DELETE /campaigns/{id}: a draft without history, under the row lock.
DeleteBegin(r, c) ==
  /\ Unlocked(c)
  /\ campaign[c].status = "DRAFT"
  /\ ~Referenced(c)
  /\ Begin(r, [phase |-> "delete", on |-> c])
  /\ Lock(r, c)
  /\ UNCHANGED <<campaign, offers, accruals, clock>>

\* The foreign keys restrict the deletion of a row that is referenced by now.
DeleteCommit(r) ==
  /\ request[r].phase = "delete"
  /\ ~Referenced(request[r].on)
  /\ campaign' = [campaign EXCEPT ![request[r].on].status = "GONE"]
  /\ Release(r)
  /\ Finish(r)
  /\ UNCHANGED <<offers, accruals, clock>>

\* POST /campaigns/{id}/archive: one UPDATE, repeated without effect.
ArchiveCampaign(c) ==
  /\ Unlocked(c)
  /\ campaign[c].status \in {"PAUSED", "COMPLETED"}
  /\ campaign' = [campaign EXCEPT ![c].archived = TRUE]
  /\ UNCHANGED <<offers, accruals, lock, request, clock>>

\* PATCH /campaigns/{id}/status, up to its UPDATE: a read without a lock.
StatusBegin(r, c) ==
  \E move \in Transitions :
    /\ Exists(c)
    /\ campaign[c].status = move[1]
    /\ ~campaign[c].archived
    /\ move[2] = "ACTIVE" => campaign[c].ends > clock
    /\ Begin(r, [phase |-> "status", on |-> c, saw |-> move[1], to |-> move[2],
                 began |-> clock])
    /\ UNCHANGED <<campaign, offers, accruals, lock, clock>>

\* Its compare-and-set hits the row.
StatusCommit(r) ==
  /\ request[r].phase = "status"
  /\ Unlocked(request[r].on)
  /\ Swappable(request[r])
  /\ campaign' = [campaign EXCEPT ![request[r].on].status = request[r].to]
  /\ Finish(r)
  /\ UNCHANGED <<offers, accruals, lock, clock>>

\* complete-expired-campaigns: one UPDATE, which waits for locked rows.
CompleteExpired ==
  /\ \E c \in Campaigns : Expired(c)
  /\ \A c \in Campaigns : Expired(c) => Unlocked(c)
  /\ campaign' = [c \in Campaigns |->
                    IF Expired(c) THEN [campaign[c] EXCEPT !.status = "COMPLETED"]
                                  ELSE campaign[c]]
  /\ UNCHANGED <<offers, accruals, lock, request, clock>>

\* Every answer but success - 404, 409, 422, 503 - and a service that dies in
\* the middle: the transaction is rolled back and its lock freed.
GiveUp(r) ==
  /\ request[r] # Idle
  /\ Release(r)
  /\ Finish(r)
  /\ UNCHANGED <<campaign, offers, accruals, clock>>

-----------------------------------------------------------------------------
(***************************************************************************)
(* The services that refer to campaigns                                    *)
(***************************************************************************)

\* recommendation_api reads the eligible campaigns, without a lock.
OfferBegin(r, c) ==
  /\ Eligible(c)
  /\ Begin(r, [phase |-> "offer", on |-> c, rate |-> campaign[c].rate])
  /\ UNCHANGED <<campaign, offers, accruals, lock, clock>>

\* expires_at of an offer stored now: LEAST(end_date, now() + ttl).
Expiry(c) == IF clock + OfferTtl < campaign[c].ends THEN clock + OfferTtl
                                                   ELSE campaign[c].ends

\* It stores and announces the offer of whatever row still exists.
OfferStored(r) ==
  /\ request[r].phase = "offer"
  /\ Unlocked(request[r].on)
  /\ LET c == request[r].on
     IN  offers' = [offers EXCEPT ![c] = @ \cup {[rate |-> request[r].rate,
                                                  expires |-> Expiry(c)]}]
  /\ Finish(r)
  /\ UNCHANGED <<campaign, accruals, lock, clock>>

\* transaction_listener pays under the lock of the campaign's row, at the rate
\* the row has then.
Accrue(c) ==
  /\ Unlocked(c)
  /\ Eligible(c)
  /\ accruals' = [accruals EXCEPT ![c] = @ \cup {campaign[c].rate}]
  /\ UNCHANGED <<campaign, offers, lock, request, clock>>

Tick ==
  /\ clock < MaxTime
  /\ clock' = clock + 1
  /\ UNCHANGED <<campaign, offers, accruals, lock, request>>

-----------------------------------------------------------------------------
Next ==
  \/ \E c \in Campaigns : CreateCampaign(c) \/ ArchiveCampaign(c) \/ Accrue(c)
  \/ \E r \in Requests, c \in Campaigns :
       EditBegin(r, c) \/ DeleteBegin(r, c) \/ StatusBegin(r, c) \/ OfferBegin(r, c)
  \/ \E r \in Requests :
       EditCommit(r) \/ DeleteCommit(r) \/ StatusCommit(r) \/ OfferStored(r) \/ GiveUp(r)
  \/ CompleteExpired
  \/ Tick

Spec == Init /\ [][Next]_vars

\* The scheduler runs the job every SCHEDULING_INTERVAL_MINUTES, a failed run
\* is tried again at the next tick, and time goes on.  No request is fair.
Fairness == WF_vars(CompleteExpired) /\ WF_vars(Tick)

FairSpec == Spec /\ Fairness

-----------------------------------------------------------------------------
(***************************************************************************)
(* Properties                                                              *)
(***************************************************************************)

\* What was announced is what is paid: every offer and every accrual has the
\* terms the campaign has now, and no offer outlives the campaign's end date,
\* although the offer is stored after an unlocked read and an edit and an
\* activation may overlap.
TermsAreKept ==
  \A c \in Campaigns :
    /\ accruals[c] \subseteq {campaign[c].rate}
    /\ \A o \in offers[c] : o.rate = campaign[c].rate /\ o.expires <= campaign[c].ends

\* A draft, which may be edited and deleted, has no history, nor is any offer
\* of it on its way to be stored.
DraftsHaveNoHistory ==
  \A c \in Campaigns :
    campaign[c].status \in {"NONE", "DRAFT", "GONE"} =>
      /\ ~Referenced(c)
      /\ \A r \in Requests : request[r].phase = "offer" => request[r].on # c

\* A campaign in the archive neither runs nor is a draft, whatever status
\* change was under way when it was archived.
ArchivedIsClosed ==
  \A c \in Campaigns :
    campaign[c].archived => campaign[c].status \in {"PAUSED", "COMPLETED"}

\* A deletion removes a row that is a draft when it goes, not only when it was
\* checked.
OnlyDraftsAreDeleted ==
  [][\A c \in Campaigns :
       campaign[c].status # "GONE" /\ campaign[c].status' = "GONE" =>
         campaign[c].status = "DRAFT"]_vars

\* A campaign is activated by a request that began before the end date the
\* campaign has when it becomes ACTIVE, even if that date was edited after the
\* request had checked it.
ActivatedInTime ==
  [][\A c \in Campaigns :
       campaign[c].status # "ACTIVE" /\ campaign[c].status' = "ACTIVE" =>
         \E r \in Requests :
           /\ request[r].phase = "status" /\ request[r].on = c
           /\ request[r].began < campaign'[c].ends]_vars

\* COMPLETED and the archive are for good: no interleaving of requests brings
\* such a campaign back.
ClosedIsFinal ==
  [][\A c \in Campaigns :
       /\ campaign[c].status = "COMPLETED" => campaign[c].status' = "COMPLETED"
       /\ campaign[c].archived => campaign[c]' = campaign[c]]_vars

Closed(c) == campaign[c].status = "COMPLETED" \/ campaign[c].archived

\* A campaign that runs or is paused past its end date is closed in the end,
\* and stays closed.
ExpiredIsClosed ==
  \A c \in Campaigns :
    (campaign[c].status \in {"ACTIVE", "PAUSED"} /\ campaign[c].ends <= clock)
      ~> [](Closed(c))
=============================================================================
