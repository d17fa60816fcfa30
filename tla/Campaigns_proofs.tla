-------------------------- MODULE Campaigns_proofs --------------------------
(***************************************************************************)
(* Theorems about CampaignLifecycle and about EventStreams, by which the   *)
(* dashboard follows it, for every choice of their constants: any number   *)
(* of requests, connections, tokens and viewers, whatever operators do to  *)
(* the accounts meanwhile.                                                 *)
(***************************************************************************)
EXTENDS CampaignLifecycle, EventStreams, Accounts_proofs, FiniteSetTheorems

USE LifecycleAssumption

-----------------------------------------------------------------------------
(***************************************************************************)
(* The life of a campaign (CampaignLifecycle): the inductive invariant.    *)
(***************************************************************************)

\* An offer on its way to be stored carries the terms its campaign has now.
OffersCarryTerms ==
  \A r \in Requests : request[r].phase = "offer" =>
    request[r].rate = campaign[request[r].on].rate

\* An edit or a deletion under way holds the row, and the row is still a draft.
LocksHoldDrafts ==
  \A r \in Requests : request[r].phase \in {"edit", "delete"} =>
    /\ lock[request[r].on] = r
    /\ campaign[request[r].on].status = "DRAFT"

IInv == /\ TypeOK
        /\ TermsAreKept
        /\ DraftsHaveNoHistory
        /\ ArchivedIsClosed
        /\ OffersCarryTerms
        /\ LocksHoldDrafts

(***************************************************************************)
(* Lemma: the initial states satisfy the invariant.                        *)
(***************************************************************************)
LEMMA InitIInv == Init => IInv
<1> SUFFICES ASSUME Init PROVE IInv
    OBVIOUS
<1>1. TypeOK
  <2>1. campaign \in [Campaigns -> CampaignRow]
    <3>1. campaign \in [Campaigns -> [status: {"NONE"}, archived: {FALSE},
                                      rate: Rates, ends: {0}]]
      BY DEF Init
    <3>2. [status: {"NONE"}, archived: {FALSE}, rate: Rates, ends: {0}] \subseteq CampaignRow
      <4>1. 0 \in Time /\ "NONE" \in Statuses \cup {"NONE", "GONE"} /\ FALSE \in BOOLEAN
        BY DEF Time
      <4>2. QED
        BY <4>1, Zenon DEF CampaignRow
    <3>3. QED
      BY <3>1, <3>2
  <2>2. request \in [Requests -> RequestState]
    BY DEF Init, RequestState
  <2>3. clock \in Time
    BY DEF Init, Time
  <2>4. QED
    BY <2>1, <2>2, <2>3 DEF Init, TypeOK
<1>2. TermsAreKept /\ DraftsHaveNoHistory /\ ArchivedIsClosed
  BY DEF Init, TermsAreKept, DraftsHaveNoHistory, ArchivedIsClosed, Referenced, Idle
<1>3. OffersCarryTerms /\ LocksHoldDrafts
  BY DEF Init, OffersCarryTerms, LocksHoldDrafts, Idle
<1>4. QED
  BY <1>1, <1>2, <1>3 DEF IInv

(***************************************************************************)
(* Lemma: what a request knows, by what it is doing.                       *)
(***************************************************************************)
LEMMA RequestShapes ==
  ASSUME NEW q \in RequestState
  PROVE  /\ q.phase \in {"idle", "edit", "delete", "status", "offer"}
         /\ q.phase = "idle" => q = Idle
         /\ q.phase # "idle" => q.on \in Campaigns
         /\ q.phase = "status" => q.saw \in Statuses /\ q.to \in Statuses /\ q.began \in Time
         /\ q.phase = "offer" => q.rate \in Rates
BY DEF RequestState, Idle

(***************************************************************************)
(* Lemma: a request begins.                                                *)
(***************************************************************************)
LEMMA Begun ==
  ASSUME TypeOK, NEW r \in Requests, NEW q \in RequestState, Begin(r, q)
  PROVE  /\ request[r] = Idle
         /\ request' \in [Requests -> RequestState]
         /\ request'[r] = q
         /\ \A s \in Requests : s # r => request'[s] = request[s]
BY DEF Begin, TypeOK

(***************************************************************************)
(* Lemma: a request ends.                                                  *)
(***************************************************************************)
LEMMA Finished ==
  ASSUME TypeOK, NEW r \in Requests, Finish(r)
  PROVE  /\ request' \in [Requests -> RequestState]
         /\ request'[r] = Idle
         /\ request'[r].phase = "idle"
         /\ \A s \in Requests : s # r => request'[s] = request[s]
BY DEF Finish, TypeOK, RequestState, Idle

(***************************************************************************)
(* Lemma: a request that is over holds no lock, and nobody else lost one.  *)
(***************************************************************************)
LEMMA LocksReleased ==
  ASSUME TypeOK, NEW r \in Requests, Release(r)
  PROVE  /\ lock' \in [Campaigns -> Requests \cup {Nobody}]
         /\ \A c \in Campaigns : lock'[c] # r
         /\ \A c \in Campaigns : lock'[c] # Nobody => lock'[c] = lock[c]
         /\ \A c \in Campaigns : lock[c] # r => lock'[c] = lock[c]
BY DEF Release, TypeOK

(***************************************************************************)
(* Lemma: a row that is not locked is being neither edited nor deleted.    *)
(***************************************************************************)
LEMMA UnlockedIsIdle ==
  ASSUME IInv, NEW c \in Campaigns, lock[c] = Nobody, NEW r \in Requests,
         request[r].phase \in {"edit", "delete"}
  PROVE  request[r].on # c
BY DEF IInv, LocksHoldDrafts

(***************************************************************************)
(* Lemma: POST /campaigns.                                                 *)
(***************************************************************************)
LEMMA CreateIInv ==
  ASSUME IInv, NEW c \in Campaigns, CreateCampaign(c)
  PROVE  IInv'
<1>1. PICK rate \in Rates, ends \in Time \ {0} :
        campaign' = [campaign EXCEPT ![c] = [status |-> "DRAFT", archived |-> FALSE,
                                             rate |-> rate, ends |-> ends]]
  BY DEF CreateCampaign
<1>2. /\ campaign[c].status = "NONE"
      /\ UNCHANGED <<offers, accruals, lock, request, clock>>
  BY DEF CreateCampaign
<1>3. /\ campaign'[c] = [status |-> "DRAFT", archived |-> FALSE, rate |-> rate, ends |-> ends]
      /\ \A d \in Campaigns : d # c => campaign'[d] = campaign[d]
  BY <1>1 DEF IInv, TypeOK
<1>4. TypeOK'
  <2>1. campaign' \in [Campaigns -> CampaignRow]
    BY <1>1 DEF IInv, TypeOK, CampaignRow, Statuses
  <2>2. QED
    BY <1>2, <2>1 DEF IInv, TypeOK
<1>5. /\ offers[c] = {} /\ accruals[c] = {}
      /\ \A r \in Requests : request[r].phase = "offer" => request[r].on # c
  BY <1>2 DEF IInv, DraftsHaveNoHistory, Referenced
<1>6. TermsAreKept'
  BY <1>2, <1>3, <1>5 DEF IInv, TermsAreKept
<1>7. DraftsHaveNoHistory'
  BY <1>2, <1>3, <1>5 DEF IInv, DraftsHaveNoHistory, Referenced
<1>8. ArchivedIsClosed'
  BY <1>3 DEF IInv, ArchivedIsClosed
<1>9. \A r \in Requests : request[r].phase # "idle" => request[r].on \in Campaigns
  BY RequestShapes DEF IInv, TypeOK
<1>10. OffersCarryTerms'
  BY <1>2, <1>3, <1>5, <1>9 DEF IInv, OffersCarryTerms
<1>11. LocksHoldDrafts'
  BY <1>2, <1>3, <1>9 DEF IInv, LocksHoldDrafts
<1>12. QED
  BY <1>4, <1>6, <1>7, <1>8, <1>10, <1>11 DEF IInv

(***************************************************************************)
(* Lemma: an edit or a deletion locks a draft.                             *)
(***************************************************************************)
LEMMA LockDraftIInv ==
  ASSUME IInv, NEW r \in Requests, NEW c \in Campaigns, NEW phase \in {"edit", "delete"},
         Unlocked(c), campaign[c].status = "DRAFT",
         Begin(r, [phase |-> phase, on |-> c]), Lock(r, c),
         UNCHANGED <<campaign, offers, accruals, clock>>
  PROVE  IInv'
<1> DEFINE q == [phase |-> phase, on |-> c]
<1>1. q \in RequestState /\ q.phase = phase /\ q.on = c
  BY DEF RequestState
<1>2. /\ request[r] = Idle
      /\ request' \in [Requests -> RequestState]
      /\ request'[r] = q
      /\ \A s \in Requests : s # r => request'[s] = request[s]
  BY <1>1, Begun DEF IInv
<1>3. /\ lock' \in [Campaigns -> Requests \cup {Nobody}]
      /\ lock'[c] = r
      /\ \A d \in Campaigns : d # c => lock'[d] = lock[d]
  BY DEF Lock, IInv, TypeOK
<1>4. \A d \in Campaigns : lock[d] # r
  BY <1>2 DEF IInv, TypeOK, Idle
<1> HIDE DEF q
<1>5. TypeOK'
  BY <1>1, <1>2, <1>3, <1>4 DEF IInv, TypeOK
<1>6. TermsAreKept' /\ ArchivedIsClosed'
  BY DEF IInv, TermsAreKept, ArchivedIsClosed
<1>7. DraftsHaveNoHistory'
  BY <1>1, <1>2 DEF IInv, DraftsHaveNoHistory, Referenced
<1>8. OffersCarryTerms'
  BY <1>1, <1>2 DEF IInv, OffersCarryTerms
<1>9. LocksHoldDrafts'
  <2>1. ASSUME NEW s \in Requests, s # r, request[s].phase \in {"edit", "delete"}
        PROVE  /\ lock'[request[s].on] = s
               /\ campaign[request[s].on].status = "DRAFT"
    <3>1. request[s].on \in Campaigns
      BY <2>1, RequestShapes DEF IInv, TypeOK
    <3>2. request[s].on # c
      BY <2>1, UnlockedIsIdle DEF Unlocked
    <3>3. QED
      BY <1>3, <2>1, <3>1, <3>2 DEF IInv, LocksHoldDrafts
  <2>2. QED
    BY <1>1, <1>2, <1>3, <2>1 DEF LocksHoldDrafts
<1>10. QED
  BY <1>5, <1>6, <1>7, <1>8, <1>9 DEF IInv

(***************************************************************************)
(* Lemma: a request that gives up only frees its lock.                     *)
(***************************************************************************)
LEMMA EndIInv ==
  ASSUME IInv, NEW r \in Requests, Release(r), Finish(r),
         UNCHANGED <<campaign, offers, accruals, clock>>
  PROVE  IInv'
<1>1. /\ request' \in [Requests -> RequestState]
      /\ request'[r].phase = "idle"
      /\ \A s \in Requests : s # r => request'[s] = request[s]
  BY Finished DEF IInv
<1>2. /\ lock' \in [Campaigns -> Requests \cup {Nobody}]
      /\ \A c \in Campaigns : lock'[c] # r
      /\ \A c \in Campaigns : lock'[c] # Nobody => lock'[c] = lock[c]
      /\ \A c \in Campaigns : lock[c] # r => lock'[c] = lock[c]
  BY LocksReleased DEF IInv
<1>3. TypeOK'
  BY <1>1, <1>2 DEF IInv, TypeOK
<1>4. TermsAreKept' /\ ArchivedIsClosed'
  BY DEF IInv, TermsAreKept, ArchivedIsClosed
<1>5. DraftsHaveNoHistory'
  BY <1>1 DEF IInv, DraftsHaveNoHistory, Referenced
<1>6. OffersCarryTerms'
  BY <1>1 DEF IInv, OffersCarryTerms
<1>7. LocksHoldDrafts'
  <2>1. \A s \in Requests : request[s].phase \in {"edit", "delete"} => request[s].on \in Campaigns
    BY RequestShapes DEF IInv, TypeOK
  <2>2. QED
    BY <1>1, <1>2, <2>1 DEF IInv, LocksHoldDrafts
<1>8. QED
  BY <1>3, <1>4, <1>5, <1>6, <1>7 DEF IInv

(***************************************************************************)
(* Lemma: whoever edits or deletes writes its own draft and ends.          *)
(***************************************************************************)
LEMMA DraftWrittenIInv ==
  ASSUME IInv, NEW r \in Requests, NEW c \in Campaigns,
         request[r].phase \in {"edit", "delete"}, request[r].on = c,
         campaign' \in [Campaigns -> CampaignRow],
         campaign'[c].status \in {"DRAFT", "GONE"},
         campaign'[c].archived = campaign[c].archived,
         \A d \in Campaigns : d # c => campaign'[d] = campaign[d],
         Release(r), Finish(r), UNCHANGED <<offers, accruals, clock>>
  PROVE  IInv'
<1>1. /\ request' \in [Requests -> RequestState]
      /\ request'[r].phase = "idle"
      /\ \A s \in Requests : s # r => request'[s] = request[s]
  BY Finished DEF IInv
<1>2. /\ lock' \in [Campaigns -> Requests \cup {Nobody}]
      /\ \A d \in Campaigns : lock'[d] # r
      /\ \A d \in Campaigns : lock'[d] # Nobody => lock'[d] = lock[d]
      /\ \A d \in Campaigns : lock[d] # r => lock'[d] = lock[d]
  BY LocksReleased DEF IInv
<1>3. lock[c] = r /\ campaign[c].status = "DRAFT"
  BY DEF IInv, LocksHoldDrafts
<1>4. /\ offers[c] = {} /\ accruals[c] = {} /\ ~campaign[c].archived
      /\ \A s \in Requests : request[s].phase = "offer" => request[s].on # c
  BY <1>3 DEF IInv, DraftsHaveNoHistory, ArchivedIsClosed, Referenced
<1>5. \A s \in Requests : request[s].phase # "idle" => request[s].on \in Campaigns
  BY RequestShapes DEF IInv, TypeOK
<1>6. TypeOK'
  BY <1>1, <1>2 DEF IInv, TypeOK
<1>7. TermsAreKept'
  BY <1>4 DEF IInv, TermsAreKept
<1>8. DraftsHaveNoHistory'
  BY <1>1, <1>4 DEF IInv, DraftsHaveNoHistory, Referenced
<1>9. ArchivedIsClosed'
  BY <1>4 DEF IInv, ArchivedIsClosed
<1>10. OffersCarryTerms'
  BY <1>1, <1>4, <1>5 DEF IInv, OffersCarryTerms
<1>11. LocksHoldDrafts'
  BY <1>1, <1>2, <1>3, <1>5 DEF IInv, LocksHoldDrafts
<1>12. QED
  BY <1>6, <1>7, <1>8, <1>9, <1>10, <1>11 DEF IInv

(***************************************************************************)
(* Lemma: the commit of PATCH /campaigns/{id}, with what it writes.        *)
(***************************************************************************)
LEMMA EditCommitWrites ==
  ASSUME IInv, NEW r \in Requests, EditCommit(r)
  PROVE  \E c \in Campaigns :
           /\ request[r].phase = "edit" /\ request[r].on = c
           /\ campaign' \in [Campaigns -> CampaignRow]
           /\ campaign[c].status = "DRAFT" /\ campaign'[c].status = "DRAFT"
           /\ campaign'[c].archived = campaign[c].archived
           /\ ~campaign[c].archived
           /\ \A d \in Campaigns : d # c => campaign'[d] = campaign[d]
<1>1. request[r].phase = "edit" /\ request[r].on \in Campaigns
  BY RequestShapes DEF IInv, TypeOK, EditCommit
<1>2. PICK c \in Campaigns : request[r].on = c
  BY <1>1
<1>3. campaign[c].status = "DRAFT" /\ ~campaign[c].archived
  BY <1>1, <1>2 DEF IInv, LocksHoldDrafts, ArchivedIsClosed
<1>4. PICK rate \in Rates, ends \in Time \ {0} :
        campaign' = [campaign EXCEPT ![c].rate = rate, ![c].ends = ends]
  BY <1>2 DEF EditCommit
<1>5. /\ campaign' \in [Campaigns -> CampaignRow]
      /\ campaign'[c].status = campaign[c].status
      /\ campaign'[c].archived = campaign[c].archived
      /\ \A d \in Campaigns : d # c => campaign'[d] = campaign[d]
  <2>1. campaign[c] \in CampaignRow /\ ends \in Time
    BY <1>4 DEF IInv, TypeOK
  <2>2. /\ campaign'[c] = [campaign[c] EXCEPT !.rate = rate, !.ends = ends]
        /\ \A d \in Campaigns : d # c => campaign'[d] = campaign[d]
        /\ campaign' \in [Campaigns -> {campaign[d] : d \in Campaigns} \cup {campaign'[c]}]
    BY <1>4 DEF IInv, TypeOK
  <2>3. /\ campaign'[c] \in CampaignRow
        /\ campaign'[c].status = campaign[c].status
        /\ campaign'[c].archived = campaign[c].archived
    BY <2>1, <2>2 DEF CampaignRow
  <2>4. QED
    BY <2>2, <2>3 DEF IInv, TypeOK
<1>6. QED
  BY <1>1, <1>2, <1>3, <1>5

(***************************************************************************)
(* Lemma: the commit of DELETE /campaigns/{id}, with what it writes.       *)
(***************************************************************************)
LEMMA DeleteCommitWrites ==
  ASSUME IInv, NEW r \in Requests, DeleteCommit(r)
  PROVE  \E c \in Campaigns :
           /\ request[r].phase = "delete" /\ request[r].on = c
           /\ campaign' \in [Campaigns -> CampaignRow]
           /\ campaign[c].status = "DRAFT" /\ campaign'[c].status = "GONE"
           /\ campaign'[c].archived = campaign[c].archived
           /\ ~campaign[c].archived
           /\ \A d \in Campaigns : d # c => campaign'[d] = campaign[d]
<1>1. request[r].phase = "delete" /\ request[r].on \in Campaigns
  BY RequestShapes DEF IInv, TypeOK, DeleteCommit
<1>2. PICK c \in Campaigns : request[r].on = c
  BY <1>1
<1>3. campaign[c].status = "DRAFT" /\ ~campaign[c].archived
  BY <1>1, <1>2 DEF IInv, LocksHoldDrafts, ArchivedIsClosed
<1>4. campaign' = [campaign EXCEPT ![c].status = "GONE"]
  BY <1>2 DEF DeleteCommit
<1>5. /\ campaign' \in [Campaigns -> CampaignRow]
      /\ campaign'[c].status = "GONE"
      /\ campaign'[c].archived = campaign[c].archived
      /\ \A d \in Campaigns : d # c => campaign'[d] = campaign[d]
  BY <1>4 DEF IInv, TypeOK, CampaignRow, Statuses
<1>6. QED
  BY <1>1, <1>2, <1>3, <1>5

(***************************************************************************)
(* Lemma: rows nobody has locked move among ACTIVE, PAUSED and COMPLETED   *)
(* or into the archive, and a status change may end with it.               *)
(***************************************************************************)
LEMMA RowsMovedIInv ==
  ASSUME IInv,
         campaign' \in [Campaigns -> CampaignRow],
         \A c \in Campaigns :
           /\ campaign'[c].rate = campaign[c].rate
           /\ campaign'[c].ends = campaign[c].ends,
         \A c \in Campaigns : campaign'[c] # campaign[c] =>
           /\ lock[c] = Nobody
           /\ campaign'[c].status \in {"ACTIVE", "PAUSED", "COMPLETED"}
           /\ campaign'[c].archived => campaign'[c].status \in {"PAUSED", "COMPLETED"},
         request' \in [Requests -> RequestState],
         \A s \in Requests : request'[s] # request[s] =>
           request[s].phase = "status" /\ request'[s].phase = "idle",
         UNCHANGED <<offers, accruals, lock, clock>>
  PROVE  IInv'
<1>1. TypeOK'
  BY DEF IInv, TypeOK
<1>2. TermsAreKept'
  BY DEF IInv, TermsAreKept
<1>3. DraftsHaveNoHistory'
  BY DEF IInv, DraftsHaveNoHistory, Referenced
<1>4. ArchivedIsClosed'
  BY DEF IInv, ArchivedIsClosed
<1>5. \A s \in Requests : request[s].phase # "idle" => request[s].on \in Campaigns
  BY RequestShapes DEF IInv, TypeOK
<1>6. OffersCarryTerms'
  BY <1>5 DEF IInv, OffersCarryTerms
<1>7. LocksHoldDrafts'
  BY <1>5 DEF IInv, LocksHoldDrafts
<1>8. QED
  BY <1>1, <1>2, <1>3, <1>4, <1>6, <1>7 DEF IInv

(***************************************************************************)
(* Lemma: the compare-and-set of PATCH /campaigns/{id}/status.             *)
(***************************************************************************)
LEMMA StatusCommitWrites ==
  ASSUME IInv, NEW r \in Requests, StatusCommit(r)
  PROVE  \E c \in Campaigns :
           /\ request[r].phase = "status" /\ request[r].on = c
           /\ lock[c] = Nobody
           /\ campaign' \in [Campaigns -> CampaignRow]
           /\ <<campaign[c].status, campaign'[c].status>> \in Transitions
           /\ ~campaign[c].archived
           /\ campaign'[c].archived = campaign[c].archived
           /\ campaign'[c].rate = campaign[c].rate
           /\ campaign'[c].ends = campaign[c].ends
           /\ campaign'[c].status = "ACTIVE" => request[r].began < campaign'[c].ends
           /\ \A d \in Campaigns : d # c => campaign'[d] = campaign[d]
<1>1. /\ request[r].phase = "status" /\ request[r].on \in Campaigns
      /\ request[r].to \in Statuses
      /\ request[r].began \in Time
  BY RequestShapes DEF IInv, TypeOK, StatusCommit
<1>2. PICK c \in Campaigns, to \in Statuses : request[r].on = c /\ request[r].to = to
  BY <1>1
<1>3. /\ lock[c] = Nobody
      /\ campaign[c].status = request[r].saw
      /\ ~campaign[c].archived
      /\ to = "ACTIVE" => campaign[c].ends > request[r].began
      /\ <<campaign[c].status, to>> \in Transitions
  BY <1>2 DEF StatusCommit, Unlocked, Swappable
<1>4. campaign' = [campaign EXCEPT ![c].status = to]
  BY <1>2 DEF StatusCommit
<1>5. campaign[c] \in CampaignRow
  BY DEF IInv, TypeOK
<1>6. /\ campaign'[c] = [campaign[c] EXCEPT !.status = to]
      /\ \A d \in Campaigns : d # c => campaign'[d] = campaign[d]
  BY <1>4 DEF IInv, TypeOK
<1>7. /\ campaign'[c] \in CampaignRow
      /\ campaign'[c].status = to
      /\ campaign'[c].archived = campaign[c].archived
      /\ campaign'[c].rate = campaign[c].rate
      /\ campaign'[c].ends = campaign[c].ends
  BY <1>5, <1>6 DEF CampaignRow
<1>8. campaign' \in [Campaigns -> CampaignRow]
  BY <1>4, <1>6, <1>7 DEF IInv, TypeOK
<1>9. campaign'[c].status = "ACTIVE" => request[r].began < campaign'[c].ends
  BY <1>1, <1>3, <1>5, <1>7 DEF CampaignRow, Time
<1>10. QED
  BY <1>1, <1>2, <1>3, <1>6, <1>7, <1>8, <1>9

(***************************************************************************)
(* Lemma: POST /campaigns/{id}/archive, which repeats without effect.      *)
(***************************************************************************)
LEMMA ArchiveWrites ==
  ASSUME IInv, NEW c \in Campaigns, ArchiveCampaign(c)
  PROVE  /\ lock[c] = Nobody
         /\ campaign' \in [Campaigns -> CampaignRow]
         /\ campaign[c].status \in {"PAUSED", "COMPLETED"}
         /\ campaign'[c].status = campaign[c].status
         /\ campaign'[c].rate = campaign[c].rate
         /\ campaign'[c].ends = campaign[c].ends
         /\ campaign[c].archived => campaign'[c] = campaign[c]
         /\ \A d \in Campaigns : d # c => campaign'[d] = campaign[d]
<1>1. campaign[c] \in CampaignRow
  BY DEF IInv, TypeOK
<1>2. /\ campaign'[c] = [campaign[c] EXCEPT !.archived = TRUE]
      /\ \A d \in Campaigns : d # c => campaign'[d] = campaign[d]
  BY DEF ArchiveCampaign, IInv, TypeOK
<1>3. /\ campaign'[c] \in CampaignRow
      /\ campaign'[c].status = campaign[c].status
      /\ campaign'[c].rate = campaign[c].rate
      /\ campaign'[c].ends = campaign[c].ends
      /\ campaign[c].archived => campaign'[c] = campaign[c]
  BY <1>1, <1>2 DEF CampaignRow
<1>4. campaign' \in [Campaigns -> CampaignRow]
  BY <1>2, <1>3 DEF ArchiveCampaign, IInv, TypeOK
<1>5. QED
  BY <1>2, <1>3, <1>4 DEF ArchiveCampaign, Unlocked

(***************************************************************************)
(* Lemma: the scheduler's UPDATE.                                          *)
(***************************************************************************)
LEMMA CompleteWrites ==
  ASSUME IInv, CompleteExpired
  PROVE  /\ campaign' \in [Campaigns -> CampaignRow]
         /\ \A c \in Campaigns :
              /\ campaign'[c].rate = campaign[c].rate
              /\ campaign'[c].ends = campaign[c].ends
              /\ campaign'[c] # campaign[c] =>
                   /\ lock[c] = Nobody
                   /\ campaign[c].status \in {"ACTIVE", "PAUSED"}
                   /\ ~campaign[c].archived
                   /\ campaign'[c].status = "COMPLETED"
                   /\ campaign'[c].archived = campaign[c].archived
<1>1. ASSUME NEW c \in Campaigns
      PROVE  /\ campaign'[c] \in CampaignRow
             /\ campaign'[c].rate = campaign[c].rate
             /\ campaign'[c].ends = campaign[c].ends
             /\ campaign'[c] # campaign[c] =>
                  /\ Expired(c)
                  /\ campaign'[c].status = "COMPLETED"
                  /\ campaign'[c].archived = campaign[c].archived
  <2>1. campaign[c] \in CampaignRow
    BY DEF IInv, TypeOK
  <2>2. campaign'[c] = IF Expired(c) THEN [campaign[c] EXCEPT !.status = "COMPLETED"]
                                     ELSE campaign[c]
    BY DEF CompleteExpired
  <2>3. QED
    BY <2>1, <2>2 DEF CampaignRow, Statuses
<1>2. campaign' \in [Campaigns -> CampaignRow]
  BY <1>1 DEF CompleteExpired
<1>3. QED
  BY <1>1, <1>2 DEF CompleteExpired, Expired, Unlocked

(***************************************************************************)
(* Lemma: a request that begins without a lock and has read a row.         *)
(***************************************************************************)
LEMMA ReaderIInv ==
  ASSUME IInv, NEW r \in Requests, NEW q \in RequestState, Begin(r, q),
         q.phase \in {"status", "offer"},
         q.phase = "offer" => /\ q.rate = campaign[q.on].rate
                              /\ campaign[q.on].status = "ACTIVE",
         UNCHANGED <<campaign, offers, accruals, lock, clock>>
  PROVE  IInv'
<1>1. /\ request[r] = Idle
      /\ request' \in [Requests -> RequestState]
      /\ request'[r] = q
      /\ \A s \in Requests : s # r => request'[s] = request[s]
  BY Begun DEF IInv
<1>2. TypeOK'
  BY <1>1 DEF IInv, TypeOK, Idle
<1>3. TermsAreKept' /\ ArchivedIsClosed'
  BY DEF IInv, TermsAreKept, ArchivedIsClosed
<1>4. DraftsHaveNoHistory'
  BY <1>1 DEF IInv, DraftsHaveNoHistory, Referenced
<1>5. OffersCarryTerms'
  BY <1>1 DEF IInv, OffersCarryTerms
<1>6. LocksHoldDrafts'
  BY <1>1 DEF IInv, LocksHoldDrafts
<1>7. QED
  BY <1>2, <1>3, <1>4, <1>5, <1>6 DEF IInv

(***************************************************************************)
(* Lemma: PATCH /campaigns/{id}/status reads its row.                      *)
(***************************************************************************)
LEMMA StatusBeginIInv ==
  ASSUME IInv, NEW r \in Requests, NEW c \in Campaigns, StatusBegin(r, c)
  PROVE  IInv'
<1>1. PICK move \in Transitions :
        /\ Begin(r, [phase |-> "status", on |-> c, saw |-> move[1], to |-> move[2],
                     began |-> clock])
        /\ UNCHANGED <<campaign, offers, accruals, lock, clock>>
  BY DEF StatusBegin
<1>2. move[1] \in Statuses /\ move[2] \in Statuses
  BY DEF Transitions, Statuses
<1>3. clock \in Time
  BY DEF IInv, TypeOK
<1> DEFINE q == [phase |-> "status", on |-> c, saw |-> move[1], to |-> move[2],
                 began |-> clock]
<1>4. q \in RequestState /\ q.phase = "status"
  BY <1>2, <1>3 DEF RequestState
<1>5. Begin(r, q)
  BY <1>1
<1> HIDE DEF q
<1>6. QED
  BY <1>1, <1>4, <1>5, ReaderIInv

(***************************************************************************)
(* Lemma: recommendation_api reads an eligible campaign.                   *)
(***************************************************************************)
LEMMA OfferBeginIInv ==
  ASSUME IInv, NEW r \in Requests, NEW c \in Campaigns, OfferBegin(r, c)
  PROVE  IInv'
<1> DEFINE q == [phase |-> "offer", on |-> c, rate |-> campaign[c].rate]
<1>1. campaign[c].rate \in Rates /\ campaign[c].status = "ACTIVE"
  BY DEF IInv, TypeOK, CampaignRow, OfferBegin, Eligible
<1>2. q \in RequestState /\ q.phase = "offer" /\ q.on = c /\ q.rate = campaign[c].rate
  BY <1>1 DEF RequestState
<1>3. Begin(r, q) /\ UNCHANGED <<campaign, offers, accruals, lock, clock>>
  BY DEF OfferBegin
<1> HIDE DEF q
<1>4. QED
  BY <1>1, <1>2, <1>3, ReaderIInv

(***************************************************************************)
(* Lemma: an offer is stored with the terms its campaign has by now.       *)
(***************************************************************************)
LEMMA OfferStoredIInv ==
  ASSUME IInv, NEW r \in Requests, OfferStored(r)
  PROVE  IInv'
<1>1. /\ request[r].phase = "offer" /\ request[r].on \in Campaigns
      /\ request[r].rate \in Rates
  BY RequestShapes DEF IInv, TypeOK, OfferStored
<1>2. PICK c \in Campaigns : request[r].on = c
  BY <1>1
<1>3. campaign[c] \in CampaignRow /\ clock \in Time
  BY DEF IInv, TypeOK
<1>4. Expiry(c) \in Nat /\ Expiry(c) <= campaign[c].ends
  BY <1>3 DEF Expiry, CampaignRow, Time
<1>5. request[r].rate = campaign[c].rate
  BY <1>1, <1>2 DEF IInv, OffersCarryTerms
<1>6. campaign[c].status \notin {"NONE", "DRAFT", "GONE"}
  BY <1>1, <1>2 DEF IInv, DraftsHaveNoHistory
<1> DEFINE o == [rate |-> request[r].rate, expires |-> Expiry(c)]
<1>7. o \in OfferRow /\ o.rate = campaign[c].rate /\ o.expires <= campaign[c].ends
  BY <1>1, <1>4, <1>5 DEF OfferRow
<1>8. offers' = [offers EXCEPT ![c] = @ \cup {o}]
  BY <1>2 DEF OfferStored
<1> HIDE DEF o
<1>9. /\ offers' \in [Campaigns -> SUBSET OfferRow]
      /\ offers'[c] = offers[c] \cup {o}
      /\ \A d \in Campaigns : d # c => offers'[d] = offers[d]
  BY <1>7, <1>8 DEF IInv, TypeOK
<1>10. Finish(r) /\ UNCHANGED <<campaign, accruals, lock, clock>>
  BY DEF OfferStored
<1>11. /\ request' \in [Requests -> RequestState]
       /\ request'[r].phase = "idle"
       /\ \A s \in Requests : s # r => request'[s] = request[s]
  BY <1>10, Finished DEF IInv
<1>12. TypeOK'
  BY <1>1, <1>9, <1>10, <1>11 DEF IInv, TypeOK
<1>13. TermsAreKept'
  BY <1>7, <1>9, <1>10 DEF IInv, TermsAreKept
<1>14. DraftsHaveNoHistory'
  BY <1>6, <1>9, <1>10, <1>11 DEF IInv, DraftsHaveNoHistory, Referenced
<1>15. ArchivedIsClosed' /\ OffersCarryTerms' /\ LocksHoldDrafts'
  BY <1>10, <1>11 DEF IInv, ArchivedIsClosed, OffersCarryTerms, LocksHoldDrafts
<1>16. QED
  BY <1>12, <1>13, <1>14, <1>15 DEF IInv

(***************************************************************************)
(* Lemma: an accrual is paid at the rate its campaign has.                 *)
(***************************************************************************)
LEMMA AccrueIInv ==
  ASSUME IInv, NEW c \in Campaigns, Accrue(c)
  PROVE  IInv'
<1>1. /\ campaign[c] \in CampaignRow /\ campaign[c].status = "ACTIVE"
      /\ UNCHANGED <<campaign, offers, lock, request, clock>>
  BY DEF IInv, TypeOK, Accrue, Eligible
<1>2. /\ accruals' \in [Campaigns -> SUBSET Rates]
      /\ accruals'[c] = accruals[c] \cup {campaign[c].rate}
      /\ \A d \in Campaigns : d # c => accruals'[d] = accruals[d]
  BY <1>1 DEF Accrue, IInv, TypeOK, CampaignRow
<1>3. TypeOK'
  BY <1>1, <1>2 DEF IInv, TypeOK
<1>4. TermsAreKept'
  BY <1>1, <1>2 DEF IInv, TermsAreKept
<1>5. DraftsHaveNoHistory'
  BY <1>1, <1>2 DEF IInv, DraftsHaveNoHistory, Referenced
<1>6. ArchivedIsClosed' /\ OffersCarryTerms' /\ LocksHoldDrafts'
  BY <1>1 DEF IInv, ArchivedIsClosed, OffersCarryTerms, LocksHoldDrafts
<1>7. QED
  BY <1>3, <1>4, <1>5, <1>6 DEF IInv

(***************************************************************************)
(* Lemma: the invariant survives time.                                     *)
(***************************************************************************)
LEMMA TickIInv == ASSUME IInv, Tick PROVE IInv'
<1>1. clock' \in Time
  BY DEF IInv, TypeOK, Tick, Time
<1>2. UNCHANGED <<campaign, offers, accruals, lock, request>>
  BY DEF Tick
<1>3. QED
  BY <1>1, <1>2 DEF IInv, TypeOK, TermsAreKept, DraftsHaveNoHistory, ArchivedIsClosed,
                   OffersCarryTerms, LocksHoldDrafts, Referenced

(***************************************************************************)
(* Lemma: the invariant survives a step that changes nothing.              *)
(***************************************************************************)
LEMMA StutterIInv == ASSUME IInv, UNCHANGED vars PROVE IInv'
BY DEF IInv, vars, TypeOK, TermsAreKept, DraftsHaveNoHistory, ArchivedIsClosed,
       OffersCarryTerms, LocksHoldDrafts, Referenced

(***************************************************************************)
(* Lemma: every step preserves the invariant.                              *)
(***************************************************************************)
LEMMA NextIInv == IInv /\ [Next]_vars => IInv'
<1> SUFFICES ASSUME IInv, [Next]_vars PROVE IInv'
    OBVIOUS
<1>1. ASSUME NEW c \in Campaigns, ArchiveCampaign(c) PROVE IInv'
  <2>1. UNCHANGED <<offers, accruals, lock, request, clock>>
    BY <1>1 DEF ArchiveCampaign
  <2>2. request' \in [Requests -> RequestState]
    BY <2>1 DEF IInv, TypeOK
  <2>3. QED
    BY <1>1, <2>1, <2>2, ArchiveWrites, RowsMovedIInv
<1>2. ASSUME NEW r \in Requests, NEW c \in Campaigns,
             EditBegin(r, c) \/ DeleteBegin(r, c)
      PROVE  IInv'
  <2>1. CASE EditBegin(r, c)
    BY <2>1, LockDraftIInv DEF EditBegin
  <2>2. CASE DeleteBegin(r, c)
    BY <2>2, LockDraftIInv DEF DeleteBegin
  <2>3. QED
    BY <1>2, <2>1, <2>2
<1>3. ASSUME NEW r \in Requests, EditCommit(r) PROVE IInv'
  <2>1. Release(r) /\ Finish(r) /\ UNCHANGED <<offers, accruals, clock>>
    BY <1>3 DEF EditCommit
  <2>2. QED
    BY <1>3, <2>1, EditCommitWrites, DraftWrittenIInv
<1>4. ASSUME NEW r \in Requests, DeleteCommit(r) PROVE IInv'
  <2>1. Release(r) /\ Finish(r) /\ UNCHANGED <<offers, accruals, clock>>
    BY <1>4 DEF DeleteCommit
  <2>2. QED
    BY <1>4, <2>1, DeleteCommitWrites, DraftWrittenIInv
<1>5. ASSUME NEW r \in Requests, StatusCommit(r) PROVE IInv'
  <2>1. Finish(r) /\ UNCHANGED <<offers, accruals, lock, clock>>
    BY <1>5 DEF StatusCommit
  <2>2. /\ request' \in [Requests -> RequestState]
        /\ request[r].phase = "status" /\ request'[r].phase = "idle"
        /\ \A s \in Requests : s # r => request'[s] = request[s]
    BY <1>5, <2>1, Finished DEF IInv, StatusCommit
  <2>3. PICK c \in Campaigns :
          /\ lock[c] = Nobody
          /\ campaign' \in [Campaigns -> CampaignRow]
          /\ <<campaign[c].status, campaign'[c].status>> \in Transitions
          /\ ~campaign'[c].archived
          /\ campaign'[c].rate = campaign[c].rate
          /\ campaign'[c].ends = campaign[c].ends
          /\ \A d \in Campaigns : d # c => campaign'[d] = campaign[d]
    BY <1>5, StatusCommitWrites
  <2>4. campaign'[c].status \in {"ACTIVE", "PAUSED", "COMPLETED"}
    BY <2>3 DEF Transitions
  <2>5. QED
    BY <2>1, <2>2, <2>3, <2>4, RowsMovedIInv
<1>6. ASSUME NEW r \in Requests, GiveUp(r) PROVE IInv'
  BY <1>6, EndIInv DEF GiveUp
<1>7. ASSUME CompleteExpired PROVE IInv'
  <2>1. UNCHANGED <<offers, accruals, lock, request, clock>>
    BY <1>7 DEF CompleteExpired
  <2>2. request' \in [Requests -> RequestState]
    BY <2>1 DEF IInv, TypeOK
  <2>3. QED
    BY <1>7, <2>1, <2>2, CompleteWrites, RowsMovedIInv
<1>8. QED
  BY <1>1, <1>2, <1>3, <1>4, <1>5, <1>6, <1>7, CreateIInv, StatusBeginIInv, OfferBeginIInv,
     OfferStoredIInv, AccrueIInv, TickIInv, StutterIInv DEF Next

(***************************************************************************)
(* Theorem: the invariant always holds.                                    *)
(***************************************************************************)
THEOREM AlwaysIInv == Spec => []IInv
<1>1. Init => IInv
  BY InitIInv
<1>2. IInv /\ [Next]_vars => IInv'
  BY NextIInv
<1>3. QED
  BY <1>1, <1>2, PTL DEF Spec

(***************************************************************************)
(* Theorem: the rows keep the types of their columns, and only an edit or a*)
(* deletion under way holds a row.                                         *)
(***************************************************************************)
THEOREM TypesHold == Spec => []TypeOK
<1>1. IInv => TypeOK
  BY DEF IInv
<1>2. QED
  BY <1>1, AlwaysIInv, PTL

(***************************************************************************)
(* Theorem: offers and accruals have the terms their campaign has, for any *)
(* number of requests and campaigns and any lifetime of an offer.          *)
(***************************************************************************)
THEOREM TermsHold == Spec => []TermsAreKept
<1>1. IInv => TermsAreKept
  BY DEF IInv
<1>2. QED
  BY <1>1, AlwaysIInv, PTL

(***************************************************************************)
(* Theorem: what can be edited or deleted has no history, stored or on its *)
(* way.                                                                    *)
(***************************************************************************)
THEOREM DraftsStayBlank == Spec => []DraftsHaveNoHistory
<1>1. IInv => DraftsHaveNoHistory
  BY DEF IInv
<1>2. QED
  BY <1>1, AlwaysIInv, PTL

(***************************************************************************)
(* Theorem: an archived campaign is paused or completed.                   *)
(***************************************************************************)
THEOREM ArchiveHolds == Spec => []ArchivedIsClosed
<1>1. IInv => ArchivedIsClosed
  BY DEF IInv
<1>2. QED
  BY <1>1, AlwaysIInv, PTL

(***************************************************************************)
(* Lemma: the six ways in which a step can change the row of a campaign.   *)
(***************************************************************************)
LEMMA HowRowsChange ==
  ASSUME IInv, [Next]_vars, NEW c \in Campaigns
  PROVE  \/ campaign'[c] = campaign[c]
         \/ campaign[c].status = "NONE" /\ campaign'[c].status = "DRAFT"
         \/ /\ campaign[c].status = "DRAFT" /\ campaign'[c].status \in {"DRAFT", "GONE"}
            /\ ~campaign[c].archived
         \/ /\ campaign[c].status \in {"PAUSED", "COMPLETED"}
            /\ campaign'[c].status = campaign[c].status
            /\ ~campaign[c].archived
         \/ \E r \in Requests :
              /\ request[r].phase = "status" /\ request[r].on = c
              /\ <<campaign[c].status, campaign'[c].status>> \in Transitions
              /\ ~campaign[c].archived
              /\ campaign'[c].status = "ACTIVE" => request[r].began < campaign'[c].ends
         \/ /\ campaign[c].status \in {"ACTIVE", "PAUSED"} /\ campaign'[c].status = "COMPLETED"
            /\ ~campaign[c].archived
<1>1. ASSUME NEW d \in Campaigns, CreateCampaign(d), campaign'[c] # campaign[c]
      PROVE  campaign[c].status = "NONE" /\ campaign'[c].status = "DRAFT"
  BY <1>1 DEF CreateCampaign, IInv, TypeOK
<1>2. ASSUME NEW r \in Requests, EditCommit(r) \/ DeleteCommit(r), campaign'[c] # campaign[c]
      PROVE  /\ campaign[c].status = "DRAFT" /\ campaign'[c].status \in {"DRAFT", "GONE"}
             /\ ~campaign[c].archived
  BY <1>2, EditCommitWrites, DeleteCommitWrites
<1>3. ASSUME NEW d \in Campaigns, ArchiveCampaign(d), campaign'[c] # campaign[c]
      PROVE  /\ campaign[c].status \in {"PAUSED", "COMPLETED"}
             /\ campaign'[c].status = campaign[c].status
             /\ ~campaign[c].archived
  BY <1>3, ArchiveWrites DEF IInv, TypeOK, CampaignRow
<1>4. ASSUME NEW r \in Requests, StatusCommit(r), campaign'[c] # campaign[c]
      PROVE  /\ request[r].phase = "status" /\ request[r].on = c
             /\ <<campaign[c].status, campaign'[c].status>> \in Transitions
             /\ ~campaign[c].archived
             /\ campaign'[c].status = "ACTIVE" => request[r].began < campaign'[c].ends
  BY <1>4, StatusCommitWrites
<1>5. ASSUME CompleteExpired, campaign'[c] # campaign[c]
      PROVE  /\ campaign[c].status \in {"ACTIVE", "PAUSED"}
             /\ campaign'[c].status = "COMPLETED"
             /\ ~campaign[c].archived
  BY <1>5, CompleteWrites
<1>6. ASSUME NEW r \in Requests, NEW d \in Campaigns,
             \/ EditBegin(r, d) \/ DeleteBegin(r, d) \/ StatusBegin(r, d) \/ OfferBegin(r, d)
             \/ OfferStored(r) \/ GiveUp(r) \/ Accrue(d) \/ Tick \/ UNCHANGED vars
      PROVE  campaign'[c] = campaign[c]
  BY <1>6 DEF EditBegin, DeleteBegin, StatusBegin, OfferBegin, OfferStored, GiveUp, Accrue,
              Tick, vars
<1>7. ASSUME \/ \E r \in Requests : OfferStored(r) \/ GiveUp(r)
             \/ \E d \in Campaigns : Accrue(d)
             \/ Tick
             \/ UNCHANGED vars
      PROVE  campaign'[c] = campaign[c]
  BY <1>7 DEF OfferStored, GiveUp, Accrue, Tick, vars
<1>8. QED
  BY <1>1, <1>2, <1>3, <1>4, <1>5, <1>6, <1>7, Zenon DEF Next

(***************************************************************************)
(* Theorem: a row that is deleted is still a draft when it goes.           *)
(***************************************************************************)
THEOREM DeletionIsForDrafts == Spec => OnlyDraftsAreDeleted
<1> DEFINE A == \A c \in Campaigns :
                  campaign[c].status # "GONE" /\ campaign[c].status' = "GONE" =>
                    campaign[c].status = "DRAFT"
<1>1. IInv /\ [Next]_vars => A
  BY HowRowsChange DEF Transitions
<1>2. QED
  BY <1>1, AlwaysIInv, PTL DEF Spec, OnlyDraftsAreDeleted

(***************************************************************************)
(* Theorem: a campaign that becomes ACTIVE does so for a request that began*)
(* before the end date it has then.                                        *)
(***************************************************************************)
THEOREM ActivationIsInTime == Spec => ActivatedInTime
<1> DEFINE A == \A c \in Campaigns :
                  campaign[c].status # "ACTIVE" /\ campaign[c].status' = "ACTIVE" =>
                    \E r \in Requests :
                      /\ request[r].phase = "status" /\ request[r].on = c
                      /\ request[r].began < campaign'[c].ends
<1>1. IInv /\ [Next]_vars => A
  BY HowRowsChange
<1>2. QED
  BY <1>1, AlwaysIInv, PTL DEF Spec, ActivatedInTime

(***************************************************************************)
(* Theorem: COMPLETED and the archive are for good.                        *)
(***************************************************************************)
THEOREM ClosingIsFinal == Spec => ClosedIsFinal
<1> DEFINE A == \A c \in Campaigns :
                  /\ campaign[c].status = "COMPLETED" => campaign[c].status' = "COMPLETED"
                  /\ campaign[c].archived => campaign[c]' = campaign[c]
<1>1. ASSUME IInv, [Next]_vars, NEW c \in Campaigns
      PROVE  /\ campaign[c].status = "COMPLETED" => campaign'[c].status = "COMPLETED"
             /\ campaign[c].archived => campaign'[c] = campaign[c]
  <2>1. campaign[c].archived => campaign[c].status \in {"PAUSED", "COMPLETED"}
    BY <1>1 DEF IInv, ArchivedIsClosed
  <2>2. QED
    BY <1>1, <2>1, HowRowsChange DEF Transitions
<1>2. IInv /\ [Next]_vars => A
  BY <1>1
<1>3. QED
  BY <1>2, AlwaysIInv, PTL DEF Spec, ClosedIsFinal

-----------------------------------------------------------------------------
HIDE LifecycleAssumption

USE StreamsAssumption

(***************************************************************************)
(* The live events (EventStreams).                                         *)
(*                                                                         *)
(* The first half of the invariant.  What a connection knows: the user it  *)
(* was opened for, and a token as long as that lives.  Nothing is asked of *)
(* the version in it; the accounts come in the second half.                *)
(***************************************************************************)
Formed(x) ==
  /\ x = [phase |-> x.phase, token |-> x.token, access |-> x.access]
  /\ x.phase \in ConnPhases
  /\ x.token \in SseTokens \cup {None}
  /\ x.phase # "idle" => x.access.user \in Users

StreamsTyped ==
  /\ sse = [k \in SseTokens |-> sse[k]]
  /\ \A k \in SseTokens : sse[k] # None => sse[k].user \in Users
  /\ conn = [c \in Connections |-> conn[c]]
  /\ \A c \in Connections : Formed(conn[c])
  /\ perUser \in [Users -> Int]

\* A place in the broker is taken from the acceptance of a stream to the first
\* of its two unsubscriptions, at the latest the second.
Subscribed == {"accepted", "open", "leaving"}

PlacesHeld ==
  /\ IsFiniteSet(subscribers) /\ Cardinality(subscribers) <= MaxSubscribers
  /\ \A c \in subscribers : c \in Connections /\ conn[c].phase \in Subscribed \cup {"background"}
  /\ \A c \in Connections : conn[c].phase \in Subscribed => c \in subscribers

\* The counter of a user is the number of his places.
PlacesOf(u) == {c \in subscribers : conn[c].access.user = u}

PlacesCounted ==
  \A u \in Users : perUser[u] = Cardinality(PlacesOf(u)) /\ perUser[u] <= MaxPerUser

\* A connection past the check of its token holds it marked and alone.
Past(c) == conn[c].phase \notin {"idle", "once"}

TokensMarked ==
  /\ \A c \in Connections : conn[c].phase = "once" => conn[c].token # None
  /\ \A c \in Connections : Past(c) => conn[c].token \in used \cup {None}
  /\ \A c, d \in Connections :
       Past(c) /\ Past(d) /\ conn[c].token = conn[d].token /\ c # d => conn[c].token = None

StreamsInv == StreamsTyped /\ PlacesHeld /\ PlacesCounted /\ TokensMarked

-----------------------------------------------------------------------------
(***************************************************************************)
(* Lemma: what moving a connection to another phase changes.               *)
(***************************************************************************)
LEMMA MovedConn ==
  ASSUME StreamsTyped, NEW c \in Connections, NEW phase \in ConnPhases,
         conn[c].phase # "idle", GotoConn(c, phase)
  PROVE  /\ conn' = [d \in Connections |-> conn'[d]]
         /\ \A d \in Connections \ {c} : conn'[d] = conn[d]
         /\ conn'[c].phase = phase
         /\ conn'[c].token = conn[c].token
         /\ conn'[c].access = conn[c].access
         /\ Formed(conn'[c])
<1>1. Formed(conn[c])
  BY DEF StreamsTyped
<1>2. PICK t, a : conn[c] = [phase |-> conn[c].phase, token |-> t, access |-> a]
  BY <1>1 DEF Formed
<1>3. conn'[c] = [conn[c] EXCEPT !.phase = phase]
  BY DEF StreamsTyped, GotoConn
<1>4. conn'[c] = [phase |-> phase, token |-> t, access |-> a]
  BY <1>2, <1>3
<1>5. conn[c].token = t /\ conn[c].access = a
  BY <1>2
<1>6. Formed(conn'[c])
  BY <1>1, <1>4, <1>5 DEF Formed
<1>7. \A d \in Connections \ {c} : conn'[d] = conn[d]
  BY DEF StreamsTyped, GotoConn
<1>8. conn' = [d \in Connections |-> conn'[d]]
  BY DEF StreamsTyped, GotoConn
<1>9. QED
  BY <1>4, <1>5, <1>6, <1>7, <1>8

(***************************************************************************)
(* Lemma: a connection that is over knows nothing any more.                *)
(***************************************************************************)
LEMMA EndedConn ==
  ASSUME StreamsTyped, NEW c \in Connections, conn' = [conn EXCEPT ![c] = NoConn]
  PROVE  /\ conn' = [d \in Connections |-> conn'[d]]
         /\ \A d \in Connections \ {c} : conn'[d] = conn[d]
         /\ conn'[c].phase = "idle"
         /\ Formed(conn'[c])
<1>1. conn'[c] = NoConn
  BY DEF StreamsTyped
<1>2. Formed(NoConn)
  BY DEF Formed, NoConn, ConnPhases
<1>3. /\ conn' = [d \in Connections |-> conn'[d]]
      /\ \A d \in Connections \ {c} : conn'[d] = conn[d]
  BY DEF StreamsTyped
<1>4. QED
  BY <1>1, <1>2, <1>3 DEF NoConn

-----------------------------------------------------------------------------
(***************************************************************************)
(* Lemma: a step that touches neither connections, tokens nor places keeps *)
(* the invariant.                                                          *)
(***************************************************************************)
LEMMA QuietKeeps ==
  ASSUME StreamsInv, UNCHANGED <<sse, used, conn, subscribers, perUser>>
  PROVE  StreamsInv'
<1>1. StreamsTyped'
  BY DEF StreamsInv, StreamsTyped
<1>2. PlacesHeld'
  BY DEF StreamsInv, PlacesHeld
<1>3. PlacesCounted'
  <2>1. \A u \in Users : PlacesOf(u)' = PlacesOf(u)
    BY DEF PlacesOf
  <2>2. QED
    BY <2>1 DEF StreamsInv, PlacesCounted
<1>4. TokensMarked'
  BY DEF StreamsInv, TokensMarked, Past
<1>5. QED
  BY <1>1, <1>2, <1>3, <1>4 DEF StreamsInv

(***************************************************************************)
(* Lemma: as long as a stream keeps its place nothing is counted anew.     *)
(***************************************************************************)
LEMMA PlaceKept ==
  ASSUME StreamsInv, NEW c \in Connections, conn[c].phase \in {"accepted", "open"},
         NEW phase \in {"open", "leaving", "background"}, GotoConn(c, phase),
         UNCHANGED <<sse, used, subscribers, perUser>>
  PROVE  StreamsInv'
<1>0. StreamsTyped /\ PlacesHeld /\ PlacesCounted /\ TokensMarked
  BY DEF StreamsInv
<1>1. /\ conn' = [d \in Connections |-> conn'[d]]
      /\ \A d \in Connections \ {c} : conn'[d] = conn[d]
      /\ conn'[c].phase = phase
      /\ conn'[c].token = conn[c].token
      /\ conn'[c].access = conn[c].access
      /\ Formed(conn'[c])
  BY <1>0, MovedConn DEF ConnPhases
<1>2. StreamsTyped'
  BY <1>0, <1>1 DEF StreamsTyped
<1>3. PlacesHeld'
  BY <1>0, <1>1 DEF PlacesHeld, Subscribed
<1>4. PlacesCounted'
  <2>1. \A u \in Users : PlacesOf(u)' = PlacesOf(u)
    BY <1>0, <1>1 DEF PlacesOf, PlacesHeld
  <2>2. QED
    BY <1>0, <2>1 DEF PlacesCounted
<1>5. TokensMarked'
  BY <1>0, <1>1 DEF TokensMarked, Past
<1>6. QED
  BY <1>2, <1>3, <1>4, <1>5 DEF StreamsInv

(***************************************************************************)
(* Lemma: nor where a connection has no place, neither before nor after.   *)
(***************************************************************************)
LEMMA NoPlaceTaken ==
  ASSUME StreamsInv, NEW c \in Connections,
         conn[c].phase \notin Subscribed \cup {"background"},
         \A d \in Connections \ {c} : conn'[d] = conn[d],
         conn'[c].phase \notin Subscribed,
         UNCHANGED <<subscribers, perUser>>
  PROVE  PlacesHeld' /\ PlacesCounted'
<1>0. PlacesHeld /\ PlacesCounted
  BY DEF StreamsInv
<1>1. c \notin subscribers
  BY <1>0 DEF PlacesHeld
<1>2. PlacesHeld'
  BY <1>0, <1>1 DEF PlacesHeld
<1>3. \A u \in Users : PlacesOf(u)' = PlacesOf(u)
  BY <1>0, <1>1 DEF PlacesOf, PlacesHeld
<1>4. QED
  BY <1>0, <1>2, <1>3 DEF PlacesCounted

(***************************************************************************)
(* Lemma: the places of one user are as finite as all of them.             *)
(***************************************************************************)
LEMMA FewPlaces ==
  ASSUME PlacesHeld, NEW u \in Users
  PROVE  IsFiniteSet(PlacesOf(u)) /\ Cardinality(PlacesOf(u)) \in Nat
<1>1. PlacesOf(u) \subseteq subscribers
  BY DEF PlacesOf
<1>2. IsFiniteSet(PlacesOf(u))
  BY <1>1, FS_Subset DEF PlacesHeld
<1>3. QED
  BY <1>2, FS_CardinalityType

(***************************************************************************)
(* Lemma: an unsubscription gives back the place there is, and only once,  *)
(* whichever of its two callers comes first.                               *)
(***************************************************************************)
LEMMA PlaceGivenBack ==
  ASSUME StreamsInv, NEW c \in Connections,
         conn[c].phase \in {"leaving", "background"}, Unsubscribe(c),
         \A d \in Connections \ {c} : conn'[d] = conn[d],
         conn'[c].phase \notin Subscribed
  PROVE  PlacesHeld' /\ PlacesCounted' /\ perUser' \in [Users -> Int]
<1>0. StreamsTyped /\ PlacesHeld /\ PlacesCounted
  BY DEF StreamsInv
<1>1. subscribers' = subscribers \ {c}
  BY DEF Unsubscribe
<1>2. IsFiniteSet(subscribers') /\ Cardinality(subscribers') <= Cardinality(subscribers)
  BY <1>0, <1>1, FS_Subset, FS_CardinalityType DEF PlacesHeld
<1>3. Cardinality(subscribers) \in Nat /\ Cardinality(subscribers') \in Nat
  BY <1>0, <1>2, FS_CardinalityType DEF PlacesHeld
<1>4. PICK user \in Users : user = conn[c].access.user
  BY <1>0 DEF StreamsTyped, Formed
<1>5. PlacesHeld'
  <2>1. Cardinality(subscribers') <= MaxSubscribers
    BY <1>0, <1>2, <1>3 DEF PlacesHeld
  <2>2. QED
    BY <1>0, <1>1, <1>2, <2>1 DEF PlacesHeld
<1>6. perUser' = [perUser EXCEPT ![user] = IF c \in subscribers THEN perUser[user] - 1
                                           ELSE perUser[user]]
  BY <1>0, <1>4 DEF Unsubscribe, Owned, StreamsTyped
<1>7. perUser' \in [Users -> Int]
  BY <1>0, <1>6 DEF StreamsTyped
<1>8. \A u \in Users : PlacesOf(u)' = PlacesOf(u) \ {c}
  BY <1>0, <1>1 DEF PlacesOf, PlacesHeld
<1>9. ASSUME NEW u \in Users
      PROVE  perUser'[u] = Cardinality(PlacesOf(u)') /\ perUser'[u] <= MaxPerUser
  <2>1. /\ perUser[u] = Cardinality(PlacesOf(u)) /\ perUser[u] <= MaxPerUser
        /\ PlacesOf(u)' = PlacesOf(u) \ {c} /\ perUser[u] \in Nat
    BY <1>0, <1>8, FewPlaces DEF PlacesCounted
  <2>2. CASE c \in PlacesOf(u)
    <3>1. u = user /\ c \in subscribers
      BY <1>4, <2>2 DEF PlacesOf
    <3>2. Cardinality(PlacesOf(u) \ {c}) = Cardinality(PlacesOf(u)) - 1
      BY <1>0, <2>2, FewPlaces, FS_RemoveElement
    <3>3. perUser'[u] = perUser[u] - 1
      BY <1>0, <1>6, <3>1 DEF StreamsTyped
    <3>4. perUser'[u] <= MaxPerUser
      BY <2>1, <3>3
    <3>5. QED
      BY <2>1, <3>2, <3>3, <3>4
  <2>3. CASE c \notin PlacesOf(u)
    <3>1. PlacesOf(u) \ {c} = PlacesOf(u)
      BY <2>3
    <3>2. ~(u = user /\ c \in subscribers)
      BY <1>4, <2>3 DEF PlacesOf
    <3>3. perUser'[u] = perUser[u]
      BY <1>0, <1>6, <3>2 DEF StreamsTyped
    <3>4. QED
      BY <2>1, <3>1, <3>3
  <2>4. QED
    BY <2>2, <2>3
<1>10. PlacesCounted'
  BY <1>9 DEF PlacesCounted
<1>11. QED
  BY <1>5, <1>7, <1>10

-----------------------------------------------------------------------------
(***************************************************************************)
(* Lemma: a token that is issued names a user.                             *)
(***************************************************************************)
LEMMA IssueKeeps ==
  ASSUME StreamsInv, NEW k \in SseTokens, NEW u \in Viewers, IssueToken(k, u)
  PROVE  StreamsInv'
<1>0. StreamsTyped /\ PlacesHeld /\ PlacesCounted /\ TokensMarked
  BY DEF StreamsInv
<1>1. u \in Users
  OBVIOUS
<1>2. /\ sse' = [sse EXCEPT ![k] = [user |-> u, ver |-> account[u].ver]]
      /\ UNCHANGED <<used, conn, subscribers, perUser>>
  BY DEF IssueToken
<1>3. StreamsTyped'
  <2>1. sse' = [x \in SseTokens |-> sse'[x]]
    BY <1>0, <1>2 DEF StreamsTyped
  <2>2. \A x \in SseTokens \ {k} : sse'[x] = sse[x]
    BY <1>0, <1>2 DEF StreamsTyped
  <2>3. sse'[k] = [user |-> u, ver |-> account[u].ver]
    BY <1>0, <1>2 DEF StreamsTyped
  <2>4. \A x \in SseTokens : sse'[x] # None => sse'[x].user \in Users
    BY <1>0, <1>1, <2>2, <2>3 DEF StreamsTyped
  <2>5. QED
    BY <1>0, <1>2, <2>1, <2>4 DEF StreamsTyped
<1>4. \A x \in Users : PlacesOf(x)' = PlacesOf(x)
  BY <1>2 DEF PlacesOf
<1>5. PlacesHeld' /\ PlacesCounted'
  BY <1>0, <1>2, <1>4 DEF PlacesHeld, PlacesCounted
<1>6. TokensMarked'
  BY <1>0, <1>2 DEF TokensMarked, Past
<1>7. QED
  BY <1>3, <1>5, <1>6 DEF StreamsInv

(***************************************************************************)
(* Lemma: a token that expires is forgotten wherever it is, its mark too;  *)
(* the phases, the users and the places stay.                              *)
(***************************************************************************)
LEMMA ExpireKeeps ==
  ASSUME StreamsInv, NEW k \in SseTokens, ExpireToken(k)
  PROVE  StreamsInv'
<1>0. StreamsTyped /\ PlacesHeld /\ PlacesCounted /\ TokensMarked
  BY DEF StreamsInv
<1>1. /\ sse' = [sse EXCEPT ![k] = None]
      /\ used' = used \ {k}
      /\ UNCHANGED <<subscribers, perUser>>
      /\ \A c \in Connections : conn[c].phase = "once" => conn[c].token # k
  BY DEF ExpireToken, ConnAt
<1>2. /\ conn' = [c \in Connections |-> conn'[c]]
      /\ \A c \in Connections : conn'[c] = IF conn[c].token = k
                                           THEN [conn[c] EXCEPT !.token = None] ELSE conn[c]
  BY DEF ExpireToken
<1>3. \A c \in Connections : /\ conn'[c].phase = conn[c].phase
                             /\ conn'[c].access = conn[c].access
                             /\ conn'[c].token = IF conn[c].token = k THEN None ELSE conn[c].token
                             /\ Formed(conn'[c])
  <2> SUFFICES ASSUME NEW c \in Connections
               PROVE  /\ conn'[c].phase = conn[c].phase
                      /\ conn'[c].access = conn[c].access
                      /\ conn'[c].token = IF conn[c].token = k THEN None ELSE conn[c].token
                      /\ Formed(conn'[c])
      OBVIOUS
  <2>1. Formed(conn[c])
    BY <1>0 DEF StreamsTyped
  <2>2. PICK p, t, a : conn[c] = [phase |-> p, token |-> t, access |-> a]
    BY <2>1 DEF Formed
  <2>3. conn[c].phase = p /\ conn[c].token = t /\ conn[c].access = a
    BY <2>2
  <2>4. CASE t = k
    <3>1. conn'[c] = [phase |-> p, token |-> None, access |-> a]
      BY <1>2, <2>2, <2>3, <2>4
    <3>2. QED
      BY <2>1, <2>3, <2>4, <3>1 DEF Formed
  <2>5. CASE t # k
    BY <1>2, <2>1, <2>3, <2>5
  <2>6. QED
    BY <2>4, <2>5
<1>4. StreamsTyped'
  BY <1>0, <1>1, <1>2, <1>3 DEF StreamsTyped
<1>5. PlacesHeld'
  BY <1>0, <1>1, <1>3 DEF PlacesHeld
<1>6. \A u \in Users : PlacesOf(u)' = PlacesOf(u)
  BY <1>0, <1>1, <1>3 DEF PlacesOf, PlacesHeld
<1>7. PlacesCounted'
  BY <1>0, <1>1, <1>6 DEF PlacesCounted
<1>8. TokensMarked'
  BY <1>0, <1>1, <1>3 DEF TokensMarked, Past
<1>9. QED
  BY <1>4, <1>5, <1>7, <1>8 DEF StreamsInv

(***************************************************************************)
(* Lemma: a connection comes with a token and what the token says.         *)
(***************************************************************************)
LEMMA ConnectKeeps ==
  ASSUME StreamsInv, NEW c \in Connections, NEW k \in SseTokens, Connect(c, k)
  PROVE  StreamsInv'
<1>0. StreamsTyped /\ PlacesHeld /\ PlacesCounted /\ TokensMarked
  BY DEF StreamsInv
<1>1. conn[c].phase = "idle" /\ sse[k].user \in Users /\ k # None
  <2>1. sse[k] # None /\ conn[c].phase = "idle"
    BY DEF Connect, ConnAt
  <2>2. QED
    BY <1>0, <2>1 DEF StreamsTyped
<1>2. /\ conn' = [conn EXCEPT ![c] = [phase |-> "once", token |-> k, access |-> sse[k]]]
      /\ UNCHANGED <<sse, used, subscribers, perUser>>
  BY DEF Connect
<1>3. /\ conn' = [d \in Connections |-> conn'[d]]
      /\ \A d \in Connections \ {c} : conn'[d] = conn[d]
      /\ conn'[c] = [phase |-> "once", token |-> k, access |-> sse[k]]
  BY <1>0, <1>2 DEF StreamsTyped
<1>4. Formed(conn'[c])
  BY <1>1, <1>3 DEF Formed, ConnPhases
<1>5. StreamsTyped'
  BY <1>0, <1>2, <1>3, <1>4 DEF StreamsTyped
<1>6. PlacesHeld' /\ PlacesCounted'
  BY <1>1, <1>2, <1>3, NoPlaceTaken DEF Subscribed
<1>7. TokensMarked'
  BY <1>0, <1>1, <1>2, <1>3 DEF TokensMarked, Past
<1>8. QED
  BY <1>5, <1>6, <1>7 DEF StreamsInv

(***************************************************************************)
(* Lemma: only the first connection with a token gets past its mark.       *)
(***************************************************************************)
LEMMA UseKeeps ==
  ASSUME StreamsInv, NEW c \in Connections, UseOnce(c)
  PROVE  StreamsInv'
<1>0. StreamsTyped /\ PlacesHeld /\ PlacesCounted /\ TokensMarked
  BY DEF StreamsInv
<1>1. PICK k : k = conn[c].token
  OBVIOUS
<1>2. /\ conn[c].phase = "once"
      /\ used' = used \cup {k}
      /\ IF k \notin used THEN GotoConn(c, "subscribe") ELSE conn' = [conn EXCEPT ![c] = NoConn]
      /\ UNCHANGED <<sse, subscribers, perUser>>
  BY <1>1 DEF UseOnce, ConnAt, Fresh
<1>3. CASE k \notin used
  <2>1. /\ conn' = [d \in Connections |-> conn'[d]]
        /\ \A d \in Connections \ {c} : conn'[d] = conn[d]
        /\ conn'[c].phase = "subscribe"
        /\ conn'[c].token = k
        /\ Formed(conn'[c])
    BY <1>0, <1>1, <1>2, <1>3, MovedConn DEF ConnPhases
  <2>2. StreamsTyped'
    BY <1>0, <1>2, <2>1 DEF StreamsTyped
  <2>3. PlacesHeld' /\ PlacesCounted'
    BY <1>2, <2>1, NoPlaceTaken DEF Subscribed
  <2>4. \A d \in Connections : Past(d) => conn[d].token = None \/ conn[d].token # k
    BY <1>0, <1>3 DEF TokensMarked
  <2>5. TokensMarked'
    BY <1>0, <1>2, <2>1, <2>4 DEF TokensMarked, Past
  <2>6. QED
    BY <2>2, <2>3, <2>5 DEF StreamsInv
<1>4. CASE k \in used
  <2>1. /\ conn' = [d \in Connections |-> conn'[d]]
        /\ \A d \in Connections \ {c} : conn'[d] = conn[d]
        /\ conn'[c].phase = "idle"
        /\ Formed(conn'[c])
    BY <1>0, <1>2, <1>4, EndedConn
  <2>2. StreamsTyped'
    BY <1>0, <1>2, <2>1 DEF StreamsTyped
  <2>3. PlacesHeld' /\ PlacesCounted'
    BY <1>2, <2>1, NoPlaceTaken DEF Subscribed
  <2>4. TokensMarked'
    BY <1>0, <1>2, <2>1 DEF TokensMarked, Past
  <2>5. QED
    BY <2>2, <2>3, <2>4 DEF StreamsInv
<1>5. QED
  BY <1>3, <1>4

(***************************************************************************)
(* Lemma: a check that fails leaves the connection over, marked or not.    *)
(***************************************************************************)
LEMMA StoreDownKeeps ==
  ASSUME StreamsInv, NEW c \in Connections, StoreDown(c)
  PROVE  StreamsInv'
<1>0. StreamsTyped /\ PlacesHeld /\ PlacesCounted /\ TokensMarked
  BY DEF StreamsInv
<1>1. /\ conn[c].phase = "once" /\ used \subseteq used'
      /\ conn' = [conn EXCEPT ![c] = NoConn]
      /\ UNCHANGED <<sse, subscribers, perUser>>
  BY DEF StoreDown, ConnAt
<1>2. /\ conn' = [d \in Connections |-> conn'[d]]
      /\ \A d \in Connections \ {c} : conn'[d] = conn[d]
      /\ conn'[c].phase = "idle"
      /\ Formed(conn'[c])
  BY <1>0, <1>1, EndedConn
<1>3. StreamsTyped'
  BY <1>0, <1>1, <1>2 DEF StreamsTyped
<1>4. PlacesHeld' /\ PlacesCounted'
  BY <1>1, <1>2, NoPlaceTaken DEF Subscribed
<1>5. TokensMarked'
  BY <1>0, <1>1, <1>2 DEF TokensMarked, Past
<1>6. QED
  BY <1>3, <1>4, <1>5 DEF StreamsInv

(***************************************************************************)
(* Lemma: a place is taken where both limits leave one.                    *)
(***************************************************************************)
LEMMA SubscribeKeeps ==
  ASSUME StreamsInv, NEW c \in Connections, Subscribe(c)
  PROVE  StreamsInv'
<1>0. StreamsTyped /\ PlacesHeld /\ PlacesCounted /\ TokensMarked
  BY DEF StreamsInv
<1>1. conn[c].phase = "subscribe" /\ UNCHANGED <<sse, used>>
  BY DEF Subscribe, ConnAt
<1>2. PICK user \in Users : user = conn[c].access.user
  BY <1>0, <1>1 DEF StreamsTyped, Formed
<1>3. CASE closed \/ Full(user)
  <2>1. conn' = [conn EXCEPT ![c] = NoConn] /\ UNCHANGED <<subscribers, perUser>>
    BY <1>2, <1>3 DEF Subscribe
  <2>2. /\ conn' = [d \in Connections |-> conn'[d]]
        /\ \A d \in Connections \ {c} : conn'[d] = conn[d]
        /\ conn'[c].phase = "idle"
        /\ Formed(conn'[c])
    BY <1>0, <2>1, EndedConn
  <2>3. StreamsTyped'
    BY <1>0, <1>1, <2>1, <2>2 DEF StreamsTyped
  <2>4. PlacesHeld' /\ PlacesCounted'
    BY <1>1, <2>1, <2>2, NoPlaceTaken DEF Subscribed
  <2>5. TokensMarked'
    BY <1>0, <1>1, <2>2 DEF TokensMarked, Past
  <2>6. QED
    BY <2>3, <2>4, <2>5 DEF StreamsInv
<1>4. CASE ~(closed \/ Full(user))
  <2>1. /\ GotoConn(c, "accepted") /\ subscribers' = subscribers \cup {c}
        /\ perUser' = [perUser EXCEPT ![user] = perUser[user] + 1]
    BY <1>0, <1>2, <1>4 DEF Subscribe, StreamsTyped
  <2>2. /\ conn' = [d \in Connections |-> conn'[d]]
        /\ \A d \in Connections \ {c} : conn'[d] = conn[d]
        /\ conn'[c].phase = "accepted"
        /\ conn'[c].token = conn[c].token
        /\ conn'[c].access = conn[c].access
        /\ Formed(conn'[c])
    BY <1>0, <1>1, <2>1, MovedConn DEF ConnPhases
  <2>3. StreamsTyped'
    BY <1>0, <1>1, <1>2, <2>1, <2>2 DEF StreamsTyped
  <2>4. TokensMarked'
    BY <1>0, <1>1, <2>2 DEF TokensMarked, Past
  <2>5. c \notin subscribers
    BY <1>0, <1>1 DEF PlacesHeld, Subscribed
  <2>6. /\ IsFiniteSet(subscribers')
        /\ Cardinality(subscribers') = Cardinality(subscribers) + 1
        /\ Cardinality(subscribers) \in Nat
    BY <1>0, <2>1, <2>5, FS_AddElement, FS_CardinalityType DEF PlacesHeld
  <2>7. Cardinality(subscribers) < MaxSubscribers /\ perUser[user] < MaxPerUser
    <3>1. ~(Cardinality(subscribers) >= MaxSubscribers) /\ ~(perUser[user] >= MaxPerUser)
      BY <1>4 DEF Full
    <3>2. perUser[user] \in Int
      BY <1>0 DEF StreamsTyped
    <3>3. QED
      BY <2>6, <3>1, <3>2
  <2>8. PlacesHeld'
    <3>1. Cardinality(subscribers') <= MaxSubscribers
      BY <2>6, <2>7
    <3>2. QED
      BY <1>0, <2>1, <2>2, <2>6, <3>1 DEF PlacesHeld, Subscribed
  <2>9. ASSUME NEW u \in Users
        PROVE  perUser'[u] = Cardinality(PlacesOf(u)') /\ perUser'[u] <= MaxPerUser
    <3>1. /\ perUser[u] = Cardinality(PlacesOf(u)) /\ perUser[u] <= MaxPerUser
          /\ IsFiniteSet(PlacesOf(u)) /\ c \notin PlacesOf(u)
      BY <1>0, <2>5, FewPlaces DEF PlacesCounted, PlacesOf
    <3>2. CASE u = user
      <4>1. PlacesOf(u)' = PlacesOf(u) \cup {c}
        BY <1>0, <1>2, <2>1, <2>2, <3>2 DEF PlacesOf, PlacesHeld
      <4>2. perUser'[u] = perUser[u] + 1 /\ perUser[u] \in Int
        BY <1>0, <2>1, <3>2 DEF StreamsTyped
      <4>3. Cardinality(PlacesOf(u) \cup {c}) = Cardinality(PlacesOf(u)) + 1
        BY <3>1, FS_AddElement
      <4>4. perUser'[u] <= MaxPerUser
        BY <2>7, <3>2, <4>2
      <4>5. QED
        BY <3>1, <4>1, <4>2, <4>3, <4>4
    <3>3. CASE u # user
      <4>1. PlacesOf(u)' = PlacesOf(u)
        BY <1>0, <1>2, <2>1, <2>2, <3>3 DEF PlacesOf, PlacesHeld
      <4>2. perUser'[u] = perUser[u]
        BY <1>0, <2>1, <3>3 DEF StreamsTyped
      <4>3. QED
        BY <3>1, <4>1, <4>2
    <3>4. QED
      BY <3>2, <3>3
  <2>10. PlacesCounted'
    BY <2>9 DEF PlacesCounted
  <2>11. QED
    BY <2>3, <2>4, <2>8, <2>10 DEF StreamsInv
<1>5. QED
  BY <1>3, <1>4

(***************************************************************************)
(* Lemma: an open stream goes on, or ends without giving its place back.   *)
(***************************************************************************)
LEMMA StreamKeeps ==
  ASSUME StreamsInv, NEW c \in Connections,
         StartStream(c) \/ NextEvent(c) \/ Revalidate(c) \/ Disconnect(c)
  PROVE  StreamsInv'
<1>1. CASE StartStream(c)
  BY <1>1, PlaceKept DEF StartStream, ConnAt
<1>2. CASE NextEvent(c)
  <2>1. conn[c].phase = "open" /\ UNCHANGED <<sse, used, subscribers, perUser>>
        /\ (GotoConn(c, "leaving") \/ UNCHANGED conn)
    BY <1>2 DEF NextEvent, ConnAt
  <2>2. QED
    BY <2>1, PlaceKept, QuietKeeps
<1>3. CASE Revalidate(c)
  BY <1>3, PlaceKept DEF Revalidate, ConnAt
<1>4. CASE Disconnect(c)
  <2>1. /\ conn[c].phase \in {"accepted", "open"}
        /\ GotoConn(c, "leaving") \/ GotoConn(c, "background")
        /\ UNCHANGED <<sse, used, subscribers, perUser>>
    BY <1>4 DEF Disconnect, ConnAt
  <2>2. QED
    BY <2>1, PlaceKept
<1>5. QED
  BY <1>1, <1>2, <1>3, <1>4

(***************************************************************************)
(* Lemma: the generator gives the place back, then the response finds      *)
(* nothing left to give; or the response does, if no generator ever ran.   *)
(***************************************************************************)
LEMMA EndKeeps ==
  ASSUME StreamsInv, NEW c \in Connections, Leave(c) \/ Background(c)
  PROVE  StreamsInv'
<1>0. StreamsTyped /\ TokensMarked
  BY DEF StreamsInv
<1>1. CASE Leave(c)
  <2>1. /\ conn[c].phase = "leaving" /\ Unsubscribe(c) /\ GotoConn(c, "background")
        /\ UNCHANGED <<sse, used>>
    BY <1>1 DEF Leave, ConnAt
  <2>2. /\ conn' = [d \in Connections |-> conn'[d]]
        /\ \A d \in Connections \ {c} : conn'[d] = conn[d]
        /\ conn'[c].phase = "background"
        /\ conn'[c].token = conn[c].token
        /\ Formed(conn'[c])
    BY <1>0, <2>1, MovedConn DEF ConnPhases
  <2>3. PlacesHeld' /\ PlacesCounted' /\ perUser' \in [Users -> Int]
    BY <2>1, <2>2, PlaceGivenBack DEF Subscribed
  <2>4. StreamsTyped'
    BY <1>0, <2>1, <2>2, <2>3 DEF StreamsTyped
  <2>5. TokensMarked'
    BY <1>0, <2>1, <2>2 DEF TokensMarked, Past
  <2>6. QED
    BY <2>3, <2>4, <2>5 DEF StreamsInv
<1>2. CASE Background(c)
  <2>1. /\ conn[c].phase = "background" /\ Unsubscribe(c) /\ conn' = [conn EXCEPT ![c] = NoConn]
        /\ UNCHANGED <<sse, used>>
    BY <1>2 DEF Background, ConnAt
  <2>2. /\ conn' = [d \in Connections |-> conn'[d]]
        /\ \A d \in Connections \ {c} : conn'[d] = conn[d]
        /\ conn'[c].phase = "idle"
        /\ Formed(conn'[c])
    BY <1>0, <2>1, EndedConn
  <2>3. PlacesHeld' /\ PlacesCounted' /\ perUser' \in [Users -> Int]
    BY <2>1, <2>2, PlaceGivenBack DEF Subscribed
  <2>4. StreamsTyped'
    BY <1>0, <2>1, <2>2, <2>3 DEF StreamsTyped
  <2>5. TokensMarked'
    BY <1>0, <2>1, <2>2 DEF TokensMarked, Past
  <2>6. QED
    BY <2>3, <2>4, <2>5 DEF StreamsInv
<1>3. QED
  BY <1>1, <1>2

-----------------------------------------------------------------------------
(***************************************************************************)
(* Lemma: the invariant holds at first, when nobody is connected.          *)
(***************************************************************************)
LEMMA InitStreams ==
  ASSUME StreamsInit
  PROVE  StreamsInv
<1>1. /\ sse = [k \in SseTokens |-> None] /\ conn = [c \in Connections |-> NoConn]
      /\ subscribers = {} /\ perUser = [u \in Users |-> 0]
  BY DEF StreamsInit
<1>2. Formed(NoConn) /\ NoConn.phase = "idle"
  BY DEF Formed, NoConn, ConnPhases
<1>3. StreamsTyped
  BY <1>1, <1>2 DEF StreamsTyped
<1>4. PlacesHeld
  <2>1. IsFiniteSet({}) /\ Cardinality({}) = 0
    BY FS_EmptySet
  <2>2. QED
    BY <1>1, <1>2, <2>1 DEF PlacesHeld, Subscribed
<1>5. PlacesCounted
  <2>1. \A u \in Users : PlacesOf(u) = {}
    BY <1>1 DEF PlacesOf
  <2>2. QED
    BY <1>1, <2>1, FS_EmptySet DEF PlacesCounted
<1>6. TokensMarked
  BY <1>1, <1>2 DEF TokensMarked, Past
<1>7. QED
  BY <1>3, <1>4, <1>5, <1>6 DEF StreamsInv

(***************************************************************************)
(* Lemma: every step keeps it.                                             *)
(***************************************************************************)
LEMMA StepKeepsStreams ==
  ASSUME StreamsInv, [StreamsNext]_eventVars
  PROVE  StreamsInv'
<1>1. CASE UNCHANGED eventVars
  BY <1>1, QuietKeeps DEF eventVars, streamVars
<1>2. CASE \E e \in Edits : EditStep(e) /\ UNCHANGED streamVars
  BY <1>2, QuietKeeps DEF streamVars
<1>3. CASE \E k \in SseTokens, u \in Viewers : IssueToken(k, u)
  BY <1>3, IssueKeeps
<1>4. CASE \E k \in SseTokens : ExpireToken(k)
  BY <1>4, ExpireKeeps
<1>5. CASE \E c \in Connections : ConnStep(c)
  BY <1>5, ConnectKeeps, UseKeeps, StoreDownKeeps, SubscribeKeeps, StreamKeeps, EndKeeps
     DEF ConnStep
<1>6. CASE Publish \/ Close
  BY <1>6, QuietKeeps DEF Publish, Close
<1>7. QED
  BY <1>1, <1>2, <1>3, <1>4, <1>5, <1>6 DEF StreamsNext

(***************************************************************************)
(* Theorem: the invariant holds in every state.                            *)
(***************************************************************************)
THEOREM StreamsHold == StreamsSpec => []StreamsInv
<1>1. StreamsInit => StreamsInv
  BY InitStreams
<1>2. StreamsInv /\ [StreamsNext]_eventVars => StreamsInv'
  BY StepKeepsStreams
<1>3. QED
  BY <1>1, <1>2, PTL DEF StreamsSpec

-----------------------------------------------------------------------------
(***************************************************************************)
(* The second half of the invariant: what tokens and connections say was   *)
(* read in an account, whose version has not fallen below it since.  It    *)
(* needs the lock that an edit holds from its read of the version to the   *)
(* write of the next one.                                                  *)
(***************************************************************************)
Reads(a) == a \in Access /\ Registered(a.user) /\ a.ver <= account[a.user].ver

Told(x) == x.access \in Access \cup {None} /\ (x.phase # "idle" => Reads(x.access))

AccessRead ==
  /\ \A k \in SseTokens : sse[k] # None => Reads(sse[k])
  /\ \A c \in Connections : Told(conn[c])

\* A queue is as long as it may be at most; the signal that closes a stream
\* finds room.
QueuesBounded ==
  /\ queue = [c \in Connections |-> queue[c]]
  /\ \A c \in Connections : queue[c] \in Seq({"stats", "closed"}) /\ Len(queue[c]) <= MaxQueue

AccessInv ==
  /\ AccountsTyped({})
  /\ EditsLocked
  /\ AccessRead
  /\ QueuesBounded
  /\ used \subseteq SseTokens
  /\ closed \in BOOLEAN

(***************************************************************************)
(* Lemma: what was read stays true of an account that operators edit.      *)
(***************************************************************************)
LEMMA ReadsKept ==
  ASSUME AccountsTypeOK, NEW x, RowsMove(x), NEW a, Reads(a)
  PROVE  Reads(a)'
<1>1. a.user \in Users /\ a.ver \in 0 .. MaxVersion
  BY DEF Reads, Access
<1>2. Registered(a.user)' /\ a.ver <= account'[a.user].ver
  BY <1>1, VersionsGrow DEF Reads
<1>3. QED
  BY <1>2 DEF Reads, Registered

(***************************************************************************)
(* Lemma: nobody knows more than before if tokens expire, connections move *)
(* on or end, and no account falls back.                                   *)
(***************************************************************************)
LEMMA AccessCarried ==
  ASSUME AccessRead,
         \A a : Reads(a) => Reads(a)',
         \A k \in SseTokens : sse'[k] \in {sse[k], None},
         \A c \in Connections :
           \/ conn'[c] \in {conn[c], NoConn}
           \/ /\ conn'[c].access = conn[c].access
              /\ conn'[c].phase # "idle" => conn[c].phase # "idle"
  PROVE  AccessRead'
<1>1. ASSUME NEW k \in SseTokens, sse'[k] # None
      PROVE  Reads(sse[k])'
  <2>1. PICK a : a = sse[k] /\ a = sse'[k]
    BY <1>1
  <2>2. Reads(a)
    BY <1>1, <2>1 DEF AccessRead
  <2>3. Reads(a)'
    BY <2>2
  <2>4. QED
    BY <2>1, <2>3 DEF Reads, Registered
<1>2. ASSUME NEW c \in Connections
      PROVE  Told(conn[c])'
  <2>1. Told(conn[c])
    BY DEF AccessRead
  <2>2. CASE conn'[c] = NoConn
    BY <2>2 DEF NoConn, Told
  <2>3. CASE conn'[c].access = conn[c].access /\ (conn'[c].phase # "idle" => conn[c].phase # "idle")
    <3>1. PICK a : a = conn[c].access /\ a = conn'[c].access
      BY <2>3
    <3>2. a \in Access \cup {None} /\ (conn'[c].phase # "idle" => Reads(a))
      BY <2>1, <2>3, <3>1 DEF Told
    <3>3. conn'[c].phase # "idle" => Reads(a)'
      BY <3>2
    <3>4. QED
      BY <3>1, <3>2, <3>3 DEF Told, Reads, Registered
  <2>4. QED
    BY <2>2, <2>3
<1>3. QED
  BY <1>1, <1>2 DEF AccessRead

(***************************************************************************)
(* Lemma: a token says what its account is now, and a connection that      *)
(* comes with it knows what it says.                                       *)
(***************************************************************************)
LEMMA AccessIssued ==
  ASSUME StreamsTyped, AccountsTyped({}), AccessRead, NEW k \in SseTokens,
         (\E u \in Viewers : IssueToken(k, u)) \/ (\E c \in Connections : Connect(c, k))
  PROVE  AccessRead' /\ AccountsTyped({})' /\ UNCHANGED <<accountVars, queue, used, closed>>
<1>1. UNCHANGED <<accountVars, queue, used, closed>>
  BY DEF IssueToken, Connect
<1>2. AccountsTyped({})' /\ account' = account
  BY <1>1 DEF accountVars, AccountsTyped, AccountsTypeOK
<1>3. \A a : Reads(a) => Reads(a)'
  BY <1>2 DEF Reads, Registered
<1>4. ASSUME NEW u \in Viewers, IssueToken(k, u)
      PROVE  AccessRead'
  <2>1. PICK a : a = [user |-> u, ver |-> account[u].ver]
    OBVIOUS
  <2>2. /\ sse' = [sse EXCEPT ![k] = a] /\ conn' = conn
        /\ Registered(u) /\ u \in Users
    BY <1>4, <2>1 DEF IssueToken
  <2>3. account[u] \in Account
    BY <2>2 DEF AccountsTyped, AccountsTypeOK, Registered
  <2>4. Reads(a)'
    BY <1>2, <2>1, <2>2, <2>3 DEF Reads, Registered, Access, Account
  <2>5. ASSUME NEW x \in SseTokens, sse'[x] # None
        PROVE  Reads(sse[x])'
    <3>1. PICK b : b = sse'[x]
      OBVIOUS
    <3>2. b = a \/ (b = sse[x] /\ Reads(b))
      BY <2>2, <2>5, <3>1 DEF StreamsTyped, AccessRead
    <3>3. Reads(b)'
      BY <1>3, <2>4, <3>2
    <3>4. QED
      BY <3>1, <3>3 DEF Reads, Registered
  <2>6. \A c \in Connections : Told(conn[c])'
    BY <1>2, <2>2 DEF AccessRead, Told, Reads, Registered
  <2>7. QED
    BY <2>5, <2>6 DEF AccessRead
<1>5. ASSUME NEW c \in Connections, Connect(c, k)
      PROVE  AccessRead'
  <2>1. /\ sse[k] # None /\ sse' = sse
        /\ conn' = [conn EXCEPT ![c] = [phase |-> "once", token |-> k, access |-> sse[k]]]
    BY <1>5 DEF Connect
  <2>2. conn'[c].access = sse[k] /\ \A d \in Connections \ {c} : conn'[d] = conn[d]
    BY <2>1 DEF StreamsTyped
  <2>3. Reads(sse[k])
    BY <2>1 DEF AccessRead
  <2>4. Told(conn[c])'
    <3>1. PICK a : a = sse[k]
      OBVIOUS
    <3>2. Reads(a)' /\ conn'[c].access = a
      BY <1>3, <2>2, <2>3, <3>1
    <3>3. QED
      BY <3>2 DEF Told, Reads, Registered
  <2>5. \A d \in Connections \ {c} : Told(conn[d])'
    BY <1>2, <2>2 DEF AccessRead, Told, Reads, Registered
  <2>6. \A x \in SseTokens : sse'[x] # None => Reads(sse[x])'
    BY <1>2, <2>1 DEF AccessRead, Reads, Registered
  <2>7. QED
    BY <2>4, <2>5, <2>6 DEF AccessRead
<1>6. QED
  BY <1>1, <1>2, <1>4, <1>5

(***************************************************************************)
(* Lemma: a connection that goes on keeps what it knows until it is over.  *)
(***************************************************************************)
LEMMA ConnCarries ==
  ASSUME StreamsTyped, NEW c \in Connections,
         \/ UseOnce(c) \/ StoreDown(c) \/ Subscribe(c) \/ StartStream(c) \/ NextEvent(c)
         \/ Revalidate(c) \/ Disconnect(c) \/ Leave(c) \/ Background(c)
  PROVE  /\ \A d \in Connections : \/ conn'[d] \in {conn[d], NoConn}
                                   \/ conn'[d].access = conn[d].access /\ conn[d].phase # "idle"
         /\ UNCHANGED <<accountVars, sse, closed>>
<1>1. UNCHANGED <<accountVars, sse, closed>>
  BY DEF UseOnce, StoreDown, Subscribe, StartStream, NextEvent, Revalidate, Disconnect, Leave,
         Background
<1>2. \/ UNCHANGED conn
      \/ conn' = [conn EXCEPT ![c] = NoConn]
      \/ conn[c].phase # "idle" /\ \E phase \in ConnPhases : GotoConn(c, phase)
  BY DEF UseOnce, StoreDown, Subscribe, StartStream, NextEvent, Revalidate, Disconnect, Leave,
         Background, ConnAt, ConnPhases
<1>3. CASE UNCHANGED conn
  BY <1>1, <1>3
<1>4. CASE conn' = [conn EXCEPT ![c] = NoConn]
  BY <1>1, <1>4 DEF StreamsTyped
<1>5. ASSUME conn[c].phase # "idle", NEW phase \in ConnPhases, GotoConn(c, phase)
      PROVE  \A d \in Connections : \/ conn'[d] = conn[d]
                                    \/ conn'[d].access = conn[d].access /\ conn[d].phase # "idle"
  BY <1>5, MovedConn
<1>6. QED
  BY <1>1, <1>2, <1>3, <1>4, <1>5

(***************************************************************************)
(* Lemma: a connection takes events out of its queue, and puts none in.    *)
(***************************************************************************)
LEMMA ConnKeepsQueues ==
  ASSUME QueuesBounded, NEW c \in Connections,
         \/ UseOnce(c) \/ StoreDown(c) \/ Subscribe(c) \/ StartStream(c) \/ NextEvent(c)
         \/ Revalidate(c) \/ Disconnect(c) \/ Leave(c) \/ Background(c)
  PROVE  QueuesBounded'
<1>1. \/ queue' = queue
      \/ queue' = [queue EXCEPT ![c] = <<>>]
      \/ queue[c] # <<>> /\ queue' = [queue EXCEPT ![c] = Tail(queue[c])]
  BY DEF UseOnce, StoreDown, Subscribe, StartStream, NextEvent, Revalidate, Disconnect, Leave,
         Background, QueuesBounded
<1>2. CASE queue' = queue
  BY <1>2 DEF QueuesBounded
<1>3. ASSUME NEW q \in Seq({"stats", "closed"}), Len(q) <= MaxQueue,
             queue' = [queue EXCEPT ![c] = q]
      PROVE  QueuesBounded'
  BY <1>3 DEF QueuesBounded
<1>4. <<>> \in Seq({"stats", "closed"}) /\ Len(<<>>) <= MaxQueue
  OBVIOUS
<1>5. ASSUME queue[c] # <<>>
      PROVE  Tail(queue[c]) \in Seq({"stats", "closed"}) /\ Len(Tail(queue[c])) <= MaxQueue
  <2>1. PICK q : q = queue[c]
    OBVIOUS
  <2>2. q \in Seq({"stats", "closed"}) /\ Len(q) <= MaxQueue /\ q # <<>>
    BY <1>5, <2>1 DEF QueuesBounded
  <2>3. Tail(q) \in Seq({"stats", "closed"}) /\ Len(Tail(q)) = Len(q) - 1 /\ Len(q) \in Nat
    BY <2>2
  <2>4. QED
    BY <2>1, <2>2, <2>3
<1>6. QED
  BY <1>1, <1>2, <1>3, <1>4, <1>5

(***************************************************************************)
(* Lemma: nor does the broker put more into a queue than it may hold.      *)
(***************************************************************************)
LEMMA BrokerKeepsQueues ==
  ASSUME QueuesBounded, Publish \/ Close
  PROVE  QueuesBounded'
<1>1. queue' = [c \in Connections |-> queue'[c]]
  BY DEF Publish, Close
<1>2. ASSUME NEW c \in Connections
      PROVE  queue'[c] \in Seq({"stats", "closed"}) /\ Len(queue'[c]) <= MaxQueue
  <2>1. PICK q : q = queue[c]
    OBVIOUS
  <2>2. q \in Seq({"stats", "closed"}) /\ Len(q) <= MaxQueue /\ Len(q) \in Nat
    BY <2>1 DEF QueuesBounded
  <2>3. CASE queue'[c] = q
    BY <2>2, <2>3
  <2>4. CASE Len(q) < MaxQueue /\ queue'[c] = Append(q, "stats")
    BY <2>2, <2>4
  <2>5. CASE queue'[c] = Signalled(q)
    <3>1. CASE Len(q) = MaxQueue
      <4>1. /\ Tail(q) \in Seq({"stats", "closed"})
            /\ Len(Tail(q)) = Len(q) - 1
        BY <2>2, <3>1
      <4>2. queue'[c] = Append(Tail(q), "closed")
        BY <2>5, <3>1 DEF Signalled
      <4>3. QED
        BY <2>2, <4>1, <4>2
    <3>2. CASE Len(q) # MaxQueue
      <4>1. queue'[c] = Append(q, "closed") /\ Len(q) < MaxQueue
        BY <2>2, <2>5, <3>2 DEF Signalled
      <4>2. QED
        BY <2>2, <4>1
    <3>3. QED
      BY <3>1, <3>2
  <2>6. QED
    BY <2>1, <2>3, <2>4, <2>5 DEF Publish, Close
<1>3. QED
  BY <1>1, <1>2 DEF QueuesBounded

(***************************************************************************)
(* Lemma: every step keeps what was read.                                  *)
(***************************************************************************)
LEMMA StepKeepsAccess ==
  ASSUME StreamsInv, AccessInv, [StreamsNext]_eventVars
  PROVE  AccessInv'
<1>0. /\ StreamsTyped /\ AccountsTyped({}) /\ EditsLocked /\ AccessRead /\ QueuesBounded
      /\ used \subseteq SseTokens /\ closed \in BOOLEAN
  BY DEF StreamsInv, AccessInv
<1>a. ASSUME UNCHANGED accountVars
      PROVE  AccountsTyped({})' /\ EditsLocked' /\ \A a : Reads(a) => Reads(a)'
  BY <1>0, <1>a DEF accountVars, AccountsTyped, AccountsTypeOK, EditsLocked, EditLocked, Reads,
                    Registered
<1>1. ASSUME UNCHANGED eventVars
      PROVE  AccessInv'
  <2>1. UNCHANGED <<accountVars, sse, used, conn, queue, closed>>
    BY <1>1 DEF eventVars, streamVars
  <2>2. AccessRead'
    BY <1>0, <1>a, <2>1, AccessCarried
  <2>3. QED
    BY <1>0, <1>a, <2>1, <2>2 DEF AccessInv, QueuesBounded
<1>2. ASSUME NEW e \in Edits, EditStep(e), UNCHANGED streamVars
      PROVE  AccessInv'
  <2>1. AccountsTyped({})' /\ EditsLocked' /\ RowsMove(e) /\ AccountsTypeOK
    BY <1>0, <1>2, EditTyped, EditKeepsEdits, EditMovesRows DEF AccountsTyped
  <2>2. UNCHANGED <<sse, used, conn, queue, closed>>
    BY <1>2 DEF streamVars
  <2>3. \A a : Reads(a) => Reads(a)'
    BY <2>1, ReadsKept
  <2>4. AccessRead'
    BY <1>0, <2>2, <2>3, AccessCarried
  <2>5. QED
    BY <1>0, <2>1, <2>2, <2>4 DEF AccessInv, QueuesBounded
<1>3. ASSUME NEW k \in SseTokens,
             (\E u \in Viewers : IssueToken(k, u)) \/ (\E c \in Connections : Connect(c, k))
      PROVE  AccessInv'
  <2>1. AccessRead' /\ UNCHANGED <<accountVars, queue, used, closed>>
    BY <1>0, <1>3, AccessIssued
  <2>2. QED
    BY <1>0, <1>a, <2>1 DEF AccessInv, QueuesBounded
<1>4. ASSUME NEW k \in SseTokens, ExpireToken(k)
      PROVE  AccessInv'
  <2>1. /\ sse' = [sse EXCEPT ![k] = None] /\ used' = used \ {k}
        /\ UNCHANGED <<accountVars, queue, closed>>
        /\ \A c \in Connections : conn'[c] = IF conn[c].token = k
                                             THEN [conn[c] EXCEPT !.token = None] ELSE conn[c]
    BY <1>4 DEF ExpireToken
  <2>2. \A x \in SseTokens : sse'[x] \in {sse[x], None}
    BY <1>0, <2>1 DEF StreamsTyped
  <2>3. ASSUME NEW c \in Connections
        PROVE  conn'[c].access = conn[c].access /\ conn'[c].phase = conn[c].phase
    <3>1. Formed(conn[c])
      BY <1>0 DEF StreamsTyped
    <3>2. PICK p, t, a : conn[c] = [phase |-> p, token |-> t, access |-> a]
      BY <3>1 DEF Formed
    <3>3. CASE t = k
      BY <2>1, <3>2, <3>3
    <3>4. CASE t # k
      BY <2>1, <3>2, <3>4
    <3>5. QED
      BY <3>3, <3>4
  <2>4. AccessRead'
    BY <1>0, <1>a, <2>1, <2>2, <2>3, AccessCarried
  <2>5. QED
    BY <1>0, <1>a, <2>1, <2>4 DEF AccessInv, QueuesBounded
<1>5. ASSUME NEW c \in Connections,
             \/ UseOnce(c) \/ StoreDown(c) \/ Subscribe(c) \/ StartStream(c) \/ NextEvent(c)
             \/ Revalidate(c) \/ Disconnect(c) \/ Leave(c) \/ Background(c)
      PROVE  AccessInv'
  <2>1. /\ \A d \in Connections : \/ conn'[d] \in {conn[d], NoConn}
                                  \/ conn'[d].access = conn[d].access /\ conn[d].phase # "idle"
        /\ UNCHANGED <<accountVars, sse, closed>>
    BY <1>0, <1>5, ConnCarries
  <2>2. AccessRead'
    BY <1>0, <1>a, <2>1, AccessCarried
  <2>3. QueuesBounded'
    BY <1>0, <1>5, ConnKeepsQueues
  <2>4. used' \subseteq SseTokens
    <3>1. \A d \in Connections : conn[d].phase = "once" => conn[d].token \in SseTokens
      BY <1>0 DEF StreamsInv, TokensMarked, StreamsTyped, Formed
    <3>2. used' = used \/ (conn[c].phase = "once" /\ used' \subseteq used \cup {conn[c].token})
      BY <1>5 DEF UseOnce, StoreDown, Subscribe, StartStream, NextEvent, Revalidate, Disconnect,
                  Leave, Background, ConnAt
    <3>3. QED
      BY <1>0, <3>1, <3>2
  <2>5. QED
    BY <1>0, <1>a, <2>1, <2>2, <2>3, <2>4 DEF AccessInv
<1>6. ASSUME Publish \/ Close
      PROVE  AccessInv'
  <2>1. UNCHANGED <<accountVars, sse, used, conn>> /\ closed' \in {closed, TRUE}
    BY <1>6 DEF Publish, Close
  <2>2. AccessRead'
    BY <1>0, <1>a, <2>1, AccessCarried
  <2>3. QueuesBounded'
    BY <1>0, <1>6, BrokerKeepsQueues
  <2>4. QED
    BY <1>0, <1>a, <2>1, <2>2, <2>3 DEF AccessInv
<1>7. QED
  BY <1>1, <1>2, <1>3, <1>4, <1>5, <1>6 DEF StreamsNext, ConnStep

(***************************************************************************)
(* Theorem: what tokens and streams know of accounts was true once, and no *)
(* account has fallen behind it; queues keep to their bound.               *)
(***************************************************************************)
THEOREM AccessHolds == StreamsSpec => [](StreamsInv /\ AccessInv)
<1>1. StreamsInit => StreamsInv /\ AccessInv
  <2> SUFFICES ASSUME StreamsInit PROVE StreamsInv /\ AccessInv
      OBVIOUS
  <2>1. StreamsInv
    BY InitStreams
  <2>2. AccountsTyped({}) /\ EditsLocked
    BY AccountsStart DEF StreamsInit
  <2>3. AccessRead
    BY DEF StreamsInit, AccessRead, Told, NoConn
  <2>4. QueuesBounded
    BY DEF StreamsInit, QueuesBounded
  <2>5. QED
    BY <2>1, <2>2, <2>3, <2>4 DEF StreamsInit, AccessInv
<1>2. StreamsInv /\ AccessInv /\ [StreamsNext]_eventVars => (StreamsInv /\ AccessInv)'
  BY StepKeepsStreams, StepKeepsAccess
<1>3. QED
  BY <1>1, <1>2, PTL DEF StreamsSpec

(***************************************************************************)
(* Theorem: every variable of the streams and the accounts keeps its type, *)
(* the versions in tokens and the lengths of queues among them.            *)
(***************************************************************************)
THEOREM StreamsTypesHold == StreamsSpec => []StreamsTypeOK
<1>1. ASSUME StreamsInv, AccessInv
      PROVE  StreamsTypeOK
  <2>0. /\ StreamsTyped /\ PlacesHeld /\ PlacesCounted /\ AccountsTyped({}) /\ AccessRead
        /\ QueuesBounded /\ used \subseteq SseTokens /\ closed \in BOOLEAN
    BY <1>1 DEF StreamsInv, AccessInv
  <2>1. sse \in [SseTokens -> Access \cup {None}]
    <3>1. \A k \in SseTokens : sse[k] \in Access \cup {None}
      BY <2>0 DEF AccessRead, Reads
    <3>2. QED
      BY <2>0, <3>1 DEF StreamsTyped
  <2>2. ASSUME NEW c \in Connections
        PROVE  conn[c] \in [phase: ConnPhases, token: SseTokens \cup {None},
                            access: Access \cup {None}]
    <3>1. Formed(conn[c]) /\ conn[c].access \in Access \cup {None}
      BY <2>0 DEF StreamsTyped, AccessRead, Told
    <3>2. PICK p, t, a : conn[c] = [phase |-> p, token |-> t, access |-> a]
      BY <3>1 DEF Formed
    <3>3. p \in ConnPhases /\ t \in SseTokens \cup {None} /\ a \in Access \cup {None}
      BY <3>1, <3>2 DEF Formed
    <3>4. QED
      BY <3>2, <3>3
  <2>3. conn \in [Connections -> [phase: ConnPhases, token: SseTokens \cup {None},
                                  access: Access \cup {None}]]
    BY <2>0, <2>2 DEF StreamsTyped
  <2>4. perUser \in [Users -> 0 .. MaxPerUser]
    <3>1. \A u \in Users : perUser[u] \in 0 .. MaxPerUser
      <4> SUFFICES ASSUME NEW u \in Users PROVE perUser[u] \in 0 .. MaxPerUser
          OBVIOUS
      <4>1. perUser[u] = Cardinality(PlacesOf(u)) /\ perUser[u] <= MaxPerUser
        BY <2>0 DEF PlacesCounted
      <4>2. Cardinality(PlacesOf(u)) \in Nat
        BY <2>0, FewPlaces
      <4>3. QED
        BY <4>1, <4>2
    <3>2. QED
      BY <2>0, <3>1 DEF StreamsTyped
  <2>5. subscribers \subseteq Connections
    BY <2>0 DEF PlacesHeld
  <2>6. QED
    BY <2>0, <2>1, <2>3, <2>4, <2>5 DEF StreamsTypeOK, AccountsTyped, QueuesBounded
<1>2. QED
  BY <1>1, AccessHolds, PTL

(***************************************************************************)
(* Lemma: at most MaxPerUser streams of one user and MaxSubscribers of all *)
(* users are served: those that are have places.                           *)
(***************************************************************************)
LEMMA PlacesEnough ==
  ASSUME StreamsInv
  PROVE  PlacesLimited
<1>0. StreamsTyped /\ PlacesHeld /\ PlacesCounted
  BY DEF StreamsInv
<1>1. ASSUME NEW u \in Users
      PROVE  /\ Cardinality(Streams(u)) <= MaxPerUser
             /\ Streams(u) \subseteq subscribers
  <2>1. Streams(u) \subseteq PlacesOf(u) /\ PlacesOf(u) \subseteq subscribers
    BY <1>0 DEF Streams, PlacesOf, PlacesHeld, Subscribed
  <2>2. IsFiniteSet(PlacesOf(u)) /\ Cardinality(PlacesOf(u)) \in Nat
    BY <1>0, FewPlaces
  <2>3. /\ IsFiniteSet(Streams(u)) /\ Cardinality(Streams(u)) <= Cardinality(PlacesOf(u))
    BY <2>1, <2>2, FS_Subset
  <2>4. Cardinality(Streams(u)) \in Nat
    BY <2>3, FS_CardinalityType
  <2>5. Cardinality(PlacesOf(u)) <= MaxPerUser
    BY <1>0 DEF PlacesCounted
  <2>6. QED
    BY <2>1, <2>2, <2>3, <2>4, <2>5
<1>2. PICK all : all = UNION {Streams(u) : u \in Users}
  OBVIOUS
<1>3. all \subseteq subscribers
  BY <1>1, <1>2
<1>4. IsFiniteSet(all) /\ Cardinality(all) <= Cardinality(subscribers)
  BY <1>0, <1>3, FS_Subset DEF PlacesHeld
<1>5. Cardinality(all) \in Nat /\ Cardinality(subscribers) \in Nat
  BY <1>0, <1>4, FS_CardinalityType DEF PlacesHeld
<1>6. Cardinality(all) <= MaxSubscribers
  BY <1>0, <1>4, <1>5 DEF PlacesHeld
<1>7. QED
  BY <1>1, <1>2, <1>6 DEF PlacesLimited

(***************************************************************************)
(* Theorem: no operator takes all the places of a replica (events.py:19),  *)
(* whichever way streams begin, break off or end, and an SSE token opens   *)
(* one stream (api/events.py:17), also for connections that come with it   *)
(* at once and checks that Redis breaks off; types are kept.               *)
(***************************************************************************)
THEOREM StreamLimitsHold == StreamsSpec => []LimitsHold
<1>1. StreamsInv => PlacesLimited /\ TokenOpensOneStream
  BY PlacesEnough DEF StreamsInv, TokensMarked, TokenOpensOneStream, Past
<1>2. QED
  BY <1>1, StreamsHold, StreamsTypesHold, PTL DEF LimitsHold

(***************************************************************************)
(* Theorem: access that was lost is lost for good.  A change of the role,  *)
(* the status or the password moves the version past everything that was   *)
(* read before, and versions only grow.                                    *)
(***************************************************************************)
THEOREM LostAccessStaysLost == StreamsSpec => LossIsFinal
<1> DEFINE Final == \A c \in Connections, u \in Users :
       /\ conn[c].phase # "idle"
       /\ conn[c].access.user = u
       /\ account[u].ver # conn[c].access.ver \/ Signed(u)' # Signed(u)
       => account'[u].ver # conn[c].access.ver
<1>1. StreamsInv /\ AccessInv /\ [StreamsNext]_eventVars => [Final]_eventVars
  <2> SUFFICES ASSUME AccessInv, StreamsNext, NEW c \in Connections, NEW u \in Users,
                      conn[c].phase # "idle", conn[c].access.user = u,
                      account[u].ver # conn[c].access.ver \/ Signed(u)' # Signed(u)
               PROVE  account'[u].ver # conn[c].access.ver
      OBVIOUS
  <2>1. AccountsTyped({}) /\ AccountsTypeOK /\ EditsLocked /\ Reads(conn[c].access)
    BY DEF AccessInv, AccountsTyped, AccessRead, Told
  <2>2. PICK ver \in 0 .. MaxVersion : ver = conn[c].access.ver
    BY <2>1 DEF Reads, Access
  <2>3. Registered(u) /\ ver <= account[u].ver
    BY <2>1, <2>2 DEF Reads
  <2>4. CASE account' = account
    <3>1. Signed(u)' = Signed(u)
      BY <2>4 DEF Signed
    <3>2. QED
      BY <2>4, <3>1
  <2>5. ASSUME NEW e \in Edits, EditStep(e)
        PROVE  account'[u].ver # ver
    <3>1. RowsMove(e)
      BY <2>1, <2>5, EditMovesRows
    <3>2. RowMoves(u) /\ (account[u].ver # ver => account'[u].ver # ver)
      BY <2>1, <2>3, <3>1, VersionsGrow DEF RowsMove
    <3>3. account[u].ver \in Nat
      BY <2>1, <2>3 DEF AccountsTypeOK, Registered, Account
    <3>4. QED
      BY <2>2, <2>3, <3>2, <3>3 DEF RowMoves
  <2>6. account' = account \/ \E e \in Edits : EditStep(e)
    BY DEF StreamsNext, IssueToken, ExpireToken, ConnStep, Connect, UseOnce, StoreDown, Subscribe,
           StartStream, NextEvent, Revalidate, Disconnect, Leave, Background, Publish, Close,
           accountVars
  <2>7. QED
    BY <2>2, <2>4, <2>5, <2>6
<1>2. QED
  BY <1>1, AccessHolds, PTL DEF StreamsSpec, LossIsFinal
=============================================================================
