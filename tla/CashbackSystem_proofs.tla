----------------------- MODULE CashbackSystem_proofs -----------------------
(***************************************************************************)
(* Theorems about CashbackSystem for every choice of its constants.        *)
(***************************************************************************)
EXTENDS CashbackSystem, FiniteSetTheorems, WellFoundedInduction, TLAPS

USE StoreAssumption, NoOfferAssumption, AccrualAssumption

(***************************************************************************)
(* Lemma: the initial state is well typed.                                 *)
(***************************************************************************)
LEMMA InitTyped == Init => TypeOK
BY DEF Init, TypeOK, StoreInit, ActivationInit, AccrualInit, StoreTypeOK,
       ActivationTypeOK, AccrualTypeOK, Statuses, Respondable, Attempt, At, Phases,
       Running, Run, Idle, Stages

(***************************************************************************)
(* Lemma: the clock and the expiry of keys keep the types.                 *)
(***************************************************************************)
LEMMA TickTyped ==
  TypeOK /\ Tick /\ UNCHANGED <<activationVars, accrualVars>> => TypeOK'
<1> SUFFICES ASSUME TypeOK, Tick, UNCHANGED <<activationVars, accrualVars>>
             PROVE  TypeOK'
    OBVIOUS
<1>1. StoreTypeOK'
  BY DEF TypeOK, StoreTypeOK, Tick
<1>2. ActivationTypeOK'
  BY DEF TypeOK, ActivationTypeOK, activationVars
<1>3. AccrualTypeOK'
  BY DEF TypeOK, AccrualTypeOK, accrualVars
<1>4. QED
  BY <1>1, <1>2, <1>3 DEF TypeOK

(***************************************************************************)
(* Lemma: what moving one attempt to another phase changes.                *)
(***************************************************************************)
LEMMA MovedAttempt ==
  ASSUME attempt \in [Attempts -> Attempt], NEW a \in Attempts, NEW phase \in Phases,
         attempt' = [attempt EXCEPT ![a].phase = phase]
  PROVE  /\ attempt' \in [Attempts -> Attempt]
         /\ attempt'[a].phase = phase
         /\ attempt'[a].offer = attempt[a].offer
         /\ attempt'[a].at = attempt[a].at
         /\ \A b \in Attempts \ {a} : attempt'[b] = attempt[b]
<1>1. attempt'[a] = [attempt[a] EXCEPT !.phase = phase]
  OBVIOUS
<1>2. [attempt[a] EXCEPT !.phase = phase] \in Attempt
  BY DEF Attempt
<1>3. attempt'[a].offer = attempt[a].offer /\ attempt'[a].at = attempt[a].at
       /\ attempt'[a].phase = phase
  BY <1>1 DEF Attempt
<1>4. \A b \in Attempts \ {a} : attempt'[b] = attempt[b]
  OBVIOUS
<1>5. attempt' \in [Attempts -> Attempt]
  BY <1>1, <1>2, <1>4
<1>6. QED
  BY <1>3, <1>4, <1>5

(***************************************************************************)
(* Lemma: every step of a request keeps the types.                         *)
(***************************************************************************)
LEMMA ActivationTyped ==
  TypeOK /\ ActivationNext /\ UNCHANGED accrualVars => TypeOK'
<1> SUFFICES ASSUME TypeOK, ActivationNext, UNCHANGED accrualVars
             PROVE  TypeOK'
    OBVIOUS
<1>0. AccrualTypeOK'
  BY DEF TypeOK, AccrualTypeOK, accrualVars
<1> SUFFICES StoreTypeOK' /\ ActivationTypeOK'
    BY <1>0 DEF TypeOK
<1> USE DEF TypeOK, StoreTypeOK, ActivationTypeOK, storeVars, Attempt, Phases, Running
<1>1. ASSUME NEW a \in Attempts, NEW o \in Offers, Begin(a, o)
      PROVE  StoreTypeOK' /\ ActivationTypeOK'
  BY <1>1 DEF Begin
<1>2. ASSUME NEW a \in Attempts, Claim(a)
      PROVE  StoreTypeOK' /\ ActivationTypeOK'
  <2>1. attempt[a].offer \in Offers
    BY <1>2 DEF Claim
  <2>2. Ttl(attempt[a].offer, attempt[a].at) \in Nat
    BY <1>2, <2>1 DEF Claim, Answerable, Ttl
  <2>3. StoreTypeOK'
    BY <1>2, <2>1 DEF Claim
  <2>4. inflight' \subseteq Command
    BY <1>2, <2>1, <2>2 DEF Claim, Command
  <2>5. QED
    BY <1>2, <2>1, <2>3, <2>4, MovedAttempt DEF Claim
<1>3. ASSUME NEW a \in Attempts, Reject(a)
      PROVE  StoreTypeOK' /\ ActivationTypeOK'
  BY <1>3 DEF Reject, At
<1>4. ASSUME NEW cmd \in inflight, RunActivation(cmd)
      PROVE  StoreTypeOK' /\ ActivationTypeOK'
  <2>1. cmd \in Command
    OBVIOUS
  <2>2. StoreTypeOK'
    BY <1>4, <2>1 DEF RunActivation, Command, Key
  <2>3. inflight' \subseteq Command /\ fence' \subseteq Attempts
    BY <1>4 DEF RunActivation
  <2>4. CASE UNCHANGED attempt
    BY <2>2, <2>3, <2>4
  <2>5. CASE /\ attempt[cmd.attempt].phase = "sent"
             /\ attempt' = [attempt EXCEPT ![cmd.attempt].phase = "written"]
    <3>1. cmd.attempt \in Attempts
      BY <2>1 DEF Command
    <3>2. /\ attempt' \in [Attempts -> Attempt]
          /\ attempt'[cmd.attempt].offer = attempt[cmd.attempt].offer
          /\ \A b \in Attempts \ {cmd.attempt} : attempt'[b] = attempt[b]
      BY <2>5, <3>1, MovedAttempt
    <3>3. QED
      BY <2>2, <2>3, <2>5, <3>1, <3>2
  <2>6. QED
    BY <1>4, <2>4, <2>5 DEF RunActivation
<1>5. ASSUME NEW cmd \in inflight, LoseActivation(cmd)
      PROVE  StoreTypeOK' /\ ActivationTypeOK'
  BY <1>5 DEF LoseActivation
<1>6. ASSUME NEW a \in Attempts, Commit(a)
      PROVE  StoreTypeOK' /\ ActivationTypeOK'
  <2>1. attempt[a].offer \in Offers /\ attempt[a].at \in Nat
    BY <1>6 DEF Commit
  <2>2. status' \in [Offers -> Statuses] /\ respondedAt' \in [Offers -> Nat]
    BY <1>6, <2>1 DEF Commit, Accepted, Statuses
  <2>3. offerLock' \in [Offers -> Attempts \cup Workers \cup {Nobody}]
    BY <1>6 DEF Commit, Accepted, Unlocked
  <2>4. ActivationTypeOK'
    BY <1>6, <2>1 DEF Commit, Accepted, At
  <2>5. QED
    BY <1>6, <2>2, <2>3, <2>4 DEF Commit, Accepted
<1>7. ASSUME NEW a \in Attempts, CommitUnacknowledged(a)
      PROVE  StoreTypeOK' /\ ActivationTypeOK'
  <2>1. attempt[a].offer \in Offers /\ attempt[a].at \in Nat
    BY <1>7 DEF CommitUnacknowledged
  <2>2. status' \in [Offers -> Statuses] /\ respondedAt' \in [Offers -> Nat]
    BY <1>7, <2>1 DEF CommitUnacknowledged, Accepted, Statuses
  <2>3. offerLock' \in [Offers -> Attempts \cup Workers \cup {Nobody}]
    BY <1>7 DEF CommitUnacknowledged, Accepted, Unlocked
  <2>4. ActivationTypeOK'
    <3>1. /\ attempt' = [attempt EXCEPT ![a].phase = "voiding"] /\ "voiding" \in Phases
          /\ UNCHANGED <<inflight, fence>>
      BY <1>7 DEF CommitUnacknowledged, Accepted, Phases
    <3>2. /\ attempt' \in [Attempts -> Attempt]
          /\ attempt'[a].phase = "voiding" /\ attempt'[a].offer = attempt[a].offer
          /\ \A b \in Attempts \ {a} : attempt'[b] = attempt[b]
      BY <3>1, MovedAttempt
    <3>3. QED
      BY <2>1, <3>1, <3>2
  <2>5. QED
    BY <1>7, <2>2, <2>3, <2>4 DEF CommitUnacknowledged, Accepted
<1>8. ASSUME NEW a \in Attempts, Rollback(a)
      PROVE  StoreTypeOK' /\ ActivationTypeOK'
  BY <1>8, MovedAttempt DEF Rollback, Unlocked
<1>9. ASSUME NEW a \in Attempts, Void(a)
      PROVE  StoreTypeOK' /\ ActivationTypeOK'
  BY <1>9 DEF Void, At
<1>10. ASSUME NEW a \in Attempts, LoseVoid(a)
       PROVE  StoreTypeOK' /\ ActivationTypeOK'
  BY <1>10 DEF LoseVoid, At
<1>11. ASSUME NEW a \in Attempts, CrashAttempt(a)
       PROVE  StoreTypeOK' /\ ActivationTypeOK'
  BY <1>11 DEF CrashAttempt, Unlocked, At
<1>12. ASSUME NEW o \in Offers, NEW answer \in {"DECLINED", "SNOOZE"}, Answer(o, answer)
       PROVE  StoreTypeOK' /\ ActivationTypeOK'
  BY <1>12 DEF Answer, activationVars, Statuses, Respondable
<1>13. QED
  BY <1>1, <1>2, <1>3, <1>4, <1>5, <1>6, <1>7, <1>8, <1>9, <1>10, <1>11, <1>12
     DEF ActivationNext, RequestStep

(***************************************************************************)
(* Lemma: what moving one worker to another stage changes.                 *)
(***************************************************************************)
LEMMA MovedWorker ==
  ASSUME worker \in [Workers -> Run], NEW w \in Workers, NEW stage \in Stages,
         worker' = [worker EXCEPT ![w].stage = stage]
  PROVE  /\ worker' \in [Workers -> Run]
         /\ worker'[w].stage = stage
         /\ worker'[w].purchase = worker[w].purchase
         /\ worker'[w].offer = worker[w].offer
         /\ worker'[w].bookedAt = worker[w].bookedAt
         /\ \A v \in Workers \ {w} : worker'[v] = worker[v]
<1>1. worker'[w] = [worker[w] EXCEPT !.stage = stage]
  OBVIOUS
<1>2. [worker[w] EXCEPT !.stage = stage] \in Run
  BY DEF Run
<1>3. /\ worker'[w].stage = stage
      /\ worker'[w].purchase = worker[w].purchase
      /\ worker'[w].offer = worker[w].offer
      /\ worker'[w].bookedAt = worker[w].bookedAt
  BY <1>1 DEF Run
<1>4. \A v \in Workers \ {w} : worker'[v] = worker[v]
  OBVIOUS
<1>5. worker' \in [Workers -> Run]
  BY <1>1, <1>2, <1>4
<1>6. QED
  BY <1>3, <1>4, <1>5

(***************************************************************************)
(* Lemma: a worker that is done is idle, whatever it did.                  *)
(***************************************************************************)
LEMMA IdleWorker ==
  ASSUME worker \in [Workers -> Run], NEW w \in Workers,
         worker' = [worker EXCEPT ![w] = Idle]
  PROVE  /\ worker' \in [Workers -> Run]
         /\ worker'[w] = Idle
         /\ worker'[w].stage = "idle"
         /\ \A v \in Workers \ {w} : worker'[v] = worker[v]
BY DEF Idle, Run, Stages

(***************************************************************************)
(* Lemma: Released keeps every lock of another transaction and the type.   *)
(***************************************************************************)
LEMMA ReleasedLocks ==
  ASSUME NEW S, NEW H, NEW locks \in [S -> H], NEW w, w # Nobody, Nobody \in H
  PROVE  /\ Released(w, locks) \in [S -> H]
         /\ \A x \in S : locks[x] # w => Released(w, locks)[x] = locks[x]
         /\ \A x \in S : Released(w, locks)[x] # w
BY DEF Released

(***************************************************************************)
(* Lemma: every step of the accrual engine keeps the types.                *)
(***************************************************************************)
LEMMA AccrualTyped ==
  TypeOK /\ AccrualNext /\ UNCHANGED activationVars => TypeOK'
<1> SUFFICES ASSUME TypeOK, AccrualNext, UNCHANGED activationVars
             PROVE  TypeOK'
    OBVIOUS
<1>0. ActivationTypeOK'
  BY DEF TypeOK, ActivationTypeOK, activationVars
<1> SUFFICES StoreTypeOK' /\ AccrualTypeOK'
    BY <1>0 DEF TypeOK
<1> USE DEF TypeOK, StoreTypeOK, AccrualTypeOK, storeVars
<1>1. ASSUME NEW p \in Purchases, NEW ahead \in 0 .. Skew, Buy(p, ahead)
      PROVE  StoreTypeOK' /\ AccrualTypeOK'
  <2>1. clock + ahead \in Nat
    OBVIOUS
  <2>2. QED
    BY <1>1, <2>1 DEF Buy
<1>2. ASSUME NEW c \in Campaigns, SwitchCampaign(c)
      PROVE  StoreTypeOK' /\ AccrualTypeOK'
  BY <1>2 DEF SwitchCampaign
<1>3. ASSUME NEW w \in Workers, NEW p \in Purchases, Fetch(w, p)
      PROVE  StoreTypeOK' /\ AccrualTypeOK'
  <2>1. hotKey[PurchaseSlot[p]].offer \in Offers /\ bought[p] \in Nat
    BY <1>3 DEF Fetch, Key
  <2>2. worker' \in [Workers -> Run]
    BY <1>3, <2>1 DEF Fetch, Run, Stages
  <2>3. QED
    BY <1>3, <2>1, <2>2 DEF Fetch
<1>4. ASSUME NEW w \in Workers, LockOffer(w)
      PROVE  StoreTypeOK' /\ AccrualTypeOK'
  <2>1. worker[w].offer \in Offers
    BY <1>4 DEF LockOffer
  <2>2. offerLock' \in [Offers -> Attempts \cup Workers \cup {Nobody}]
    <3>1. \/ offerLock' = [offerLock EXCEPT ![worker[w].offer] = w]
          \/ UNCHANGED offerLock
      BY <1>4 DEF LockOffer
    <3>2. QED
      BY <2>1, <3>1
  <2>3. \/ worker' = [worker EXCEPT ![w].stage = "offer"]
        \/ worker' = [worker EXCEPT ![w].stage = "duplicate"]
        \/ worker' = [worker EXCEPT ![w] = Idle]
    BY <1>4 DEF LockOffer
  <2>4. worker[w].stage # "idle"
    BY <1>4 DEF LockOffer
  <2>5. AccrualTypeOK'
    BY <1>4, <2>3, <2>4, MovedWorker, IdleWorker DEF LockOffer, Stages
  <2>6. QED
    BY <1>4, <2>2, <2>5 DEF LockOffer
<1>5. ASSUME NEW w \in Workers, LockCampaign(w)
      PROVE  StoreTypeOK' /\ AccrualTypeOK'
  <2>1. worker' = [worker EXCEPT ![w].stage = "campaign"] /\ worker[w].stage # "idle"
    BY <1>5 DEF LockCampaign
  <2>2. campaignLock' \in [Campaigns -> Workers \cup {Nobody}]
    BY <1>5 DEF LockCampaign
  <2>3. QED
    BY <1>5, <2>1, <2>2, MovedWorker DEF LockCampaign, Stages
<1>6. ASSUME NEW w \in Workers, SkipCampaign(w)
      PROVE  StoreTypeOK' /\ AccrualTypeOK'
  BY <1>6, IdleWorker, ReleasedLocks DEF SkipCampaign
<1>7. ASSUME NEW w \in Workers, Book(w)
      PROVE  StoreTypeOK' /\ AccrualTypeOK'
  <2> DEFINE o == worker[w].offer
             p == worker[w].purchase
             c == OfferCampaign[o]
             row == [offer |-> o, purchase |-> p, campaign |-> c,
                     amount |-> Cashback[c][p], bookedAt |-> worker[w].bookedAt]
  <2>1. o \in Offers /\ p \in Purchases /\ c \in Campaigns /\ worker[w].stage # "idle"
    BY <1>7 DEF Book
  <2>2. row \in Row /\ row.amount \in Nat
    BY <2>1 DEF Row, Run
  <2>3. offerLock' \in [Offers -> Attempts \cup Workers \cup {Nobody}]
    BY <1>7, ReleasedLocks DEF Book
  <2>4. campaignLock' \in [Campaigns -> Workers \cup {Nobody}]
    BY <1>7, ReleasedLocks DEF Book
  <2>5. ledger' \subseteq Row /\ spent' \in [Campaigns -> Nat]
    <3>1. CASE ledger' = ledger \cup {row} /\ spent' = [spent EXCEPT ![c] = @ + row.amount]
      BY <3>1, <2>1, <2>2
    <3>2. CASE UNCHANGED <<ledger, spent>>
      BY <3>2
    <3>3. QED
      BY <1>7, <3>1, <3>2 DEF Book
  <2>6. \/ worker' = [worker EXCEPT ![w].stage = "booked"]
        \/ worker' = [worker EXCEPT ![w].stage = "duplicate"]
        \/ worker' = [worker EXCEPT ![w] = Idle]
    BY <1>7 DEF Book
  <2>7. UNCHANGED <<clock, status, respondedAt, hotKey, bought, live, announced>>
    BY <1>7 DEF Book
  <2>8. StoreTypeOK'
    BY <2>3, <2>7
  <2>9. QED
    BY <2>1, <2>4, <2>5, <2>6, <2>7, <2>8, MovedWorker, IdleWorker DEF Stages
<1>8. ASSUME NEW w \in Workers, ReleaseKey(w)
      PROVE  StoreTypeOK' /\ AccrualTypeOK'
  <2>1. StoreTypeOK'
    BY <1>8 DEF ReleaseKey, KeyReleased
  <2>2. \/ worker' = [worker EXCEPT ![w].stage = "publish"]
        \/ worker' = [worker EXCEPT ![w] = Idle]
    BY <1>8 DEF ReleaseKey, AfterRelease
  <2>3. worker[w].stage # "idle"
    BY <1>8 DEF ReleaseKey
  <2>4. UNCHANGED <<bought, live, campaignLock, ledger, spent, announced>>
    BY <1>8 DEF ReleaseKey
  <2>5. AccrualTypeOK'
    BY <2>2, <2>3, <2>4, MovedWorker, IdleWorker DEF Stages
  <2>6. QED
    BY <2>1, <2>5
<1>9. ASSUME NEW w \in Workers, Publish(w)
      PROVE  StoreTypeOK' /\ AccrualTypeOK'
  <2>1. worker[w].offer \in Offers
    BY <1>9 DEF Publish
  <2>2. announced' \in [Offers -> Nat]
    BY <1>9, <2>1 DEF Publish
  <2>3. QED
    BY <1>9, <2>2, IdleWorker DEF Publish
<1>10. ASSUME NEW w \in Workers, Fail(w)
       PROVE  StoreTypeOK' /\ AccrualTypeOK'
  BY <1>10, IdleWorker, ReleasedLocks DEF Fail
<1>11. QED
  BY <1>1, <1>2, <1>3, <1>4, <1>5, <1>6, <1>7, <1>8, <1>9, <1>10
     DEF AccrualNext, AccrueStep
(***************************************************************************)
(* Theorem: every variable keeps its type.                                 *)
(***************************************************************************)
THEOREM TypesHold == Spec => []TypeOK
<1>1. TypeOK /\ [Next]_vars => TypeOK'
  <2>1. CASE UNCHANGED vars
    BY <2>1 DEF vars, storeVars, activationVars, accrualVars, TypeOK, StoreTypeOK,
                ActivationTypeOK, AccrualTypeOK
  <2>2. QED
    BY <2>1, TickTyped, ActivationTyped, AccrualTyped DEF Next
<1>2. QED
  BY <1>1, InitTyped, PTL DEF Spec

-----------------------------------------------------------------------------
(***************************************************************************)
(* Lemma: no transaction is open at the start.                             *)
(***************************************************************************)
LEMMA InitChecks == Init => ChecksHoldAtCommit
BY DEF Init, StoreInit, ActivationInit, AccrualInit, ChecksHoldAtCommit,
       AcceptChecksHold, OfferChecksHold, CampaignChecksHold, At, Idle, Running

(***************************************************************************)
(* Lemma: a campaign's verdict depends only on the campaign's own rows.    *)
(***************************************************************************)
LEMMA SameVerdict ==
  ASSUME NEW c \in Campaigns, NEW p, NEW dbNow,
         c \in live <=> c \in live', bought'[p] = bought[p], spent'[c] = spent[c],
         {r \in ledger' : r.campaign = c} = {r \in ledger : r.campaign = c}
  PROVE  Payable(c, p, dbNow)' <=> Payable(c, p, dbNow)
<1>1. \A t : {r \in ledger' : r.campaign = c /\ r.bookedAt >= t}
              = {r \in ledger : r.campaign = c /\ r.bookedAt >= t}
  OBVIOUS
<1>2. SpentToday(c, bought[p], dbNow)' = SpentToday(c, bought[p], dbNow)
  BY <1>1 DEF SpentToday
<1>3. QED
  BY <1>2 DEF Payable

(***************************************************************************)
(* Lemma: time spoils no check.                                            *)
(***************************************************************************)
LEMMA TickKeepsChecks ==
  TypeOK /\ ChecksHoldAtCommit /\ Tick /\ UNCHANGED <<activationVars, accrualVars>>
  => ChecksHoldAtCommit'
<1> SUFFICES ASSUME TypeOK, ChecksHoldAtCommit, Tick,
                    UNCHANGED <<activationVars, accrualVars>>
             PROVE  ChecksHoldAtCommit'
    OBVIOUS
<1>1. AcceptChecksHold'
  BY DEF ChecksHoldAtCommit, AcceptChecksHold, Tick, activationVars, Answerable
<1>2. OfferChecksHold'
  BY DEF ChecksHoldAtCommit, OfferChecksHold, Tick, accrualVars, Acceptable
<1>3. CampaignChecksHold'
  <2> SUFFICES ASSUME NEW w \in Workers, worker[w].stage = "campaign"
               PROVE  LET c == OfferCampaign[worker[w].offer] IN
                      /\ campaignLock[c] = w
                      /\ \E dbNow \in worker[w].bookedAt .. clock' :
                           Payable(c, worker[w].purchase, dbNow)'
      BY DEF CampaignChecksHold, CampaignChecked, accrualVars
  <2> DEFINE c == OfferCampaign[worker[w].offer]
  <2>1. worker[w].bookedAt \in Nat /\ clock \in Nat /\ clock' = clock + 1
        /\ c \in Campaigns
    BY DEF Tick, TypeOK, StoreTypeOK, AccrualTypeOK, Run
  <2>2. PICK dbNow \in worker[w].bookedAt .. clock : Payable(c, worker[w].purchase, dbNow)
    BY DEF ChecksHoldAtCommit, CampaignChecksHold, CampaignChecked
  <2>3. dbNow \in worker[w].bookedAt .. clock'
    BY <2>1
  <2>4. Payable(c, worker[w].purchase, dbNow)'
    BY <2>1, <2>2, SameVerdict DEF accrualVars
  <2>5. QED
    BY <2>3, <2>4 DEF ChecksHoldAtCommit, CampaignChecksHold, CampaignChecked
<1>4. QED
  BY <1>1, <1>2, <1>3 DEF ChecksHoldAtCommit
(***************************************************************************)
(* What a request may do to an offer's row.  It needs the row free or held *)
(* by itself, and the row still open.                                      *)
(***************************************************************************)
RowKept(o) ==
  /\ status'[o] = status[o]
  /\ respondedAt'[o] = respondedAt[o]
  /\ offerLock'[o] = offerLock[o]

RowStep(o) ==
  \/ RowKept(o)
  \/ offerLock[o] = Nobody
  \/ \E a \in Attempts : /\ offerLock[o] = a
                         /\ attempt[a].phase \in Running
                         /\ attempt[a].offer = o
                         /\ attempt'[a].phase \notin Running

(***************************************************************************)
(* Lemma: so a step of a request treats every row.                         *)
(***************************************************************************)
LEMMA RequestRowStep ==
  TypeOK /\ ChecksHoldAtCommit /\ ActivationNext
  => clock' = clock /\ \A o \in Offers : RowStep(o)
<1> SUFFICES ASSUME TypeOK, ChecksHoldAtCommit, ActivationNext
             PROVE  clock' = clock /\ \A o \in Offers : RowStep(o)
    OBVIOUS
<1> USE DEF TypeOK, StoreTypeOK, ActivationTypeOK, ChecksHoldAtCommit, AcceptChecksHold,
            storeVars
<1>1. ASSUME NEW a \in Attempts, NEW o \in Offers, Begin(a, o)
      PROVE  clock' = clock /\ \A x \in Offers : RowStep(x)
  BY <1>1 DEF Begin, RowStep, RowKept
<1>2. ASSUME NEW a \in Attempts, Claim(a)
      PROVE  clock' = clock /\ \A x \in Offers : RowStep(x)
  BY <1>2 DEF Claim, RowStep, RowKept
<1>3. ASSUME NEW a \in Attempts, Reject(a)
      PROVE  clock' = clock /\ \A x \in Offers : RowStep(x)
  BY <1>3 DEF Reject, RowStep, RowKept
<1>4. ASSUME NEW cmd \in inflight, RunActivation(cmd) \/ LoseActivation(cmd)
      PROVE  clock' = clock /\ \A x \in Offers : RowStep(x)
  BY <1>4 DEF RunActivation, LoseActivation, RowStep, RowKept
<1>5. ASSUME NEW a \in Attempts, Commit(a) \/ CommitUnacknowledged(a)
      PROVE  clock' = clock /\ \A x \in Offers : RowStep(x)
  <2>1. attempt[a].phase = "written" /\ clock' = clock /\ Accepted(a)
    BY <1>5 DEF Commit, CommitUnacknowledged, Accepted
  <2>2. attempt'[a].phase \notin Running
    <3>1. CASE Commit(a)
      BY <3>1 DEF Commit, At, Running
    <3>2. CASE CommitUnacknowledged(a)
      BY <3>2, MovedAttempt DEF CommitUnacknowledged, Running, Phases
    <3>3. QED
      BY <1>5, <3>1, <3>2
  <2>3. offerLock[attempt[a].offer] = a
    BY <2>1 DEF Running
  <2>4. \A x \in Offers \ {attempt[a].offer} :
          RowKept(x)
    BY <2>1 DEF Accepted, Unlocked, RowKept
  <2>5. QED
    BY <2>1, <2>2, <2>3, <2>4 DEF RowStep, Running
<1>6. ASSUME NEW a \in Attempts, Rollback(a) \/ CrashAttempt(a)
      PROVE  clock' = clock /\ \A x \in Offers : RowStep(x)
  <2>1. /\ attempt[a].phase \in Running
        /\ UNCHANGED <<clock, status, respondedAt>>
        /\ offerLock' = Unlocked(a)
    BY <1>6 DEF Rollback, CrashAttempt
  <2>2. attempt'[a].phase \notin Running
    BY <1>6, MovedAttempt DEF Rollback, CrashAttempt, At, Running, Phases
  <2>3. offerLock[attempt[a].offer] = a
    BY <2>1
  <2>4. \A x \in Offers \ {attempt[a].offer} : RowKept(x)
    BY <2>1 DEF Unlocked, RowKept
  <2>5. QED
    BY <2>1, <2>2, <2>3, <2>4 DEF RowStep
<1>7. ASSUME NEW a \in Attempts, Void(a) \/ LoseVoid(a)
      PROVE  clock' = clock /\ \A x \in Offers : RowStep(x)
  BY <1>7 DEF Void, LoseVoid, RowStep, RowKept
<1>8. ASSUME NEW o \in Offers, NEW answer \in {"DECLINED", "SNOOZE"}, Answer(o, answer)
      PROVE  clock' = clock /\ \A x \in Offers : RowStep(x)
  BY <1>8 DEF Answer, RowStep, RowKept
<1>9. QED
  BY <1>1, <1>2, <1>3, <1>4, <1>5, <1>6, <1>7, <1>8 DEF ActivationNext, RequestStep

(***************************************************************************)
(* Lemma: what a request that stays in its transaction, or enters it,      *)
(* holds afterwards.                                                       *)
(***************************************************************************)
LEMMA RequestHolds ==
  ASSUME TypeOK, ChecksHoldAtCommit, ActivationNext, NEW a \in Attempts,
         attempt'[a].phase \in Running
  PROVE  /\ attempt'[a].offer = attempt[a].offer
         /\ attempt'[a].at = attempt[a].at
         /\ \/ attempt[a].phase \in Running
            \/ Claim(a)
<1> USE DEF TypeOK, ActivationTypeOK, storeVars
<1>1. ASSUME NEW b \in Attempts, NEW o \in Offers, Begin(b, o)
      PROVE  attempt'[a] = attempt[a]
  BY <1>1 DEF Begin, Running
<1>2. ASSUME NEW b \in Attempts, Claim(b), b # a
      PROVE  attempt'[a] = attempt[a]
  BY <1>2 DEF Claim
<1>3. ASSUME Claim(a)
      PROVE  attempt'[a].offer = attempt[a].offer /\ attempt'[a].at = attempt[a].at
  BY <1>3, MovedAttempt DEF Claim, Phases, Running
<1>4. ASSUME NEW b \in Attempts, Reject(b) \/ Commit(b) \/ Void(b) \/ LoseVoid(b)
                                  \/ CrashAttempt(b)
      PROVE  attempt'[a] = attempt[a]
  BY <1>4 DEF Reject, Commit, Void, LoseVoid, CrashAttempt, At, Running
<1>5. ASSUME NEW b \in Attempts, CommitUnacknowledged(b) \/ Rollback(b)
      PROVE  attempt'[a] = attempt[a]
  BY <1>5, MovedAttempt DEF CommitUnacknowledged, Rollback, Running, Phases
<1>6. ASSUME NEW cmd \in inflight, RunActivation(cmd) \/ LoseActivation(cmd)
      PROVE  /\ attempt'[a].offer = attempt[a].offer
             /\ attempt'[a].at = attempt[a].at
             /\ attempt[a].phase \in Running
  <2>1. cmd.attempt \in Attempts
    BY DEF Command
  <2>2. CASE UNCHANGED attempt
    BY <2>2
  <2>3. CASE /\ attempt[cmd.attempt].phase = "sent"
             /\ attempt' = [attempt EXCEPT ![cmd.attempt].phase = "written"]
    BY <2>1, <2>3, MovedAttempt DEF Running, Phases
  <2>4. QED
    BY <1>6, <2>2, <2>3 DEF RunActivation, LoseActivation
<1>7. ASSUME NEW o \in Offers, NEW answer \in {"DECLINED", "SNOOZE"}, Answer(o, answer)
      PROVE  attempt'[a] = attempt[a]
  BY <1>7 DEF Answer, activationVars
<1>8. QED
  BY <1>1, <1>2, <1>3, <1>4, <1>5, <1>6, <1>7 DEF ActivationNext, RequestStep

(***************************************************************************)
(* Lemma: no request spoils a check of another transaction.                *)
(***************************************************************************)
LEMMA ActivationKeepsChecks ==
  TypeOK /\ ChecksHoldAtCommit /\ ActivationNext /\ UNCHANGED accrualVars
  => ChecksHoldAtCommit'
<1> SUFFICES ASSUME TypeOK, ChecksHoldAtCommit, ActivationNext, UNCHANGED accrualVars
             PROVE  ChecksHoldAtCommit'
    OBVIOUS
<1>0. clock' = clock /\ \A o \in Offers : RowStep(o)
  BY RequestRowStep
<1>1. AcceptChecksHold'
  <2> SUFFICES ASSUME NEW a \in Attempts, attempt'[a].phase \in Running
               PROVE  /\ offerLock'[attempt'[a].offer] = a
                      /\ status'[attempt'[a].offer] \in Respondable
                      /\ ExpiresAt[attempt'[a].offer] > attempt'[a].at
      BY DEF AcceptChecksHold, Answerable
  <2> DEFINE o == attempt[a].offer
  <2>1. attempt'[a].offer = o /\ attempt'[a].at = attempt[a].at
    BY RequestHolds
  <2>2. CASE attempt[a].phase \in Running
    <3>1. o \in Offers /\ offerLock[o] = a /\ Answerable(o, attempt[a].at)
      BY <2>2 DEF ChecksHoldAtCommit, AcceptChecksHold, TypeOK, ActivationTypeOK
    <3>2. RowKept(o)
      BY <1>0, <3>1, <2>1 DEF RowStep
    <3>3. QED
      BY <2>1, <3>1, <3>2 DEF Answerable, RowKept
  <2>3. CASE Claim(a)
    BY <2>1, <2>3 DEF Claim, Answerable, TypeOK, StoreTypeOK, ActivationTypeOK
  <2>4. QED
    BY <2>2, <2>3, RequestHolds
<1>2. OfferChecksHold'
  <2> SUFFICES ASSUME NEW w \in Workers, worker[w].stage \in {"offer", "campaign"}
               PROVE  /\ offerLock'[worker[w].offer] = w
                      /\ Acceptable(worker[w].offer, worker[w].purchase)'
      BY DEF OfferChecksHold, accrualVars
  <2> DEFINE o == worker[w].offer
  <2>1. o \in Offers /\ offerLock[o] = w /\ Acceptable(o, worker[w].purchase)
    BY DEF ChecksHoldAtCommit, OfferChecksHold, TypeOK, AccrualTypeOK
  <2>2. w # Nobody /\ w \notin Attempts
    OBVIOUS
  <2>3. RowKept(o)
    BY <1>0, <2>1, <2>2 DEF RowStep
  <2>4. QED
    BY <2>1, <2>3 DEF Acceptable, accrualVars, RowKept
<1>3. CampaignChecksHold'
  <2> SUFFICES ASSUME NEW w \in Workers, worker[w].stage = "campaign"
               PROVE  LET c == OfferCampaign[worker[w].offer] IN
                      /\ campaignLock[c] = w
                      /\ \E dbNow \in worker[w].bookedAt .. clock :
                           Payable(c, worker[w].purchase, dbNow)'
      BY <1>0 DEF CampaignChecksHold, CampaignChecked, accrualVars
  <2>1. OfferCampaign[worker[w].offer] \in Campaigns
    BY DEF TypeOK, AccrualTypeOK
  <2>2. QED
    BY <2>1, SameVerdict DEF ChecksHoldAtCommit, CampaignChecksHold, CampaignChecked, accrualVars
<1>4. QED
  BY <1>1, <1>2, <1>3 DEF ChecksHoldAtCommit
(***************************************************************************)
(* What a step of one worker leaves alone: the answers, the other workers  *)
(* and every row another transaction holds.                                *)
(***************************************************************************)
WorkerStep(w) == AccrueStep(w) \/ Fail(w) \/ \E p \in Purchases : Fetch(w, p)

LeavesOthersAlone(w) ==
  /\ UNCHANGED <<clock, status, respondedAt, bought, live>>
  /\ \A v \in Workers \ {w} : worker'[v] = worker[v]
  /\ \A o \in Offers : offerLock[o] \notin {Nobody, w} => offerLock'[o] = offerLock[o]
  /\ \A c \in Campaigns : campaignLock[c] \notin {Nobody, w} =>
       /\ campaignLock'[c] = campaignLock[c]
       /\ spent'[c] = spent[c]
       /\ {r \in ledger' : r.campaign = c} = {r \in ledger : r.campaign = c}

(***************************************************************************)
(* Lemma: the end of a transaction releases its own locks only.            *)
(***************************************************************************)
LEMMA OthersKeepTheirLocks ==
  ASSUME TypeOK, NEW w \in Workers
  PROVE  /\ \A o \in Offers : offerLock[o] # w => Released(w, offerLock)[o] = offerLock[o]
         /\ \A c \in Campaigns :
              campaignLock[c] # w => Released(w, campaignLock)[c] = campaignLock[c]
BY DEF Released, TypeOK, StoreTypeOK, AccrualTypeOK

(***************************************************************************)
(* Lemma: every step of a worker does.                                     *)
(***************************************************************************)
LEMMA WorkersKeepToTheirRows ==
  ASSUME TypeOK, ChecksHoldAtCommit, NEW w \in Workers, WorkerStep(w)
  PROVE  LeavesOthersAlone(w)
<1> USE DEF TypeOK, StoreTypeOK, AccrualTypeOK, storeVars, LeavesOthersAlone
<1>1. ASSUME NEW p \in Purchases, Fetch(w, p)
      PROVE  LeavesOthersAlone(w)
  BY <1>1 DEF Fetch
<1>2. ASSUME LockOffer(w)
      PROVE  LeavesOthersAlone(w)
  <2>1. UNCHANGED <<clock, status, respondedAt, bought, live, campaignLock, ledger, spent>>
        /\ offerLock[worker[w].offer] = Nobody
    BY <1>2 DEF LockOffer
  <2>2. \A v \in Workers \ {w} : worker'[v] = worker[v]
    BY <1>2 DEF LockOffer
  <2>3. offerLock' = [offerLock EXCEPT ![worker[w].offer] = w] \/ UNCHANGED offerLock
    BY <1>2 DEF LockOffer
  <2>4. QED
    BY <2>1, <2>2, <2>3
<1>3. ASSUME LockCampaign(w)
      PROVE  LeavesOthersAlone(w)
  BY <1>3 DEF LockCampaign, CampaignFree
<1>4. ASSUME SkipCampaign(w)
      PROVE  LeavesOthersAlone(w)
  BY <1>4, OthersKeepTheirLocks DEF SkipCampaign
<1>5. ASSUME Book(w)
      PROVE  LeavesOthersAlone(w)
  <2> DEFINE o == worker[w].offer
             p == worker[w].purchase
             c == OfferCampaign[o]
             row == [offer |-> o, purchase |-> p, campaign |-> c,
                     amount |-> Cashback[c][p], bookedAt |-> worker[w].bookedAt]
  <2>1. c \in Campaigns /\ campaignLock[c] = w
    BY <1>5 DEF Book, ChecksHoldAtCommit, CampaignChecksHold, CampaignChecked
  <2>2. \A x \in Campaigns \ {c} :
          /\ spent'[x] = spent[x]
          /\ {r \in ledger' : r.campaign = x} = {r \in ledger : r.campaign = x}
    <3>1. CASE ledger' = ledger \cup {row} /\ spent' = [spent EXCEPT ![c] = @ + row.amount]
      BY <3>1
    <3>2. CASE UNCHANGED <<ledger, spent>>
      BY <3>2
    <3>3. QED
      BY <1>5, <3>1, <3>2 DEF Book
  <2>3. \A v \in Workers \ {w} : worker'[v] = worker[v]
    BY <1>5 DEF Book
  <2>4. /\ UNCHANGED <<clock, status, respondedAt, bought, live>>
        /\ offerLock' = Released(w, offerLock)
        /\ campaignLock' = Released(w, campaignLock)
    BY <1>5 DEF Book
  <2>5. QED
    BY <2>1, <2>2, <2>3, <2>4, OthersKeepTheirLocks
<1>6. ASSUME ReleaseKey(w)
      PROVE  LeavesOthersAlone(w)
  BY <1>6 DEF ReleaseKey
<1>7. ASSUME Publish(w)
      PROVE  LeavesOthersAlone(w)
  BY <1>7 DEF Publish
<1>8. ASSUME Fail(w)
      PROVE  LeavesOthersAlone(w)
  BY <1>8, OthersKeepTheirLocks DEF Fail
<1>9. QED
  BY <1>1, <1>2, <1>3, <1>4, <1>5, <1>6, <1>7, <1>8 DEF WorkerStep, AccrueStep

(***************************************************************************)
(* Lemma: a worker is between its locks and its COMMIT only after it took  *)
(* the lock in this step.                                                  *)
(***************************************************************************)
LEMMA LocksAreTaken ==
  ASSUME TypeOK, NEW w \in Workers, WorkerStep(w),
         worker'[w].stage \in {"offer", "campaign"}
  PROVE  /\ worker'[w].offer = worker[w].offer
         /\ worker'[w].purchase = worker[w].purchase
         /\ worker'[w].bookedAt = worker[w].bookedAt
         /\ \/ worker'[w].stage = "offer" /\ LockOffer(w) /\ worker[w].stage = "fetched"
               /\ offerLock' = [offerLock EXCEPT ![worker[w].offer] = w]
               /\ Acceptable(worker[w].offer, worker[w].purchase)
            \/ worker'[w].stage = "campaign" /\ LockCampaign(w)
<1> USE DEF TypeOK, AccrualTypeOK
<1>1. ASSUME NEW p \in Purchases, Fetch(w, p)
      PROVE  FALSE
  BY <1>1 DEF Fetch
<1>2. ASSUME LockOffer(w)
      PROVE  /\ worker' = [worker EXCEPT ![w].stage = "offer"] /\ worker[w].stage = "fetched"
             /\ offerLock' = [offerLock EXCEPT ![worker[w].offer] = w]
             /\ Acceptable(worker[w].offer, worker[w].purchase)
  <2>1. worker' # [worker EXCEPT ![w] = Idle]
    BY IdleWorker
  <2>2. worker' # [worker EXCEPT ![w].stage = "duplicate"]
    BY MovedWorker DEF Stages
  <2>3. QED
    BY <1>2, <2>1, <2>2 DEF LockOffer
<1>3. ASSUME LockCampaign(w)
      PROVE  worker' = [worker EXCEPT ![w].stage = "campaign"]
  BY <1>3 DEF LockCampaign
<1>4. ASSUME SkipCampaign(w) \/ Publish(w) \/ Fail(w)
      PROVE  FALSE
  BY <1>4, IdleWorker DEF SkipCampaign, Publish, Fail
<1>5. ASSUME Book(w)
      PROVE  FALSE
  <2>1. \/ worker' = [worker EXCEPT ![w].stage = "booked"]
        \/ worker' = [worker EXCEPT ![w].stage = "duplicate"]
        \/ worker' = [worker EXCEPT ![w] = Idle]
    BY <1>5 DEF Book
  <2>2. QED
    BY <2>1, MovedWorker, IdleWorker DEF Stages
<1>6. ASSUME ReleaseKey(w)
      PROVE  FALSE
  <2>1. \/ worker' = [worker EXCEPT ![w].stage = "publish"]
        \/ worker' = [worker EXCEPT ![w] = Idle]
    BY <1>6 DEF ReleaseKey, AfterRelease
  <2>2. QED
    BY <2>1, MovedWorker, IdleWorker DEF Stages
<1>7. CASE LockOffer(w)
  BY <1>2, <1>7, MovedWorker DEF Stages
<1>8. CASE LockCampaign(w)
  BY <1>3, <1>8, MovedWorker DEF Stages
<1>9. QED
  BY <1>1, <1>4, <1>5, <1>6, <1>7, <1>8 DEF WorkerStep, AccrueStep
(***************************************************************************)
(* Lemma: no step of the engine spoils a check of another transaction.     *)
(***************************************************************************)
LEMMA WorkerKeepsChecks ==
  ASSUME TypeOK, ChecksHoldAtCommit, NEW w \in Workers, WorkerStep(w),
         UNCHANGED activationVars
  PROVE  ChecksHoldAtCommit'
<1>0. LeavesOthersAlone(w)
  BY WorkersKeepToTheirRows
<1> USE DEF TypeOK, StoreTypeOK, AccrualTypeOK
<1>1. AcceptChecksHold'
  <2> SUFFICES ASSUME NEW a \in Attempts, attempt[a].phase \in Running
               PROVE  /\ offerLock'[attempt[a].offer] = a
                      /\ status'[attempt[a].offer] \in Respondable
                      /\ ExpiresAt[attempt[a].offer] > attempt[a].at
      BY DEF AcceptChecksHold, Answerable, activationVars
  <2>1. /\ offerLock[attempt[a].offer] = a /\ attempt[a].offer \in Offers
        /\ status[attempt[a].offer] \in Respondable
        /\ ExpiresAt[attempt[a].offer] > attempt[a].at
    BY DEF ChecksHoldAtCommit, AcceptChecksHold, Answerable, ActivationTypeOK
  <2>2. a \notin {Nobody, w}
    OBVIOUS
  <2>3. QED
    BY <1>0, <2>1, <2>2 DEF LeavesOthersAlone
<1>2. OfferChecksHold'
  <2> SUFFICES ASSUME NEW v \in Workers, worker'[v].stage \in {"offer", "campaign"}
               PROVE  /\ offerLock'[worker'[v].offer] = v
                      /\ status'[worker'[v].offer] = "ACCEPTED"
                      /\ respondedAt'[worker'[v].offer] <= bought'[worker'[v].purchase]
                      /\ bought'[worker'[v].purchase] < ExpiresAt[worker'[v].offer]
      BY DEF OfferChecksHold, Acceptable
  <2>1. UNCHANGED <<status, respondedAt, bought>>
    BY <1>0 DEF LeavesOthersAlone
  <2>2. CASE v # w
    <3>1. worker'[v] = worker[v]
      BY <1>0, <2>2 DEF LeavesOthersAlone
    <3>2. /\ offerLock[worker[v].offer] = v /\ worker[v].offer \in Offers
          /\ Acceptable(worker[v].offer, worker[v].purchase)
      BY <3>1 DEF ChecksHoldAtCommit, OfferChecksHold
    <3>3. offerLock'[worker[v].offer] = v
      BY <1>0, <2>2, <3>2 DEF LeavesOthersAlone
    <3>4. QED
      BY <2>1, <3>1, <3>2, <3>3 DEF Acceptable
  <2>3. CASE v = w
    <3>1. worker'[w].offer = worker[w].offer /\ worker'[w].purchase = worker[w].purchase
      BY <2>3, LocksAreTaken
    <3>2. worker[w].offer \in Offers
      BY <2>3, LocksAreTaken DEF LockCampaign
    <3>3. CASE worker'[w].stage = "offer"
      BY <2>1, <2>3, <3>1, <3>2, <3>3, LocksAreTaken DEF Acceptable
    <3>4. CASE LockCampaign(w)
      BY <2>1, <2>3, <3>1, <3>2, <3>4
         DEF LockCampaign, storeVars, ChecksHoldAtCommit, OfferChecksHold, Acceptable
    <3>5. QED
      BY <2>3, <3>3, <3>4, LocksAreTaken
  <2>4. QED
    BY <2>2, <2>3
<1>3. CampaignChecksHold'
  <2> SUFFICES ASSUME NEW v \in Workers, worker'[v].stage = "campaign"
               PROVE  CampaignChecked(v)'
      BY DEF CampaignChecksHold
  <2>1. clock' = clock /\ live' = live /\ bought' = bought
    BY <1>0 DEF LeavesOthersAlone
  <2>2. CASE v # w
    <3>1. worker'[v] = worker[v]
      BY <1>0, <2>2 DEF LeavesOthersAlone
    <3> PICK c, p : c = OfferCampaign[worker[v].offer] /\ p = worker[v].purchase
      OBVIOUS
    <3> PICK dbNow : dbNow \in worker[v].bookedAt .. clock /\ Payable(c, p, dbNow)
      BY <3>1 DEF ChecksHoldAtCommit, CampaignChecksHold, CampaignChecked
    <3>2. c \in Campaigns /\ campaignLock[c] = v
      BY <3>1 DEF ChecksHoldAtCommit, CampaignChecksHold, CampaignChecked
    <3>3. /\ campaignLock'[c] = v /\ spent'[c] = spent[c]
          /\ {r \in ledger' : r.campaign = c} = {r \in ledger : r.campaign = c}
      BY <1>0, <2>2, <3>2 DEF LeavesOthersAlone
    <3>4. Payable(c, p, dbNow)'
      BY <2>1, <3>2, <3>3, SameVerdict
    <3>5. Payable(OfferCampaign[worker[v].offer], worker[v].purchase, dbNow)'
      BY <3>1, <3>2, <3>4 DEF Payable, SpentToday
    <3>6. QED
      BY <2>1, <3>1, <3>2, <3>3, <3>5 DEF CampaignChecked
  <2>3. CASE v = w
    <3>1. /\ worker'[w].offer = worker[w].offer /\ worker'[w].purchase = worker[w].purchase
          /\ worker'[w].bookedAt = worker[w].bookedAt /\ LockCampaign(w)
      BY <2>3, LocksAreTaken
    <3> PICK c, p : c = OfferCampaign[worker[w].offer] /\ p = worker[w].purchase
      OBVIOUS
    <3> PICK dbNow : dbNow \in worker[w].bookedAt .. clock /\ Payable(c, p, dbNow)
      BY <3>1 DEF LockCampaign
    <3>2. c \in Campaigns /\ campaignLock' = [campaignLock EXCEPT ![c] = w]
      BY <3>1 DEF LockCampaign
    <3>3. spent' = spent /\ ledger' = ledger
      BY <3>1 DEF LockCampaign
    <3>4. Payable(c, p, dbNow)'
      BY <2>1, <3>2, <3>3, SameVerdict
    <3>5. Payable(OfferCampaign[worker[w].offer], worker[w].purchase, dbNow)'
      BY <3>1, <3>2, <3>4 DEF Payable, SpentToday
    <3>6. QED
      BY <2>1, <2>3, <3>1, <3>2, <3>5 DEF CampaignChecked
  <2>4. QED
    BY <2>2, <2>3
<1>4. QED
  BY <1>1, <1>2, <1>3 DEF ChecksHoldAtCommit
(***************************************************************************)
(* Lemma: a new purchase and an operator spoil no check.                   *)
(***************************************************************************)
LEMMA OutsideKeepsChecks ==
  ASSUME TypeOK, ChecksHoldAtCommit, UNCHANGED activationVars,
         \/ \E p \in Purchases, ahead \in 0 .. Skew : Buy(p, ahead)
         \/ \E c \in Campaigns : SwitchCampaign(c)
  PROVE  ChecksHoldAtCommit'
<1> USE DEF TypeOK, StoreTypeOK, AccrualTypeOK
<1>1. UNCHANGED <<storeVars, campaignLock, ledger, spent, worker>>
  BY DEF Buy, SwitchCampaign
<1>2. \A p \in Purchases : bought[p] \in Nat => bought'[p] = bought[p]
  BY DEF Buy, SwitchCampaign
<1>3. \A c \in Campaigns : campaignLock[c] # Nobody => (c \in live <=> c \in live')
  BY DEF Buy, SwitchCampaign, CampaignFree
<1>4. AcceptChecksHold'
  BY <1>1 DEF ChecksHoldAtCommit, AcceptChecksHold, Answerable, storeVars, activationVars
<1>5. OfferChecksHold'
  <2> SUFFICES ASSUME NEW w \in Workers, worker[w].stage \in {"offer", "campaign"}
               PROVE  /\ offerLock[worker[w].offer] = w
                      /\ Acceptable(worker[w].offer, worker[w].purchase)'
      BY <1>1 DEF OfferChecksHold, storeVars
  <2>1. worker[w].purchase \in Purchases /\ bought[worker[w].purchase] \in Nat
    OBVIOUS
  <2>2. QED
    BY <1>1, <1>2, <2>1 DEF ChecksHoldAtCommit, OfferChecksHold, Acceptable, storeVars
<1>6. CampaignChecksHold'
  <2> SUFFICES ASSUME NEW w \in Workers, worker[w].stage = "campaign"
               PROVE  CampaignChecked(w)'
      BY <1>1 DEF CampaignChecksHold
  <2> PICK c, p : c = OfferCampaign[worker[w].offer] /\ p = worker[w].purchase
    OBVIOUS
  <2> PICK dbNow : dbNow \in worker[w].bookedAt .. clock /\ Payable(c, p, dbNow)
    BY DEF ChecksHoldAtCommit, CampaignChecksHold, CampaignChecked
  <2>1. /\ c \in Campaigns /\ campaignLock[c] = w /\ w # Nobody
        /\ p \in Purchases /\ bought[p] \in Nat
    BY DEF ChecksHoldAtCommit, CampaignChecksHold, CampaignChecked
  <2>2. Payable(c, p, dbNow)'
    BY <1>1, <1>2, <1>3, <2>1, SameVerdict
  <2>3. QED
    BY <1>1, <2>1, <2>2 DEF CampaignChecked, storeVars
<1>7. QED
  BY <1>4, <1>5, <1>6 DEF ChecksHoldAtCommit

(***************************************************************************)
(* Lemma: no step whatsoever spoils a check.                               *)
(***************************************************************************)
LEMMA StepKeepsChecks ==
  TypeOK /\ ChecksHoldAtCommit /\ [Next]_vars => ChecksHoldAtCommit'
<1> SUFFICES ASSUME TypeOK, ChecksHoldAtCommit, [Next]_vars
             PROVE  ChecksHoldAtCommit'
    OBVIOUS
<1>1. CASE UNCHANGED vars
  <2>1. UNCHANGED <<clock, status, respondedAt, offerLock, attempt>>
        /\ UNCHANGED <<bought, live, campaignLock, ledger, spent, worker>>
    BY <1>1 DEF vars, storeVars, activationVars, accrualVars
  <2>2. AcceptChecksHold' /\ OfferChecksHold'
    BY <2>1 DEF ChecksHoldAtCommit, AcceptChecksHold, OfferChecksHold, Answerable, Acceptable
  <2>3. CampaignChecksHold'
    BY <2>1 DEF ChecksHoldAtCommit, CampaignChecksHold, CampaignChecked, Payable, SpentToday
  <2>4. QED
    BY <2>2, <2>3 DEF ChecksHoldAtCommit
<1>2. CASE AccrualNext /\ UNCHANGED activationVars
  <2>1. ASSUME NEW w \in Workers, WorkerStep(w)
        PROVE  ChecksHoldAtCommit'
    BY <1>2, <2>1, WorkerKeepsChecks
  <2>2. QED
    BY <1>2, <2>1, OutsideKeepsChecks DEF AccrualNext, WorkerStep
<1>3. QED
  BY <1>1, <1>2, TickKeepsChecks, ActivationKeepsChecks DEF Next

(***************************************************************************)
(* Theorem: in every reachable state, what an open transaction checked     *)
(* under its row locks still holds: nobody answered the offer of an accept *)
(* in progress, and offer, campaign, day and budget of an accrual in       *)
(* progress are still good for it.                                         *)
(***************************************************************************)
THEOREM ChecksAlwaysHold == Spec => []ChecksHoldAtCommit
<1>1. TypeOK /\ ChecksHoldAtCommit /\ TypeOK' /\ [Next]_vars => ChecksHoldAtCommit'
  BY StepKeepsChecks
<1>2. QED
  BY <1>1, InitChecks, TypesHold, PTL DEF Spec

-----------------------------------------------------------------------------
(***************************************************************************)
(* The only way an answer changes: an open offer gets one.                 *)
(***************************************************************************)
NewAnswer(o, answer) ==
  /\ status[o] \in Respondable
  /\ status' = [status EXCEPT ![o] = answer]
  /\ \A x \in Offers \ {o} : respondedAt'[x] = respondedAt[x]
  /\ UNCHANGED accrualVars

(***************************************************************************)
(* Lemma: every step that changes an answer does so in this way.           *)
(***************************************************************************)
LEMMA AnswerStep ==
  ASSUME TypeOK, ChecksHoldAtCommit, [Next]_vars
  PROVE  \/ UNCHANGED <<status, respondedAt>>
         \/ \E o \in Offers, answer \in {"ACCEPTED", "DECLINED", "SNOOZE"} : NewAnswer(o, answer)
<1> USE DEF TypeOK, StoreTypeOK, ActivationTypeOK, storeVars
<1>1. CASE UNCHANGED vars \/ Tick
  BY <1>1 DEF vars, Tick
<1>2. CASE AccrualNext
  <2>1. ASSUME NEW w \in Workers, WorkerStep(w)
        PROVE  UNCHANGED <<status, respondedAt>>
    BY <2>1, WorkersKeepToTheirRows DEF LeavesOthersAlone
  <2>2. QED
    BY <1>2, <2>1 DEF AccrualNext, WorkerStep, Buy, SwitchCampaign
<1>3. CASE ActivationNext /\ UNCHANGED accrualVars
  <2>1. ASSUME NEW a \in Attempts, Commit(a) \/ CommitUnacknowledged(a)
        PROVE  NewAnswer(attempt[a].offer, "ACCEPTED") /\ attempt[a].offer \in Offers
    <3>1. attempt[a].phase = "written" /\ Accepted(a)
      BY <2>1 DEF Commit, CommitUnacknowledged
    <3>2. attempt[a].offer \in Offers /\ status[attempt[a].offer] \in Respondable
      BY <3>1 DEF ChecksHoldAtCommit, AcceptChecksHold, Answerable, Running
    <3>3. QED
      BY <1>3, <3>1, <3>2 DEF Accepted, NewAnswer
  <2>2. ASSUME NEW a \in Attempts, NEW o \in Offers, Begin(a, o)
        PROVE  UNCHANGED <<status, respondedAt>>
    BY <2>2 DEF Begin
  <2>3. ASSUME NEW a \in Attempts, Claim(a) \/ Reject(a) \/ Rollback(a) \/ CrashAttempt(a)
                                    \/ Void(a) \/ LoseVoid(a)
        PROVE  UNCHANGED <<status, respondedAt>>
    BY <2>3 DEF Claim, Reject, Rollback, CrashAttempt, Void, LoseVoid
  <2>4. ASSUME NEW cmd \in inflight, RunActivation(cmd) \/ LoseActivation(cmd)
        PROVE  UNCHANGED <<status, respondedAt>>
    BY <2>4 DEF RunActivation, LoseActivation
  <2>5. ASSUME NEW o \in Offers, NEW answer \in {"DECLINED", "SNOOZE"}, Answer(o, answer)
        PROVE  NewAnswer(o, answer)
    BY <1>3, <2>5 DEF Answer, Answerable, NewAnswer
  <2>6. QED
    BY <1>3, <2>1, <2>2, <2>3, <2>4, <2>5 DEF ActivationNext, RequestStep
<1>4. QED
  BY <1>1, <1>2, <1>3 DEF Next

(***************************************************************************)
(* Theorem: an accepted or declined offer keeps its answer and the time of *)
(* the answer for ever.                                                    *)
(***************************************************************************)
THEOREM AnswersStayFinal == Spec => AnswersAreFinal
<1> DEFINE Kept == \A o \in Offers : status[o] \notin Respondable =>
                     status'[o] = status[o] /\ respondedAt'[o] = respondedAt[o]
<1>1. TypeOK /\ ChecksHoldAtCommit /\ [Next]_vars => [Kept]_vars
  <2> SUFFICES ASSUME TypeOK, ChecksHoldAtCommit, [Next]_vars
               PROVE  Kept
      OBVIOUS
  <2>1. CASE UNCHANGED <<status, respondedAt>>
    BY <2>1
  <2>2. ASSUME NEW o \in Offers, NEW answer, NewAnswer(o, answer)
        PROVE  Kept
    BY <2>2 DEF NewAnswer, TypeOK, StoreTypeOK
  <2>3. QED
    BY <2>1, <2>2, AnswerStep
<1>2. QED
  BY <1>1, TypesHold, ChecksAlwaysHold, PTL DEF Spec, AnswersAreFinal
-----------------------------------------------------------------------------
(***************************************************************************)
(* The hot keys are sound.  An attempt sends one script at most; while it  *)
(* is on its way, nothing has been committed on the strength of it.  A key *)
(* was written by an attempt that is over for good, with an accepted       *)
(* offer, or that still may void it; a void leaves none behind, and the    *)
(* fence stops the script that comes after it.                             *)
(***************************************************************************)
Writing == {"sent", "written", "voiding"}

ScriptSound(cmd) ==
  LET a == cmd.attempt IN
  /\ attempt[a].phase \in {"sent", "voiding", "abandoned", "voided"}
  /\ attempt[a].phase \in Writing => attempt[a].offer = cmd.offer

KeySound(s) ==
  LET a == hotKey[s].attempt
      o == hotKey[s].offer IN
  /\ attempt[a].phase \in Writing \cup {"abandoned", "committed"}
  /\ attempt[a].phase \in Writing => attempt[a].offer = o
  /\ attempt[a].phase = "committed" => status[o] = "ACCEPTED"

KeysSound ==
  /\ \A c, d \in inflight : c.attempt = d.attempt => c = d
  /\ \A cmd \in inflight : ScriptSound(cmd)
  /\ \A a \in Attempts : attempt[a].phase = "voided" => a \in fence
  /\ \A s \in Slots : hotKey[s] # NoKey => KeySound(s)

(***************************************************************************)
(* Lemma: no key, script or fence at the start.                            *)
(***************************************************************************)
LEMMA InitKeys == Init => KeysSound
BY DEF Init, StoreInit, ActivationInit, KeysSound, At

(***************************************************************************)
(* The steps of a request between which the hot keys stay as they are, and *)
(* the void, which leaves none of its own.                                 *)
(***************************************************************************)
Moves(a) ==
  \/ attempt'[a] = attempt[a]
  \/ /\ attempt[a].phase \in {"idle", "begun"}
     /\ attempt'[a].phase \in {"idle", "begun", "sent"}
  \/ /\ attempt[a].phase = "written"
     /\ attempt'[a].phase = "committed"
     /\ status'[attempt[a].offer] = "ACCEPTED"
  \/ /\ attempt[a].phase \in Running
     /\ attempt'[a].phase = "voiding"
     /\ attempt'[a].offer = attempt[a].offer
  \/ /\ attempt[a].phase \in Writing
     /\ attempt'[a].phase = "abandoned"
  \/ /\ attempt[a].phase = "voiding"
     /\ attempt'[a].phase = "voided"
     /\ a \in fence'
     /\ \A s \in Slots : hotKey'[s] # NoKey => hotKey'[s].attempt # a

(***************************************************************************)
(* Lemma: such steps spoil no script, fence or key.                        *)
(***************************************************************************)
LEMMA MovesKeepKeys ==
  ASSUME TypeOK, KeysSound, \A a \in Attempts : Moves(a), fence \subseteq fence',
         \A o \in Offers : status[o] = "ACCEPTED" => status'[o] = "ACCEPTED"
  PROVE  /\ \A cmd \in inflight : ScriptSound(cmd)'
         /\ \A a \in Attempts : attempt'[a].phase = "voided" => a \in fence'
         /\ \A s \in Slots : hotKey[s] # NoKey /\ hotKey'[s] = hotKey[s] => KeySound(s)'
<1>1. ASSUME NEW cmd \in inflight
      PROVE  ScriptSound(cmd)'
  <2>1. cmd.attempt \in Attempts /\ ScriptSound(cmd)
    BY DEF TypeOK, ActivationTypeOK, Command, KeysSound
  <2>2. Moves(cmd.attempt)
    BY <2>1
  <2>3. QED
    BY <2>1, <2>2 DEF ScriptSound, Moves, Running, Writing
<1>2. ASSUME NEW a \in Attempts, attempt'[a].phase = "voided"
      PROVE  a \in fence'
  <2>1. Moves(a)
    OBVIOUS
  <2>2. QED
    BY <1>2, <2>1 DEF Moves, KeysSound
<1>3. ASSUME NEW s \in Slots, hotKey[s] # NoKey, hotKey'[s] = hotKey[s]
      PROVE  KeySound(s)'
  <2>1. hotKey[s].attempt \in Attempts /\ hotKey[s].offer \in Offers /\ KeySound(s)
    BY <1>3 DEF TypeOK, StoreTypeOK, Key, KeysSound
  <2>2. Moves(hotKey[s].attempt)
    BY <2>1
  <2>3. QED
    BY <1>3, <2>1, <2>2 DEF KeySound, Moves, Running, Writing
<1>4. QED
  BY <1>1, <1>2, <1>3

(***************************************************************************)
(* Lemma: a step that sends no script and writes no key keeps them sound.  *)
(***************************************************************************)
LEMMA QuietStep ==
  ASSUME TypeOK, KeysSound, \A a \in Attempts : Moves(a), fence \subseteq fence',
         \A o \in Offers : status[o] = "ACCEPTED" => status'[o] = "ACCEPTED",
         inflight' \subseteq inflight,
         \A s \in Slots : hotKey'[s] \in {hotKey[s], NoKey}
  PROVE  KeysSound'
BY MovesKeepKeys DEF KeysSound

(***************************************************************************)
(* Lemma: the script of a request writes a sound key, or none.             *)
(***************************************************************************)
LEMMA ScriptStep ==
  ASSUME TypeOK, KeysSound, NEW cmd \in inflight, RunActivation(cmd)
  PROVE  KeysSound'
<1> DEFINE a == cmd.attempt
           o == cmd.offer
<1>1. /\ a \in Attempts /\ o \in Offers /\ ScriptSound(cmd)
      /\ attempt \in [Attempts -> Attempt] /\ OfferSlot[o] \in Slots
      /\ DOMAIN hotKey = Slots
  BY DEF TypeOK, StoreTypeOK, ActivationTypeOK, Command, KeysSound
<1>2. /\ \A b \in Attempts \ {a} : attempt'[b] = attempt[b]
      /\ \/ attempt'[a] = attempt[a]
         \/ /\ attempt[a].phase = "sent" /\ attempt'[a].phase = "written"
            /\ attempt'[a].offer = attempt[a].offer
  <2>1. CASE UNCHANGED attempt
    BY <2>1
  <2>2. CASE /\ attempt[a].phase = "sent"
             /\ attempt' = [attempt EXCEPT ![a].phase = "written"]
    <3>1. "written" \in Phases
      BY DEF Phases, Running
    <3>2. /\ attempt'[a].phase = "written" /\ attempt'[a].offer = attempt[a].offer
          /\ \A b \in Attempts \ {a} : attempt'[b] = attempt[b]
      BY <1>1, <2>2, <3>1, MovedAttempt
    <3>3. QED
      BY <2>2, <3>2
  <2>3. QED
    BY <2>1, <2>2 DEF RunActivation
<1>3. inflight' = inflight \ {cmd} /\ fence' = fence /\ status' = status
  BY DEF RunActivation
<1>4. \A d \in inflight' : ScriptSound(d)'
  <2> SUFFICES ASSUME NEW d \in inflight' PROVE ScriptSound(d)'
      OBVIOUS
  <2>1. d \in inflight /\ d.attempt # a /\ d.attempt \in Attempts /\ ScriptSound(d)
    BY <1>3 DEF KeysSound, TypeOK, ActivationTypeOK, Command
  <2>2. QED
    BY <1>2, <2>1 DEF ScriptSound
<1>5. \A b \in Attempts : attempt'[b].phase = "voided" => b \in fence'
  BY <1>2, <1>3 DEF KeysSound
<1>6. ASSUME NEW s \in Slots, hotKey'[s] # NoKey
      PROVE  KeySound(s)'
  <2>1. CASE hotKey'[s] = hotKey[s]
    <3>1. hotKey[s].attempt \in Attempts /\ KeySound(s)
      BY <1>6, <2>1 DEF TypeOK, StoreTypeOK, Key, KeysSound
    <3>2. QED
      BY <1>2, <1>3, <2>1, <3>1 DEF KeySound, Writing
  <2>2. CASE hotKey'[s] # hotKey[s]
    <3>1. hotKey'[s].offer = o /\ hotKey'[s].attempt = a /\ a \notin fence
      BY <1>1, <2>2 DEF RunActivation, Admitted
    <3>2. attempt[a].phase # "voided"
      BY <1>1, <3>1 DEF KeysSound
    <3>3. QED
      BY <1>1, <1>2, <3>1, <3>2 DEF KeySound, ScriptSound, Writing
  <2>3. QED
    BY <2>1, <2>2
<1>7. QED
  BY <1>3, <1>4, <1>5, <1>6 DEF KeysSound

(***************************************************************************)
(* Lemma: every step of a request keeps the hot keys sound.                *)
(***************************************************************************)
LEMMA RequestKeepsKeys ==
  ASSUME TypeOK, ChecksHoldAtCommit, KeysSound, ActivationNext, UNCHANGED accrualVars
  PROVE  KeysSound'
<1>0. /\ attempt \in [Attempts -> Attempt] /\ DOMAIN hotKey = Slots
      /\ status \in [Offers -> Statuses]
  BY DEF TypeOK, StoreTypeOK, ActivationTypeOK
<1>1. \A o \in Offers : status[o] = "ACCEPTED" => status'[o] = "ACCEPTED"
  <2>1. [Next]_vars
    BY DEF Next
  <2>2. CASE UNCHANGED <<status, respondedAt>>
    BY <2>2
  <2>3. ASSUME NEW o \in Offers, NEW answer, NewAnswer(o, answer)
        PROVE  \A x \in Offers : status[x] = "ACCEPTED" => status'[x] = "ACCEPTED"
    BY <1>0, <2>3 DEF NewAnswer, Respondable
  <2>4. QED
    BY <2>1, <2>2, <2>3, AnswerStep
<1>2. ASSUME NEW a \in Attempts, Moves(a),
             \A b \in Attempts \ {a} : attempt'[b] = attempt[b]
      PROVE  \A b \in Attempts : Moves(b)
  BY <1>2 DEF Moves
<1>3. ASSUME NEW a \in Attempts, NEW o \in Offers, Begin(a, o)
      PROVE  KeysSound'
  <2>1. Moves(a) /\ \A b \in Attempts \ {a} : attempt'[b] = attempt[b]
    BY <1>0, <1>3 DEF Begin, Moves
  <2>2. QED
    BY <1>1, <1>2, <1>3, <2>1, QuietStep DEF Begin, storeVars
<1>4. ASSUME NEW a \in Attempts, Claim(a)
      PROVE  KeysSound'
  <2> DEFINE new == [attempt |-> a, offer |-> attempt[a].offer,
                     ttl |-> Ttl(attempt[a].offer, attempt[a].at)]
  <2>1. /\ attempt[a].phase = "begun" /\ attempt'[a].phase = "sent"
        /\ attempt'[a].offer = attempt[a].offer
        /\ \A b \in Attempts \ {a} : attempt'[b] = attempt[b]
    BY <1>0, <1>4, MovedAttempt DEF Claim, Phases, Running
  <2>2. \A b \in Attempts : Moves(b)
    BY <1>2, <2>1 DEF Moves
  <2>3. inflight' = inflight \cup {new} /\ UNCHANGED <<status, hotKey, fence>>
    BY <1>4 DEF Claim
  <2>4. \A cmd \in inflight : cmd.attempt # a
    BY <2>1 DEF KeysSound, ScriptSound
  <2>5. /\ \A cmd \in inflight : ScriptSound(cmd)'
        /\ \A b \in Attempts : attempt'[b].phase = "voided" => b \in fence'
        /\ \A s \in Slots : hotKey[s] # NoKey /\ hotKey'[s] = hotKey[s] => KeySound(s)'
    BY <1>1, <2>2, <2>3, MovesKeepKeys
  <2>6. \A cmd \in inflight' : ScriptSound(cmd)'
    <3>1. PICK cmd : cmd = new
      OBVIOUS
    <3>2. ScriptSound(cmd)'
      BY <2>1, <3>1 DEF ScriptSound
    <3>3. QED
      BY <2>3, <2>5, <3>1, <3>2
  <2>7. \A c, d \in inflight' : c.attempt = d.attempt => c = d
    BY <2>3, <2>4 DEF KeysSound
  <2>8. QED
    BY <2>3, <2>5, <2>6, <2>7 DEF KeysSound
<1>5. ASSUME NEW a \in Attempts, Commit(a) \/ CommitUnacknowledged(a)
      PROVE  KeysSound'
  <2>1. attempt[a].phase = "written" /\ Accepted(a)
    BY <1>5 DEF Commit, CommitUnacknowledged
  <2>2. attempt[a].offer \in Offers
    BY <2>1 DEF TypeOK, ActivationTypeOK, Running
  <2>3. status'[attempt[a].offer] = "ACCEPTED"
    BY <1>0, <2>1, <2>2 DEF Accepted
  <2>4. CASE Commit(a)
    <3>1. Moves(a) /\ \A b \in Attempts \ {a} : attempt'[b] = attempt[b]
      BY <1>0, <2>1, <2>3, <2>4 DEF Commit, Moves, At
    <3>2. QED
      BY <1>1, <1>2, <2>1, <3>1, QuietStep DEF Accepted
  <2>5. CASE CommitUnacknowledged(a)
    <3>1. /\ attempt'[a].phase = "voiding" /\ attempt'[a].offer = attempt[a].offer
          /\ \A b \in Attempts \ {a} : attempt'[b] = attempt[b]
      BY <1>0, <2>5, MovedAttempt DEF CommitUnacknowledged, Phases
    <3>2. Moves(a)
      BY <2>1, <3>1 DEF Moves, Running
    <3>3. QED
      BY <1>1, <1>2, <2>1, <3>1, <3>2, QuietStep DEF Accepted
  <2>6. QED
    BY <1>5, <2>4, <2>5
<1>6. ASSUME NEW a \in Attempts, Rollback(a)
      PROVE  KeysSound'
  <2>1. /\ attempt'[a].phase = "voiding" /\ attempt'[a].offer = attempt[a].offer
        /\ \A b \in Attempts \ {a} : attempt'[b] = attempt[b]
    BY <1>0, <1>6, MovedAttempt DEF Rollback, Phases
  <2>2. Moves(a)
    BY <1>6, <2>1 DEF Rollback, Moves
  <2>3. QED
    BY <1>1, <1>2, <1>6, <2>1, <2>2, QuietStep DEF Rollback
<1>7. ASSUME NEW a \in Attempts, Reject(a) \/ LoseVoid(a) \/ CrashAttempt(a)
      PROVE  KeysSound'
  <2>1. Moves(a) /\ \A b \in Attempts \ {a} : attempt'[b] = attempt[b]
    BY <1>0, <1>7 DEF Reject, LoseVoid, CrashAttempt, Moves, At, Running, Writing
  <2>2. UNCHANGED <<hotKey, inflight, fence>>
    BY <1>7 DEF Reject, LoseVoid, CrashAttempt, storeVars
  <2>3. QED
    BY <1>1, <1>2, <2>1, <2>2, QuietStep
<1>8. ASSUME NEW a \in Attempts, Void(a)
      PROVE  KeysSound'
  <2> DEFINE s == OfferSlot[attempt[a].offer]
  <2>1. /\ attempt[a].phase = "voiding" /\ attempt'[a].phase = "voided"
        /\ fence' = fence \cup {a} /\ inflight' = inflight
        /\ \A b \in Attempts \ {a} : attempt'[b] = attempt[b]
    BY <1>0, <1>8 DEF Void, At
  <2>2. \A x \in Slots : hotKey[x] # NoKey /\ hotKey[x].attempt = a => x = s
    BY <2>1 DEF KeysSound, KeySound, Writing, TypeOK, StoreTypeOK
  <2>3. \A x \in Slots : hotKey'[x] \in {hotKey[x], NoKey}
    BY <1>0, <1>8 DEF Void
  <2>4. \A x \in Slots : hotKey'[x] # NoKey => hotKey'[x].attempt # a
    BY <1>0, <1>8, <2>2, <2>3 DEF Void
  <2>5. Moves(a)
    BY <2>1, <2>4 DEF Moves
  <2>6. QED
    BY <1>1, <1>2, <2>1, <2>3, <2>5, QuietStep
<1>9. ASSUME NEW cmd \in inflight, LoseActivation(cmd)
      PROVE  KeysSound'
  BY <1>1, <1>9, QuietStep DEF LoseActivation, storeVars, Moves
<1>10. ASSUME NEW o \in Offers, NEW answer, Answer(o, answer)
      PROVE  KeysSound'
  BY <1>1, <1>10, QuietStep DEF Answer, activationVars, Moves
<1>11. QED
  BY <1>3, <1>4, <1>5, <1>6, <1>7, <1>8, <1>9, <1>10, ScriptStep DEF ActivationNext, RequestStep

(***************************************************************************)
(* Theorem: in every reachable state the hot keys are sound.               *)
(***************************************************************************)
THEOREM KeysAlwaysSound == Spec => []KeysSound
<1>1. TypeOK /\ ChecksHoldAtCommit /\ KeysSound /\ [Next]_vars => KeysSound'
  <2> SUFFICES ASSUME TypeOK, ChecksHoldAtCommit, KeysSound, [Next]_vars
               PROVE  KeysSound'
      OBVIOUS
  <2>1. CASE ActivationNext /\ UNCHANGED accrualVars
    BY <2>1, RequestKeepsKeys
  <2>2. ASSUME UNCHANGED activationVars, UNCHANGED status,
               \A s \in Slots : hotKey'[s] \in {hotKey[s], NoKey}
        PROVE  KeysSound'
    BY <2>2, QuietStep DEF activationVars, Moves
  <2>3. CASE Tick /\ UNCHANGED <<activationVars, accrualVars>>
    BY <2>2, <2>3 DEF Tick, TypeOK, StoreTypeOK
  <2>4. CASE UNCHANGED vars
    BY <2>2, <2>4 DEF vars, storeVars
  <2>5. CASE AccrualNext /\ UNCHANGED activationVars
    <3>1. ASSUME NEW w \in Workers, WorkerStep(w)
          PROVE  UNCHANGED status
      BY <3>1, WorkersKeepToTheirRows DEF LeavesOthersAlone
    <3>2. ASSUME NEW w \in Workers, ReleaseKey(w)
          PROVE  \A s \in Slots : hotKey'[s] \in {hotKey[s], NoKey}
      BY <3>2 DEF ReleaseKey, KeyReleased, TypeOK, StoreTypeOK
    <3>3. ASSUME NEW w \in Workers, WorkerStep(w), ~ReleaseKey(w)
          PROVE  UNCHANGED hotKey
      BY <3>3 DEF WorkerStep, AccrueStep, Fetch, LockOffer, LockCampaign, SkipCampaign, Book,
                  Publish, Fail, storeVars
    <3>4. CASE \E w \in Workers : WorkerStep(w)
      BY <2>2, <2>5, <3>1, <3>2, <3>3, <3>4
    <3>5. CASE UNCHANGED storeVars
      BY <2>2, <2>5, <3>5 DEF storeVars
    <3>6. QED
      BY <2>5, <3>4, <3>5 DEF AccrualNext, WorkerStep, Buy, SwitchCampaign
  <2>6. QED
    BY <2>1, <2>3, <2>4, <2>5 DEF Next
<1>2. QED
  BY <1>1, InitKeys, TypesHold, ChecksAlwaysHold, PTL DEF Spec

(***************************************************************************)
(* Theorem: a hot key names an accepted offer, unless the request that     *)
(* wrote it is on its way, about to void it, or could not be voided.       *)
(***************************************************************************)
THEOREM KeysNameAcceptedOffers == Spec => []KeyNamesAcceptedOffer
<1>1. KeysSound => KeyNamesAcceptedOffer
  BY DEF KeysSound, KeySound, KeyNamesAcceptedOffer, Running, Writing
<1>2. QED
  BY <1>1, KeysAlwaysSound, PTL

-----------------------------------------------------------------------------
(***************************************************************************)
(* The only way a payment is made: an unpaid purchase of an                *)
(* accepted offer, within the budget.                                      *)
(***************************************************************************)
NewPayment(o, p, row) ==
  LET c == OfferCampaign[o] IN
  /\ row.offer = o /\ row.purchase = p
  /\ row.campaign = c /\ row.amount = Cashback[c][p]
  /\ \E w \in Workers : /\ worker[w].stage = "campaign"
                       /\ worker[w].purchase = p
                       /\ worker[w].bookedAt = row.bookedAt
  /\ \E dbNow \in row.bookedAt .. clock : Payable(c, p, dbNow)
  /\ Paid(o, p) = {}
  /\ Acceptable(o, p)
  /\ bought[p] \in Nat
  /\ spent[c] + Cashback[c][p] <= BudgetTotal[c]
  /\ ledger' = ledger \cup {row}
  /\ spent' = [spent EXCEPT ![c] = @ + Cashback[c][p]]
  /\ UNCHANGED <<status, respondedAt, bought>>

(***************************************************************************)
(* Lemma: every step that changes the ledger or what was spent is one      *)
(* payment.                                                                *)
(***************************************************************************)
LEMMA PaymentStep ==
  ASSUME TypeOK, ChecksHoldAtCommit, [Next]_vars
  PROVE  \/ UNCHANGED <<ledger, spent>>
         \/ \E o \in Offers, p \in Purchases, row \in Row : NewPayment(o, p, row)
<1> USE DEF TypeOK, StoreTypeOK, AccrualTypeOK
<1>1. CASE UNCHANGED vars \/ UNCHANGED accrualVars
  BY <1>1 DEF vars, accrualVars
<1>2. ASSUME NEW w \in Workers, Book(w)
      PROVE  \/ UNCHANGED <<ledger, spent>>
             \/ \E o \in Offers, p \in Purchases, row \in Row : NewPayment(o, p, row)
  <2> PICK o, p, c : /\ o = worker[w].offer /\ p = worker[w].purchase
                     /\ c = OfferCampaign[o]
    OBVIOUS
  <2> DEFINE row == [offer |-> o, purchase |-> p, campaign |-> c,
                     amount |-> Cashback[c][p], bookedAt |-> worker[w].bookedAt]
  <2>1. o \in Offers /\ p \in Purchases /\ c \in Campaigns /\ bought[p] \in Nat
    BY <1>2 DEF Book
  <2>2. row \in Row
    BY <2>1 DEF Row, Run
  <2>3. Acceptable(o, p)
    BY <1>2 DEF Book, ChecksHoldAtCommit, OfferChecksHold
  <2>4. Cashback[c][p] <= BudgetTotal[c] - spent[c]
    BY <1>2 DEF Book, ChecksHoldAtCommit, CampaignChecksHold, CampaignChecked, Payable
  <2>5. spent[c] + Cashback[c][p] <= BudgetTotal[c]
    BY <2>1, <2>4
  <2>6. \E dbNow \in row.bookedAt .. clock : Payable(c, p, dbNow)
    BY <1>2 DEF Book, ChecksHoldAtCommit, CampaignChecksHold, CampaignChecked
  <2>7. CASE /\ Paid(o, p) = {}
             /\ ledger' = ledger \cup {row}
             /\ spent' = [spent EXCEPT ![c] = @ + row.amount]
    <3>1. UNCHANGED <<status, respondedAt, bought>>
      BY <1>2 DEF Book
    <3>2. \E v \in Workers : /\ worker[v].stage = "campaign"
                             /\ worker[v].purchase = p
                             /\ worker[v].bookedAt = row.bookedAt
      BY <1>2 DEF Book
    <3>3. NewPayment(o, p, row)
      BY <2>1, <2>3, <2>5, <2>6, <2>7, <3>1, <3>2 DEF NewPayment
    <3>4. QED
      BY <2>1, <2>2, <3>3
  <2>8. QED
    BY <1>2, <2>7 DEF Book
<1>3. ASSUME NEW w \in Workers, WorkerStep(w), ~Book(w)
      PROVE  UNCHANGED <<ledger, spent>>
  BY <1>3 DEF WorkerStep, AccrueStep, Fetch, LockOffer, LockCampaign, SkipCampaign,
              ReleaseKey, Publish, Fail
<1>4. QED
  BY <1>1, <1>2, <1>3 DEF Next, AccrualNext, WorkerStep, Buy, SwitchCampaign

(***************************************************************************)
(* The ledger is sound: single use, and every row was paid for an accepted *)
(* offer by a purchase that was made.                                      *)
(***************************************************************************)
LedgerSound ==
  /\ PaidOnce
  /\ PaidOffersWereAccepted
  /\ \A r \in ledger : bought[r.purchase] \in Nat

(***************************************************************************)
(* Lemma: every step keeps the ledger sound.                               *)
(***************************************************************************)
LEMMA StepKeepsLedgerSound ==
  TypeOK /\ ChecksHoldAtCommit /\ LedgerSound /\ [Next]_vars => LedgerSound'
<1> SUFFICES ASSUME TypeOK, ChecksHoldAtCommit, LedgerSound, [Next]_vars
             PROVE  LedgerSound'
    OBVIOUS
<1> USE DEF TypeOK, StoreTypeOK, AccrualTypeOK
<1>1. ASSUME NEW o \in Offers, NEW p \in Purchases, NEW row \in Row, NewPayment(o, p, row)
      PROVE  LedgerSound'
  <2>1. PaidOnce'
    BY <1>1 DEF NewPayment, LedgerSound, PaidOnce, Paid
  <2>2. PaidOffersWereAccepted' /\ \A r \in ledger' : bought'[r.purchase] \in Nat
    BY <1>1 DEF NewPayment, LedgerSound, PaidOffersWereAccepted, Acceptable
  <2>3. QED
    BY <2>1, <2>2 DEF LedgerSound
<1>2. CASE UNCHANGED <<ledger, spent>>
  <2>1. PaidOnce'
    BY <1>2 DEF LedgerSound, PaidOnce
  <2>2. \A r \in ledger : bought'[r.purchase] = bought[r.purchase]
    <3>1. \A p \in Purchases : bought[p] \in Nat => bought'[p] = bought[p]
      <4>1. ASSUME NEW w \in Workers, WorkerStep(w)
            PROVE  bought' = bought
        BY <4>1, WorkersKeepToTheirRows DEF LeavesOthersAlone
      <4>2. QED
        BY <4>1 DEF Next, vars, accrualVars, AccrualNext, WorkerStep, Buy, SwitchCampaign
    <3>2. QED
      BY <3>1 DEF LedgerSound, Row
  <2>3. \A r \in ledger : /\ status'[r.offer] = status[r.offer]
                          /\ respondedAt'[r.offer] = respondedAt[r.offer]
    <3>1. \A r \in ledger : r.offer \in Offers /\ status[r.offer] \notin Respondable
      BY DEF LedgerSound, PaidOffersWereAccepted, Row, Respondable
    <3>2. CASE UNCHANGED <<status, respondedAt>>
      BY <3>2
    <3>3. ASSUME NEW o \in Offers, NEW answer, NewAnswer(o, answer)
          PROVE  \A r \in ledger : /\ status'[r.offer] = status[r.offer]
                                   /\ respondedAt'[r.offer] = respondedAt[r.offer]
      BY <3>1, <3>3 DEF NewAnswer
    <3>4. QED
      BY <3>2, <3>3, AnswerStep
  <2>4. QED
    BY <1>2, <2>1, <2>2, <2>3 DEF LedgerSound, PaidOffersWereAccepted
<1>3. QED
  BY <1>1, <1>2, PaymentStep

(***************************************************************************)
(* Lemma: the ledger is always sound.                                      *)
(***************************************************************************)
LEMMA LedgerAlwaysSound == Spec => []LedgerSound
<1>1. Init => LedgerSound
  BY DEF Init, AccrualInit, LedgerSound, PaidOnce, PaidOffersWereAccepted
<1>2. TypeOK /\ ChecksHoldAtCommit /\ LedgerSound /\ [Next]_vars => LedgerSound'
  BY StepKeepsLedgerSound
<1>3. QED
  BY <1>1, <1>2, TypesHold, ChecksAlwaysHold, PTL DEF Spec

(***************************************************************************)
(* Theorem: an accepted offer pays at most one purchase and a purchase is  *)
(* paid by at most one offer, under any redelivery and any interleaving.   *)
(***************************************************************************)
THEOREM SingleUse == Spec => []PaidOnce
<1>1. LedgerSound => PaidOnce
  BY DEF LedgerSound
<1>2. QED
  BY <1>1, LedgerAlwaysSound, PTL

(***************************************************************************)
(* Theorem: whatever key a purchase met, only an offer accepted for good,  *)
(* before the purchase, and not expired at the purchase is ever paid.      *)
(***************************************************************************)
THEOREM OnlyAcceptedOffersPay == Spec => []PaidOffersWereAccepted
<1>1. LedgerSound => PaidOffersWereAccepted
  BY DEF LedgerSound
<1>2. QED
  BY <1>1, LedgerAlwaysSound, PTL

-----------------------------------------------------------------------------
(***************************************************************************)
(* What a worker does after its COMMIT is sound: it releases the key of a  *)
(* paid offer only, one worker at most is to announce an offer, and nobody *)
(* has announced it before.                                                *)
(***************************************************************************)
Announcing(w) == worker[w].stage \in {"booked", "publish"}

RunsSound ==
  /\ \A o \in Offers : announced[o] \in {0, 1}
  /\ \A o \in Offers : announced[o] = 1 => PaysOffer(ledger, o)
  /\ \A w \in Workers : Announcing(w) => announced[worker[w].offer] = 0
  /\ \A w \in Workers :
       Announcing(w) \/ worker[w].stage = "duplicate" => PaysOffer(ledger, worker[w].offer)
  /\ \A v, w \in Workers :
       Announcing(v) /\ Announcing(w) /\ worker[v].offer = worker[w].offer => v = w

(***************************************************************************)
(* Lemma: a step that starts no announcement and makes none keeps the      *)
(* workers sound.                                                          *)
(***************************************************************************)
LEMMA SilentStep ==
  ASSUME RunsSound, ledger \subseteq ledger', announced' = announced,
         \A w \in Workers : /\ Announcing(w)' => /\ Announcing(w)
                                                /\ worker'[w].offer = worker[w].offer
                            /\ worker'[w].stage = "duplicate" =>
                                 PaysOffer(ledger', worker'[w].offer)
  PROVE  RunsSound'
<1>1. \A o : PaysOffer(ledger, o) => PaysOffer(ledger', o)
  BY DEF PaysOffer
<1>2. \A o \in Offers : announced'[o] \in {0, 1} /\ (announced'[o] = 1 => PaysOffer(ledger', o))
  BY <1>1 DEF RunsSound
<1>3. \A w \in Workers : Announcing(w)' => /\ announced'[worker'[w].offer] = 0
                                           /\ PaysOffer(ledger', worker'[w].offer)
  BY <1>1 DEF RunsSound
<1>4. \A v, w \in Workers :
        Announcing(v)' /\ Announcing(w)' /\ worker'[v].offer = worker'[w].offer => v = w
  BY DEF RunsSound
<1>5. QED
  BY <1>2, <1>3, <1>4 DEF RunsSound

(***************************************************************************)
(* Lemma: every step of a worker keeps the workers sound.                  *)
(***************************************************************************)
LEMMA WorkerKeepsRuns ==
  ASSUME TypeOK, ChecksHoldAtCommit, RunsSound, NEW w \in Workers, WorkerStep(w)
  PROVE  RunsSound'
<1>0. /\ worker \in [Workers -> Run] /\ announced \in [Offers -> Nat]
      /\ worker[w].stage # "idle" => worker[w].offer \in Offers
      /\ \A v \in Workers \ {w} : worker'[v] = worker[v]
  BY WorkersKeepToTheirRows DEF LeavesOthersAlone, TypeOK, AccrualTypeOK
<1>1. ASSUME ledger' = ledger, announced' = announced,
             worker'[w].stage \in Stages \ {"booked", "publish", "duplicate"}
      PROVE  RunsSound'
  <2>1. \A v \in Workers : /\ Announcing(v)' => /\ Announcing(v)
                                               /\ worker'[v].offer = worker[v].offer
                           /\ worker'[v].stage = "duplicate" =>
                                PaysOffer(ledger', worker'[v].offer)
    BY <1>0, <1>1 DEF Announcing, RunsSound
  <2>2. QED
    BY <1>1, <2>1, SilentStep
<1>2. ASSUME ledger' = ledger, announced' = announced, worker'[w].offer = worker[w].offer,
             worker'[w].stage = "duplicate", PaysOffer(ledger, worker[w].offer)
      PROVE  RunsSound'
  <2>1. \A v \in Workers : /\ Announcing(v)' => /\ Announcing(v)
                                               /\ worker'[v].offer = worker[v].offer
                           /\ worker'[v].stage = "duplicate" =>
                                PaysOffer(ledger', worker'[v].offer)
    BY <1>0, <1>2 DEF Announcing, RunsSound
  <2>2. QED
    BY <1>2, <2>1, SilentStep
<1>3. CASE SkipCampaign(w) \/ Fail(w)
  <2>1. worker'[w].stage = "idle" /\ ledger' = ledger /\ announced' = announced
    BY <1>0, <1>3, IdleWorker DEF SkipCampaign, Fail
  <2>2. QED
    BY <1>1, <2>1 DEF Stages
<1>4. CASE (\E p \in Purchases : Fetch(w, p)) \/ LockCampaign(w)
  <2>1. worker'[w].stage \in {"fetched", "campaign"} /\ ledger' = ledger /\ announced' = announced
    BY <1>0, <1>4, MovedWorker DEF Fetch, LockCampaign, Stages
  <2>2. QED
    BY <1>1, <2>1 DEF Stages
<1>5. CASE LockOffer(w)
  <2>1. ledger' = ledger /\ announced' = announced
    BY <1>5 DEF LockOffer
  <2>2. CASE worker' = [worker EXCEPT ![w].stage = "offer"] \/ worker' = [worker EXCEPT ![w] = Idle]
    <3>1. worker'[w].stage \in {"offer", "idle"}
      BY <1>0, <2>2, MovedWorker, IdleWorker DEF Stages
    <3>2. QED
      BY <1>1, <2>1, <3>1 DEF Stages
  <2>3. CASE /\ worker' = [worker EXCEPT ![w].stage = "duplicate"]
             /\ PaysOffer(Paid(worker[w].offer, worker[w].purchase), worker[w].offer)
    <3>1. worker'[w].stage = "duplicate" /\ worker'[w].offer = worker[w].offer
      BY <1>0, <2>3, MovedWorker DEF Stages
    <3>2. PaysOffer(ledger, worker[w].offer)
      BY <2>3 DEF PaysOffer, Paid
    <3>3. QED
      BY <1>2, <2>1, <3>1, <3>2
  <2>4. QED
    BY <1>5, <2>2, <2>3 DEF LockOffer
<1>6. CASE Book(w)
  <2> DEFINE o == worker[w].offer
             p == worker[w].purchase
             c == OfferCampaign[o]
             row == [offer |-> o, purchase |-> p, campaign |-> c,
                     amount |-> Cashback[c][p], bookedAt |-> worker[w].bookedAt]
  <2>1. announced' = announced /\ o \in Offers
    BY <1>0, <1>6 DEF Book
  <2>2. CASE /\ Paid(o, p) = {}
             /\ ledger' = ledger \cup {row}
             /\ worker' = [worker EXCEPT ![w].stage = "booked"]
    <3>1. worker'[w].stage = "booked" /\ worker'[w].offer = o
      BY <1>0, <2>2, MovedWorker DEF Stages
    <3>2. ~PaysOffer(ledger, o) /\ PaysOffer(ledger', o)
      <4>1. ~PaysOffer(ledger, o)
        BY <2>2 DEF Paid, PaysOffer
      <4>2. row \in ledger' /\ row.offer = o
        BY <2>2
      <4>3. QED
        BY <4>1, <4>2 DEF PaysOffer
    <3>3. \A x : PaysOffer(ledger, x) => PaysOffer(ledger', x)
      BY <2>2 DEF PaysOffer
    <3>4. announced[o] = 0
      BY <2>1, <3>2 DEF RunsSound
    <3>5. \A v \in Workers \ {w} : Announcing(v)' => Announcing(v) /\ worker'[v].offer # o
      BY <1>0, <3>2 DEF Announcing, RunsSound
    <3>6. \A x \in Offers : announced'[x] \in {0, 1} /\ (announced'[x] = 1 => PaysOffer(ledger', x))
      BY <2>1, <3>3 DEF RunsSound
    <3>7. \A v \in Workers : Announcing(v)' => announced'[worker'[v].offer] = 0
      BY <1>0, <2>1, <3>1, <3>4, <3>5 DEF RunsSound
    <3>8. \A v \in Workers : Announcing(v)' \/ worker'[v].stage = "duplicate"
                               => PaysOffer(ledger', worker'[v].offer)
      BY <1>0, <3>1, <3>2, <3>3, <3>5 DEF RunsSound
    <3>9. \A u, v \in Workers :
            Announcing(u)' /\ Announcing(v)' /\ worker'[u].offer = worker'[v].offer => u = v
      BY <1>0, <3>1, <3>5 DEF RunsSound
    <3>10. QED
      BY <3>6, <3>7, <3>8, <3>9 DEF RunsSound
  <2>3. CASE /\ PaysOffer(Paid(o, p), o)
             /\ worker' = [worker EXCEPT ![w].stage = "duplicate"]
             /\ UNCHANGED <<ledger, spent>>
    <3>1. worker'[w].stage = "duplicate" /\ worker'[w].offer = o
      BY <1>0, <2>3, MovedWorker DEF Stages
    <3>2. PaysOffer(ledger, o)
      BY <2>3 DEF PaysOffer, Paid
    <3>3. QED
      BY <1>2, <2>1, <2>3, <3>1, <3>2
  <2>4. CASE worker' = [worker EXCEPT ![w] = Idle] /\ UNCHANGED <<ledger, spent>>
    <3>1. worker'[w].stage = "idle"
      BY <1>0, <2>4, IdleWorker
    <3>2. QED
      BY <1>1, <2>1, <2>4, <3>1 DEF Stages
  <2>5. QED
    BY <1>6, <2>2, <2>3, <2>4 DEF Book
<1>7. CASE ReleaseKey(w)
  <2>1. ledger' = ledger /\ announced' = announced
    BY <1>7 DEF ReleaseKey
  <2>2. CASE worker[w].stage = "booked"
    <3>1. worker' = [worker EXCEPT ![w].stage = "publish"]
      BY <1>0, <1>7, <2>2 DEF ReleaseKey, AfterRelease
    <3>2. worker'[w].stage = "publish" /\ worker'[w].offer = worker[w].offer
      BY <1>0, <3>1, MovedWorker DEF Stages
    <3>3. \A v \in Workers : /\ Announcing(v)' => /\ Announcing(v)
                                                 /\ worker'[v].offer = worker[v].offer
                             /\ worker'[v].stage = "duplicate" =>
                                  PaysOffer(ledger', worker'[v].offer)
      BY <1>0, <2>1, <2>2, <3>2 DEF Announcing, RunsSound
    <3>4. QED
      BY <2>1, <3>3, SilentStep
  <2>3. CASE worker[w].stage # "booked"
    <3>1. worker' = [worker EXCEPT ![w] = Idle]
      BY <1>7, <2>3 DEF ReleaseKey, AfterRelease
    <3>2. worker'[w].stage = "idle"
      BY <1>0, <3>1, IdleWorker
    <3>3. QED
      BY <1>1, <2>1, <3>2 DEF Stages
  <2>4. QED
    BY <2>2, <2>3
<1>8. CASE Publish(w)
  <2> DEFINE o == worker[w].offer
  <2>1. /\ Announcing(w) /\ o \in Offers /\ ledger' = ledger
        /\ worker' = [worker EXCEPT ![w] = Idle]
    BY <1>0, <1>8 DEF Publish, Announcing
  <2>2. worker'[w].stage = "idle"
    BY <1>0, <2>1, IdleWorker
  <2>3. CASE announced' = announced
    BY <1>1, <2>1, <2>2, <2>3 DEF Stages
  <2>4. CASE announced' = [announced EXCEPT ![o] = @ + 1]
    <3>1. announced[o] = 0 /\ PaysOffer(ledger, o)
      BY <2>1 DEF RunsSound
    <3>2. announced'[o] = 1 /\ \A x \in Offers \ {o} : announced'[x] = announced[x]
      BY <1>0, <2>1, <2>4, <3>1
    <3>3. \A v \in Workers : /\ v = w => ~Announcing(v)'
                             /\ v # w => worker'[v] = worker[v] /\ (Announcing(v)' <=> Announcing(v))
      BY <1>0, <2>2 DEF Announcing
    <3>4. \A v \in Workers : Announcing(v)' => v # w /\ worker[v].offer # o
      BY <2>1, <3>3 DEF RunsSound
    <3>5. \A v \in Workers : Announcing(v)' => worker[v].offer \in Offers
      BY <3>3 DEF Announcing, TypeOK, AccrualTypeOK
    <3>6. \A x \in Offers : announced'[x] \in {0, 1} /\ (announced'[x] = 1 => PaysOffer(ledger', x))
      BY <2>1, <3>1, <3>2 DEF RunsSound
    <3>7. \A v \in Workers : Announcing(v)' => announced'[worker'[v].offer] = 0
      BY <3>2, <3>3, <3>4, <3>5 DEF RunsSound
    <3>8. \A v \in Workers : Announcing(v)' \/ worker'[v].stage = "duplicate"
                               => PaysOffer(ledger', worker'[v].offer)
      BY <2>1, <2>2, <3>3 DEF RunsSound
    <3>9. \A u, v \in Workers :
            Announcing(u)' /\ Announcing(v)' /\ worker'[u].offer = worker'[v].offer => u = v
      BY <3>3 DEF RunsSound
    <3>10. QED
      BY <3>6, <3>7, <3>8, <3>9 DEF RunsSound
  <2>5. QED
    BY <1>8, <2>3, <2>4 DEF Publish
<1>9. QED
  BY <1>3, <1>4, <1>5, <1>6, <1>7, <1>8 DEF WorkerStep, AccrueStep

(***************************************************************************)
(* Lemma: the workers are always sound.                                    *)
(***************************************************************************)
LEMMA RunsAlwaysSound == Spec => []RunsSound
<1>1. Init => RunsSound
  BY DEF Init, AccrualInit, RunsSound, Announcing, Idle
<1>2. TypeOK /\ ChecksHoldAtCommit /\ RunsSound /\ [Next]_vars => RunsSound'
  <2> SUFFICES ASSUME TypeOK, ChecksHoldAtCommit, RunsSound, [Next]_vars
               PROVE  RunsSound'
      OBVIOUS
  <2>1. CASE UNCHANGED <<ledger, announced, worker>>
    BY <2>1 DEF RunsSound, Announcing, PaysOffer
  <2>2. QED
    BY <2>1, WorkerKeepsRuns DEF Next, vars, accrualVars, AccrualNext, WorkerStep, Buy,
                                 SwitchCampaign
<1>3. QED
  BY <1>1, <1>2, TypesHold, ChecksAlwaysHold, PTL DEF Spec

(***************************************************************************)
(* Theorem: an accrual is announced at most once, and only after its       *)
(* COMMIT, however often its purchase is delivered.                        *)
(***************************************************************************)
THEOREM AccrualsAreAnnouncedOnce == Spec => []AnnouncedAtMostOnce
<1>1. LedgerSound /\ RunsSound => AnnouncedAtMostOnce
  <2> SUFFICES ASSUME PaidOnce, RunsSound, NEW o \in Offers
               PROVE  announced[o] <= Cardinality({r \in ledger : r.offer = o})
      BY DEF LedgerSound, AnnouncedAtMostOnce
  <2> DEFINE rows == {r \in ledger : r.offer = o}
  <2>1. rows = {} \/ \E r : rows = {r}
    <3>1. \A r, q \in rows : r = q
      BY DEF PaidOnce
    <3> HIDE DEF rows
    <3>2. ASSUME NEW r \in rows
          PROVE  rows = {r}
      BY <3>1
    <3>3. QED
      BY <3>2
  <2>2. PaysOffer(ledger, o) => rows # {}
    BY DEF PaysOffer
  <2> HIDE DEF rows
  <2>3. Cardinality(rows) \in {0, 1} /\ (rows # {} => Cardinality(rows) = 1)
    BY <2>1, FS_EmptySet, FS_Singleton
  <2>4. announced[o] \in {0, 1} /\ (announced[o] = 1 => rows # {})
    BY <2>2 DEF RunsSound
  <2>5. announced[o] <= Cardinality(rows)
    BY <2>3, <2>4
  <2>6. QED
    BY <2>5 DEF rows
<1>2. QED
  BY <1>1, LedgerAlwaysSound, RunsAlwaysSound, PTL

(***************************************************************************)
(* Theorem: a key disappears only because its TTL ended, its offer was     *)
(* paid, or the request that wrote it is being voided.                     *)
(***************************************************************************)
THEOREM KeysOfLiveOffersStay == Spec => LiveKeysAreKept
<1> DEFINE Kept == \A s \in Slots : hotKey[s] # NoKey /\ hotKey'[s] = NoKey =>
                     \/ hotKey[s].endsAt <= clock'
                     \/ \E r \in ledger : r.offer = hotKey[s].offer
                     \/ attempt[hotKey[s].attempt].phase = "voiding"
<1>1. TypeOK /\ RunsSound /\ [Next]_vars => [Kept]_vars
  <2> SUFFICES ASSUME TypeOK, RunsSound, [Next]_vars, NEW s \in Slots,
                      hotKey[s] # NoKey, hotKey'[s] = NoKey
               PROVE  \/ hotKey[s].endsAt <= clock'
                      \/ \E r \in ledger : r.offer = hotKey[s].offer
                      \/ attempt[hotKey[s].attempt].phase = "voiding"
      OBVIOUS
  <2>0. DOMAIN hotKey = Slots
    BY DEF TypeOK, StoreTypeOK
  <2>1. CASE Tick
    BY <2>1 DEF Tick
  <2>2. ASSUME NEW a \in Attempts, Void(a)
        PROVE  attempt[hotKey[s].attempt].phase = "voiding"
    BY <2>0, <2>2 DEF Void
  <2>3. ASSUME NEW cmd \in inflight, RunActivation(cmd)
        PROVE  FALSE
    <3>1. cmd \in Command /\ clock \in Nat
      BY DEF TypeOK, StoreTypeOK, ActivationTypeOK
    <3>2. [offer |-> cmd.offer, attempt |-> cmd.attempt, endsAt |-> clock + cmd.ttl] \in Key
      BY <3>1 DEF Command, Key
    <3>3. QED
      BY <2>0, <2>3, <3>2 DEF RunActivation
  <2>4. ASSUME NEW w \in Workers, ReleaseKey(w)
        PROVE  \E r \in ledger : r.offer = hotKey[s].offer
    <3>1. PaysOffer(ledger, worker[w].offer)
      BY <2>4 DEF ReleaseKey, RunsSound, Announcing
    <3>2. hotKey[s].offer = worker[w].offer
      BY <2>0, <2>4 DEF ReleaseKey, KeyReleased
    <3>3. QED
      BY <3>1, <3>2 DEF PaysOffer
  <2>5. ASSUME UNCHANGED hotKey
        PROVE  FALSE
    BY <2>5
  <2>6. CASE ActivationNext
    BY <2>2, <2>3, <2>5, <2>6
       DEF ActivationNext, RequestStep, Begin, Claim, Reject, Commit, CommitUnacknowledged,
           Accepted, Rollback, LoseVoid, CrashAttempt, LoseActivation, Answer, storeVars
  <2>7. CASE AccrualNext
    BY <2>4, <2>5, <2>7
       DEF AccrualNext, AccrueStep, Buy, SwitchCampaign, Fetch, LockOffer, LockCampaign,
           SkipCampaign, Book, Publish, Fail, storeVars
  <2>8. QED
    BY <2>1, <2>5, <2>6, <2>7 DEF Next, vars, storeVars
<1>2. QED
  BY <1>1, TypesHold, RunsAlwaysSound, PTL DEF Spec, LiveKeysAreKept

-----------------------------------------------------------------------------
(***************************************************************************)
(* Lemma: induction over the subsets of a finite set, with a set of        *)
(* subsets for the property.                                               *)
(***************************************************************************)
LEMMA SubsetInduction ==
  ASSUME NEW S, IsFiniteSet(S), NEW G,
         \A T \in SUBSET S : (\A U \in SUBSET T : U # T => U \in G) => T \in G
  PROVE  S \in G
<1> SUFFICES ASSUME S \notin G PROVE FALSE
    OBVIOUS
<1> DEFINE bad == {T \in SUBSET S : T \notin G}
<1>1. S \in bad
  OBVIOUS
<1>2. IsWellFoundedOn(StrictSubsetOrdering(S), SUBSET S)
  <2>1. FiniteSubsetsOf(S) = SUBSET S
    BY FS_FiniteSubsetsOfFinite
  <2>2. IsWellFoundedOn(StrictSubsetOrdering(S), FiniteSubsetsOf(S))
    BY FS_StrictSubsetOrderingWellFounded
  <2>3. QED
    BY <2>1, <2>2
<1>3. PICK T \in bad : \A U \in bad : <<U, T>> \notin StrictSubsetOrdering(S)
  <2>1. bad \subseteq SUBSET S /\ bad # {}
    BY <1>1
  <2> HIDE DEF bad
  <2>2. QED
    BY <1>2, <2>1, WFMin
<1>4. ASSUME NEW U \in SUBSET T, U # T
      PROVE  U \in G
  <2>1. <<U, T>> \in StrictSubsetOrdering(S)
    BY <1>3, <1>4 DEF StrictSubsetOrdering
  <2>2. QED
    BY <1>3, <1>4, <2>1
<1>5. QED
  BY <1>3, <1>4

(***************************************************************************)
(* The amount of a set of rows, counted: a row has a cell per kopeck.      *)
(***************************************************************************)
Cells(rows) == {cell \in rows \X (Nat \ {0}) : cell[2] <= cell[1].amount}

(***************************************************************************)
(* Lemma: a further row brings as many cells as its amount.                *)
(***************************************************************************)
LEMMA CellsOfOneMore ==
  ASSUME NEW rows, NEW row, row \notin rows, row.amount \in Nat, IsFiniteSet(Cells(rows))
  PROVE  /\ IsFiniteSet(Cells(rows \cup {row}))
         /\ Cardinality(Cells(rows \cup {row})) = Cardinality(Cells(rows)) + row.amount
<1> PICK n \in Nat : n = row.amount
    OBVIOUS
<1> DEFINE own == {row} \X (1 .. n)
<1>1. Cells(rows \cup {row}) = Cells(rows) \cup own /\ Cells(rows) \cap own = {}
  BY DEF Cells
<1>2. IsFiniteSet({row}) /\ Cardinality({row}) = 1
  BY FS_Singleton
<1>3. IsFiniteSet(1 .. n) /\ Cardinality(1 .. n) = n
  <2>1. 1 \in Int /\ n \in Int
    OBVIOUS
  <2>2. IsFiniteSet(1 .. n)
    BY <2>1, FS_Interval
  <2>3. Cardinality(1 .. n) = IF 1 > n THEN 0 ELSE n - 1 + 1
    BY <2>1, FS_Interval
  <2>4. QED
    BY <2>2, <2>3
<1>4. IsFiniteSet(own) /\ Cardinality(own) = n
  <2>1. IsFiniteSet(own) /\ Cardinality(own) = Cardinality({row}) * Cardinality(1 .. n)
    BY <1>2, <1>3, FS_Product
  <2>2. QED
    BY <1>2, <1>3, <2>1
<1> HIDE DEF own
<1>5. Cardinality(Cells(rows)) \in Nat /\ Cardinality({}) = 0
  BY FS_CardinalityType, FS_EmptySet
<1>6. /\ IsFiniteSet(Cells(rows) \cup own)
      /\ Cardinality(Cells(rows) \cup own)
           = Cardinality(Cells(rows)) + Cardinality(own) - Cardinality(Cells(rows) \cap own)
  BY <1>4, FS_Union
<1>7. Cardinality(Cells(rows) \cap own) = 0
  BY <1>1, <1>5
<1>8. Cardinality(Cells(rows) \cup own) = Cardinality(Cells(rows)) + row.amount
  BY <1>4, <1>5, <1>6, <1>7
<1>9. QED
  BY <1>1, <1>6, <1>8

(***************************************************************************)
(* Lemma: Total, which folds over the rows in some order, counts the cells *)
(* of the rows, so the order does not matter.                              *)
(***************************************************************************)
LEMMA TotalCounts ==
  ASSUME NEW rows, IsFiniteSet(rows), \A r \in rows : r.amount \in Nat
  PROVE  IsFiniteSet(Cells(rows)) /\ Total(rows) = Cardinality(Cells(rows))
<1> DEFINE pick(s) == CHOOSE x \in s : TRUE
           Sums(f) == f = [s \in SUBSET rows |-> IF s = {} THEN 0
                                                 ELSE pick(s).amount + f[s \ {pick(s)}]]
           count == [s \in SUBSET rows |-> Cardinality(Cells(s))]
           Finite == {s \in SUBSET rows : IsFiniteSet(Cells(s))}
<1>1. Cells({}) = {} /\ IsFiniteSet({}) /\ Cardinality({}) = 0
  BY FS_EmptySet DEF Cells
<1>2. ASSUME NEW s \in SUBSET rows, s # {}
      PROVE  /\ pick(s) \in s
             /\ s \ {pick(s)} \in SUBSET s /\ s \ {pick(s)} # s
             /\ s = (s \ {pick(s)}) \cup {pick(s)}
  BY <1>2
<1> HIDE DEF pick
<1>3. \A s \in SUBSET rows : IsFiniteSet(Cells(s))
  <2> SUFFICES ASSUME NEW S \in SUBSET rows PROVE S \in Finite
      OBVIOUS
  <2>1. ASSUME NEW T \in SUBSET S, \A U \in SUBSET T : U # T => U \in Finite
        PROVE  T \in Finite
    <3>1. CASE T = {}
      BY <1>1, <3>1
    <3>2. CASE T # {}
      <4>1. pick(T) \in T /\ T \ {pick(T)} \in Finite /\ T = (T \ {pick(T)}) \cup {pick(T)}
        BY <1>2, <2>1, <3>2
      <4>2. IsFiniteSet(Cells((T \ {pick(T)}) \cup {pick(T)}))
        BY <4>1, CellsOfOneMore
      <4>3. QED
        BY <4>1, <4>2
    <3>3. QED
      BY <3>1, <3>2
  <2>2. IsFiniteSet(S)
    BY FS_Subset
  <2> HIDE DEF Finite
  <2>3. QED
    BY <2>1, <2>2, SubsetInduction
<1>4. Sums(count)
  <2>1. \A s \in SUBSET rows : s # {} =>
          Cardinality(Cells(s)) = pick(s).amount + count[s \ {pick(s)}]
    <3> SUFFICES ASSUME NEW s \in SUBSET rows, s # {}
                 PROVE  Cardinality(Cells(s)) = pick(s).amount + count[s \ {pick(s)}]
        OBVIOUS
    <3>1. /\ pick(s) \in s /\ s \ {pick(s)} \in SUBSET rows
          /\ s = (s \ {pick(s)}) \cup {pick(s)}
      BY <1>2
    <3>2. Cardinality(Cells((s \ {pick(s)}) \cup {pick(s)}))
            = Cardinality(Cells(s \ {pick(s)})) + pick(s).amount
      BY <1>3, <3>1, CellsOfOneMore
    <3>3. Cardinality(Cells(s \ {pick(s)})) \in Nat
      BY <1>3, <3>1, FS_CardinalityType
    <3>4. count[s \ {pick(s)}] = Cardinality(Cells(s \ {pick(s)}))
      BY <3>1
    <3>5. pick(s).amount \in Nat
      BY <3>1
    <3>6. Cardinality(Cells(s)) = Cardinality(Cells(s \ {pick(s)})) + pick(s).amount
      BY <3>1, <3>2
    <3> HIDE DEF count
    <3>7. QED
      BY <3>3, <3>4, <3>5, <3>6
  <2>2. QED
    BY <1>1, <2>1
<1>5. ASSUME NEW f, Sums(f)
      PROVE  f[rows] = Cardinality(Cells(rows))
  <2> DEFINE Right == {s \in SUBSET rows : f[s] = Cardinality(Cells(s))}
  <2>1. ASSUME NEW T \in SUBSET rows, \A U \in SUBSET T : U # T => U \in Right
        PROVE  T \in Right
    <3>1. CASE T = {}
      BY <1>1, <1>5, <3>1
    <3>2. CASE T # {}
      <4>1. T \ {pick(T)} \in Right
        BY <1>2, <2>1, <3>2
      <4>2. f[T] = pick(T).amount + f[T \ {pick(T)}]
        BY <1>5, <3>2
      <4>3. count[T] = pick(T).amount + count[T \ {pick(T)}]
        BY <1>4, <3>2
      <4>4. QED
        BY <4>1, <4>2, <4>3
    <3>3. QED
      BY <3>1, <3>2
  <2> HIDE DEF Right
  <2>2. rows \in Right
    BY <2>1, SubsetInduction
  <2>3. QED
    BY <2>2 DEF Right
<1>6. Sums(CHOOSE f : Sums(f))
  <2> HIDE DEF Sums, count
  <2>1. QED
    BY <1>4
<1>7. Total(rows) = (CHOOSE f : Sums(f))[rows]
  BY DEF Total, MapThenSumSet, MapThenFoldSet, pick
<1> HIDE DEF Sums
<1>8. QED
  BY <1>3, <1>5, <1>6, <1>7

(***************************************************************************)
(* Lemma: no rows total nothing.                                           *)
(***************************************************************************)
LEMMA TotalOfNone == Total({}) = 0
<1>1. IsFiniteSet({}) /\ Cardinality({}) = 0 /\ Cells({}) = {}
  BY FS_EmptySet DEF Cells
<1>2. QED
  BY <1>1, TotalCounts

(***************************************************************************)
(* Lemma: a further row adds its amount to the total.                      *)
(***************************************************************************)
LEMMA TotalOfMore ==
  ASSUME NEW rows, IsFiniteSet(rows), \A r \in rows : r.amount \in Nat,
         NEW row, row \notin rows, row.amount \in Nat
  PROVE  /\ Total(rows) \in Nat
         /\ Total(rows \cup {row}) = Total(rows) + row.amount
<1>1. IsFiniteSet(Cells(rows)) /\ Total(rows) = Cardinality(Cells(rows))
  BY TotalCounts
<1>2. IsFiniteSet(rows \cup {row})
  BY FS_AddElement
<1>3. Total(rows \cup {row}) = Cardinality(Cells(rows \cup {row}))
  BY <1>2, TotalCounts
<1>4. QED
  BY <1>1, <1>3, CellsOfOneMore, FS_CardinalityType

(***************************************************************************)
(* Lemma: some of the rows total no more than all of them.                 *)
(***************************************************************************)
LEMMA TotalOfFewer ==
  ASSUME NEW rows, IsFiniteSet(rows), \A r \in rows : r.amount \in Nat,
         NEW some \in SUBSET rows
  PROVE  Total(some) \in Nat /\ Total(rows) \in Nat /\ Total(some) <= Total(rows)
<1>1. IsFiniteSet(some)
  BY FS_Subset
<1>2. IsFiniteSet(Cells(rows)) /\ Total(rows) = Cardinality(Cells(rows))
  BY TotalCounts
<1>3. Total(some) = Cardinality(Cells(some))
  BY <1>1, TotalCounts
<1>4. Cells(some) \subseteq Cells(rows)
  BY DEF Cells
<1>5. QED
  BY <1>2, <1>3, <1>4, FS_Subset, FS_CardinalityType

(***************************************************************************)
(* The ledger is finite and every budget is its sum.                       *)
(***************************************************************************)
BudgetSound == IsFiniteSet(ledger) /\ BudgetIsTheLedger

(***************************************************************************)
(* Lemma: a payment adds one row to its campaign, and its amount to spent. *)
(***************************************************************************)
LEMMA StepKeepsBudgets ==
  TypeOK /\ ChecksHoldAtCommit /\ BudgetSound /\ [Next]_vars => BudgetSound'
<1> SUFFICES ASSUME TypeOK, ChecksHoldAtCommit, BudgetSound, [Next]_vars
             PROVE  BudgetSound'
    OBVIOUS
<1> USE DEF TypeOK, StoreTypeOK, AccrualTypeOK
<1>1. CASE UNCHANGED <<ledger, spent>>
  BY <1>1 DEF BudgetSound, BudgetIsTheLedger
<1>2. ASSUME NEW o \in Offers, NEW p \in Purchases, NEW row \in Row, NewPayment(o, p, row)
      PROVE  BudgetSound'
  <2> DEFINE Of(c) == {r \in ledger : r.campaign = c}
  <2>1. row \notin ledger /\ row.amount \in Nat /\ \A r \in ledger : r.amount \in Nat
    BY <1>2 DEF NewPayment, Paid, Row
  <2>2. IsFiniteSet(ledger')
    BY <1>2, FS_AddElement DEF NewPayment, BudgetSound
  <2>3. ASSUME NEW c \in Campaigns
        PROVE  /\ spent'[c] = Total({r \in ledger' : r.campaign = c})
               /\ spent'[c] <= BudgetTotal[c]
    <3>1. IsFiniteSet(Of(c)) /\ row \notin Of(c) /\ \A r \in Of(c) : r.amount \in Nat
      BY <2>1, FS_Subset DEF BudgetSound
    <3>2. spent[c] = Total(Of(c)) /\ spent[c] <= BudgetTotal[c]
      BY DEF BudgetSound, BudgetIsTheLedger
    <3>3. CASE c = row.campaign
      <4>1. {r \in ledger' : r.campaign = c} = Of(c) \cup {row}
        BY <1>2, <3>3 DEF NewPayment
      <4>2. spent'[c] = spent[c] + row.amount /\ spent[c] + row.amount <= BudgetTotal[c]
        BY <1>2, <3>3 DEF NewPayment
      <4> HIDE DEF Of
      <4>3. Total(Of(c) \cup {row}) = Total(Of(c)) + row.amount
        BY <2>1, <3>1, TotalOfMore
      <4>4. QED
        BY <3>2, <4>1, <4>2, <4>3
    <3>4. CASE c # row.campaign
      <4>1. {r \in ledger' : r.campaign = c} = Of(c) /\ spent'[c] = spent[c]
        BY <1>2, <3>4 DEF NewPayment
      <4>2. QED
        BY <3>2, <4>1
    <3>5. QED
      BY <3>3, <3>4
  <2>4. QED
    BY <2>2, <2>3 DEF BudgetSound, BudgetIsTheLedger
<1>3. QED
  BY <1>1, <1>2, PaymentStep

(***************************************************************************)
(* Lemma: the ledger is always finite and the budgets always balance.      *)
(***************************************************************************)
LEMMA BudgetsAlwaysSound == Spec => []BudgetSound
<1>1. Init => BudgetSound
  <2> SUFFICES ASSUME Init PROVE BudgetSound
      OBVIOUS
  <2>1. ledger = {} /\ \A c \in Campaigns : {r \in ledger : r.campaign = c} = {}
    BY DEF Init, AccrualInit
  <2>2. \A c \in Campaigns : spent[c] = 0 /\ BudgetTotal[c] \in Nat
    BY AccrualAssumption DEF Init, AccrualInit
  <2>3. QED
    BY <2>1, <2>2, TotalOfNone, FS_EmptySet DEF BudgetSound, BudgetIsTheLedger
<1>2. TypeOK /\ ChecksHoldAtCommit /\ BudgetSound /\ [Next]_vars => BudgetSound'
  BY StepKeepsBudgets
<1>3. QED
  BY <1>1, <1>2, TypesHold, ChecksAlwaysHold, PTL DEF Spec

(***************************************************************************)
(* Theorem: budget_spent is exactly what the ledger says and stays within  *)
(* budget_total, with any number of workers booking at once.               *)
(***************************************************************************)
THEOREM BudgetsBalance == Spec => []BudgetIsTheLedger
<1>1. BudgetSound => BudgetIsTheLedger
  BY DEF BudgetSound
<1>2. QED
  BY <1>1, BudgetsAlwaysSound, PTL

(***************************************************************************)
(* Lemma: days are in the order of their seconds.                          *)
(***************************************************************************)
LEMMA DaysInOrder ==
  ASSUME NEW s \in Nat, NEW t \in Nat, s <= t
  PROVE  DayStart(s) \in Int /\ DayStart(s) <= s /\ DayStart(s) <= DayStart(t)
<1>1. DayLength \in Nat \ {0}
  BY AccrualAssumption
<1>2. s % DayLength \in Nat /\ DayStart(s) \in Int /\ DayStart(s) <= s
  BY <1>1 DEF DayStart
<1>3. PICK day \in Nat \ {0} : day = DayLength
  BY <1>1
<1>4. \A x \in Nat : /\ x \div day \in Int
                      /\ x = day * (x \div day) + (x % day)
                      /\ 0 <= x % day /\ x % day < day
  OBVIOUS
<1>5. PICK i, j, m, n : /\ i = s \div day /\ m = s % day
                        /\ j = t \div day /\ n = t % day
  OBVIOUS
<1>6. i \in Int /\ j \in Int
  BY <1>4, <1>5
<1>7. PICK x, y \in Int : x = day * i /\ y = day * j
  BY <1>6
<1>8. /\ m \in Int /\ s = x + m /\ 0 <= m
      /\ n \in Int /\ t = y + n /\ n < day
  BY <1>4, <1>5, <1>7
<1>9. x <= y
  <2>1. CASE i <= j
    BY <1>6, <1>7, <2>1
  <2>2. CASE j + 1 <= i
    <3>1. day * (j + 1) <= day * i /\ day * (j + 1) = day * j + day
      BY <1>6, <2>2
    <3>2. y + day <= x
      BY <1>7, <3>1
    <3>3. QED
      BY <1>8, <3>2
  <2>3. QED
    BY <1>6, <2>1, <2>2
<1>10. DayStart(s) = x /\ DayStart(t) = y
  <2>1. DayStart(s) = s - m /\ DayStart(t) = t - n
    BY <1>3, <1>5 DEF DayStart
  <2>2. QED
    BY <1>8, <2>1
<1>11. QED
  BY <1>2, <1>9, <1>10

(***************************************************************************)
(* Where producers' clocks do not run ahead (Skew = 0), a purchase is in   *)
(* the past, and before the accrued_at of every worker that holds it.      *)
(***************************************************************************)
PurchasesInOrder ==
  /\ \A p \in Purchases : bought[p] # Never => bought[p] <= clock
  /\ \A w \in Workers : worker[w].stage # "idle" =>
       bought[worker[w].purchase] <= worker[w].bookedAt

(***************************************************************************)
(* Lemma: no step makes a purchase later than the clock or than the        *)
(* accrued_at of its worker.                                               *)
(***************************************************************************)
LEMMA StepKeepsOrder ==
  Skew = 0 /\ TypeOK /\ ChecksHoldAtCommit /\ PurchasesInOrder /\ [Next]_vars
  => PurchasesInOrder'
<1> SUFFICES ASSUME Skew = 0, TypeOK, ChecksHoldAtCommit, PurchasesInOrder, [Next]_vars
             PROVE  PurchasesInOrder'
    OBVIOUS
<1> USE DEF TypeOK, StoreTypeOK, AccrualTypeOK
<1>1. CASE UNCHANGED accrualVars /\ clock' \in Nat /\ clock <= clock'
  BY <1>1 DEF PurchasesInOrder, accrualVars
<1>2. ASSUME NEW p \in Purchases, NEW ahead \in 0 .. Skew, Buy(p, ahead)
      PROVE  PurchasesInOrder'
  <2>1. bought[p] = Never /\ bought' = [bought EXCEPT ![p] = clock] /\ UNCHANGED <<clock, worker>>
    BY <1>2 DEF Buy, storeVars
  <2>2. \A w \in Workers : worker[w].stage # "idle" => worker[w].purchase # p
    BY <2>1, AccrualAssumption
  <2>3. QED
    BY <2>1, <2>2 DEF PurchasesInOrder
<1>3. ASSUME NEW w \in Workers, WorkerStep(w)
      PROVE  PurchasesInOrder'
  <2>1. UNCHANGED <<clock, bought>>
    BY <1>3 DEF WorkerStep, AccrueStep, Fetch, LockOffer, LockCampaign, SkipCampaign,
                Book, ReleaseKey, Publish, Fail, storeVars
  <2>2. /\ \A v \in Workers : v # w => worker'[v] = worker[v]
        /\ \/ worker'[w] = Idle
           \/ /\ worker[w].stage # "idle"
              /\ worker'[w].purchase = worker[w].purchase
              /\ worker'[w].bookedAt = worker[w].bookedAt
           \/ \E p \in Purchases : /\ bought[p] # Never
                                   /\ worker'[w].purchase = p
                                   /\ worker'[w].bookedAt = clock
    BY <1>3 DEF WorkerStep, AccrueStep, Fetch, LockOffer, LockCampaign, SkipCampaign,
                Book, ReleaseKey, Publish, Fail, AfterRelease, Run
  <2>3. \A p \in Purchases : bought'[p] # Never => bought'[p] <= clock'
    BY <2>1 DEF PurchasesInOrder
  <2>4. ASSUME NEW v \in Workers, worker'[v].stage # "idle"
        PROVE  bought'[worker'[v].purchase] <= worker'[v].bookedAt
    <3>1. CASE v # w
      <4>1. worker'[v] = worker[v] /\ bought' = bought
        BY <2>1, <2>2, <3>1
      <4>2. QED
        BY <2>4, <4>1 DEF PurchasesInOrder
    <3>2. CASE v = w
      <4> PICK q, at : q = worker'[v].purchase /\ at = worker'[v].bookedAt
          OBVIOUS
      <4>1. \/ /\ worker[w].stage # "idle"
               /\ q = worker[w].purchase /\ at = worker[w].bookedAt
            \/ q \in Purchases /\ bought[q] # Never /\ at = clock
        BY <2>2, <2>4, <3>2 DEF Idle
      <4>2. bought[q] <= at
        BY <4>1 DEF PurchasesInOrder
      <4>3. QED
        BY <2>1, <4>2
    <3>3. QED
      BY <3>1, <3>2
  <2>5. QED
    BY <2>3, <2>4 DEF PurchasesInOrder
<1>4. CASE Tick /\ UNCHANGED <<activationVars, accrualVars>>
  BY <1>1, <1>4 DEF Tick
<1>5. CASE ActivationNext /\ UNCHANGED accrualVars
  <2>1. clock' = clock
    BY <1>5, RequestRowStep
  <2>2. QED
    BY <1>1, <1>5, <2>1
<1>6. ASSUME NEW c \in Campaigns, SwitchCampaign(c)
      PROVE  PurchasesInOrder'
  BY <1>6 DEF SwitchCampaign, PurchasesInOrder, storeVars
<1>7. CASE UNCHANGED vars
  BY <1>1, <1>7 DEF vars, storeVars
<1>8. QED
  BY <1>2, <1>3, <1>4, <1>5, <1>6, <1>7 DEF Next, AccrualNext, WorkerStep

(***************************************************************************)
(* Lemma: without clock skew, purchases are always in order.               *)
(***************************************************************************)
LEMMA PurchasesAlwaysInOrder == ASSUME Skew = 0 PROVE Spec => []PurchasesInOrder
<1>1. Init => PurchasesInOrder
  BY DEF Init, AccrualInit, PurchasesInOrder, Idle
<1>2. TypeOK /\ ChecksHoldAtCommit /\ PurchasesInOrder /\ [Next]_vars => PurchasesInOrder'
  BY StepKeepsOrder
<1>3. QED
  BY <1>1, <1>2, TypesHold, ChecksAlwaysHold, PTL DEF Spec

(***************************************************************************)
(* The rows a campaign booked in the day that starts at second d.          *)
(***************************************************************************)
OfDay(c, d) == {r \in ledger : r.campaign = c /\ DayStart(r.bookedAt) = d}

DaysHold ==
  \A c \in Campaigns, d \in Int :
    DailyLimit[c] # NoLimit => Total(OfDay(c, d)) <= DailyLimit[c]

(***************************************************************************)
(* Lemma: a payment is checked against a spent_today that counts every row *)
(* of the day it is booked in: the purchase, whose day the query takes, is *)
(* not later than accrued_at.                                              *)
(***************************************************************************)
LEMMA StepKeepsDays ==
  ASSUME TypeOK, ChecksHoldAtCommit, BudgetSound, PurchasesInOrder, DaysHold, [Next]_vars
  PROVE  DaysHold'
<1> USE DEF TypeOK, StoreTypeOK, AccrualTypeOK
<1>1. CASE UNCHANGED <<ledger, spent>>
  BY <1>1 DEF DaysHold, OfDay
<1>2. ASSUME NEW o \in Offers, NEW p \in Purchases, NEW row \in Row, NewPayment(o, p, row)
      PROVE  DaysHold'
  <2>1. row \notin ledger /\ row.amount \in Nat /\ row.bookedAt \in Nat
        /\ \A r \in ledger : r.amount \in Nat /\ r.bookedAt \in Nat
    BY <1>2 DEF NewPayment, Paid, Row
  <2>2. SUFFICES ASSUME NEW c \in Campaigns, NEW d \in Int, DailyLimit[c] # NoLimit
                 PROVE  Total(OfDay(c, d)') <= DailyLimit[c]
    BY DEF DaysHold
  <2>3. CASE c = row.campaign /\ d = DayStart(row.bookedAt)
    <3>1. OfDay(c, d)' = OfDay(c, d) \cup {row}
      BY <1>2, <2>3 DEF NewPayment, OfDay
    <3>2. PICK dbNow \in row.bookedAt .. clock : Payable(c, p, dbNow)
      BY <1>2, <2>3 DEF NewPayment
    <3>3. bought[p] \in Nat /\ bought[p] <= row.bookedAt /\ row.amount = Cashback[c][p]
      BY <1>2, <2>3 DEF NewPayment, PurchasesInOrder
    <3>4. SmallerOf(bought[p], dbNow) = bought[p]
      BY <2>1, <3>3 DEF SmallerOf
    <3> DEFINE since == {r \in ledger : /\ r.campaign = c
                                        /\ r.bookedAt >= DayStart(bought[p])}
    <3>5. Total(since) + row.amount <= DailyLimit[c]
      BY <2>2, <3>2, <3>3, <3>4 DEF Payable, SpentToday
    <3>6. OfDay(c, d) \subseteq since
      <4>1. ASSUME NEW r \in ledger, DayStart(r.bookedAt) = d
            PROVE  r.bookedAt >= DayStart(bought[p])
        <5>1. r.bookedAt \in Nat /\ row.bookedAt \in Nat
          BY <2>1
        <5>2. DayStart(bought[p]) \in Int /\ DayStart(bought[p]) <= DayStart(row.bookedAt)
          BY <3>3, <5>1, DaysInOrder
        <5>3. DayStart(r.bookedAt) \in Int /\ DayStart(r.bookedAt) <= r.bookedAt
          BY <5>1, DaysInOrder
        <5>4. QED
          BY <2>3, <4>1, <5>1, <5>2, <5>3
      <4>2. QED
        BY <4>1 DEF OfDay
    <3>7. IsFiniteSet(since) /\ \A r \in since : r.amount \in Nat
      BY <2>1, FS_Subset DEF BudgetSound
    <3>8. DailyLimit[c] \in Nat
      BY <2>2, AccrualAssumption
    <3> HIDE DEF since
    <3>9. /\ Total(OfDay(c, d)) \in Nat /\ Total(since) \in Nat
          /\ Total(OfDay(c, d)) <= Total(since)
      BY <3>6, <3>7, TotalOfFewer
    <3>10. Total(OfDay(c, d) \cup {row}) = Total(OfDay(c, d)) + row.amount
      <4>1. IsFiniteSet(OfDay(c, d)) /\ \A r \in OfDay(c, d) : r.amount \in Nat
        BY <3>6, <3>7, FS_Subset
      <4>2. row \notin OfDay(c, d)
        BY <2>1 DEF OfDay
      <4>3. QED
        BY <2>1, <4>1, <4>2, TotalOfMore
    <3>11. QED
      BY <2>1, <3>1, <3>5, <3>8, <3>9, <3>10
  <2>4. CASE ~(c = row.campaign /\ d = DayStart(row.bookedAt))
    <3>1. OfDay(c, d)' = OfDay(c, d)
      BY <1>2, <2>4 DEF NewPayment, OfDay
    <3>2. QED
      BY <2>2, <3>1 DEF DaysHold
  <2>5. QED
    BY <2>3, <2>4
<1>3. QED
  BY <1>1, <1>2, PaymentStep

(***************************************************************************)
(* Theorem: where producers' clocks do not run ahead, a campaign never     *)
(* books more than its daily_limit in a UTC day, with any number of        *)
(* workers.  The midnight run shows that the hypothesis is needed.         *)
(***************************************************************************)
THEOREM DailyLimitsHold == ASSUME Skew = 0 PROVE Spec => []DailyLimitHolds
<1>1. Init => DaysHold
  <2> SUFFICES ASSUME Init, NEW c \in Campaigns, NEW d \in Int, DailyLimit[c] # NoLimit
               PROVE  Total(OfDay(c, d)) <= DailyLimit[c]
      BY DEF DaysHold
  <2>1. OfDay(c, d) = {}
    BY DEF Init, AccrualInit, OfDay
  <2>2. DailyLimit[c] \in Nat
    BY AccrualAssumption
  <2>3. QED
    BY <2>1, <2>2, TotalOfNone
<1>2. TypeOK /\ ChecksHoldAtCommit /\ BudgetSound /\ PurchasesInOrder /\ DaysHold /\ [Next]_vars
      => DaysHold'
  BY StepKeepsDays
<1>3. TypeOK /\ DaysHold => DailyLimitHolds
  <2>1. TypeOK => \A r \in ledger : r.bookedAt \in Nat
    BY DEF TypeOK, AccrualTypeOK, Row
  <2>2. TypeOK => {DayStart(r.bookedAt) : r \in ledger} \subseteq Int
    BY <2>1, DaysInOrder
  <2>3. QED
    BY <2>2 DEF DaysHold, OfDay, DailyLimitHolds
<1>4. QED
  BY <1>1, <1>2, <1>3, TypesHold, ChecksAlwaysHold, BudgetsAlwaysSound,
     PurchasesAlwaysInOrder, PTL DEF Spec

-----------------------------------------------------------------------------
(***************************************************************************)
(* Theorem: the system implements CashbackPromise: answers are given once, *)
(* and every COMMIT of an accrual is a payment the promise allows.         *)
(***************************************************************************)
THEOREM Refinement == Spec => KeepsThePromise
<1>1. Init => Promise!PromiseInit
  BY DEF Init, StoreInit, AccrualInit, Promise!PromiseInit, Answered, Pays, Respondable
<1>2. TypeOK /\ ChecksHoldAtCommit /\ [Next]_vars
      => [Promise!PromiseNext]_Promise!promiseVars
  <2> SUFFICES ASSUME TypeOK, ChecksHoldAtCommit, [Next]_vars
               PROVE  [Promise!PromiseNext]_Promise!promiseVars
      OBVIOUS
  <2> USE DEF TypeOK, StoreTypeOK, AccrualTypeOK
  <2>1. ASSUME NEW o \in Offers, NEW p \in Purchases, NEW row \in Row, NewPayment(o, p, row)
        PROVE  Promise!Pay(o, p)
    <3>1. Answered[o] = "ACCEPTED" /\ UNCHANGED Answered
      BY <2>1 DEF NewPayment, Acceptable, Answered, Respondable
    <3>2. \A pair \in Pays : pair[1] # o /\ pair[2] # p
      BY <2>1 DEF NewPayment, Paid, Pays
    <3>3. Pays' = Pays \cup {<<o, p>>}
      BY <2>1 DEF NewPayment, Pays
    <3>4. QED
      BY <2>1, <3>1, <3>2, <3>3 DEF NewPayment, Promise!Pay
  <2>2. CASE UNCHANGED <<ledger, spent>>
    <3>1. UNCHANGED Pays
      BY <2>2 DEF Pays
    <3>2. CASE UNCHANGED <<status, respondedAt>>
      BY <2>2, <3>1, <3>2 DEF Answered, Promise!promiseVars
    <3>3. ASSUME NEW o \in Offers, NEW answer \in {"ACCEPTED", "DECLINED", "SNOOZE"},
                 NewAnswer(o, answer)
          PROVE  [Promise!PromiseNext]_Promise!promiseVars
      <4>1. CASE answer = "SNOOZE"
        <5>1. UNCHANGED Answered
          BY <3>3, <4>1 DEF NewAnswer, Answered, Respondable
        <5>2. QED
          BY <2>2, <3>1, <5>1 DEF Promise!promiseVars
      <4>2. CASE answer \in {"ACCEPTED", "DECLINED"}
        <5>1. Answered[o] = "OPEN" /\ Answered' = [Answered EXCEPT ![o] = answer]
          BY <3>3, <4>2 DEF NewAnswer, Answered, Respondable
        <5>2. QED
          BY <2>2, <3>1, <4>2, <5>1 DEF Promise!PromiseNext, Promise!Decide
      <4>3. QED
        BY <4>1, <4>2
    <3>4. QED
      BY <3>2, <3>3, AnswerStep
  <2>3. QED
    BY <2>1, <2>2, PaymentStep DEF Promise!PromiseNext
<1>3. QED
  BY <1>1, <1>2, TypesHold, ChecksAlwaysHold, PTL
     DEF Spec, KeepsThePromise, Promise!PromiseSpec
=============================================================================
