# TLA+ models of the cashback platform

The platform offers bank customers cashback on categories they are likely to
buy from. An offer is recommended, accepted on the phone, met by a card
transaction and paid from the budget of a campaign. The money path crosses
Postgres, Redis and Kafka and several services that fail independently, so
most of what can go wrong is in the order of steps: this directory models
those orders, checks them with TLC and proves the central results with TLAPS.

## 1. Inventory

| Component | State it keeps | Operations | Talks to |
|---|---|---|---|
| `mobile_api` respond (`api/mobile.py`) | `recommendations.response_status`, `responded_at`; Redis `accepted_offers:{user}:{mcc}` and a fence per attempt | accept, decline, snooze; activate, commit, void | Postgres row lock, two Lua scripts |
| `transaction_listener` accrual (`accrual/engine.py`, migration 009) | `cashback_accruals`, `budget_spent` | `accrue`: lock the offer, lock the campaign, check, book, release the key, publish | Redis GET, Postgres, Kafka |
| Entitlement (`eligible_campaigns`, `calculate_cashback` of migration 009, rules R2, R5, R6) | the rows they read | what is due, to whom, for which purchase | called by the accrual and by the offer |
| `transaction_listener` loop (`listener.py`, `main.py`) | consumer position, committed offsets, dead letters | `run`, `_process_batch`, `_handle`, `_commit`, `_rewind`, `supervise` | Kafka |
| Notifications (`transaction_listener/app/notification`, `main.py`) | consumer position, `recommendations.channel` | consume, decide, try the chain, record; mark shown in the app | Kafka, providers, Postgres |
| `campaign_manager` campaigns (`api/campaigns.py`, `fsm.py`, `scheduling.py`) | `cashback_campaigns` | create, edit, delete, archive, change status, complete the expired | Postgres, trigger of migration 009 |
| `recommendation_api` serving (`api/recommendations.py`, `bre/`) | Redis `recent_offer:*`, `rec_count:*`; new rows of `recommendations` | rank, rules R1-R7, store, give marks back | Redis, Postgres, Kafka |
| `mobile_api` upstream client (`clients/recommendation_client.py`) | circuit breaker | call, success, failure | recommendation_api |
| Operator accounts and sessions (`api/auth.py`, `api/roles.py`, `security.py`, `rbac.py`) | `admin_users`, `role_permissions`, Redis `auth:refresh:*`, `auth:refresh_fam_revoked:*`, `auth:login_fail:*`, `auth:login_ip:*` | login, refresh, logout, change password, edit a user or a role, throttle | Postgres, Redis |
| Live events (`events.py`, `api/events.py`) | one bounded queue per subscriber, SSE tokens | subscribe, publish, revalidate, shut down | Redis, browsers |
| ML limits (`api/ml_limits.py`, `bre/rules/ml_rate_cap.py`, `scheduling.py`) | table `ml_limits`, Redis snapshot, cache of each process | PUT, publish, republish, R7 | Postgres, Redis |
| ETL (`services/etl`) | staged files, committed offsets, ClickHouse tables | consume, validate, load, commit | Kafka, ClickHouse |
| Feature store (`etl/feature_eng.py`, `feature_store.py`) | ClickHouse features, Redis mirror | compute, mirror, look up, warm | ClickHouse, Redis |
| Model registry (`ml_training`, `model_registry.py`) | stages of the registered versions, the model each process serves | register, promote, roll back, poll, swap | MLflow |
| A/B tests (`api/ab_testing.py`) | `ab_experiments`, `ab_assignments`, `ab_events` | create, start, stop, assign, convert, evaluate | Postgres |
| Reports (`api/analytics.py`, statistics in `api/campaigns.py`, history and balance in `mobile.py`) | none of their own | funnel, KPIs, matrix, channels, cohorts, trend, top campaigns | Postgres |
| Simulator, frontend, demo data, migrations' upgrade path, deployment | see section 5 | | |

How they meet: recommendation_api writes an offer that refers to a campaign;
the notification worker announces it; mobile_api answers it and writes the
Redis key; a purchase from Kafka makes the listener look the key up, lock the
offer row and then the campaign row, and book; campaign_manager changes the
campaign under the same row lock. Nobody calls the listener: Kafka delivers at
least once, and a rebalance may let two listeners work on one partition at the
same time. The ETL reads the purchases a second time and feeds the features
that the next offers are ranked by, with the model the registry calls
Production and the limits the business has set. Operators see all of it in
reports and in the live stream, and change it through their sessions.

What makes each part correct, and what is hard about it:

* **Offer acceptance.** An answer is final. A Redis key names an offer that is
  accepted, unless the request that wrote it is still on its way or could not
  be voided. Hard: the key is written before COMMIT, scripts run after their
  caller gave up, COMMIT can succeed without an acknowledgement.
* **Accrual.** An offer pays once, a purchase is paid once, budget and daily
  limit hold. Hard: redelivery, two workers, keys that two offers share,
  checks made before the money is spent, midnight.
* **Entitlement.** The scale is progressive, the minimum of the category goes
  before that of the campaign wherever it is read, and no rule before the offer
  refuses what the accrual would pay. Hard: three pieces of code read the same
  terms, tiers come in any order and may overlap.
* **Listener loop.** No message is skipped, no offset is committed past an
  unfinished message, one bad message stops nobody else. Hard: batches over
  several partitions, seeks, rebalances in the background, crashes between an
  effect and its commit. The offset passes every outcome that is not a retryable
  failure, skips included, so what comes first decides: a purchase must be paid
  if it is due before a worker meets it, and nothing brings back one that was
  not.
* **Notifications.** An event is handled in the end, and the recorded channel
  is one that worked. Hard: adapters that fail with their message on the way,
  a second writer of the channel, a supervisor around two loops.
* **Campaign lifecycle.** What was announced is what is paid, a closed campaign
  stays closed, only drafts vanish. Hard: status changes read without a lock
  and update with a compare-and-set, while edits, deletions, the scheduler,
  offers and accruals touch the same row.
* **Contact policy.** No campaign is shown twice, the daily limit holds, marks
  of offers nobody saw are given back. Hard: GET and SETEX are separate awaits,
  and requests of one user overlap (mobile_api tries again after a timeout). The
  code cannot keep the policy outright then; what can be asked is that nothing
  breaks it but a request that reads between the GET and the SETEX of another.
* **Circuit breaker.** Open exactly when upstream keeps failing; it does not
  outlive the outage. Hard: calls admitted before it opened answer after it.
* **Sessions and accounts.** A refresh token is exchanged once, a revoked
  family ends, a token knows the password it was issued for, a lockout is
  strict and ends. Hard: parallel refreshes, bcrypt between a read and a write,
  counters in two Redis calls.
* **Live events.** Limits hold, a stream of somebody who lost his rights ends,
  a shutdown drains. Hard: two places unsubscribe, the queue may be full when
  the closing signal comes.
* **ML limits, features, models.** What is set last reaches every process, and
  what is older does not come back. Hard: nothing orders the publishers, or the
  two writers of a cache; a PUT publishes rows as its session remembers them; a
  lookup spans an await; the registry fails while it is asked.
* **ETL.** A message is loaded once and none is lost. Hard: four tasks, each
  retried from its beginning, a buffer in RAM that a crash may empty between two
  calls of the loader, a look for duplicates that is limited to some days.
* **A/B tests and reports.** A user is in one variant, a verdict names the
  better one, reports agree. Hard: requests that lock nothing; the same rows
  counted by a dozen statements with different filters, some of them only for
  the campaigns that are underway.

The hazards, each at its line and with the properties aimed at it, are in
`PROJECT.json`.

## 2. Modules

| Module | Models | Notes |
|---|---|---|
| `CashbackStore` | offer rows and their locks, the Redis key of a (user, MCC) slot, the clock | shared by the next two |
| `Activation` | `respond` of mobile_api | one action per await: `Begin`, `Claim` (the conditional UPDATE), `RunActivation` (the script), `Commit`, `CommitUnacknowledged`, `Rollback`, `Void`, `LoseVoid`, `CrashAttempt`; `Reject` (404/409/410), `Answer` (decline, snooze) |
| `Accrual` | `AccrualEngine.accrue` and the SQL it runs | `Fetch` (Redis GET), `LockOffer`, `LockCampaign` / `SkipCampaign`, `Book`, `ReleaseKey`, `Publish`, `Fail`; `SwitchCampaign` stands for campaign_manager |
| `CashbackSystem` | the composition of the three and its safety properties | |
| `Deliveries` | the purchases the listener has an outcome for, and what Kafka still has to bring | extends `CashbackSystem`; `PassOver` (no key), `Meet`, `Accrue`, `Break`, each over the steps of `Accrual`; fairness and `DueIsPaid` |
| `CashbackPromise` | the abstract specification: offers are answered once, paid once, within the budget | refined by `CashbackSystem` with `Answered` and `Pays` |
| `Entitlement` | `eligible_campaigns`, `calculate_cashback`, the checks of the accrual and rules R2, R5, R6 for one client and one MCC | the tiers in turn, by an order that sorts them; a reference defines the scale kopeck by kopeck |
| `ListenerOffsets` | the listener loop and the consumer group | what a message does is `Accrual`; here it is done, dead-lettered or neither |
| `Notifications` | consumer, decision, chain of adapters, recorded channel, supervisor | |
| `CampaignLifecycle` | campaign_manager's handlers and completion job, with the parts of recommendation_api and the listener that refer to a campaign | `...Begin` is the part up to the last read, `...Commit` the write and the commit behind it |
| `ShownOffers` | marks, counter and shown offers of one user, and the contact policy | extended by the next; `contended` and `raced` only record, for the policy, which campaigns two requests were marking at once and whether two were writing the counter |
| `OfferMarks` | rules R3 and R4 and the release of their marks, for overlapping requests of one user | a GET and a SETEX are two actions |
| `CircuitBreaker` | the breaker in `recommendation_client.py` | |
| `Accounts` | `admin_users`, `role_permissions`, the user management | extended by the next two |
| `Sessions` | login, refresh, logout, change_password | |
| `EventStreams` | broker, SSE tokens, streams, revalidation, shutdown | |
| `LoginThrottle` | the two counters of failed logins | every call to Redis is an action and may fail |
| `MLLimits` | table, PUTs and what their sessions hold, snapshot, publishers, cache and rule R7 | `Put`, `GetGlobal`, `Commit`, `ReadTable`, `WriteSnapshot`; a lookup of R7 is `Ask`, `Answer`, `Resume` |
| `FeatureStore` | the RFM run, its mirror, lookups and warming | |
| `ModelRollout` | registration, `promote_if_better`, rollback, the watcher | |
| `EtlTables` | what the ETL leaves behind, committed offset, files and tables, and its promises | extended by the next |
| `EtlBatches` | one partition from the committed offset to ClickHouse | an INSERT is one action for each request it is split into (`InsertPart`) |
| `Sums` | SUM over a set of rows | used by `Entitlement` and the next two |
| `ABTests` | one experiment from creation to verdict | |
| `Reports` | every report as an operator on the rows | |
| `MCCashbackSystem`, `MCLimits`, `MCProgress`, `MCDelivery`, `MCServices`, `MCCampaigns`, `MCOperators`, `MCABTests` | the instances for TLC | |
| `CashbackSystem_proofs`, `ListenerOffsets_proofs`, `Accounts_proofs`, `Sessions_proofs`, `Campaigns_proofs`, `EtlBatches_proofs`, `Serving_proofs`, `Figures_proofs` | theorems | see section 4; modules that share a proof or an MC module have names of their own (`BreakerNext`, `NoticesNext`, `ThrottleNext`, `TermsNext`, `ReportsNext`, `StreamsNext`, `LimitsNext`, `FeaturesNext`, `RolloutNext`) |

How state corresponds: a variable is named after the column, key or attribute
it stands for (`status` is `recommendations.response_status`, `spent` is
`budget_spent`, `hotKey` the Redis key, `position` the consumer's position).
`attempt`, `worker`, `request`, `slice`, `task`, `edit`, `conn` hold what a
running handler knows in its local variables, so a crash is an action that
forgets them. A row lock is a variable that holds its owner; ending a
transaction releases it in the same step. `checked` in `LoginThrottle`, `sent`
in `Notifications`, `contended` and `raced` in `ShownOffers`, `wiped` in
`EtlTables` and `handled` in `Deliveries` only record what happened, for the
properties and the fairness.
`PROJECT.json` maps every definition to its lines.

Abstractions worth knowing:

* A slot is one (user, MCC) pair. In `Accrual` the consent, segment and score
  that `eligible_campaigns` also reads are folded into "the campaign is not
  live" and `calculate_cashback` is a constant function; `Entitlement` has both
  condition by condition, for purchases that are handled one after another.
* Redis TTLs: the key of an offer ends when the offer does, by the database's
  clock (`Ttl`), and the model expires it in `Tick`. The fence of a voided
  attempt lives 24 h in the code and for ever in the model: a script still in
  flight after a day is not considered.
* `now()` in Postgres is the start of the transaction. `Begin` and
  `StatusBegin` record it; an accrual's `dbNow` is any instant between its
  `accrued_at` and the check.
* One UPDATE and the COMMIT behind it are one step where nothing is read in
  between.
* In `OfferMarks` a mark that R3 set stays when R4, R5 or R6 rejects the
  candidate, as in the code (`docs/AUDIT.md:554` lists it as open). The horizon
  is one day, so no mark expires.
* A half-open breaker in the code admits every call, and is not opened again
  when a probe fails; the model does the same. The docstring
  (`recommendation_client.py:31`) speaks of a single probe.
* `Notifications` and `EtlBatches` have one partition: the code handles
  partitions independently there. An offer has one event, which Kafka may
  deliver again.
* In `Sessions` a token is a jti; its signature and expiry are taken for
  granted, and the horizon is one lifetime. A leaked token is one that anybody
  presents at any time: every call may carry any issued token.
* In `LoginThrottle` all requests come from one IP, so that the pair counter of
  every e-mail and the IP counter meet; a counter above its limit is one value.
* `MLLimits` has one bucket and the global row. A PUT remembers the rows it
  touched until it has published them; of several buckets in one payload it
  keeps the last, because a session holds its rows weakly, or all of them.
* `EtlBatches`: a day is all there is of `transaction_date`, and the server's
  time zone is that of the files. Rows that a crash of ClickHouse takes from the
  buffer between their INSERT and OPTIMIZE TABLE are recorded in `wiped`; the
  loader gets no error and goes on.
* `EventStreams`: the text of an event is left out, a queue holds "event" or
  "closing".
* `ModelRollout`: a trained model is its score and the sample it was trained
  on; PSI and AUC are compared, not computed. `FeatureStore`: a vector is the
  number of purchases it was computed from.
* `Reports`: a month is the unit of time and of periods; each offer's purchase
  amount and cashback are constants; rates and percentages that only divide two
  of the numbers are left out, `_safe_pct` excepted.

## 3. Runs

Most runs put several small systems side by side: they share no state, and the
first state chooses (`part`) which of them runs, so that a run is one question
about several components and not their product. The variables of the others
keep one initial value. Only names of the run's module are given values in a
`.cfg`.

`CHECK_DEADLOCK FALSE` appears where the bounded instance runs out of things to
do (purchases, attempts, seconds, messages, requests or faults are finite). In
`promotion`, where versions, comparisons and polls can always go on, deadlock
is checked.

| Run | Instance | What it shows |
|---|---|---|
| `single_use` | 2 offers of 2 campaigns in one slot, 1 purchase, 2 attempts, 2 workers, time 0..2, expiry at 1 and 2 | payment at most once, only of committed accepts; keys name accepted offers; answers are final; keys of live offers are not deleted |
| `limits` | one instance of `CashbackSystem` with 2 campaigns, 4 offers, 3 purchases, 2 attempts and 2 workers, of which each part uses some. *budget*: 2 offers of one campaign in one slot, 2 purchases worth 2 and 1, budget 2. *days*: 2 clients who have accepted, 2 purchases, 2 days of one second, daily limit for one accrual a day. *terms*: 2 campaigns, one flat and one of 6 kinds (flat, progressive, unordered, overlapping, with each limit and filter, and not listed), purchases of 0..7, consent given and withdrawn, midnight, closing | replays and second purchases pay and announce nothing; no overspending; refinement of `CashbackPromise`; the limit holds across midnight; offer, eligibility and cashback agree on the terms |
| `progress` | *accruals*: `Deliveries` with 1 offer, 1 purchase, 1 attempt, 2 workers, time 0..1. *offsets*: 2 partitions of 2 messages, 1 listener, a bad and a stuck message, 2 crashes or rebalances. *throttle*: 2 parallel logins, 1 e-mail, limits 1 and 2, 1 fault | a purchase that is due before a worker meets it, and stays due, is paid; everything that is not behind the stuck message is done; the throttle is strict and every lockout ends |
| `delivery` | *offsets*: 2 partitions of 2, 2 listeners, 2 bad messages, 2 crashes or rebalances. *etl*: every log of 3 messages of 5 kinds over 2 ids of which at most one is not good, the last perhaps a repetition under a date two days later; batches of 2, 1 retry a task, 2 faults (one may be a crash of ClickHouse that no call of the loader notices). *notices*: 2 offers, 2 faults, 2 crashes. *marks*: 2 campaigns, 3 requests of which two overlap at a time, limit 2, 2 offers a request | commits cover only done messages; nothing is lost but what the buffer lost, and nothing loaded twice; the recorded channel was used and stays; contact policy |
| `operators` | *sessions*: 2 accounts, 2 refresh tokens, 2 calls and 1 edit at once. *tests*: 3 users in 3 variants, 2 assignments and 2 status changes at once, up to 2 conversions a user. *reports*: 2 clients, 2 campaigns that may close, 2 offers, 2 months, periods of one month, a year of one month, all filters | one live token a family, tokens know the password, changes end tokens, revoked families end; one assignment, the verdict names the better; reports agree |
| `campaigns` | *campaigns*: 1 campaign, 3 requests, 2 rates, time 0..2. One instance of `EventStreams`, of which each part uses some: *stream*: 1 stream of a clerk whose account and right change; *crowd*: 3 connections of 2 viewers, room for 2, queue of 1 | terms are kept, activation is in time, expired campaigns are closed; types and limits of streams hold, a token opens one, revoked streams end, a shutdown drains |
| `services` | *breaker*: 4 calls, threshold 3, 4 seconds. *notices*: 2 offers, 1 fault, 1 crash. *etl*: 3 messages, the second repeats the first, at most one bad, 1 fault. The limits, with 2 rates, 2 PUTs, 1 job and 1 process, in two parts: *switch*: both PUTs turn the global switch, the second dies before it publishes, one lookup at a time; *bounds*: one PUT at a time moves the upper bound, Redis may lose the snapshot, 2 lookups overlap. *models*: 2 versions, 1 promoter, 1 process, 1 rollback, 2 faults. *features*: 2 readers, 2 purchases, 2 faults | open iff failing, recovers; events are handled; no message blocks; limits and Production reach the processes; an older feature vector that is gone does not come back |
| `accepted_key` | 1 offer, 2 attempts | violation: an accepted offer without its key |
| `midnight` | *days* of `limits`, purchases stamped up to 1 s ahead | violation: daily limit overrun |
| `marks_release` | 2 overlapping requests | violation: a release deletes the mark of a shown offer |
| `promotion` | 3 versions, 1 promoter, scores 0..2, 1 fault | violation: a worse model becomes Production |
| `assigned` | 1 user, 2 assignments and 2 status changes at once | violation: an assignment to a stopped experiment |

Why the bounds are enough to be interesting: every hazard listed needs two
actors on one row, key or partition (two attempts, two workers, two listeners,
two calls with one token, three requests of which one prepares the state that
two others race on), and one event in between: an expiry, a midnight, a crash,
a second offer on the same key. Each instance has those and little else. A
second slot or campaign matters only where a lock or a sum spans them (*days*,
`single_use`), a second partition where one must not stall the other
(*offsets*). Two faults are the least with which a recovery can fail. The terms
of *terms* are one campaign per way the code branches, with amounts on both
sides of every border. Symmetry (attempts, workers; listeners and partitions of
`delivery`; tokens and calls) is used only in runs without liveness, over sets
whose members nothing tells apart.

Every property of a passing run has a mutant in the module it is about (marked
`Mutant` in the comments): a plausible bug of that code which breaks it.

### Fairness

Where parts run side by side, a condition is put on a disjunction with one
action of each part; `part` never changes, so this says the same as one
condition on each action, and keeps the number of conditions small.

* `Deliveries!FairDeliveriesSpec`: Postgres hands a row lock to its waiters in
  turn, so steps that wait for a lock are strongly fair; `Book` is strongly fair
  because a transaction does not fail for ever just before its COMMIT
  (otherwise the message would be stuck, see below). Running requests are weakly
  fair. Kafka is bound to deliver a purchase only while nobody has an outcome
  for it (`Deliver`, strongly fair, as a worker must be free): the commit passes
  every outcome, paid or skipped, and only a failure seeks back. That it may
  come again after that, because a commit failed or the partition moved, is
  possible but never relied on. Customers, operators, failures and time are not
  fair.
* `ListenerOffsets!ShuffledSpec`: the loop polls, commits and is restarted by
  `supervise`; an owner is found for a partition. A message that is not stuck
  does not fail for ever (strong fairness of `Handle`). Each partition with
  records comes first in a batch now and then, since aiokafka shuffles its
  fetch requests and returns partitions in the order of the responses; without
  that, a stuck message that always comes first would starve the others.
* `LoginThrottle`: a request that has begun runs on, time passes in Redis, and
  somebody goes on trying with every e-mail. The last is needed: a key whose
  EXPIRE failed is repaired only by a later attempt, and stays if there is none
  (nobody is locked out by it then).
* `CampaignLifecycle!FairSpec`: the scheduler's job and the clock. No request
  is fair.
* `EventStreams`: the loops of an open stream (deliver, revalidate) and its
  handler run on. Operators and clients are not fair.
* `CircuitBreaker!FairSpec`: clients keep asking, calls end, time passes. The
  health of recommendation_api is not fair.
* `Notifications`: the consumer and the supervisor run on, faults are bounded.
* `EtlBatches`: Airflow runs the tasks and retries them, ClickHouse comes back,
  Kafka hands out batches now and then.
* `MLLimits`: the republish job runs, and its read and its write do not fail
  for ever; caches expire and evaluations go on. `ModelRollout`: the watcher
  polls, and a load does not fail for ever. PUTs, promotions and faults are not
  fair. `FeatureStore` assumes nothing: what it promises is an action property.

### Findings

* `accepted_key`: `respond` takes every exception out of the transaction for a
  rollback. If COMMIT was applied and only the acknowledgement lost, the void
  deletes the key of an accepted offer and a retry gets 409: the offer can
  never be met by a purchase.
* `midnight`: `accrued_at` is the listener's clock before the transaction,
  `spent_today` is counted from the transaction's own time. A purchase stamped
  ahead of the clock and processed over midnight is checked against one day
  and booked in the other.
* `marks_release`: releasing a mark assumes that no other request set it. With
  two overlapping requests the limit of R4 may be overrun as well, for the same
  reason: the counter is read and written in separate awaits. `ContactPolicy`
  says that this is all that breaks the policy.
* `promotion`: `_current_production` answers a failure of the registry as "there
  is no Production", and the run is promoted without either gate.
* `assigned`: the status of an experiment is read, not locked, before the
  INSERT of an assignment.

## 4. Theorems

TLAPS checks these for every value of the constants that satisfies the named
assumptions: `StoreAssumption`, `NoOfferAssumption`, `AccrualAssumption`,
`EntitlementAssumption`, `ListenerAssumption`, `NotificationsAssumption`,
`LifecycleAssumption`, `BreakerAssumption`, `AccountsAssumption`,
`SessionsAssumption`, `StreamsAssumption`, `ABAssumption` and
`ReportsAssumption`, and, as hypotheses of the theorems because their
modules are instantiated with several values, `LogsAssumption` and
`BoundsAssumption` (`EtlBatches`),
`MarksAssumption` (`OfferMarks`), `ThrottleAssumption` (`LoginThrottle`),
`MLLimitsAssumption`, `FeatureAssumption` and `RolloutAssumption`. They say that constants
are of the right kind, that sets the code counts are finite (a log, the active
campaigns, the rows of a report), that bounds are numbers and that the model values for "none" are no
real value. TLC evaluates all of them. `ABAssumption` also says
`10 * MinN > TrendSquared`, ten times the square of z for a trend: an experiment
is not judged on fewer observations than could tell anything. The code's 200
(`ab_min_observations`) and 1.28 satisfy it. One result needs more, a hypothesis
that the code does *not* guarantee: `DailyLimitsHold` is about purchases that
are never stamped ahead of the clock (`Skew = 0`); the run `midnight` is the
counterexample without it.

`CashbackSystem_proofs`:

* `TypesHold`: `Spec => []TypeOK`.
* `ChecksAlwaysHold`: `ChecksHoldAtCommit` is inductive together with
  `TypeOK`. It says that a transaction between its check and its COMMIT holds
  the locks it took and that what it checked is still true. Each action either
  belongs to the lock's owner or cannot touch the row; the clock moves, but the
  checks are about the instant read at the start.
* `AnswersStayFinal`: only an attempt or `Answer` whose offer is still
  respondable writes `status`.
* `KeysNameAcceptedOffers` and `KeysOfLiveOffersStay`: a key alone does not say
  who wrote it or whether he will commit, so the invariant `KeysSound`
  (`KeysAlwaysSound`) follows the attempt: at most one script in flight an
  attempt and none once it has written or committed, a voided attempt left its
  fence, and a key belongs to an attempt that wrote it, which is committed, is still
  to commit or be voided, or lost its void. That a script sent before the void
  cannot write after it is the fence conjunct; without it the invariant is not
  inductive.
* `SingleUse` and `OnlyAcceptedOffersPay`: the invariant `LedgerSound`
  (`PaidOnce`, `PaidOffersWereAccepted`, budgets) is preserved because `Book`
  rechecks the ledger and, by `ChecksHoldAtCommit`, the offer is still
  acceptable and the campaign's budget still has room. Without
  `ChecksHoldAtCommit` it is not inductive: `Book` itself looks at neither.
* `AccrualsAreAnnouncedOnce`: `RunsSound` adds that whoever is between COMMIT
  and publishing is alone with an offer that is paid and not announced. Two
  workers cannot both be there, since the second finds the offer paid.
* `BudgetsBalance`: `budget_spent` equals the sum of the ledger and stays
  within the budget, for ledgers of any size. `Total`, the model's sum, is the
  number of cells (row, kopeck) of a set of rows, so that adding a row adds its
  amount follows from the cardinality of a union. `BudgetSound` adds
  that the ledger is finite, which such a count needs.
* `DailyLimitsHold`: the query counts the day of the *purchase*, the row is
  booked on the day of `accrued_at`. `PurchasesInOrder` says that no purchase
  is later than the clock or than the `accrued_at` of its worker, and `DaysHold`
  is the limit for each day; together they are inductive when `Skew = 0`.
* `Refinement`: `Spec => KeepsThePromise`. `Accepted` and a decline map to
  `Decide`, a booking to `Pay`, everything else to a stutter.

`ListenerOffsets_proofs`: the inductive invariant `IInv` adds to the properties
that a batch is well formed (`BatchOK`), that everything between the start of a
slice and its next message is done (`SlicesSafe`), and that everything below a
listener's position which is not in its batch is done (`PositionsSafe`),
whether or not it still owns the partition. From it follow `TypesHold`,
`NothingIsSkipped` (`DoneIsPrefix`, which no run repeats) and `CommitsAreSafe`.

The same module has the other loop of the process. `NoticesInv` (`NoticesHold`)
says that the event at hand is one that was fetched, that the adapter about to
be recorded has delivered, and that no supervised loop comes to its end by
itself. `ChannelsAreTrue` follows: the UPDATE writes only where there is no
channel, and only what delivered, an adapter that failed after its message had
gone out included. `NoEventIsSkipped` is about the offsets that are committed
past a whole batch: until the process is killed or stopped, what was fetched is
handled or still in the batch (`FetchedIsHandled`, which no run repeats),
because an exception ends one event, not the batch, and a loop breaks only
between two batches.

`Campaigns_proofs`, the campaigns: `IInv` adds to the invariants that an edit or a
deletion under way holds the row of a draft (`LocksHoldDrafts`) and that an
offer on its way to be stored carries the terms its campaign has now
(`OffersCarryTerms`). An edit changes the terms, but only of a draft, and a
draft has no history and no offer on its way; an activation cannot overlap the
edit, since its UPDATE waits for the row. Hence `TermsHold`, `DraftsStayBlank`,
`ArchiveHolds` and, with `HowRowsChange` (the six ways a step changes a row),
`DeletionIsForDrafts`, `ActivationIsInTime` and `ClosingIsFinal`. The runs check
`TermsAreKept` and `ActivatedInTime`; the rest is proved only.

`Accounts_proofs` is what sessions and streams both stand on: the user
management may take a step between any two of theirs. A transaction of an
operator reads the acting account, locks rows, decides and writes; `EditsLocked`
says that one which has read its target holds that row and knows what is in it.
From it, `EditMovesRows` lists what a step may do to the rows (`RowsMove`): a row
keeps its version and everything the version signs, or its version goes up by
one; and rows that somebody else has locked stay as they are. Everything that says "since then
nothing happened, for the version is the same" cites this, and `VersionsGrow`.

`Sessions_proofs`: `SessionsInv` (`SessionsHold`) is
inductive. `LocksHeld`: a transaction that is about to write a row holds it,
and the row is as it was read. `TokensIssued`: whatever is stored, revoked or
presented has been issued. `Singular`: a family has one stored token or one
exchange under way; `OneTokenPerFamily` alone is not inductive, because an
exchange has deleted its token and not yet stored the next. `PasswordsKnown`: a
token or a call with the version of today knew the password of today, and none
has the version of tomorrow; it needs the locks, since `change_password` runs
bcrypt between its read and its write. From it follow
`RefreshTokensAreSingleUse`, `RefreshersKnowThePassword`, `ChangesRevoke`,
`RevokedFamiliesStayRevoked` and `OnlyAdminsMakeAdmins`, which no run checks.

The login throttle is in the same module. `ThrottleInv` relates the number in a
Redis key to attempts that are on their way: the password checks that its
attempts have made, and those that attempts it has counted (`Pending`) may still
make, are together within both the count and the limit. An attempt takes its
place with the INCR, before it knows whether it may go on, and gives it up when
it is refused, fails, dies or checks; a key that ends takes the places it gave
with it. `CountsInOrder` says that an attempt is counted once by each key and
reaches the check unrefused. Hence `GuessesAlwaysBounded`, for any number of
parallel attempts; that a lockout ends is left to `progress`.

`EtlBatches_proofs`: `EtlInv` (`EtlHolds`) says for each step of the daily run
where the messages are. `Staged`: between the committed offset and the end of
the batch a message is dead or in a file, also after a rebalance that set the
position back. `Sorted`: a file is split into rejected rows and a clean file
without repetitions. `Loaded`: files before the one at hand are covered, and so
is the one at hand but for the rows still to do. `Placed`: rows to insert are
not in ClickHouse, rows to flush are in buffer or table unless the server went
down, rows left to set aside are in the table. Rows that the server lost while
they were waiting for their flush are known to it (`gone`) and count as covered
once they are flushed in vain (`wiped`): that is the one way a committed message
may be in no file and in no table. `Finished`: what is to be committed is
covered. `NothingIsLost` needs the first three and the last, `LoadedOnce` needs
`Sorted` and `Placed`. The days that are looked at for a file surround each of
its rows, so that what is inserted under an id the table already has is more
than a day away from it (`NotNearby`). Hence `NoMessageIsLost` and
`TransactionsLoadOnce`, for any log, batch size and number of retries, crashes
and rebalances.

`Campaigns_proofs`, the live events: `StreamsInv` (`StreamsHold`) says who holds
a place in the broker: from acceptance to the first of the two unsubscriptions of
a stream. `PlacesCounted` makes the counter of a user the number of his places,
so unsubscribing twice takes nothing away from another stream. `TokensMarked`
says that a connection past the check of its token holds it marked and alone.
This half asks nothing of accounts and versions. `AccessInv` (`AccessHolds`) is
the other one. `AccessRead`: whatever a token or a stream says of a user was
read in an account that exists, and the account's version has not fallen below
the one read; it needs the edit locks of `Accounts_proofs`. `QueuesBounded`: a
queue is as long as it may be at most, and the closing signal finds room.
Together they give `StreamsTypesHold` and `StreamLimitsHold`, `LimitsHold` of
the run: types, places and one stream a token. `LostAccessStaysLost`
(`LossIsFinal`, which no run repeats) is an action property: once the version of
an account is not the one a token or a stream was opened with, or its role,
status or password is not, no later change makes what is older valid again, so
a revalidation that comes late finds what an early one would have found.

`Serving_proofs`, the marks: `MarksTyped` holds for any number of overlapping
requests; the counter stays in `0 .. Limit` because of what a request read,
however old. `ContactInv` makes `ContactPolicy` inductive, for the same
requests. For a campaign no two of them were marking at once, `MarkInv`: at most
one request holds it, from the GET that found no mark until it is shown, rejected
or released; nobody was shown it meanwhile; and its mark is there. As long as no
two requests were writing the counter at once, `OneWriter` says that the one that
is about to write has read what is still there, and `Covered` that the counter
is at least the offers shown, those that still may be and those being given
back. What a request holds goes through its phases in order (`PhasesFit`). A
release beside an evaluation is where this could go wrong: the mark is deleted
before the counter is lowered, so that in between the counter covers one offer
too many, never one too few. `ContactPolicyHolds` follows, for any number of
requests that overlap in any way. The breaker: `OpenMeansFailing`;
`OpenIffFailing` is inductive with `BreakerTypeOK`.

The same module has the three things that are published and polled. What is
bound to happen with them is for the run `services`; that it then lasts is
proved:

* Rule R7's limits. `LimitsTyped`, and `LimitsStayInEffect` (`LimitsStay`): once
  no publisher, session of a PUT, snapshot, lookup or cache carries older limits
  and every verdict is one the table gives (`Settled`), it stays so until the
  table changes, for any number of PUTs, jobs, processes and lookups, whatever is
  lost, fails or is published again. A PUT may be under way: what it would write
  is written to the table first, and a PUT that writes what the table has leaves
  in its session what the table has (`SelectedIs`). The step of a lookup that
  resumes late is harmless for the same reason: its answer is one of those the
  invariant speaks of.
* Feature vectors. `FeaturesInOrder` (`InOrder`): nobody is ahead of whom he
  read, and every entry of the cache expires. `VectorsAlwaysAdvance`: the newest
  row never goes back, and once neither Redis nor a lookup has an older vector,
  none comes back before the next row. Two runs of the ETL at once could break
  both; the DAG has `max_active_runs=1` (`cashback_daily_etl.py:65`).
* The model rollout. `OnlyPromotedServe` (`ServedWasPromoted`): what a replica
  serves, keeps for the holdout or is loading has been in Production, for any
  number of promoters, replicas, rollbacks and faults. The invariant adds that a
  promotion past its gate has beaten what it was compared with (`Gated`).
  `PromotionsReplaceForBetter` (`ReplacesForBetter`) is what is left of
  `PromotionIsEarned`, which the run `promotion` refutes: whatever fails and
  whoever else promotes or rolls back, the version that a promotion found in
  Production gives way only to one that beats it, since scores do not change. A
  version that it did not find, because the lookup failed or because another
  promotion or a rollback came in between, is not compared again.

`Figures_proofs` begins with the sum. `SumOf` is a fold, of which nothing can
be proved by induction, but a set of sets can be shown to have every subset of
a finite one (`SubsetInduction`, from the library's facts about finite sets),
and that is enough: the sum over a set is the number of cells (row, unit) in it
(`SumCounts`), so sums add over disjoint sets and over any partition
(`SumOfParts`) and ones sum up to a cardinality.

* `TermsAlwaysAgree`: what the offer promises, what makes a campaign eligible
  and what the accrual pays agree, for any tiers and amounts. `ORDER BY 1` in the
  SQL leaves open which of two tiers with one minimum comes first; the model
  takes any order that sorts them, and one exists: the rank of a tier is the
  number of tiers before it. The loop over the tiers leaves out only those that
  earn nothing, so that its sum is a sum over tiers; that it is the reference's
  sum over kopecks is shown by adding one tier at a time, with subset induction.
  `EntitlementInv` (`EntitlementHolds`) adds what was booked: it stays within
  the budget and the daily limit, which the checks of the accrual establish.
* `AssignedOnceHolds`: `ExperimentInv` (`ExperimentHolds`) says that weights are
  chosen once, before anything is assigned, and sum to the whole, so a row that
  one of two requests wrote is the row the other one would have written. That
  every variant gets exactly the buckets of its weight follows from the
  cumulative weights: the variant picked for a bucket is the one whose interval
  has it, and the last interval ends with the traffic.
* `WinnerIsBetterHolds`: as nobody has two rows, trials and successes are
  numbers of users. Whoever wins, by a significant or a trending difference, has
  the higher rate by `_winner`'s own comparison; that full success against none
  is at least a trend is where `10 * MinN > TrendSquared` is used: the statistic
  is then n, the number of observations.
* `ReportsAlwaysAgree`: `ReportsInv` (`ReportsHold`) says that no row is newer
  than the clock and that only an accepted offer has an accrual. Hence the
  stages of the funnel are subsets of one another, and the parts of a report
  (channels, cells of the matrix, adjacent windows, clients of a campaign)
  partition its rows, so that their counts and sums are those of the dashboard;
  a client is in the cell of the month of his accrual. Without a campaign the
  KPIs are the sum over the campaigns underway, and equal to the channels while
  every offer of the window is of one of these; a campaign's own KPIs agree with
  its statistics also after it is closed.

Only model-checked: the half of `ThrottleHolds` that is liveness, `LockoutsEnd`
(the other half is `GuessesAlwaysBounded`), and everything about liveness and `ENABLED`, which is out of the prover's reach, as is what a
recursive function computes for all inputs. Every invariant of a passing run is
stated by a theorem.

## 5. Not modelled, and the plan

Next, proofs before models:

1. `CampaignLifecycle`: that a step of a request only follows from what it
   read, as an abstract specification of the rows that it refines.
2. `ServingPath`: `CircuitBreaker` with its retries composed with `OfferMarks`:
   how many of the overlapping requests that `OfferMarks` takes as given one
   call of the client can cause.

Not modelled, and why:

* Transaction simulator (`services/tx_simulator`): it generates traffic for
  demonstrations; the models take purchases from a constant set.
* Demo data and operator scripts (`scripts/`): run once on an empty system.
* Training itself and the ranking of candidates: numerical. The retraining DAG
  (`etl/dags/ml_retrain_pipeline.py`) calls an HTTP service that the repository
  does not have (`docs/AUDIT.md:290`), so there is no behaviour to model.
* Rule R1: nothing fills in `excluded_mccs`, so it never rejects.
* The upgrade and downgrade path of the migrations: DDL; the constraints,
  triggers and functions the other parts rely on are in `CampaignLifecycle`,
  `Accrual` and `Entitlement`.
* Frontend and deployment files: no protocol state of their own.
* Profile, catalogue and audience endpoints: read-only and about one row.
* Rates of change in the analytics, formatting, paging and logging.
