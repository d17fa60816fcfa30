----------------------------- MODULE MCServices -----------------------------
(***************************************************************************)
(* What is bound to happen around the accruals, and what may not: small    *)
(* instances of the notification worker, the daily ETL, the ML limits, the *)
(* model rollout and the feature cache beside the circuit breaker.  They   *)
(* share no state; the first state chooses which of them runs.             *)
(***************************************************************************)
EXTENDS CircuitBreaker, FiniteSets

CONSTANTS p1, p2, j1, w1

VARIABLES
  part,
  end, confirmed, fetched, task, loop, stopping, sent, channel, handled,
  nFaults, crashes, killed,
  log, loaded, run, dead, rejected, quarantined, buffer, rows, wiped, server, eFaults,
  table, snapshot, publisher, own, wish, read, limits, lookup, verdict,
  stage, score, sample, promoter, rollback, watcher, rollbacks, mFaults,
  purchases, features, entry, etl, reader, fFaults

noticeVars == <<end, confirmed, fetched, task, loop, stopping, sent, channel, handled,
                nFaults, crashes, killed>>
etlVars == <<log, loaded, run, dead, rejected, quarantined, buffer, rows, wiped, server, eFaults>>
limitVars == <<table, own, wish, snapshot, publisher, read, limits, lookup, verdict>>
modelVars == <<stage, score, sample, promoter, rollback, watcher, rollbacks, mFaults>>
featureVars == <<purchases, features, entry, etl, reader, fFaults>>

\* Two offers; the client of the first has the app, the other one does not.
MCReach == [o \in {1, 2} |-> IF o = 1 THEN {"push", "in_app", "sms"} ELSE {"in_app", "email"}]

Notices == INSTANCE Notifications WITH
  faults <- nFaults, Offers <- {1, 2}, Reach <- MCReach, BatchSize <- 2,
  MaxFaults <- 1, MaxCrashes <- 1

\* Three messages of which one may be bad; the second repeats the first.
EtlLogs == {l \in [0 .. 2 -> [id : {1, 2}, day : {0},
                              kind : {"good", "undecodable", "malformed", "currency",
                                      "unloadable"}]] :
              /\ \A o \in 0 .. 2 : l[o].id = IF o = 2 THEN 2 ELSE 1
              /\ Cardinality({o \in 0 .. 2 : l[o].kind # "good"}) <= 1}
GoodLog == [o \in 0 .. 2 |-> [id |-> IF o = 2 THEN 2 ELSE 1, kind |-> "good", day |-> 0]]

Etl == INSTANCE EtlBatches WITH
  consumed <- loaded, letters <- dead, table <- rows, up <- server, faults <- eFaults,
  Offsets <- 0 .. 2, Ids <- {1, 2}, Days <- {0}, Logs <- EtlLogs, BatchSize <- 2,
  MaxBatches <- 2, MaxRetries <- 1, MaxFaults <- 1

\* Two rates and one lower bound: everything on, or one switch or bound that
\* takes something away.
MCSettings == {l \in [global : BOOLEAN, enabled : BOOLEAN, min : {1}, max : {1, 2}] :
                 Cardinality({x \in {"global", "enabled"} : ~l[x]}) + 2 - l.max <= 1}

Limits == INSTANCE MLLimits WITH
  cache <- limits, Rates <- {1, 2}, Settings <- MCSettings,
  Puts <- {p1, p2}, Jobs <- {j1}, Workers <- {w1}, Lookups <- {1, 2}, NoLimits <- NotOpen

Models == INSTANCE ModelRollout WITH
  faults <- mFaults, Versions <- 1 .. 2, Promoters <- {p1}, Watchers <- {w1},
  Scores <- {0, 1}, Samples <- {1}, MaxRollbacks <- 1, MaxFaults <- 2

Features == INSTANCE FeatureStore WITH
  timeouts <- fFaults, Readers <- {1, 2}, MaxPurchases <- 2, MaxTimeouts <- 2

ASSUME /\ Notices!NotificationsAssumption
       /\ Etl!LogsAssumption /\ Etl!BoundsAssumption
       /\ Limits!MLLimitsAssumption
       /\ Models!RolloutAssumption
       /\ Features!FeatureAssumption

(***************************************************************************)
(* The limits run twice.  In "switch" two PUTs at a time turn the global   *)
(* switch on and off, the second one dies before it publishes, and R7      *)
(* evaluates one candidate at a time, of the higher rate; in "bounds" one  *)
(* PUT at a time moves the upper bound, Redis may lose the snapshot, and   *)
(* R7 evaluates two candidates at a time.                                  *)
(***************************************************************************)
Parts == {"breaker", "notices", "etl", "switch", "bounds", "models", "features"}

MCInit ==
  /\ part \in Parts
  /\ BreakerInit /\ Notices!NoticesInit /\ Etl!Init /\ Limits!LimitsInit
  /\ Models!RolloutInit /\ Features!FeaturesInit
  /\ part # "breaker" => up
  /\ part # "etl" => log = GoodLog
  /\ part \notin {"switch", "bounds"} => table = CHOOSE l \in MCSettings : TRUE

allVars == <<part, breakerVars, noticeVars, etlVars, limitVars, modelVars, featureVars>>

\* An action of one part; the others stand still.
Breaker(action) == /\ part = "breaker" /\ action
                   /\ UNCHANGED <<part, noticeVars, etlVars, limitVars, modelVars, featureVars>>
Notice(action) == /\ part = "notices" /\ action
                  /\ UNCHANGED <<part, breakerVars, etlVars, limitVars, modelVars, featureVars>>
Daily(action) == /\ part = "etl" /\ action
                 /\ UNCHANGED <<part, breakerVars, noticeVars, limitVars, modelVars, featureVars>>
Limit(action) == /\ part \in {"switch", "bounds"} /\ action
                 /\ UNCHANGED <<part, breakerVars, noticeVars, etlVars, modelVars, featureVars>>
Model(action) == /\ part = "models" /\ action
                 /\ UNCHANGED <<part, breakerVars, noticeVars, etlVars, limitVars, featureVars>>
Feature(action) == /\ part = "features" /\ action
                   /\ UNCHANGED <<part, breakerVars, noticeVars, etlVars, limitVars, modelVars>>

\* What is asked of the limits in either part.
InPart ==
  /\ part = "switch" =>
       /\ \A p \in {p1, p2} : own'[p] \subseteq {"global"}
       /\ lookup'[w1][2] = lookup[w1][2]
       /\ publisher'[p2] # "write"
       /\ snapshot # NotOpen => snapshot' # NotOpen
       /\ verdict'[w1] # verdict[w1] => verdict'[w1].rate = 2
  /\ part = "bounds" =>
       /\ \A p \in {p1, p2} : own'[p] \subseteq {"bucket"}
       /\ publisher'[p2] = "idle"

MCNext ==
  \/ Breaker(BreakerNext) \/ Notice(Notices!NoticesNext) \/ Daily(Etl!Next)
  \/ Limit(Limits!LimitsNext /\ InPart) \/ Model(Models!RolloutNext)
  \/ Feature(Features!FeaturesNext)

(***************************************************************************)
(* The fairness of the specifications that have any.  part never changes,  *)
(* so one condition on a disjunction that has an action of each part says  *)
(* the same as a condition on each of the actions.                         *)
(***************************************************************************)
Weak1 == \/ Breaker(Second) \/ Notice(Notices!Consumer) \/ Daily(Etl!Work)
         \/ Limit(Limits!CacheExpires(w1)) \/ Model(Models!Polls(w1))
Weak2 == \/ Notice(Notices!Shutdown)
         \/ Limit(Limits!Republish(j1))
Weak3(i) == \/ Notice(Notices!Supervise(<<"listener", "notification">>[i]))
            \/ Limit((i = 1 \/ part = "bounds") /\ Limits!Evaluation(w1, i))
Strong1 == \/ Breaker(\E k \in Calls : RecordSuccess(k)) \/ Daily(Etl!ServerReturns)
           \/ Limit(Limits!ReadTable(j1))
           \/ Model(Models!LoadProduction(w1))
Strong2 == \/ Daily(\E n \in {1, 2} : Etl!ConsumeBatch(n))
           \/ Limit(Limits!WriteSnapshot(j1))

MCFairness ==
  /\ WF_allVars(Weak1) /\ WF_allVars(Weak2)
  /\ \A i \in {1, 2} : WF_allVars(Weak3(i))
  /\ \A k \in Calls : WF_allVars(Breaker(Admit(k)))
  /\ SF_allVars(Strong1) /\ SF_allVars(Strong2)

MCSpec == MCInit /\ [][MCNext]_allVars /\ MCFairness

-----------------------------------------------------------------------------
\* An event is processed in the end, whatever crashes or fails before it.
EventsAreHandled == Notices!EventsAreHandled

\* No message stops the pipeline.
NothingBlocks == part = "etl" => Etl!NothingBlocks

\* Limits that stay take effect in every process.
LimitsTakeEffect == Limits!LimitsTakeEffect

\* Every replica comes to serve the version that is in Production.
ServesProduction == Models!ServesProduction

\* An older feature vector that is gone does not come back.
VectorsAdvance == Features!VectorsAdvance
=============================================================================
