---------------------------- MODULE ModelRollout ----------------------------
(***************************************************************************)
(* How a trained model reaches the users: the trainer registers versions   *)
(* in the MLflow registry, promote_if_better compares one with Production  *)
(* and moves it (ml_training), an operator rolls back, and the watcher of  *)
(* every recommendation_api process polls the registry and swaps the model *)
(* it serves, with the predecessor for the holdout users beside it.        *)
(*                                                                         *)
(* The registry is a service: every call to it is a step and may fail.     *)
(***************************************************************************)
EXTENDS Integers, FiniteSets, FiniteSetsExt

CONSTANTS Versions,    \* registered model versions, 1 .. n
          Promoters,   \* processes that promote: the CronJob, an operator
          Watchers,    \* recommendation_api processes
          Scores,      \* cv_roc_auc, in steps of AUC_DELTA_MIN
          Samples,     \* distributions of the features; two have PSI above
                       \* PSI_THRESHOLD iff they differ
          MaxRollbacks,
          MaxFaults    \* bound: calls of a promoter that fail

RolloutAssumption == /\ IsFiniteSet(Versions)
                     /\ Versions = 1 .. Cardinality(Versions)
                     /\ Scores \subseteq Nat

NoVersion == 0

VARIABLES stage,      \* the registry: the stage of each version
          score,      \* cv_roc_auc of each version's run
          sample,     \* feature_quantiles.json of each version's run
          promoter,   \* the progress of each promotion
          rollback,   \* the version an operator is bringing back
          watcher,    \* _loaded, _holdout_model and what is being loaded
          rollbacks, faults

rolloutVars == <<stage, score, sample, promoter, rollback, watcher, rollbacks, faults>>

InStage(s) == {v \in Versions : stage[v] = s}

\* get_latest_versions(name, stages=[s]): the newest version of the stage
Latest(s) == IF InStage(s) = {} THEN NoVersion ELSE Max(InStage(s))

Idle == [phase |-> "idle", candidate |-> NoVersion, prod |-> NoVersion]

\* LGBMTrainer.train: the run's metrics and artefacts, and the next version
Train(v, auc, data) ==
  /\ stage[v] = "absent"
  /\ \A w \in Versions : w < v => stage[w] # "absent"
  /\ stage' = [stage EXCEPT ![v] = "none"]
  /\ score' = [score EXCEPT ![v] = auc]
  /\ sample' = [sample EXCEPT ![v] = data]
  /\ UNCHANGED <<promoter, rollback, watcher, rollbacks, faults>>

-----------------------------------------------------------------------------
\* promote_if_better, _current_production: the version of the run to promote,
\* in whatever stage it is, and what it will be compared with ...
LookUp(p, v) ==
  /\ promoter[p].phase = "idle"
  /\ stage[v] # "absent"
  /\ promoter' = [promoter EXCEPT ![p] =
       [phase |-> "compare", candidate |-> v, prod |-> Latest("Production")]]
  /\ UNCHANGED <<stage, score, sample, rollback, watcher, rollbacks, faults>>

\* ... and an exception is taken for "no Production yet"
LookUpFails(p, v) ==
  /\ promoter[p].phase = "idle"
  /\ stage[v] # "absent"
  /\ faults < MaxFaults
  /\ promoter' = [promoter EXCEPT ![p] =
       [phase |-> "compare", candidate |-> v, prod |-> NoVersion]]
  /\ faults' = faults + 1
  /\ UNCHANGED <<stage, score, sample, rollback, watcher, rollbacks>>

Better(v, prod) == score[v] - score[prod] >= 1
SameSample(v, prod) == sample[v] = sample[prod]

\* The AUC gate, then the PSI gate; without a Production model neither.
Compare(p) ==
  LET v == promoter[p].candidate
      prod == promoter[p].prod
  IN /\ promoter[p].phase = "compare"
     /\ promoter' = IF prod = NoVersion \/ (Better(v, prod) /\ SameSample(v, prod))
                    THEN [promoter EXCEPT ![p].phase = "transition"]
                    ELSE [promoter EXCEPT ![p] = Idle]
     /\ UNCHANGED <<stage, score, sample, rollback, watcher, rollbacks, faults>>

\* feature_quantiles.json of one of the two did not arrive: the comparison of
\* the column names that is left rejects nothing
CompareBlind(p) ==
  LET v == promoter[p].candidate
      prod == promoter[p].prod
  IN /\ promoter[p].phase = "compare"
     /\ prod # NoVersion /\ Better(v, prod)
     /\ faults < MaxFaults
     /\ promoter' = [promoter EXCEPT ![p].phase = "transition"]
     /\ faults' = faults + 1
     /\ UNCHANGED <<stage, score, sample, rollback, watcher, rollbacks>>

\* transition_model_version_stage(v, Production)
Promoted(v, archiveExisting) ==
  [w \in Versions |-> IF w = v THEN "Production"
                      ELSE IF archiveExisting /\ stage[w] = "Production" THEN "Archived"
                      ELSE stage[w]]

Transition(p) ==
  /\ promoter[p].phase = "transition"
  /\ stage' = Promoted(promoter[p].candidate, promoter[p].prod # NoVersion)
  /\ promoter' = [promoter EXCEPT ![p] = Idle]
  /\ UNCHANGED <<score, sample, rollback, watcher, rollbacks, faults>>

\* The registry does not answer, or the process dies.
PromotionFails(p) ==
  /\ promoter[p].phase # "idle"
  /\ faults < MaxFaults
  /\ promoter' = [promoter EXCEPT ![p] = Idle]
  /\ faults' = faults + 1
  /\ UNCHANGED <<stage, score, sample, rollback, watcher, rollbacks>>

\* rollback_to_previous: the newest archived version ...
ChoosePrevious ==
  /\ rollback = NoVersion
  /\ rollbacks < MaxRollbacks
  /\ Latest("Archived") # NoVersion
  /\ rollback' = Latest("Archived")
  /\ rollbacks' = rollbacks + 1
  /\ UNCHANGED <<stage, score, sample, promoter, watcher, faults>>

\* ... goes back to Production
RollBack ==
  /\ rollback # NoVersion
  /\ stage' = Promoted(rollback, TRUE)
  /\ rollback' = NoVersion
  /\ UNCHANGED <<score, sample, promoter, watcher, rollbacks, faults>>

-----------------------------------------------------------------------------
\* Mutant: only a higher version than the one served is loaded.
NotNewer(latest, loaded) == latest = NoVersion \/ (loaded # NoVersion /\ latest <= loaded)

(***************************************************************************)
(* ModelWatcher._refresh, once per poll interval: the Production version   *)
(* is loaded when it is another one than is served, then the newest        *)
(* archived version for the holdout.  Loading takes a while; a call that   *)
(* fails ends the poll, and what was served is served on.                  *)
(***************************************************************************)
NothingNew(latest, loaded) == latest \in {NoVersion, loaded}

FetchProduction(w) ==
  /\ watcher[w].phase = "poll"
  /\ watcher' = [watcher EXCEPT ![w] =
       IF NothingNew(Latest("Production"), @.loaded)
       THEN [@ EXCEPT !.phase = "holdout"]
       ELSE [@ EXCEPT !.phase = "load", !.next = Latest("Production")]]
  /\ UNCHANGED <<stage, score, sample, promoter, rollback, rollbacks, faults>>

LoadProduction(w) ==
  /\ watcher[w].phase = "load"
  /\ watcher' = [watcher EXCEPT ![w] =
       [@ EXCEPT !.phase = "holdout", !.loaded = watcher[w].next, !.next = NoVersion]]
  /\ UNCHANGED <<stage, score, sample, promoter, rollback, rollbacks, faults>>

FetchHoldout(w) ==
  /\ watcher[w].phase = "holdout"
  /\ watcher' = [watcher EXCEPT ![w] =
       IF NothingNew(Latest("Archived"), @.holdout)
       THEN [@ EXCEPT !.phase = "poll"]
       ELSE [@ EXCEPT !.phase = "holdoutLoad", !.next = Latest("Archived")]]
  /\ UNCHANGED <<stage, score, sample, promoter, rollback, rollbacks, faults>>

LoadHoldout(w) ==
  /\ watcher[w].phase = "holdoutLoad"
  /\ watcher' = [watcher EXCEPT ![w] =
       [@ EXCEPT !.phase = "poll", !.holdout = watcher[w].next, !.next = NoVersion]]
  /\ UNCHANGED <<stage, score, sample, promoter, rollback, rollbacks, faults>>

PollFails(w) ==
  /\ watcher[w].phase \in {"load", "holdout", "holdoutLoad"}
  /\ watcher' = [watcher EXCEPT ![w] = [@ EXCEPT !.phase = "poll", !.next = NoVersion]]
  /\ UNCHANGED <<stage, score, sample, promoter, rollback, rollbacks, faults>>

\* A replica restarts, with nothing loaded until start() has polled.
NewWatcher == [phase |-> "poll", loaded |-> NoVersion, holdout |-> NoVersion, next |-> NoVersion]

Restart(w) ==
  /\ faults < MaxFaults
  /\ watcher' = [watcher EXCEPT ![w] = NewWatcher]
  /\ faults' = faults + 1
  /\ UNCHANGED <<stage, score, sample, promoter, rollback, rollbacks>>

-----------------------------------------------------------------------------
RolloutInit ==
  /\ stage = [v \in Versions |-> "absent"]
  /\ score = [v \in Versions |-> NoVersion]
  /\ sample = [v \in Versions |-> NoVersion]
  /\ promoter = [p \in Promoters |-> Idle]
  /\ rollback = NoVersion
  /\ watcher = [w \in Watchers |-> NewWatcher]
  /\ rollbacks = 0 /\ faults = 0

Promotion(p) ==
  \/ \E v \in Versions : LookUp(p, v) \/ LookUpFails(p, v)
  \/ Compare(p) \/ CompareBlind(p) \/ Transition(p) \/ PromotionFails(p)

Loads(w) == LoadProduction(w) \/ LoadHoldout(w)
Polls(w) == FetchProduction(w) \/ FetchHoldout(w) \/ Loads(w)

RolloutNext ==
  \/ \E v \in Versions, auc \in Scores, data \in Samples : Train(v, auc, data)
  \/ \E p \in Promoters : Promotion(p)
  \/ ChoosePrevious \/ RollBack
  \/ \E w \in Watchers : Polls(w) \/ PollFails(w) \/ Restart(w)

RolloutSpec == RolloutInit /\ [][RolloutNext]_rolloutVars

(***************************************************************************)
(* The watcher's loop never ends, and a load that is tried again and again *)
(* succeeds in the end.  Nobody has to train, to promote or to roll back.  *)
(***************************************************************************)
RolloutFairness ==
  \A w \in Watchers : WF_rolloutVars(Polls(w)) /\ SF_rolloutVars(LoadProduction(w))

FairRolloutSpec == RolloutSpec /\ RolloutFairness

-----------------------------------------------------------------------------
Stages == {"absent", "none", "Production", "Archived"}

\* Every variable keeps its type.
RolloutTypeOK ==
  /\ stage \in [Versions -> Stages]
  /\ score \in [Versions -> Scores \cup {NoVersion}]
  /\ sample \in [Versions -> Samples \cup {NoVersion}]
  /\ \A v \in Versions : stage[v] # "absent" => score[v] \in Scores /\ sample[v] \in Samples
  /\ promoter \in [Promoters -> [phase : {"idle", "compare", "transition"},
                                 candidate : Versions \cup {NoVersion},
                                 prod : Versions \cup {NoVersion}]]
  /\ rollback \in Versions \cup {NoVersion}
  /\ watcher \in [Watchers -> [phase : {"poll", "load", "holdout", "holdoutLoad"},
                               loaded : Versions \cup {NoVersion},
                               holdout : Versions \cup {NoVersion},
                               next : Versions \cup {NoVersion}]]

(***************************************************************************)
(* Once nothing moves in the registry any more, every replica comes to     *)
(* serve the version that is in Production, be it a newer one or an older  *)
(* one that was brought back: no replica stays behind on the model it      *)
(* happened to load while the registry changed (ModelWatcher._refresh).    *)
(***************************************************************************)
Serving == {w \in Watchers : watcher[w].loaded = Latest("Production")}
ServesProduction == <>[](Latest("Production") # NoVersion => Serving = Watchers)

(***************************************************************************)
(* What a replica serves, keeps for the holdout or is loading has been in  *)
(* Production, and so has what an operator brings back: a version that was *)
(* only registered reaches no client, whatever the registry does between   *)
(* two calls to it (promote_model.py:195, model_registry.py:128).          *)
(***************************************************************************)
WasPromoted(v) == v = NoVersion \/ stage[v] \in {"Production", "Archived"}

ServedWasPromoted ==
  /\ WasPromoted(rollback)
  /\ \A w \in Watchers : /\ WasPromoted(watcher[w].loaded) /\ WasPromoted(watcher[w].holdout)
                         /\ WasPromoted(watcher[w].next)

(***************************************************************************)
(* A promotion takes the version that it found in Production out of it     *)
(* only for one that beats it by the margin, whatever else promotes, rolls *)
(* back or fails meanwhile (promote_model.py:195); of a version that came  *)
(* there after it looked nothing is said.                                  *)
(***************************************************************************)
Replaces(p, v) == /\ Transition(p) /\ v = promoter[p].prod
                  /\ stage[v] = "Production" /\ stage'[v] = "Archived"
ReplacesForBetter ==
  [][\A p \in Promoters, v \in Versions :
       Replaces(p, v) => Better(promoter[p].candidate, v)]_rolloutVars

(***************************************************************************)
(* promote_model.py:100: a run is promoted iff it beats the current        *)
(* Production model by AUC_DELTA_MIN and no feature drifted from its       *)
(* fingerprint; a rollback is the other way into Production.               *)
(***************************************************************************)
Earned(v) == \A w \in InStage("Production") : Better(v, w) /\ SameSample(v, w)
PromotionIsEarned ==
  [][\A v \in Versions : stage[v] = "none" /\ stage'[v] = "Production" => Earned(v)]_rolloutVars
=============================================================================
