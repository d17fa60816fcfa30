------------------------------ MODULE MLLimits ------------------------------
(***************************************************************************)
(* The limits the business sets on what the model may offer: the table     *)
(* ml_limits behind PUT /ml-limits (campaign_manager), the snapshot of it  *)
(* in Redis, the job that publishes it again every minute, and rule R7     *)
(* (recommendation_api), which reads the snapshot through a cache of 30    *)
(* seconds in each process.                                                *)
(*                                                                         *)
(* A publisher reads the table and writes the snapshot in two awaits, and  *)
(* nothing orders the publishers of several requests and replicas.  A PUT  *)
(* keeps the rows it changed in its session (expire_on_commit is off), so  *)
(* what it publishes of them is what it read and set, not what the table   *)
(* has by then.  A lookup of the snapshot spans an await, too.  One bucket *)
(* stands for all of them: they share the snapshot and no state.           *)
(***************************************************************************)
EXTENDS Integers, FiniteSets

CONSTANTS Rates,       \* cashback rates
          Settings,    \* contents the table may have
          Puts,        \* PUT requests at a time
          Jobs,        \* republish jobs, one in each replica
          Workers,     \* processes of recommendation_api
          Lookups,     \* evaluations of a process at a time
          NoLimits     \* no snapshot

Publishers == Puts \cup Jobs

\* The global switch, and the bucket's switch and bounds.
Limits == [global: BOOLEAN, enabled: BOOLEAN, min: Rates, max: Rates]
Rows == {"global", "bucket"}

MLLimitsAssumption ==
  /\ Rates \subseteq Nat
  /\ Settings \subseteq Limits
  /\ Puts \cap Jobs = {}
  /\ NoLimits \notin Limits

VARIABLES table,     \* ml_limits
          snapshot,  \* ml_limits:snapshot
          publisher, \* what each publisher is doing
          own,       \* rows in the session of a PUT
          wish,      \* these rows as the PUT set them
          read,      \* the rows a publisher read
          cache,     \* _cache of each process
          lookup,    \* evaluations that wait for Redis or have its answer
          verdict    \* the last verdict of each process, and on which rate

putVars == <<table, own, wish>>
ruleVars == <<cache, lookup, verdict>>
limitVars == <<putVars, snapshot, publisher, read, ruleVars>>

Cache == [limits: Limits \cup {NoLimits}, fresh: BOOLEAN]
Answers == [step: {"idle", "asked", "answered"}, limits: Limits \cup {NoLimits}]
NotAsked == [step |-> "idle", limits |-> NoLimits]

Outcomes == {"PASS", "REJECT", "SKIP"}

\* Every variable keeps its type.
LimitsTypeOK ==
  /\ table \in Limits
  /\ snapshot \in Limits \cup {NoLimits}
  /\ publisher \in [Publishers -> {"idle", "global", "commit", "read", "write"}]
  /\ own \in [Publishers -> SUBSET Rows]
  /\ wish \in [Publishers -> Limits \cup {NoLimits}]
  /\ read \in [Publishers -> Limits \cup {NoLimits}]
  /\ \A p \in Publishers :
       /\ publisher[p] \in {"global", "commit"} => read[p] \in Limits
       /\ publisher[p] \in {"global", "commit"} \/ own[p] # {} => wish[p] \in Limits
       /\ own[p] # {} => publisher[p] \in {"global", "commit", "read"}
  /\ cache \in [Workers -> Cache]
  /\ lookup \in [Workers -> [Lookups -> Answers]]
  /\ verdict \in [Workers -> [rate: Rates, outcome: Outcomes]]

\* The table has its rows (migration 004), nothing is published yet.
LimitsInit ==
  /\ table \in Settings
  /\ snapshot = NoLimits
  /\ publisher = [p \in Publishers |-> "idle"]
  /\ own = [p \in Publishers |-> {}]
  /\ wish = [p \in Publishers |-> NoLimits]
  /\ read = [p \in Publishers |-> NoLimits]
  /\ cache = [w \in Workers |-> [limits |-> NoLimits, fresh |-> FALSE]]
  /\ lookup = [w \in Workers |-> [k \in Lookups |-> NotAsked]]
  /\ verdict = [w \in Workers |-> [rate |-> CHOOSE r \in Rates : TRUE, outcome |-> "SKIP"]]

\* What a PUT may make of the rows in its payload: the rates of the bucket, the
\* global switch, or both; the switch of a bucket is not in the payload.
Updates(l, rows) ==
  {m \in Settings : /\ m.enabled = l.enabled
                    /\ "bucket" \notin rows => m.min = l.min /\ m.max = l.max
                    /\ "global" \notin rows => m.global = l.global}

\* put_ml_limits reads the row of the bucket first, and sets it ...
Put(p) ==
  /\ publisher[p] = "idle"
  /\ \E rows \in SUBSET Rows \ {{}} : \E m \in Updates(table, rows) :
       /\ own' = [own EXCEPT ![p] = rows]
       /\ wish' = [wish EXCEPT ![p] = m]
       /\ read' = [read EXCEPT ![p] = table]
       /\ publisher' = [publisher EXCEPT ![p] = IF "global" \in rows THEN "global" ELSE "commit"]
  /\ UNCHANGED <<table, snapshot, ruleVars>>

\* ... the global row after it ...
GetGlobal(p) ==
  /\ publisher[p] = "global"
  /\ read' = [read EXCEPT ![p].global = table.global]
  /\ publisher' = [publisher EXCEPT ![p] = "commit"]
  /\ UNCHANGED <<putVars, snapshot, ruleVars>>

\* A column is written if what is set differs from what was read.
Written(old, new, now) ==
  [global |-> IF new.global # old.global THEN new.global ELSE now.global,
   enabled |-> IF new.enabled # old.enabled THEN new.enabled ELSE now.enabled,
   min |-> IF new.min # old.min THEN new.min ELSE now.min,
   max |-> IF new.max # old.max THEN new.max ELSE now.max]

\* ... and commits; of several buckets in a payload the session keeps the last.
Commit(p) ==
  /\ publisher[p] = "commit"
  /\ table' = Written(read[p], wish[p], table)
  /\ own' \in {own, [own EXCEPT ![p] = @ \ {"bucket"}]}
  /\ read' = [read EXCEPT ![p] = NoLimits]
  /\ publisher' = [publisher EXCEPT ![p] = "read"]
  /\ UNCHANGED <<wish, snapshot, ruleVars>>

\* The scheduler begins where a PUT goes on, with a session of its own.
Republish(p) ==
  /\ publisher[p] = "idle"
  /\ publisher' = [publisher EXCEPT ![p] = "read"]
  /\ UNCHANGED <<putVars, snapshot, read, ruleVars>>

\* Mutant: the snapshot is published again as it is.
AsPublished(p) == IF snapshot = NoLimits THEN table ELSE snapshot

\* SELECT in the publisher's session: its own rows stay as it set them.
Selected(p) ==
  [global |-> IF "global" \in own[p] THEN wish[p].global ELSE table.global,
   enabled |-> IF "bucket" \in own[p] THEN wish[p].enabled ELSE table.enabled,
   min |-> IF "bucket" \in own[p] THEN wish[p].min ELSE table.min,
   max |-> IF "bucket" \in own[p] THEN wish[p].max ELSE table.max]

\* publish_snapshot: SELECT
ReadTable(p) ==
  /\ publisher[p] = "read"
  /\ read' = [read EXCEPT ![p] = Selected(p)]
  /\ own' = [own EXCEPT ![p] = {}]
  /\ wish' = [wish EXCEPT ![p] = NoLimits]
  /\ publisher' = [publisher EXCEPT ![p] = "write"]
  /\ UNCHANGED <<table, snapshot, ruleVars>>

\* publish_snapshot: SETEX
WriteSnapshot(p) ==
  /\ publisher[p] = "write"
  /\ snapshot' = read[p]
  /\ publisher' = [publisher EXCEPT ![p] = "idle"]
  /\ read' = [read EXCEPT ![p] = NoLimits]
  /\ UNCHANGED <<putVars, ruleVars>>

\* A PUT that fails before its COMMIT, or answers 503 after it and leaves the
\* change in the table, a failed job, or a crash.
PublishFails(p) ==
  /\ publisher[p] # "idle"
  /\ publisher' = [publisher EXCEPT ![p] = "idle"]
  /\ own' = [own EXCEPT ![p] = {}]
  /\ wish' = [wish EXCEPT ![p] = NoLimits]
  /\ read' = [read EXCEPT ![p] = NoLimits]
  /\ UNCHANGED <<table, snapshot, ruleVars>>

\* Redis restarts empty.
LoseSnapshot ==
  /\ snapshot # NoLimits
  /\ snapshot' = NoLimits
  /\ UNCHANGED <<putVars, publisher, read, ruleVars>>

-----------------------------------------------------------------------------
\* R7 on a candidate of the bucket: both switches, then both bounds; without a
\* snapshot the rule does not apply.
Decide(l, rate) ==
  IF l = NoLimits THEN "SKIP"
  ELSE IF l.global /\ l.enabled /\ l.min <= rate /\ rate <= l.max THEN "PASS" ELSE "REJECT"

Decides(w, l, rate) ==
  verdict' = [verdict EXCEPT ![w] = [rate |-> rate, outcome |-> Decide(l, rate)]]

\* evaluate, with a copy that is young enough ...
UseCopy(w, rate) ==
  /\ cache[w].fresh
  /\ Decides(w, cache[w].limits, rate)
  /\ UNCHANGED <<putVars, snapshot, publisher, read, cache, lookup>>

\* ... or without one: GET is sent, ...
Ask(w, k) ==
  /\ ~cache[w].fresh /\ lookup[w][k] = NotAsked
  /\ lookup' = [lookup EXCEPT ![w][k].step = "asked"]
  /\ UNCHANGED <<putVars, snapshot, publisher, read, cache, verdict>>

\* ... Redis answers it, or fails, ...
Answer(w, k) ==
  /\ lookup[w][k].step = "asked"
  /\ \E limits \in {snapshot, NoLimits} :
       lookup' = [lookup EXCEPT ![w][k] = [step |-> "answered", limits |-> limits]]
  /\ UNCHANGED <<putVars, snapshot, publisher, read, cache, verdict>>

\* ... and the copy is kept, whatever other evaluations kept in the meantime.
Resume(w, k, rate) ==
  LET limits == lookup[w][k].limits
  IN /\ lookup[w][k].step = "answered"
     /\ Decides(w, limits, rate)
     /\ cache' = IF limits = NoLimits THEN cache
                 ELSE [cache EXCEPT ![w] = [limits |-> limits, fresh |-> TRUE]]
     /\ lookup' = [lookup EXCEPT ![w][k] = NotAsked]
     /\ UNCHANGED <<putVars, snapshot, publisher, read>>

\* 30 seconds after it was asked for.
CacheExpires(w) ==
  /\ cache[w].fresh
  /\ cache' = [cache EXCEPT ![w] = [limits |-> NoLimits, fresh |-> FALSE]]
  /\ UNCHANGED <<putVars, snapshot, publisher, read, lookup, verdict>>

Evaluation(w, k) ==
  \/ \E rate \in Rates : UseCopy(w, rate) \/ Resume(w, k, rate)
  \/ Ask(w, k) \/ Answer(w, k)

LimitsNext ==
  \/ \E p \in Puts : Put(p) \/ GetGlobal(p) \/ Commit(p)
  \/ \E p \in Jobs : Republish(p)
  \/ \E p \in Publishers : ReadTable(p) \/ WriteSnapshot(p) \/ PublishFails(p)
  \/ LoseSnapshot
  \/ \E w \in Workers : CacheExpires(w) \/ \E k \in Lookups : Evaluation(w, k)

LimitsSpec == LimitsInit /\ [][LimitsNext]_limitVars

(***************************************************************************)
(* The scheduler runs its job for ever (run_job keeps a failure from       *)
(* ending it) and not every run fails; caches expire and requests come.    *)
(* Nothing is asked of a PUT.                                              *)
(***************************************************************************)
LimitsFairness ==
  /\ \A p \in Jobs : /\ WF_limitVars(Republish(p))
                     /\ SF_limitVars(ReadTable(p)) /\ SF_limitVars(WriteSnapshot(p))
  /\ \A w \in Workers : /\ WF_limitVars(CacheExpires(w))
                        /\ \A k \in Lookups : WF_limitVars(Evaluation(w, k))

FairLimitsSpec == LimitsSpec /\ LimitsFairness

-----------------------------------------------------------------------------
(***************************************************************************)
(* Limits that stay take effect in every process (ml_limits.py:9-13): once *)
(* the table does not change any more, every verdict is the one its limits *)
(* give, or SKIP, whatever older rows and snapshots PUTs, jobs and lookups *)
(* were still carrying, whichever publications failed and however often    *)
(* Redis lost them.                                                        *)
(***************************************************************************)
InEffect(w) ==
  LET v == verdict[w]
      allowed == table.global /\ table.enabled /\ v.rate \in table.min .. table.max IN
  v.outcome \in {"SKIP", IF allowed THEN "PASS" ELSE "REJECT"}

LimitsTakeEffect == <>[][UNCHANGED table]_limitVars => <>[](\A w \in Workers : InEffect(w))

(***************************************************************************)
(* Limits that have taken effect stay in effect: once no PUT, publisher,   *)
(* snapshot, lookup, copy or verdict has older ones, none comes back       *)
(* before the table changes, whatever fails, is lost or published again.   *)
(* A PUT may be under way, if what it read is what the table has.          *)
(***************************************************************************)
Settled ==
  /\ snapshot \in {NoLimits, table}
  /\ \A p \in Publishers : /\ read[p] \in {NoLimits, table}
                           /\ publisher[p] = "read" => Selected(p) = table
  /\ \A w \in Workers : /\ cache[w].limits \in {NoLimits, table}
                        /\ \A k \in Lookups : lookup[w][k].limits \in {NoLimits, table}
                        /\ InEffect(w)

LimitsStay == [][Settled /\ table' = table => Settled']_limitVars
=============================================================================
