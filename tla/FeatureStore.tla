---------------------------- MODULE FeatureStore ----------------------------
(***************************************************************************)
(* The feature vector of one user: the ETL computes it in ClickHouse and   *)
(* mirrors it to Redis (etl/feature_eng.py), recommendation_api reads it   *)
(* from Redis and, on a miss, from ClickHouse, and warms Redis with what   *)
(* it found (feature_store.py).  Nothing orders the two writers of the     *)
(* cache: only the time to live of an entry bounds what a late one leaves. *)
(*                                                                         *)
(* A vector is the number of the purchases it was computed from.           *)
(***************************************************************************)
EXTENDS Integers

CONSTANTS Readers,       \* concurrent lookups
          MaxPurchases,  \* bound
          MaxTimeouts    \* bound: calls that fail or time out

FeatureAssumption == MaxPurchases \in Nat

NoVector == -1
Vector == 0 .. MaxPurchases

VARIABLES purchases,  \* transactions_raw
          features,   \* user_rfm_features, the newest row
          entry,      \* features:{user_id}
          etl,        \* the RFM run under way
          reader,     \* each lookup
          timeouts

featureVars == <<purchases, features, entry, etl, reader, timeouts>>

\* SET with EX and SETEX: the entry goes away by itself
WithTtl(v) == [value |-> v, expires |-> TRUE]
NoEntry == [value |-> NoVector, expires |-> FALSE]
IdleRun == [phase |-> "idle", vector |-> NoVector]
IdleReader == [phase |-> "idle", vector |-> NoVector, warm |-> TRUE]

Timeout == timeouts < MaxTimeouts /\ timeouts' = timeouts + 1

Purchase ==
  /\ purchases < MaxPurchases
  /\ purchases' = purchases + 1
  /\ UNCHANGED <<features, entry, etl, reader, timeouts>>

-----------------------------------------------------------------------------
\* Mutant: the vector is mirrored before it is inserted.
MirrorFirst ==
  /\ etl.phase = "idle" /\ purchases > 0
  /\ etl' = [phase |-> "push", vector |-> purchases]
  /\ UNCHANGED <<purchases, features, entry, reader, timeouts>>

\* RFMComputer.run: the query; without purchases there is nothing to do ...
Compute ==
  /\ etl.phase = "idle" /\ purchases > 0
  /\ etl' = [phase |-> "insert", vector |-> purchases]
  /\ UNCHANGED <<purchases, features, entry, reader, timeouts>>

\* ... the insert into ClickHouse ...
Materialise ==
  /\ etl.phase = "insert"
  /\ features' = etl.vector
  /\ etl' = [etl EXCEPT !.phase = "push"]
  /\ UNCHANGED <<purchases, entry, reader, timeouts>>

\* ... and the mirror
PushToRedis ==
  /\ etl.phase = "push"
  /\ entry' = WithTtl(etl.vector)
  /\ etl' = IdleRun
  /\ UNCHANGED <<purchases, features, reader, timeouts>>

\* A call of the run fails; its next run starts from the query again.
RunFails ==
  /\ etl.phase # "idle" /\ Timeout
  /\ etl' = IdleRun
  /\ UNCHANGED <<purchases, features, entry, reader>>

-----------------------------------------------------------------------------
\* FeatureStoreClient.get: a hit ends here
Miss(r, warm) ==
  /\ reader[r].phase = "idle" /\ entry = NoEntry
  /\ reader' = [reader EXCEPT ![r] = [phase |-> "query", vector |-> NoVector, warm |-> warm]]
  /\ UNCHANGED <<purchases, features, entry, etl, timeouts>>

\* Redis failed or was too slow: the same as a miss, whatever is cached
MissByFault(r, warm) ==
  /\ reader[r].phase = "idle" /\ entry # NoEntry /\ Timeout
  /\ reader' = [reader EXCEPT ![r] = [phase |-> "query", vector |-> NoVector, warm |-> warm]]
  /\ UNCHANGED <<purchases, features, entry, etl>>

\* _from_clickhouse; without a row, and for the explain path, there is nothing
\* to warm
Query(r) ==
  /\ reader[r].phase = "query"
  /\ reader' = [reader EXCEPT ![r] =
       IF features = NoVector \/ ~@.warm THEN IdleReader
       ELSE [phase |-> "warm", vector |-> features, warm |-> TRUE]]
  /\ UNCHANGED <<purchases, features, entry, etl, timeouts>>

Warm(r) ==
  /\ reader[r].phase = "warm"
  /\ entry' = WithTtl(reader[r].vector)
  /\ reader' = [reader EXCEPT ![r] = IdleReader]
  /\ UNCHANGED <<purchases, features, etl, timeouts>>

\* ClickHouse is too slow, or the SETEX fails.
LookupFails(r) ==
  /\ reader[r].phase # "idle" /\ Timeout
  /\ reader' = [reader EXCEPT ![r] = IdleReader]
  /\ UNCHANGED <<purchases, features, entry, etl>>

Expire ==
  /\ entry.expires
  /\ entry' = NoEntry
  /\ UNCHANGED <<purchases, features, etl, reader, timeouts>>

-----------------------------------------------------------------------------
FeaturesInit ==
  /\ purchases = 0 /\ features = NoVector /\ entry = NoEntry
  /\ etl = IdleRun
  /\ reader = [r \in Readers |-> IdleReader]
  /\ timeouts = 0

Lookup(r) == \/ \E warm \in BOOLEAN : Miss(r, warm) \/ MissByFault(r, warm)
             \/ Query(r) \/ Warm(r) \/ LookupFails(r)

FeaturesNext ==
  \/ Purchase \/ Compute \/ Materialise \/ PushToRedis \/ RunFails
  \/ \E r \in Readers : Lookup(r)
  \/ Expire

FeaturesSpec == FeaturesInit /\ [][FeaturesNext]_featureVars

-----------------------------------------------------------------------------
\* Every variable keeps its type.
FeaturesTypeOK ==
  /\ purchases \in Vector /\ features \in Vector \cup {NoVector}
  /\ entry \in [value : Vector \cup {NoVector}, expires : BOOLEAN]
  /\ etl \in [phase : {"idle", "insert", "push"}, vector : Vector \cup {NoVector}]
  /\ reader \in [Readers -> [phase : {"idle", "query", "warm"},
                             vector : Vector \cup {NoVector}, warm : BOOLEAN]]

(***************************************************************************)
(* Nobody is ahead of whom he read: what Redis has and what lookups carry  *)
(* is never newer than the table, and the table not newer than the         *)
(* purchases; a run under way has the newest vector.  Every entry is       *)
(* written with a time to live.                                            *)
(***************************************************************************)
InOrder ==
  /\ entry.value <= features /\ features <= purchases
  /\ \A r \in Readers : reader[r].vector <= features
  /\ etl.phase # "idle" => features <= etl.vector /\ etl.vector <= purchases
  /\ etl.phase = "push" => features = etl.vector
  /\ entry = NoEntry \/ entry.expires

(***************************************************************************)
(* The newest row never goes back, and once neither Redis nor a lookup has *)
(* a vector other than it, none comes back before the ETL writes the next  *)
(* row: what lookups warm Redis with and what the run mirrors are vectors  *)
(* of the table, in whatever order the two writers come                    *)
(* (cashback_daily_etl.py:65, feature_store.py:101).                       *)
(***************************************************************************)
Current ==
  /\ entry.value \in {NoVector, features}
  /\ \A r \in Readers : reader[r].vector \in {NoVector, features}

VectorsAdvance ==
  [][features <= features' /\ (Current /\ features' = features => Current')]_featureVars
=============================================================================
