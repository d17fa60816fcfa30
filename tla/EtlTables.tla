------------------------------ MODULE EtlTables ------------------------------
(* What the daily ETL leaves behind for one Kafka partition: the offset it has *)
(* committed, the files it sets messages aside in, and the rows in ClickHouse; *)
(* and what it promises about them. How it gets there is EtlBatches.           *)
EXTENDS Integers

CONSTANTS
    Offsets         \* the offsets of the partition, 0 .. n - 1

VARIABLES
    log,            \* what was produced: the id, kind and day of each message
    consumed,       \* the group's committed offset: the next to consume
    letters, rejected, quarantined,    \* offsets in the files set aside
    buffer, table,  \* [Offsets -> Nat], copies of a row in ClickHouse
    wiped           \* rows lost to a crash between their INSERT and OPTIMIZE TABLE
-------------------------------------------------------------------------------
(* A message below the committed offset, which no run will read again, is in a *)
(* file set aside for it or its transaction is in the table (not merely in the *)
(* buffer): "nothing is dropped silently", whatever failed on the way          *)
(* (kafka_consumer.commit_offsets after ch_loader.load_parquet). The only rows *)
(* without this guarantee are those in the buffer, which is in RAM, when       *)
(* ClickHouse crashes and is back before the loader's OPTIMIZE TABLE.          *)
NothingIsLost ==
    \A o \in Offsets : o < consumed =>
        \/ o \in letters \cup rejected \cup quarantined \cup wiped
        \/ \E p \in Offsets : table[p] > 0 /\ log[p].id = log[o].id

(* A row is in ClickHouse at most once, over the table and the buffer, after   *)
(* any retries and redeliveries (ch_loader.load_parquet, "re-running a failed  *)
(* load never duplicates data"). A transaction that the producer repeats is    *)
(* loaded again only under a date more than a day away: the check for rows     *)
(* that are there already looks at the days around the file (_existing_ids).   *)
DaysApart(o, p) == log[o].day > log[p].day + 1 \/ log[p].day > log[o].day + 1

LoadedOnce ==
    \A o, p \in Offsets :
        /\ table[o] + buffer[o] <= 1
        /\ /\ table[o] + buffer[o] > 0 /\ table[p] + buffer[p] > 0
           /\ log[o].id = log[p].id
           => o = p \/ DaysApart(o, p)
===============================================================================
