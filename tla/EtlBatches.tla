------------------------------ MODULE EtlBatches ------------------------------
(* The daily ETL (services/etl): one run of the DAG reads a Kafka partition    *)
(* from the committed offset, stages what it decodes in files, validates every *)
(* file, loads the valid rows into ClickHouse through a buffer table, and      *)
(* commits the offsets last. Every task is retried from its own beginning, a   *)
(* failed run is followed by a run that reads the same messages again, Kafka   *)
(* redelivers, and ClickHouse may crash and lose the buffer, which is in RAM.  *)
(*                                                                             *)
(* One partition (the code keeps an offset per partition). A message is its    *)
(* transaction id, the day of the transaction, and what the pipeline will find *)
(* wrong with it.  ClickHouse has the time zone of the files, UTC.             *)
EXTENDS EtlTables, Sequences, FiniteSets, FiniteSetsExt

CONSTANTS
    Ids,            \* transaction ids
    Days,           \* days of transaction_date
    Logs,           \* the logs a producer may have written, see Messages
    BatchSize,      \* messages of one poll
    MaxBatches,     \* files of one extract
    MaxRetries,     \* retries of a task
    MaxFaults       \* bound: task failures, rebalances and server crashes

Kinds == {"good",           \* passes everything
          "undecodable",    \* can never be decoded
          "malformed",      \* the validator's rules R1 to R4 reject it
          "currency",       \* rule R6, which follows the duplicates, rejects it
          "unloadable"}     \* valid, but ClickHouse cannot convert a value
Messages == [id : Ids, kind : Kinds, day : Days]

LogsAssumption == /\ IsFiniteSet(Offsets) /\ Offsets = 0 .. (Cardinality(Offsets) - 1)
                  /\ Logs \subseteq [Offsets -> Messages] /\ Days \subseteq Nat
BoundsAssumption == /\ {BatchSize, MaxBatches} \subseteq Nat \ {0}
                    /\ {MaxRetries, MaxFaults} \subseteq Nat

VARIABLES
    run,            \* the DAG run: its task, position, staged files
    up,             \* ClickHouse answers
    faults
vars == <<log, consumed, run, letters, rejected, quarantined, buffer, table, wiped, up, faults>>
-------------------------------------------------------------------------------
Steps == {"idle", "extract", "validate", "load", "insert", "flush", "aside", "commit", "report"}
TaskOf(step) == CASE step \in {"load", "insert", "flush", "aside"} -> "load"
                  [] step \in {"commit", "report"} -> "commit"
                  [] OTHER -> step

End == Cardinality(Offsets)
Empty == [o \in Offsets |-> 0]
Rows(t) == {o \in Offsets : t[o] > 0}
IdsOf(S) == {log[o].id : o \in S}
Insert(t, S) == [o \in Offsets |-> t[o] + (IF o \in S THEN 1 ELSE 0)]
Flushed == [o \in Offsets |-> table[o] + buffer[o]]
OfKind(S, kind) == {o \in S : log[o].kind = kind}

(* The start of a task's attempt. What an earlier attempt staged stays on disk *)
(* but is in no manifest.                                                      *)
Attempt(task, r) ==
    CASE task = "idle" -> [r EXCEPT !.step = "idle", !.tries = 0, !.files = <<>>,
                                    !.clean = <<>>, !.at = 1, !.todo = {},
                                    !.left = {}, !.gone = {}]
      [] task = "extract" -> [r EXCEPT !.step = "extract", !.pos = consumed,
                                       !.next = consumed, !.files = <<>>]
      [] task = "validate" -> [r EXCEPT !.step = "validate", !.at = 1, !.clean = <<>>]
      [] OTHER -> [r EXCEPT !.step = task, !.at = 1, !.todo = {}, !.left = {}, !.gone = {}]
NextTask(task) == Attempt(task, [run EXCEPT !.tries = 0])

(* A failed task starts again until its retries are used up; then the run      *)
(* fails, and the next one starts from the committed offset.                   *)
Retried == LET task == TaskOf(run.step)
           IN  IF run.tries < MaxRetries
               THEN Attempt(task, [run EXCEPT !.tries = @ + 1])
               ELSE Attempt("idle", run)
-------------------------------------------------------------------------------
(* max_active_runs = 1: a run starts when the last one has ended.              *)
StartRun ==
    /\ run.step = "idle"
    /\ run' = NextTask("extract")
    /\ UNCHANGED <<log, consumed, letters, rejected, quarantined, buffer, table, wiped, up, faults>>

\* Mutant: an undecodable message does not count as processed.
DecodedOnly(next, batch) == Max({next} \cup {o + 1 : o \in batch \ OfKind(batch, "undecodable")})

(* _advance: an undecodable message counts as processed.                       *)
Advance(next, batch) == Max({next} \cup {o + 1 : o \in batch})

(* consume_batch: poll, decode, write the dead letters, then stage the rest.   *)
ConsumeBatch(n) ==
    LET batch == run.pos .. (run.pos + n - 1)
        bad == OfKind(batch, "undecodable")
    IN  /\ run.step = "extract" /\ Len(run.files) < MaxBatches
        /\ batch \subseteq Offsets
        /\ letters' = letters \cup bad
        /\ run' = [run EXCEPT !.pos = @ + n,
                              !.next = Advance(@, batch),
                              !.files = IF batch = bad THEN @ ELSE Append(@, batch \ bad)]
        /\ UNCHANGED <<log, consumed, rejected, quarantined, buffer, table, wiped, up, faults>>

(* The group evicted the consumer: it reads again from the committed offset.   *)
Rebalance ==
    /\ run.step = "extract" /\ run.pos > consumed /\ faults < MaxFaults
    /\ run' = [run EXCEPT !.pos = consumed]
    /\ faults' = faults + 1
    /\ UNCHANGED <<log, consumed, letters, rejected, quarantined, buffer, table, wiped, up>>

(* drain ends: three polls returned nothing, at the end of the log or not, or  *)
(* max_batches are staged. The manifest names the files and the next offset.   *)
EndExtract ==
    /\ run.step = "extract"
    /\ run' = NextTask("validate")
    /\ UNCHANGED <<log, consumed, letters, rejected, quarantined, buffer, table, wiped, up, faults>>

(* The records of a file that reach rule R5, which remembers every id it let   *)
(* through, the ones rule R6 rejects after it included.                        *)
ReachesR5(file) == {o \in file : log[o].kind # "malformed"}

\* Mutant: the ids of the batch itself are not remembered.
RecentOnly(o, file, recent) == log[o].id \in recent

Duplicate(o, file, recent) ==
    log[o].id \in recent \cup IdsOf({p \in ReachesR5(file) : p < o})
Valid(file, recent) == {o \in ReachesR5(file) : /\ ~Duplicate(o, file, recent)
                                                /\ log[o].kind # "currency"}

\* Mutant: what rule R5 drops is not written to a file.
BrokenOnly(file, valid) == OfKind(file, "malformed") \cup OfKind(file, "currency")

(* What goes to rejected_*.jsonl.                                              *)
Rejects(file, valid) == file \ valid

(* validate_batch on one file. `recent` is what the query for the ids of the   *)
(* last 24 hours returned: older rows are missing, and a failed query is an    *)
(* empty answer.                                                               *)
ValidateFile(recent) ==
    /\ run.step = "validate" /\ run.at <= Len(run.files)
    /\ LET file == run.files[run.at]
           valid == Valid(file, recent)
       IN  /\ recent = {} \/ up
           /\ rejected' = rejected \cup Rejects(file, valid)
           /\ run' = [run EXCEPT !.at = @ + 1, !.clean = Append(@, valid)]
    /\ UNCHANGED <<log, consumed, letters, quarantined, buffer, table, wiped, up, faults>>

EndValidate ==
    /\ run.step = "validate" /\ run.at > Len(run.files)
    /\ run' = NextTask("load")
    /\ UNCHANGED <<log, consumed, letters, rejected, quarantined, buffer, table, wiped, up, faults>>
-------------------------------------------------------------------------------
(* _existing_ids: of the rows of the days around the file, one to either side. *)
Nearby(file, t) ==
    IdsOf({p \in Rows(t) : \E first, last \in file :
              log[p].day \in log[first].day - 1 .. log[last].day + 1})

(* load_parquet first pushes what an earlier attempt left in the buffer into   *)
(* the table, then drops the rows whose id the table has. A file without valid *)
(* rows was not written and is passed over.                                    *)
CheckFile ==
    /\ run.step = "load" /\ run.at <= Len(run.clean) /\ up
    /\ table' = Flushed
    /\ buffer' = [o \in Offsets |-> buffer[o] + table[o] - table'[o]]
    /\ LET file == run.clean[run.at]
           todo == {o \in file : log[o].id \notin Nearby(file, table')}
       IN  run' = IF todo = {} THEN [run EXCEPT !.at = @ + 1]
                  ELSE [run EXCEPT !.step = "insert", !.todo = todo, !.left = todo]
    /\ UNCHANGED <<log, consumed, letters, rejected, quarantined, wiped, up, faults>>

(* _insert: the rows are inserted in order, in one request or, if ClickHouse   *)
(* cannot convert one, by halving, in several.  A request takes the first of   *)
(* what is left, as long as none of them is unloadable, or isolates one.       *)
InsertPart(last) ==
    /\ run.step = "insert" /\ up
    /\ last \in run.left
    /\ LET part == {o \in run.left : o <= last}
           bad == OfKind(part, "unloadable")
       IN  /\ bad = {} \/ part = {last}
           /\ buffer' = Insert(buffer, part \ bad)
           /\ run' = [run EXCEPT !.left = @ \ part,
                                 !.step = IF run.left = part THEN "flush" ELSE "insert"]
    /\ UNCHANGED <<log, consumed, letters, rejected, quarantined, table, wiped, up, faults>>

(* OPTIMIZE TABLE pushes what is in the buffer; rows that a crash took from it *)
(* in the meantime are missing, and nothing tells the loader.                  *)
FlushRows ==
    /\ run.step = "flush" /\ up
    /\ table' = Flushed
    /\ buffer' = [o \in Offsets |-> buffer[o] + table[o] - table'[o]]
    /\ wiped' = wiped \cup run.gone
    /\ run' = [run EXCEPT !.step = "aside", !.gone = {}]
    /\ UNCHANGED <<log, consumed, letters, rejected, quarantined, up, faults>>

Quarantine ==
    /\ run.step = "aside"
    /\ quarantined' = quarantined \cup OfKind(run.todo, "unloadable")
    /\ run' = [run EXCEPT !.step = "load", !.at = @ + 1, !.todo = {}]
    /\ UNCHANGED <<log, consumed, letters, rejected, buffer, table, wiped, up, faults>>

EndLoad ==
    /\ run.step = "load" /\ run.at > Len(run.clean)
    /\ run' = NextTask("commit")
    /\ UNCHANGED <<log, consumed, letters, rejected, quarantined, buffer, table, wiped, up, faults>>

(* commit_offsets, which never moves the group backwards.                      *)
CommitOffsets ==
    /\ run.step = "commit"
    /\ consumed' = Max({consumed, run.next})
    /\ run' = [run EXCEPT !.step = "report"]
    /\ UNCHANGED <<log, letters, rejected, quarantined, buffer, table, wiped, up, faults>>

(* check_quarantine may turn the run red; it changes nothing.                  *)
EndRun ==
    /\ run.step = "report"
    /\ run' = Attempt("idle", run)
    /\ UNCHANGED <<log, consumed, letters, rejected, quarantined, buffer, table, wiped, up, faults>>
-------------------------------------------------------------------------------
(* A task fails anywhere: the registry or a broker is away, the worker dies.   *)
TaskFails ==
    /\ run.step # "idle" /\ faults < MaxFaults
    /\ run' = Retried
    /\ faults' = faults + 1
    /\ UNCHANGED <<log, consumed, letters, rejected, quarantined, buffer, table, wiped, up>>

(* ClickHouse is away: the request of the load fails.                          *)
Refused ==
    /\ run.step \in {"load", "insert", "flush"} /\ ~up
    /\ run' = Retried
    /\ UNCHANGED <<log, consumed, letters, rejected, quarantined, buffer, table, wiped, up, faults>>

(* The buffer engine flushes by itself after some seconds.                     *)
BufferFlushes ==
    /\ up /\ Rows(buffer) # {}
    /\ table' = Flushed /\ buffer' = Empty
    /\ UNCHANGED <<log, consumed, run, letters, rejected, quarantined, wiped, up, faults>>

\* run.gone remembers which rows of the file at hand it took.
ServerCrashes ==
    /\ up /\ faults < MaxFaults
    /\ up' = FALSE /\ buffer' = Empty
    /\ run' = IF run.step \in {"insert", "flush"}
              THEN [run EXCEPT !.gone = @ \cup Rows(buffer)] ELSE run
    /\ faults' = faults + 1
    /\ UNCHANGED <<log, consumed, letters, rejected, quarantined, table, wiped>>

ServerReturns ==
    /\ ~up
    /\ up' = TRUE
    /\ UNCHANGED <<log, consumed, run, letters, rejected, quarantined, buffer, table, wiped, faults>>
-------------------------------------------------------------------------------
Init ==
    /\ log \in Logs
    /\ consumed = 0
    /\ run = [step |-> "idle", tries |-> 0, pos |-> 0, next |-> 0, files |-> <<>>,
              clean |-> <<>>, at |-> 1, todo |-> {}, left |-> {}, gone |-> {}]
    /\ letters = {} /\ rejected = {} /\ quarantined = {}
    /\ buffer = Empty /\ table = Empty /\ wiped = {}
    /\ up = TRUE /\ faults = 0

Work == \/ StartRun \/ EndExtract
        \/ (\E recent \in SUBSET IdsOf(Rows(table)) : ValidateFile(recent)) \/ EndValidate
        \/ CheckFile \/ (\E o \in Offsets : InsertPart(o)) \/ FlushRows \/ Quarantine \/ EndLoad
        \/ CommitOffsets \/ EndRun \/ Refused
Next == \/ (\E n \in 1 .. BatchSize : ConsumeBatch(n)) \/ Work
        \/ Rebalance \/ TaskFails
        \/ BufferFlushes \/ ServerCrashes \/ ServerReturns
Spec == Init /\ [][Next]_vars

(* The scheduler keeps running the DAG, a poll of a topic with unread messages *)
(* is not empty for ever, and ClickHouse comes back.                           *)
Fairness == /\ WF_vars(Work) /\ SF_vars(ServerReturns)
            /\ SF_vars(\E n \in 1 .. BatchSize : ConsumeBatch(n))
FairSpec == Spec /\ Fairness
-------------------------------------------------------------------------------
\* Every variable keeps its type.
TypeOK ==
    /\ log \in [Offsets -> Messages]
    /\ consumed \in 0 .. End
    /\ run \in [step : Steps, tries : 0 .. MaxRetries, pos : 0 .. End, next : 0 .. End,
                files : Seq(SUBSET Offsets), clean : Seq(SUBSET Offsets),
                at : Nat \ {0}, todo : SUBSET Offsets, left : SUBSET Offsets,
                gone : SUBSET Offsets]
    /\ {letters, rejected, quarantined, wiped} \subseteq SUBSET Offsets
    /\ buffer \in [Offsets -> Nat] /\ table \in [Offsets -> Nat]
    /\ up \in BOOLEAN
    /\ faults \in 0 .. MaxFaults

(* Every message is passed by the committed offset in the end: no message, not *)
(* one that can never be decoded or loaded, stops the pipeline                 *)
(* (cashback_daily_etl: "Nothing a single message or row can do blocks it").   *)
NothingBlocks == <>(consumed = Cardinality(Offsets))
===============================================================================
