--------------------------- MODULE EtlBatches_proofs ---------------------------
(***************************************************************************)
(* Theorems about EtlBatches for every log, batch size and bound.          *)
(***************************************************************************)
EXTENDS EtlBatches, FiniteSetTheorems, TLAPS

Loading == {"load", "insert", "flush", "aside"}

\* Message o is in a file set aside for it, its transaction is in the table, or
\* its row went with the buffer before the flush that was to save it.
Covered(o) == \/ o \in letters \cup rejected \cup quarantined \cup wiped
              \/ \E p \in Offsets : table[p] > 0 /\ log[p].id = log[o].id

\* No transaction twice in a set of messages.
Distinct(S) == \A o, p \in S : log[o].id = log[p].id => o = p

(***************************************************************************)
(* What a run read since the committed offset is in a dead letter or in a  *)
(* staged file; the position, which a rebalance sets back, leaves no gap.  *)
(***************************************************************************)
Staged ==
  /\ run.step = "extract" => consumed <= run.pos /\ run.pos <= run.next
  /\ run.step # "idle" =>
       \A o \in Offsets : consumed <= o /\ o < run.next =>
         o \in letters \/ \E i \in 1 .. Len(run.files) : o \in run.files[i]

(***************************************************************************)
(* What was validated is rejected or in the clean file of the same number, *)
(* and a clean file has no transaction twice.                              *)
(***************************************************************************)
Sorted ==
  run.step \in Loading \cup {"validate"} =>
    /\ Len(run.clean) = IF run.step = "validate" THEN run.at - 1 ELSE Len(run.files)
    /\ Len(run.clean) <= Len(run.files)
    /\ \A i \in 1 .. Len(run.clean) : /\ run.files[i] \subseteq rejected \cup run.clean[i]
                                      /\ Distinct(run.clean[i])

(***************************************************************************)
(* The files before the one at hand are covered, and so is the file at     *)
(* hand, but for the rows it still has to insert, flush or set aside.      *)
(***************************************************************************)
Loaded ==
  /\ run.step \in Loading =>
       \A i \in 1 .. Len(run.clean) : i < run.at => \A o \in run.clean[i] : Covered(o)
  /\ run.step \in {"insert", "flush", "aside"} =>
       /\ run.at <= Len(run.clean)
       /\ run.todo \subseteq run.clean[run.at]
       /\ \A o \in run.clean[run.at] \ run.todo : Covered(o)

(***************************************************************************)
(* Where the rows at hand are: those left to insert are not in ClickHouse, *)
(* but under a date that is days apart; the others are in the buffer or    *)
(* the table, or went with a crash; after the flush they are in the table  *)
(* or were lost with the buffer.                                           *)
(***************************************************************************)
Placed ==
  /\ run.step = "insert" =>
       /\ run.left \subseteq run.todo
       /\ \A o \in run.left, p \in Offsets :
            table[p] + buffer[p] > 0 /\ log[p].id = log[o].id => DaysApart(o, p)
       /\ \A o \in run.todo \ run.left :
            log[o].kind = "unloadable" \/ table[o] + buffer[o] > 0 \/ o \in run.gone
  /\ run.step = "flush" =>
       \A o \in run.todo :
         log[o].kind = "unloadable" \/ table[o] + buffer[o] > 0 \/ o \in run.gone
  /\ run.step = "aside" =>
       \A o \in run.todo : log[o].kind = "unloadable" \/ table[o] > 0 \/ o \in wiped

\* What the run is about to commit is covered.
Finished ==
  run.step \in {"commit", "report"} => \A o \in Offsets : o < run.next => Covered(o)

EtlInv == /\ TypeOK /\ Staged /\ Sorted /\ Loaded /\ Placed /\ Finished
          /\ NothingIsLost /\ LoadedOnce

Run == [step : Steps, tries : 0 .. MaxRetries, pos : 0 .. End, next : 0 .. End,
        files : Seq(SUBSET Offsets), clean : Seq(SUBSET Offsets),
        at : Nat \ {0}, todo : SUBSET Offsets, left : SUBSET Offsets, gone : SUBSET Offsets]

Tasks == {"idle", "extract", "validate", "load", "commit"}

-----------------------------------------------------------------------------
(***************************************************************************)
(* Lemma: the offsets are the numbers below End.                           *)
(***************************************************************************)
LEMMA OffsetsAreNumbers ==
  ASSUME LogsAssumption
  PROVE  End \in Nat /\ Offsets = 0 .. (End - 1) /\ Offsets \subseteq Nat
<1>1. End \in Nat
  BY FS_CardinalityType DEF LogsAssumption, End
<1>2. QED
  BY <1>1 DEF LogsAssumption, End

(***************************************************************************)
(* Lemma: the next offset is the larger of itself and the end of the batch.*)
(***************************************************************************)
LEMMA AdvanceIs ==
  ASSUME NEW next \in Nat, NEW pos \in Nat, NEW n \in Nat \ {0}
  PROVE  Advance(next, pos .. (pos + n - 1)) = IF next >= pos + n THEN next ELSE pos + n
<1> DEFINE S == {next} \cup {o + 1 : o \in pos .. (pos + n - 1)}
<1>1. S \subseteq Int /\ \A x \in S : x = next \/ x <= pos + n
  OBVIOUS
<1>2. next \in S /\ pos + n \in S
  <2>1. pos + n - 1 \in pos .. (pos + n - 1) /\ (pos + n - 1) + 1 = pos + n
    OBVIOUS
  <2>2. QED
    BY <2>1
<1>3. PICK m \in S : m = IF next >= pos + n THEN next ELSE pos + n
  BY <1>2
<1> HIDE DEF S
<1>4. \A y \in S : m >= y
  BY <1>1, <1>3
<1>5. Max(S) = m
  <2>1. \A x \in S : (\A y \in S : x >= y) => x = m
    BY <1>1, <1>4
  <2>2. QED
    BY <1>4, <2>1 DEF Max
<1>6. QED
  BY <1>3, <1>5 DEF Advance, S

(***************************************************************************)
(* What the start of a task leaves: the run at its first step, with what   *)
(* the tasks before it have done.                                          *)
(***************************************************************************)
Began(task) ==
  /\ run' \in Run
  /\ run'.step = task
  /\ task = "extract" => run'.pos = consumed /\ run'.next = consumed /\ run'.files = <<>>
  /\ task # "extract" => run'.next = run.next
  /\ task \in {"validate", "load", "commit"} => run'.files = run.files
  /\ task = "validate" => run'.at = 1 /\ run'.clean = <<>>
  /\ task = "load" => run'.at = 1 /\ run'.clean = run.clean

(***************************************************************************)
(* Lemma: a task that Airflow starts, for the first time or again, begins  *)
(* as said above.                                                          *)
(***************************************************************************)
LEMMA AttemptBegins ==
  ASSUME TypeOK, NEW task \in Tasks, NEW tries \in 0 .. MaxRetries,
         run' = Attempt(task, [run EXCEPT !.tries = tries]), 0 \in 0 .. MaxRetries
  PROVE  Began(task)
<1>1. run \in Run /\ consumed \in 0 .. End
  BY DEF TypeOK, Run
<1> PICK r \in Run : r = [run EXCEPT !.tries = tries]
  BY <1>1 DEF Run
<1>2. r.next = run.next /\ r.files = run.files /\ r.clean = run.clean
  BY <1>1 DEF Run
<1>3. run' = Attempt(task, r)
  OBVIOUS
<1>4. <<>> \in Seq(SUBSET Offsets) /\ 1 \in Nat \ {0} /\ {} \in SUBSET Offsets
  OBVIOUS
<1>5. CASE task = "idle"
  <2>1. run' = [r EXCEPT !.step = "idle", !.tries = 0, !.files = <<>>,
                         !.clean = <<>>, !.at = 1, !.todo = {}, !.left = {}, !.gone = {}]
    BY <1>3, <1>5 DEF Attempt
  <2>2. QED
    BY <1>2, <1>4, <1>5, <2>1 DEF Began, Run, Steps
<1>6. CASE task = "extract"
  <2>1. run' = [r EXCEPT !.step = "extract", !.pos = consumed, !.next = consumed, !.files = <<>>]
    BY <1>3, <1>6 DEF Attempt
  <2>2. PICK at \in 0 .. End : at = consumed
    BY <1>1
  <2>3. /\ run' = [r EXCEPT !.step = "extract", !.pos = at, !.next = at, !.files = <<>>]
        /\ "extract" \in Steps
    BY <2>1, <2>2 DEF Steps
  <2>4. run' \in Run
    BY <1>4, <2>3 DEF Run
  <2>5. /\ run'.step = "extract" /\ run'.pos = consumed /\ run'.next = consumed
        /\ run'.files = <<>>
    BY <2>2, <2>3 DEF Run
  <2>6. QED
    BY <1>6, <2>4, <2>5 DEF Began
<1>7. CASE task = "validate"
  <2>1. run' = [r EXCEPT !.step = "validate", !.at = 1, !.clean = <<>>]
    BY <1>3, <1>7 DEF Attempt
  <2>2. QED
    BY <1>2, <1>4, <1>7, <2>1 DEF Began, Run, Steps
<1>8. CASE task \in {"load", "commit"}
  <2>1. run' = [r EXCEPT !.step = task, !.at = 1, !.todo = {}, !.left = {}, !.gone = {}]
    BY <1>3, <1>8 DEF Attempt
  <2>2. QED
    BY <1>2, <1>4, <1>8, <2>1 DEF Began, Run, Steps
<1>9. QED
  BY <1>5, <1>6, <1>7, <1>8 DEF Tasks

(***************************************************************************)
(* Lemma: a task that succeeds is followed by the next one, a task that    *)
(* fails by itself or by the end of the run.                               *)
(***************************************************************************)
LEMMA NextTaskBegins ==
  ASSUME TypeOK, BoundsAssumption, NEW task \in Tasks, run' = NextTask(task)
  PROVE  Began(task)
<1>1. 0 \in 0 .. MaxRetries
  BY DEF BoundsAssumption
<1>2. QED
  BY <1>1, AttemptBegins DEF NextTask

(***************************************************************************)
(* Lemma: so does the end of a run.                                        *)
(***************************************************************************)
LEMMA RunEnds ==
  ASSUME TypeOK, BoundsAssumption, run' = Attempt("idle", run)
  PROVE  Began("idle")
<1>1. 0 \in 0 .. MaxRetries /\ run.tries \in 0 .. MaxRetries
  BY DEF BoundsAssumption, TypeOK
<1>2. run = [run EXCEPT !.tries = run.tries]
  BY DEF TypeOK
<1>3. QED
  BY <1>1, <1>2, AttemptBegins DEF Tasks

(***************************************************************************)
(* Lemma: a task that fails is tried again from its beginning, or the run  *)
(* is over.                                                                *)
(***************************************************************************)
LEMMA RetryBegins ==
  ASSUME TypeOK, BoundsAssumption, run' = Retried
  PROVE  Began("idle") \/ Began(TaskOf(run.step))
<1>1. 0 \in 0 .. MaxRetries /\ run.tries \in 0 .. MaxRetries
  BY DEF BoundsAssumption, TypeOK
<1>2. CASE run.tries < MaxRetries
  <2>1. TaskOf(run.step) \in Tasks
    BY DEF TypeOK, Steps, TaskOf, Tasks
  <2>2. PICK tries \in 0 .. MaxRetries : tries = run.tries + 1
    BY <1>1, <1>2 DEF BoundsAssumption
  <2>3. run' = Attempt(TaskOf(run.step), [run EXCEPT !.tries = tries])
    BY <1>2, <2>2 DEF Retried, TypeOK
  <2>4. QED
    BY <1>1, <2>1, <2>3, AttemptBegins
<1>3. CASE ~(run.tries < MaxRetries)
  BY <1>3, RunEnds DEF Retried
<1>4. QED
  BY <1>2, <1>3

-----------------------------------------------------------------------------
(***************************************************************************)
(* Lemma: the start of a task keeps what the run knows: the end of a run,  *)
(* a retry, or the next task after one that is complete.                   *)
(***************************************************************************)
LEMMA BeginningKeeps ==
  ASSUME EtlInv, LogsAssumption, NEW task \in Tasks, Began(task),
         UNCHANGED <<log, consumed, letters, rejected, quarantined, table, wiped>>,
         \/ task \in {"idle", "extract"}
         \/ run.step # "idle" /\ task = TaskOf(run.step)
         \/ run.step = "extract" /\ task = "validate"
         \/ run.step = "validate" /\ run.at > Len(run.files) /\ task = "load"
         \/ run.step = "load" /\ run.at > Len(run.clean) /\ task = "commit"
  PROVE  Staged' /\ Sorted' /\ Loaded' /\ Placed' /\ Finished'
<1>1. run \in Run /\ run' \in Run /\ run'.step = task /\ consumed \in 0 .. End
  BY DEF EtlInv, TypeOK, Run, Began
<1>2. \A o : Covered(o)' <=> Covered(o)
  BY DEF Covered
<1>3. Staged'
  <2>1. CASE task = "idle"
    BY <1>1, <2>1 DEF Staged
  <2>2. CASE task = "extract"
    <3>1. consumed' <= run'.pos /\ run'.pos <= run'.next
      BY <1>1, <2>2 DEF Began
    <3>2. \A o \in Offsets : consumed' <= o /\ o < run'.next => FALSE
      BY <1>1, <2>2, OffsetsAreNumbers DEF Began
    <3>3. QED
      BY <3>1, <3>2 DEF Staged
  <2>3. CASE task \in {"validate", "load", "commit"}
    <3>1. run.step # "idle" /\ run'.next = run.next /\ run'.files = run.files
      BY <2>3 DEF Began
    <3>2. QED
      BY <1>1, <2>3, <3>1 DEF Staged, EtlInv
  <2>4. QED
    BY <2>1, <2>2, <2>3 DEF Tasks
<1>4. Sorted'
  <2>1. CASE task = "validate"
    BY <1>1, <2>1 DEF Sorted, Began, Loading
  <2>2. CASE task = "load"
    <3>1. run'.files = run.files /\ run'.clean = run.clean
      BY <2>2 DEF Began
    <3>2. \/ run.step \in Loading
          \/ run.step = "validate" /\ run.at > Len(run.files)
      BY <1>1, <2>2 DEF Run, Steps, TaskOf, Loading
    <3>3. /\ Len(run.clean) <= Len(run.files)
          /\ run.step = "validate" => Len(run.clean) = run.at - 1
          /\ run.step # "validate" => Len(run.clean) = Len(run.files)
          /\ \A i \in 1 .. Len(run.clean) : /\ run.files[i] \subseteq rejected \cup run.clean[i]
                                            /\ Distinct(run.clean[i])
      BY <3>2 DEF Sorted, EtlInv, Loading
    <3>4. Len(run.clean) = Len(run.files)
      BY <1>1, <3>2, <3>3 DEF Run, Loading
    <3>5. \A S : Distinct(S)' <=> Distinct(S)
      BY DEF Distinct
    <3>6. QED
      BY <1>1, <2>2, <3>1, <3>3, <3>4, <3>5 DEF Sorted, Loading
  <2>3. CASE task \notin {"validate", "load"}
    BY <1>1, <2>3 DEF Sorted, Loading, Tasks
  <2>4. QED
    BY <2>1, <2>2, <2>3
<1>5. Loaded' /\ Placed'
  <2>1. run'.step \notin {"insert", "flush", "aside"} /\ (run'.step = "load" => run'.at = 1)
    BY <1>1 DEF Tasks, Began
  <2>2. QED
    BY <2>1 DEF Loaded, Placed, Loading
<1>6. Finished'
  <2>1. CASE task # "commit"
    BY <1>1, <2>1 DEF Finished, Tasks
  <2>2. CASE task = "commit" /\ run.step \in {"commit", "report"}
    BY <1>1, <1>2, <2>2 DEF Finished, Began, EtlInv
  <2>3. CASE task = "commit" /\ run.step = "load" /\ run.at > Len(run.clean)
    <3>1. SUFFICES ASSUME NEW o \in Offsets, o < run.next
                   PROVE  Covered(o)
      BY <1>1, <1>2, <2>3 DEF Finished, Began
    <3>2. CASE o < consumed
      BY <3>2 DEF EtlInv, NothingIsLost, Covered
    <3>3. CASE consumed <= o
      <4>1. o \in letters \/ \E i \in 1 .. Len(run.files) : o \in run.files[i]
        BY <2>3, <3>1, <3>3 DEF Staged, EtlInv
      <4>2. ASSUME NEW i \in 1 .. Len(run.files), o \in run.files[i]
            PROVE  Covered(o)
        <5>1. i \in 1 .. Len(run.clean) /\ i < run.at /\ o \in rejected \cup run.clean[i]
          BY <1>1, <2>3, <4>2 DEF Sorted, EtlInv, Loading, Run
        <5>2. o \in run.clean[i] => Covered(o)
          BY <2>3, <5>1 DEF Loaded, EtlInv, Loading
        <5>3. QED
          BY <5>1, <5>2 DEF Covered
      <4>3. QED
        BY <4>1, <4>2 DEF Covered
    <3>4. o \in Int /\ consumed \in Int
      BY <1>1, OffsetsAreNumbers
    <3>5. QED
      BY <3>2, <3>3, <3>4
  <2>4. QED
    BY <1>1, <2>1, <2>2, <2>3 DEF Run, Steps, TaskOf
<1>7. QED
  BY <1>3, <1>4, <1>5, <1>6

(***************************************************************************)
(* What a step may do to the files and the table: files only grow and no   *)
(* row leaves the table.                                                   *)
(***************************************************************************)
Grows ==
  /\ log' = log /\ letters \subseteq letters'
  /\ rejected \subseteq rejected' /\ quarantined \subseteq quarantined'
  /\ wiped \subseteq wiped'
  /\ \A p \in Offsets : table[p] > 0 => table'[p] > 0

(***************************************************************************)
(* Lemma: every step of the system only adds.                              *)
(***************************************************************************)
LEMMA StepGrows ==
  ASSUME TypeOK, [Next]_vars
  PROVE  Grows
<1>1. \A p \in Offsets : table[p] > 0 => Flushed[p] > 0
  BY DEF TypeOK, Flushed
<1>2. CASE UNCHANGED vars
  BY <1>2 DEF vars, Grows
<1>3. ASSUME NEW n \in 1 .. BatchSize, ConsumeBatch(n)
      PROVE  Grows
  BY <1>3 DEF ConsumeBatch, Grows
<1>4. ASSUME NEW recent \in SUBSET IdsOf(Rows(table)), ValidateFile(recent)
      PROVE  Grows
  BY <1>4 DEF ValidateFile, Grows
<1>5. CASE CheckFile \/ FlushRows \/ BufferFlushes
  BY <1>1, <1>5 DEF CheckFile, FlushRows, BufferFlushes, Grows
<1>6. CASE \/ StartRun \/ EndExtract \/ EndValidate \/ Quarantine \/ EndLoad
           \/ CommitOffsets \/ EndRun \/ Refused \/ \E o \in Offsets : InsertPart(o)
  BY <1>6 DEF StartRun, EndExtract, EndValidate, InsertPart, Quarantine, EndLoad,
              CommitOffsets, EndRun, Refused, Grows
<1>7. CASE Rebalance \/ TaskFails \/ ServerCrashes \/ ServerReturns
  BY <1>7 DEF Rebalance, TaskFails, ServerCrashes, ServerReturns, Grows
<1>8. QED
  BY <1>2, <1>3, <1>4, <1>5, <1>6, <1>7 DEF Next, Work

(***************************************************************************)
(* Lemma: so a message that is in a file or in the table stays there.      *)
(***************************************************************************)
LEMMA CoveredStays ==
  ASSUME Grows, NEW o, Covered(o)
  PROVE  Covered(o)'
BY DEF Grows, Covered

-----------------------------------------------------------------------------
(***************************************************************************)
(* The rows of a message in ClickHouse, whether in the buffer or in the    *)
(* table.                                                                  *)
(***************************************************************************)
Copies(o) == table[o] + buffer[o]

(***************************************************************************)
(* Lemma: pushing the buffer into the table leaves every count as it was   *)
(* and the buffer empty.                                                   *)
(***************************************************************************)
LEMMA CopiesMove ==
  ASSUME TypeOK, table' = Flushed,
         buffer' = Empty \/ buffer' = [o \in Offsets |-> buffer[o] + table[o] - table'[o]]
  PROVE  /\ table' \in [Offsets -> Nat] /\ buffer' \in [Offsets -> Nat]
         /\ \A o \in Offsets : /\ table'[o] = Copies(o) /\ buffer'[o] = 0
                               /\ Copies(o)' = Copies(o)
<1>1. \A o \in Offsets : table[o] \in Nat /\ buffer[o] \in Nat
  BY DEF TypeOK
<1>2. \A o \in Offsets : table'[o] = table[o] + buffer[o]
  BY DEF Flushed
<1>3. \A o \in Offsets : buffer'[o] = 0
  BY <1>1, <1>2 DEF Empty
<1>4. table' \in [Offsets -> Nat]
  BY <1>1 DEF Flushed
<1>5. buffer' \in [Offsets -> Nat]
  <2>1. CASE buffer' = Empty
    BY <2>1 DEF Empty
  <2>2. CASE buffer' = [o \in Offsets |-> buffer[o] + table[o] - table'[o]]
    BY <1>1, <1>2, <2>2
  <2>3. QED
    BY <2>1, <2>2
<1>6. QED
  BY <1>1, <1>2, <1>3, <1>4, <1>5 DEF Copies

(***************************************************************************)
(* Lemma: a sequence of files with one more file.                          *)
(***************************************************************************)
LEMMA AppendTyped ==
  ASSUME NEW S, NEW s \in Seq(S), NEW x \in S
  PROVE  Append(s, x) \in Seq(S)
OBVIOUS

(***************************************************************************)
(* Lemma: a poll moves the position, and the next offset with it.          *)
(***************************************************************************)
LEMMA ConsumeTyped ==
  ASSUME TypeOK, LogsAssumption, NEW n \in 1 .. BatchSize, BatchSize \in Nat, ConsumeBatch(n)
  PROVE  /\ TypeOK' /\ run'.pos = run.pos + n
         /\ run'.next = IF run.next >= run.pos + n THEN run.next ELSE run.pos + n
<1> DEFINE batch == run.pos .. (run.pos + n - 1)
           bad == OfKind(batch, "undecodable")
<1>1. /\ End \in Nat /\ Offsets = 0 .. (End - 1)
      /\ run \in Run /\ run.pos \in Nat /\ run.next \in 0 .. End /\ n \in Nat \ {0}
  BY OffsetsAreNumbers DEF TypeOK, Run
<1>2. /\ run' = [run EXCEPT !.pos = run.pos + n, !.next = Advance(run.next, batch),
                            !.files = IF batch = bad THEN run.files
                                      ELSE Append(run.files, batch \ bad)]
      /\ batch \subseteq Offsets /\ letters' = letters \cup bad
      /\ UNCHANGED <<log, consumed, rejected, quarantined, buffer, table, wiped, up, faults>>
  BY <1>1 DEF ConsumeBatch, Run
<1>3. run.pos + n \in 0 .. End
  <2>1. run.pos + n - 1 \in batch
    BY <1>1
  <2>2. run.pos + n - 1 \in 0 .. (End - 1)
    BY <1>1, <1>2, <2>1
  <2>3. QED
    BY <1>1, <2>2
<1>4. Advance(run.next, batch) = IF run.next >= run.pos + n THEN run.next ELSE run.pos + n
  BY <1>1, AdvanceIs
<1>5. Advance(run.next, batch) \in 0 .. End
  BY <1>1, <1>3, <1>4
<1>6. batch \ bad \in SUBSET Offsets /\ bad \in SUBSET Offsets
  BY <1>2 DEF OfKind
<1> HIDE DEF batch, bad
<1>7. PICK files \in Seq(SUBSET Offsets) :
        files = IF batch = bad THEN run.files ELSE Append(run.files, batch \ bad)
  <2>1. run.files \in Seq(SUBSET Offsets)
    BY <1>1 DEF Run
  <2>2. Append(run.files, batch \ bad) \in Seq(SUBSET Offsets)
    BY <1>6, <2>1, AppendTyped
  <2>3. QED
    BY <2>1, <2>2
<1>8. run' \in Run /\ run'.pos = run.pos + n /\ run'.next = Advance(run.next, batch)
  BY <1>1, <1>2, <1>3, <1>5, <1>7 DEF Run
<1>9. TypeOK'
  BY <1>2, <1>6, <1>8 DEF TypeOK, Run
<1>10. QED
  BY <1>4, <1>8, <1>9

(***************************************************************************)
(* Lemma: the start of a task keeps the types.                             *)
(***************************************************************************)
LEMMA BeganTyped ==
  ASSUME TypeOK, NEW task, Began(task), faults' \in 0 .. MaxFaults,
         buffer' \in [Offsets -> Nat],
         UNCHANGED <<log, consumed, letters, rejected, quarantined, table, wiped, up>>
  PROVE  TypeOK'
BY DEF TypeOK, Began, Run

(***************************************************************************)
(* Lemma: so does what an insert leaves in the buffer.                     *)
(***************************************************************************)
LEMMA InsertTyped ==
  ASSUME TypeOK, NEW S
  PROVE  Insert(buffer, S) \in [Offsets -> Nat]
BY DEF Insert, TypeOK

(***************************************************************************)
(* Lemma: what the validation of a file does, with its types.              *)
(***************************************************************************)
LEMMA ValidateTyped ==
  ASSUME TypeOK, NEW recent, ValidateFile(recent)
  PROVE  /\ TypeOK' /\ run.at \in 1 .. Len(run.files)
         /\ run' = [run EXCEPT !.at = @ + 1,
                               !.clean = Append(@, Valid(run.files[run.at], recent))]
         /\ rejected' = rejected \cup Rejects(run.files[run.at], Valid(run.files[run.at], recent))
<1>1. run.at \in 1 .. Len(run.files) /\ run \in Run
  BY DEF TypeOK, ValidateFile, Run
<1>2. PICK file : file = run.files[run.at]
  OBVIOUS
<1>3. file \in SUBSET Offsets
  BY <1>1, <1>2 DEF Run
<1>4. PICK valid \in SUBSET Offsets : valid = Valid(file, recent)
  BY <1>3 DEF Valid, ReachesR5
<1>5. /\ run' = [run EXCEPT !.at = @ + 1, !.clean = Append(@, valid)]
      /\ rejected' = rejected \cup Rejects(file, valid)
      /\ UNCHANGED <<log, consumed, letters, quarantined, buffer, table, wiped, up, faults>>
  BY <1>2, <1>4 DEF ValidateFile
<1>6. PICK clean \in Seq(SUBSET Offsets) : clean = Append(run.clean, valid)
  <2>1. run.clean \in Seq(SUBSET Offsets)
    BY <1>1 DEF Run
  <2>2. Append(run.clean, valid) \in Seq(SUBSET Offsets)
    BY <2>1, AppendTyped
  <2>3. QED
    BY <2>2
<1>7. PICK at \in Nat \ {0} : at = run.at + 1
  BY <1>1 DEF Run
<1>8. run' = [run EXCEPT !.at = at, !.clean = clean]
  BY <1>1, <1>5, <1>6, <1>7 DEF Run
<1>9. run' \in Run
  BY <1>1, <1>8 DEF Run
<1>10. rejected' \in SUBSET Offsets
  BY <1>3, <1>5 DEF Rejects, TypeOK
<1>11. TypeOK'
  BY <1>5, <1>9, <1>10 DEF TypeOK, Run
<1>12. QED
  BY <1>1, <1>2, <1>4, <1>5, <1>11

(***************************************************************************)
(* What the check of a file leaves to insert: it pushes the buffer first.  *)
(***************************************************************************)
Todo == {o \in run.clean[run.at] : log[o].id \notin Nearby(run.clean[run.at], Flushed)}

(***************************************************************************)
(* Lemma: a transaction of the file whose id the check does not find is in *)
(* the table only under a date days apart.                                 *)
(***************************************************************************)
LEMMA NotNearby ==
  ASSUME TypeOK, LogsAssumption, NEW file \in SUBSET Offsets, NEW t, NEW o \in file,
         log[o].id \notin Nearby(file, t),
         NEW p \in Offsets, t[p] > 0, log[p].id = log[o].id
  PROVE  DaysApart(o, p)
<1>1. log[o].day \in Nat /\ log[p].day \in Nat
  BY DEF TypeOK, Messages, LogsAssumption
<1>2. log[p].day \notin log[o].day - 1 .. log[o].day + 1
  BY DEF Nearby, IdsOf, Rows
<1>3. QED
  BY <1>1, <1>2 DEF DaysApart

(***************************************************************************)
(* Lemma: it keeps the types, and looks at a file there is.                *)
(***************************************************************************)
LEMMA CheckTyped ==
  ASSUME TypeOK, CheckFile
  PROVE  /\ TypeOK' /\ run.at \in 1 .. Len(run.clean)
         /\ table' = Flushed
         /\ buffer' = [o \in Offsets |-> buffer[o] + table[o] - table'[o]]
         /\ \/ Todo = {} /\ run' = [run EXCEPT !.at = @ + 1]
            \/ run' = [run EXCEPT !.step = "insert", !.todo = Todo, !.left = Todo]
<1>1. run.at \in 1 .. Len(run.clean) /\ run \in Run
  BY DEF TypeOK, CheckFile, Run
<1>2. /\ table' = Flushed
      /\ buffer' = [o \in Offsets |-> buffer[o] + table[o] - table'[o]]
      /\ UNCHANGED <<log, consumed, letters, rejected, quarantined, wiped, up, faults>>
  BY DEF CheckFile
<1>3. {o \in run.clean[run.at] : log[o].id \notin Nearby(run.clean[run.at], table')} = Todo
  BY <1>2 DEF Todo
<1>4. \/ Todo = {} /\ run' = [run EXCEPT !.at = @ + 1]
      \/ run' = [run EXCEPT !.step = "insert", !.todo = Todo, !.left = Todo]
  BY <1>3 DEF CheckFile
<1>5. Todo \in SUBSET Offsets
  BY <1>1 DEF Todo, Run
<1>6. run' \in Run
  <2>1. PICK at \in Nat \ {0} : at = run.at + 1
    BY <1>1 DEF Run
  <2> HIDE DEF Todo
  <2>2. \/ run' = [run EXCEPT !.at = at]
        \/ run' = [run EXCEPT !.step = "insert", !.todo = Todo, !.left = Todo]
    BY <1>4, <2>1
  <2>3. QED
    BY <1>1, <1>5, <2>2 DEF Run, Steps
<1>7. TypeOK'
  <2>1. table' \in [Offsets -> Nat] /\ buffer' \in [Offsets -> Nat]
    BY <1>2, CopiesMove
  <2>2. QED
    BY <1>2, <1>6, <2>1 DEF TypeOK, Run
<1>8. QED
  BY <1>1, <1>2, <1>4, <1>7

-----------------------------------------------------------------------------
(***************************************************************************)
(* Lemma: a step that leaves the task and the offsets alone keeps what the *)
(* run knows, if the rows at hand are still where they were.               *)
(***************************************************************************)
LEMMA QuietKeeps ==
  ASSUME EtlInv, Grows, Placed', UNCHANGED <<consumed, letters, rejected, quarantined>>,
         run'.step = run.step, run'.pos = run.pos, run'.next = run.next, run'.at = run.at,
         run'.files = run.files, run'.clean = run.clean, run'.todo = run.todo
  PROVE  Staged' /\ Sorted' /\ Loaded' /\ Placed' /\ Finished'
<1>1. log' = log /\ \A o : Covered(o) => Covered(o)'
  BY CoveredStays DEF Grows
<1>2. Staged'
  BY DEF EtlInv, Staged
<1>3. Sorted'
  BY <1>1 DEF EtlInv, Sorted, Distinct
<1>4. Loaded'
  BY <1>1 DEF EtlInv, Loaded
<1>5. Finished'
  BY <1>1 DEF EtlInv, Finished
<1>6. QED
  BY <1>2, <1>3, <1>4, <1>5

(***************************************************************************)
(* Lemma: the server may flush its buffer at any time, crash and return.   *)
(***************************************************************************)
LEMMA ServerKeeps ==
  ASSUME EtlInv, BoundsAssumption, Grows, BufferFlushes \/ ServerCrashes \/ ServerReturns
  PROVE  TypeOK' /\ Staged' /\ Sorted' /\ Loaded' /\ Placed' /\ Finished'
<1>1. \A o \in Offsets : table[o] \in Nat /\ buffer[o] \in Nat
  BY DEF EtlInv, TypeOK
<1>2. UNCHANGED <<consumed, log, letters, rejected, quarantined, wiped>>
  BY DEF BufferFlushes, ServerCrashes, ServerReturns
<1>3. run \in Run
  BY DEF EtlInv, TypeOK, Run
<1>4. CASE BufferFlushes
  <2>1. /\ table' \in [Offsets -> Nat] /\ buffer' \in [Offsets -> Nat]
        /\ \A o \in Offsets : table'[o] = Copies(o) /\ Copies(o)' = Copies(o)
    BY <1>4, CopiesMove DEF BufferFlushes, EtlInv
  <2>2. TypeOK' /\ run' = run
    BY <1>2, <1>4, <2>1 DEF BufferFlushes, EtlInv, TypeOK
  <2>3. \A o \in Offsets : /\ table'[o] + buffer'[o] = table[o] + buffer[o]
                           /\ table[o] > 0 => table'[o] > 0
    BY <1>1, <2>1 DEF Copies
  <2>4. run.todo \subseteq Offsets
    BY <1>3 DEF Run
  <2>5. \A o, p : DaysApart(o, p)' <=> DaysApart(o, p)
    BY <1>2 DEF DaysApart
  <2>6. Placed'
    BY <1>2, <2>2, <2>3, <2>4, <2>5 DEF EtlInv, Placed
  <2>7. QED
    BY <1>2, <2>2, <2>6, QuietKeeps
<1>5. CASE ServerCrashes
  <2>1. up' = FALSE /\ table' = table /\ faults < MaxFaults /\ faults' = faults + 1
        /\ \A o \in Offsets : buffer'[o] = 0
    BY <1>5 DEF ServerCrashes, Empty
  <2>2. faults' \in 0 .. MaxFaults
    BY <2>1 DEF EtlInv, TypeOK, BoundsAssumption
  <2>3. buffer' \in [Offsets -> Nat]
    BY <1>5 DEF ServerCrashes, Empty
  <2>4. PICK gone \in SUBSET Offsets :
          /\ run' = [run EXCEPT !.gone = gone] /\ run.gone \subseteq gone
          /\ run.step \in {"insert", "flush"} => Rows(buffer) \subseteq gone
    <3>1. CASE run.step \in {"insert", "flush"}
      <4>1. run.gone \cup Rows(buffer) \in SUBSET Offsets
        BY <1>3 DEF Run, Rows
      <4>2. run' = [run EXCEPT !.gone = run.gone \cup Rows(buffer)]
        BY <1>5, <3>1 DEF ServerCrashes
      <4>3. QED
        BY <4>1, <4>2
    <3>2. CASE run.step \notin {"insert", "flush"}
      <4>1. run' = run /\ run.gone \in SUBSET Offsets /\ run = [run EXCEPT !.gone = run.gone]
        BY <1>3, <1>5, <3>2 DEF ServerCrashes, Run
      <4>2. QED
        BY <3>2, <4>1
    <3>3. QED
      BY <3>1, <3>2
  <2>5. /\ run' \in Run /\ run'.gone = gone /\ run'.left = run.left
        /\ run'.step = run.step /\ run'.pos = run.pos /\ run'.next = run.next /\ run'.at = run.at
        /\ run'.files = run.files /\ run'.clean = run.clean /\ run'.todo = run.todo
    BY <1>3, <2>4 DEF Run
  <2>6. TypeOK'
    BY <1>2, <2>1, <2>2, <2>3, <2>5 DEF EtlInv, TypeOK, Run
  <2>7. \A o \in Offsets : table'[o] + buffer'[o] > 0 => table[o] + buffer[o] > 0
    BY <1>1, <2>1
  <2>8. \A o, p : DaysApart(o, p)' <=> DaysApart(o, p)
    BY <1>2 DEF DaysApart
  <2>9. run.todo \subseteq Offsets
    BY <1>3 DEF Run
  <2>10. ASSUME run.step \in {"insert", "flush"}, NEW o \in run.todo,
                table[o] + buffer[o] > 0 \/ o \in run.gone
         PROVE  table'[o] + buffer'[o] > 0 \/ o \in gone
    <3>1. o \in Offsets
      BY <2>9
    <3>2. CASE table[o] + buffer[o] > 0 /\ buffer[o] > 0
      BY <2>4, <2>10, <3>1, <3>2 DEF Rows
    <3>3. CASE table[o] + buffer[o] > 0 /\ ~(buffer[o] > 0)
      BY <1>1, <2>1, <3>1, <3>3
    <3>4. QED
      BY <2>4, <2>10, <3>2, <3>3
  <2>11. Placed'
    <3>1. CASE run.step = "insert"
      <4>1. /\ run.left \subseteq run.todo
            /\ \A o \in run.left, p \in Offsets :
                 table'[p] + buffer'[p] > 0 /\ log[p].id = log[o].id => DaysApart(o, p)
        BY <2>7, <3>1 DEF EtlInv, Placed
      <4>2. \A o \in run.todo \ run.left :
              log[o].kind = "unloadable" \/ table'[o] + buffer'[o] > 0 \/ o \in gone
        BY <2>10, <3>1 DEF EtlInv, Placed
      <4>3. QED
        BY <1>2, <2>5, <2>8, <3>1, <4>1, <4>2 DEF Placed
    <3>2. CASE run.step = "flush"
      <4>1. \A o \in run.todo :
              log[o].kind = "unloadable" \/ table'[o] + buffer'[o] > 0 \/ o \in gone
        BY <2>10, <3>2 DEF EtlInv, Placed
      <4>2. QED
        BY <1>2, <2>5, <3>2, <4>1 DEF Placed
    <3>3. CASE run.step \notin {"insert", "flush"}
      BY <1>2, <2>1, <2>5, <3>3 DEF EtlInv, Placed
    <3>4. QED
      BY <3>1, <3>2, <3>3
  <2>12. QED
    BY <1>2, <2>5, <2>6, <2>11, QuietKeeps
<1>6. CASE ServerReturns
  <2>1. UNCHANGED <<run, buffer, table, faults>> /\ up' = TRUE
    BY <1>6 DEF ServerReturns
  <2>2. TypeOK'
    BY <1>2, <2>1 DEF EtlInv, TypeOK
  <2>3. Placed'
    BY <1>2, <2>1 DEF EtlInv, Placed, DaysApart
  <2>4. QED
    BY <1>2, <2>1, <2>2, <2>3, QuietKeeps
<1>7. QED
  BY <1>4, <1>5, <1>6

(***************************************************************************)
(* Lemma: the start of a task, and the failure of one.                     *)
(***************************************************************************)
LEMMA TaskKeeps ==
  ASSUME EtlInv, LogsAssumption, BoundsAssumption,
         \/ StartRun \/ EndExtract \/ EndValidate \/ EndLoad \/ EndRun
         \/ Refused \/ TaskFails
  PROVE  TypeOK' /\ Staged' /\ Sorted' /\ Loaded' /\ Placed' /\ Finished'
<1>1. TypeOK /\ buffer \in [Offsets -> Nat] /\ faults \in 0 .. MaxFaults
  BY DEF EtlInv, TypeOK
<1>2. UNCHANGED <<log, consumed, letters, rejected, quarantined, table, wiped, up>>
  BY DEF StartRun, EndExtract, EndValidate, EndLoad, EndRun, Refused, TaskFails
<1>3. faults' \in 0 .. MaxFaults
  <2>1. \/ faults' = faults
        \/ faults < MaxFaults /\ faults' = faults + 1
    BY DEF StartRun, EndExtract, EndValidate, EndLoad, EndRun, Refused, TaskFails
  <2>2. QED
    BY <1>1, <2>1 DEF BoundsAssumption
<1>4. buffer' \in [Offsets -> Nat]
  BY <1>1 DEF StartRun, EndExtract, EndValidate, EndLoad, EndRun, Refused, TaskFails
<1>5. ASSUME NEW task \in Tasks, Began(task),
             \/ task \in {"idle", "extract"}
             \/ run.step # "idle" /\ task = TaskOf(run.step)
             \/ run.step = "extract" /\ task = "validate"
             \/ run.step = "validate" /\ run.at > Len(run.files) /\ task = "load"
             \/ run.step = "load" /\ run.at > Len(run.clean) /\ task = "commit"
      PROVE  TypeOK' /\ Staged' /\ Sorted' /\ Loaded' /\ Placed' /\ Finished'
  <2>1. TypeOK'
    BY <1>1, <1>2, <1>3, <1>4, <1>5, BeganTyped
  <2>2. Staged' /\ Sorted' /\ Loaded' /\ Placed' /\ Finished'
    BY <1>2, <1>5, BeginningKeeps
  <2>3. QED
    BY <2>1, <2>2
<1>6. CASE StartRun
  BY <1>1, <1>5, <1>6, NextTaskBegins DEF StartRun, Tasks
<1>7. CASE EndExtract
  BY <1>1, <1>5, <1>7, NextTaskBegins DEF EndExtract, Tasks
<1>8. CASE EndValidate
  BY <1>1, <1>5, <1>8, NextTaskBegins DEF EndValidate, Tasks
<1>9. CASE EndLoad
  BY <1>1, <1>5, <1>9, NextTaskBegins DEF EndLoad, Tasks
<1>10. CASE EndRun
  BY <1>1, <1>5, <1>10, RunEnds DEF EndRun, Tasks
<1>11. CASE Refused \/ TaskFails
  <2>1. run' = Retried /\ run.step # "idle"
    BY <1>11 DEF Refused, TaskFails
  <2>2. TaskOf(run.step) \in Tasks
    BY DEF EtlInv, TypeOK, Steps, TaskOf, Tasks
  <2>3. "idle" \in Tasks
    BY DEF Tasks
  <2>4. QED
    BY <1>1, <1>5, <2>1, <2>2, <2>3, RetryBegins
<1>12. QED
  BY <1>6, <1>7, <1>8, <1>9, <1>10, <1>11

(***************************************************************************)
(* Lemma: a poll continues where the last one or the rebalance left off,   *)
(* so nothing between the committed and the next offset is left out.       *)
(***************************************************************************)
LEMMA ExtractKeeps ==
  ASSUME EtlInv, LogsAssumption, BoundsAssumption,
         Rebalance \/ \E n \in 1 .. BatchSize : ConsumeBatch(n)
  PROVE  TypeOK' /\ Staged' /\ Sorted' /\ Loaded' /\ Placed' /\ Finished'
<1>1. /\ run \in Run /\ consumed \in 0 .. End /\ consumed \in Nat /\ run.step = "extract"
      /\ End \in Nat /\ Offsets = 0 .. (End - 1) /\ BatchSize \in Nat
      /\ run.pos \in Nat /\ run.next \in Nat
  <2>1. End \in Nat /\ Offsets = 0 .. (End - 1)
    BY OffsetsAreNumbers
  <2>2. run \in Run /\ consumed \in 0 .. End /\ BatchSize \in Nat
    BY DEF EtlInv, TypeOK, Run, BoundsAssumption
  <2>3. run.step = "extract"
    BY DEF Rebalance, ConsumeBatch
  <2>4. run.pos \in 0 .. End /\ run.next \in 0 .. End
    BY <2>2 DEF Run
  <2>5. QED
    BY <2>1, <2>2, <2>3, <2>4
<1>2. /\ consumed <= run.pos /\ run.pos <= run.next
      /\ \A o \in Offsets : consumed <= o /\ o < run.next =>
           o \in letters \/ \E i \in 1 .. Len(run.files) : o \in run.files[i]
  BY <1>1 DEF EtlInv, Staged
<1>3. ASSUME run'.step = "extract"
      PROVE  Sorted' /\ Loaded' /\ Placed' /\ Finished'
  BY <1>3 DEF Sorted, Loaded, Placed, Finished, Loading
<1>4. CASE Rebalance
  <2>1. /\ run' = [run EXCEPT !.pos = consumed] /\ faults < MaxFaults /\ faults' = faults + 1
        /\ UNCHANGED <<log, consumed, letters, rejected, quarantined, buffer, table, wiped, up>>
    BY <1>4 DEF Rebalance
  <2>2. /\ run' \in Run /\ run'.step = "extract" /\ run'.pos = consumed
        /\ run'.next = run.next /\ run'.files = run.files
    BY <1>1, <2>1 DEF Run
  <2>3. faults' \in 0 .. MaxFaults
    BY <2>1 DEF EtlInv, TypeOK, BoundsAssumption
  <2>4. TypeOK'
    BY <2>1, <2>2, <2>3 DEF EtlInv, TypeOK, Run
  <2>5. Staged'
    BY <1>1, <1>2, <2>1, <2>2 DEF Staged
  <2>6. QED
    BY <1>3, <2>2, <2>4, <2>5
<1>5. ASSUME NEW n \in 1 .. BatchSize, ConsumeBatch(n)
      PROVE  TypeOK' /\ Staged' /\ Sorted' /\ Loaded' /\ Placed' /\ Finished'
  <2>1. /\ TypeOK' /\ run'.pos = run.pos + n
        /\ run'.next = IF run.next >= run.pos + n THEN run.next ELSE run.pos + n
    BY <1>1, <1>5, ConsumeTyped DEF EtlInv
  <2> DEFINE batch == run.pos .. (run.pos + n - 1)
             bad == OfKind(batch, "undecodable")
  <2>2. /\ run' = [run EXCEPT !.pos = @ + n, !.next = Advance(@, batch),
                              !.files = IF batch = bad THEN @ ELSE Append(@, batch \ bad)]
        /\ letters' = letters \cup bad /\ consumed' = consumed
    BY <1>5 DEF ConsumeBatch
  <2> HIDE DEF batch, bad
  <2>3. /\ run'.step = "extract"
        /\ run'.files = IF batch = bad THEN run.files ELSE Append(run.files, batch \ bad)
    BY <1>1, <2>2 DEF Run
  <2>4. run.files \in Seq(SUBSET Offsets)
    BY <1>1 DEF Run
  <2>5. \A o : (\E i \in 1 .. Len(run.files) : o \in run.files[i])
               => \E i \in 1 .. Len(run'.files) : o \in run'.files[i]
    <3>1. CASE batch = bad
      BY <2>3, <3>1
    <3>2. CASE batch # bad
      <4>1. Len(run'.files) = Len(run.files) + 1
            /\ \A i \in 1 .. Len(run.files) : run'.files[i] = run.files[i]
        BY <2>3, <2>4, <3>2
      <4>2. QED
        BY <2>4, <4>1
    <3>3. QED
      BY <3>1, <3>2
  <2>6. \A o \in batch \ bad : \E i \in 1 .. Len(run'.files) : o \in run'.files[i]
    <3>1. CASE batch = bad
      BY <3>1
    <3>2. CASE batch # bad
      <4>1. Len(run'.files) = Len(run.files) + 1
            /\ run'.files[Len(run.files) + 1] = batch \ bad
        BY <2>3, <2>4, <3>2
      <4>2. Len(run.files) + 1 \in 1 .. Len(run'.files)
        BY <2>4, <4>1
      <4>3. QED
        BY <4>1, <4>2
    <3>3. QED
      BY <3>1, <3>2
  <2>7. ASSUME NEW o \in Offsets, consumed <= o, o < run'.next
        PROVE  o \in letters' \/ \E i \in 1 .. Len(run'.files) : o \in run'.files[i]
    <3>1. o \in Int
      BY <1>1
    <3>2. CASE o < run.next
      BY <1>2, <2>2, <2>5, <2>7, <3>2
    <3>3. CASE run.next <= o
      <4>1. o < run.pos + n /\ run.pos <= o
        BY <1>1, <1>2, <2>1, <2>7, <3>1, <3>3
      <4>2. o \in batch
        BY <1>1, <3>1, <4>1 DEF batch
      <4>3. QED
        BY <2>2, <2>6, <4>2
    <3>4. QED
      BY <1>1, <3>1, <3>2, <3>3
  <2>8. consumed <= run'.pos /\ run'.pos <= run'.next
    BY <1>1, <1>2, <2>1
  <2>9. Staged'
    BY <2>2, <2>7, <2>8 DEF Staged
  <2>10. QED
    BY <1>3, <2>1, <2>3, <2>9
<1>6. QED
  BY <1>4, <1>5

(***************************************************************************)
(* Lemma: a validated file is split into its clean file, which has no      *)
(* transaction twice, and its rejects.                                     *)
(***************************************************************************)
LEMMA ValidIsDistinct ==
  ASSUME LogsAssumption, NEW file \in SUBSET Offsets, NEW recent
  PROVE  Distinct(Valid(file, recent))
<1>1. SUFFICES ASSUME NEW o \in Valid(file, recent), NEW p \in Valid(file, recent),
                      log[o].id = log[p].id, o # p
               PROVE  FALSE
  BY DEF Distinct
<1>2. o \in Nat /\ p \in Nat
  BY OffsetsAreNumbers DEF Valid, ReachesR5
<1>3. ~(p < o)
  BY <1>1 DEF Valid, Duplicate, IdsOf
<1>4. ~(o < p)
  BY <1>1 DEF Valid, Duplicate, IdsOf
<1>5. QED
  BY <1>1, <1>2, <1>3, <1>4

(***************************************************************************)
(* Lemma: the validation of a file keeps what the run knows.               *)
(***************************************************************************)
LEMMA ValidateKeeps ==
  ASSUME EtlInv, LogsAssumption, NEW recent, ValidateFile(recent)
  PROVE  TypeOK' /\ Staged' /\ Sorted' /\ Loaded' /\ Placed' /\ Finished'
<1> PICK file, valid : file = run.files[run.at] /\ valid = Valid(file, recent)
    OBVIOUS
<1>1. /\ TypeOK' /\ run.at \in 1 .. Len(run.files)
      /\ run' = [run EXCEPT !.at = @ + 1, !.clean = Append(@, valid)]
      /\ rejected' = rejected \cup Rejects(file, valid)
  BY ValidateTyped DEF EtlInv
<1>2. run \in Run /\ run.step = "validate" /\ UNCHANGED <<log, consumed, letters>>
  BY DEF EtlInv, TypeOK, Run, ValidateFile
<1>3. /\ run'.step = "validate" /\ run'.at = run.at + 1 /\ run'.files = run.files
      /\ run'.next = run.next /\ run'.clean = Append(run.clean, valid)
  BY <1>1, <1>2 DEF Run
<1>4. Staged'
  BY <1>2, <1>3 DEF EtlInv, Staged
<1>5. /\ run.clean \in Seq(SUBSET Offsets) /\ run.files \in Seq(SUBSET Offsets)
      /\ run.at \in Nat /\ Len(run.clean) = run.at - 1
      /\ \A i \in 1 .. Len(run.clean) : /\ run.files[i] \subseteq rejected \cup run.clean[i]
                                        /\ Distinct(run.clean[i])
  BY <1>2 DEF Run, EtlInv, Sorted
<1>6. /\ Len(run'.clean) = run.at /\ run'.clean[run.at] = valid
      /\ \A i \in 1 .. Len(run.clean) : run'.clean[i] = run.clean[i]
  BY <1>3, <1>5
<1>7. Distinct(valid) /\ file \subseteq rejected' \cup valid
  <2>1. file \in SUBSET Offsets
    BY <1>1, <1>5
  <2>2. QED
    BY <1>1, <2>1, ValidIsDistinct DEF Rejects
<1>8. ASSUME NEW i \in 1 .. Len(run'.clean)
      PROVE  run'.files[i] \subseteq rejected' \cup run'.clean[i] /\ Distinct(run'.clean[i])
  <2>1. CASE i = run.at
    BY <1>3, <1>6, <1>7, <2>1
  <2>2. CASE i # run.at
    <3>1. i \in 1 .. Len(run.clean) /\ run'.clean[i] = run.clean[i]
      BY <1>5, <1>6, <2>2
    <3>2. QED
      BY <1>1, <1>3, <1>5, <3>1
  <2>3. QED
    BY <2>1, <2>2
<1>9. Sorted'
  <2>1. \A S : Distinct(S)' <=> Distinct(S)
    BY <1>2 DEF Distinct
  <2>2. Len(run'.clean) = run'.at - 1 /\ Len(run'.clean) <= Len(run'.files)
    BY <1>1, <1>3, <1>5, <1>6
  <2>3. QED
    BY <1>3, <1>8, <2>1, <2>2 DEF Sorted
<1>10. Loaded' /\ Placed' /\ Finished'
  BY <1>3 DEF Loaded, Placed, Finished, Loading
<1>11. QED
  BY <1>1, <1>4, <1>9, <1>10

-----------------------------------------------------------------------------
(***************************************************************************)
(* Lemma: a step of the load that keeps the files and the next offset      *)
(* keeps what was staged and sorted.                                       *)
(***************************************************************************)
LEMMA LoadKeepsFiles ==
  ASSUME EtlInv, run.step \in Loading, run'.step \in Loading,
         run'.files = run.files, run'.clean = run.clean, run'.next = run.next,
         UNCHANGED <<log, consumed, letters, rejected>>
  PROVE  Staged' /\ Sorted' /\ Finished'
<1>1. Staged'
  BY DEF EtlInv, Staged, Loading
<1>2. Sorted'
  <2>1. \A S : Distinct(S)' <=> Distinct(S)
    BY DEF Distinct
  <2>2. QED
    BY <2>1 DEF EtlInv, Sorted, Loading
<1>3. Finished'
  BY DEF Finished, Loading
<1>4. QED
  BY <1>1, <1>2, <1>3

(***************************************************************************)
(* Lemma: the rows the check finds in the table are covered; the others    *)
(* have no copy in ClickHouse but days apart, for the buffer is empty.     *)
(***************************************************************************)
LEMMA CheckKeeps ==
  ASSUME EtlInv, LogsAssumption, Grows, CheckFile
  PROVE  TypeOK' /\ Staged' /\ Sorted' /\ Loaded' /\ Placed' /\ Finished'
<1>1. /\ TypeOK' /\ run.at \in 1 .. Len(run.clean) /\ table' = Flushed
      /\ buffer' = [o \in Offsets |-> buffer[o] + table[o] - table'[o]]
      /\ \/ Todo = {} /\ run' = [run EXCEPT !.at = @ + 1]
         \/ run' = [run EXCEPT !.step = "insert", !.todo = Todo, !.left = Todo]
  BY CheckTyped DEF EtlInv
<1>2. run \in Run /\ run.step = "load" /\ UNCHANGED <<log, consumed, letters, rejected, quarantined>>
  BY DEF EtlInv, TypeOK, Run, CheckFile
<1>3. /\ \A o \in Offsets : table'[o] = Copies(o) /\ buffer'[o] = 0 /\ Copies(o)' = Copies(o)
      /\ table' \in [Offsets -> Nat]
  BY <1>1, CopiesMove DEF EtlInv
<1>4. run.clean \in Seq(SUBSET Offsets) /\ run.at \in Nat
  BY <1>2 DEF Run
<1>5. ASSUME NEW o \in run.clean[run.at], o \notin Todo
      PROVE  Covered(o)'
  <2>1. log[o].id \in Nearby(run.clean[run.at], Flushed)
    BY <1>5 DEF Todo
  <2>2. PICK p \in Offsets : Flushed[p] > 0 /\ log[p].id = log[o].id
    BY <2>1 DEF Nearby, IdsOf, Rows
  <2>3. QED
    BY <1>1, <1>2, <2>2 DEF Covered
<1>6. ASSUME NEW o \in Todo, NEW p \in Offsets, table'[p] + buffer'[p] > 0, log'[p].id = log'[o].id
      PROVE  DaysApart(o, p)'
  <2>1. Flushed[p] > 0
    BY <1>1, <1>3, <1>6
  <2>2. o \in run.clean[run.at] /\ run.clean[run.at] \in SUBSET Offsets
    BY <1>1, <1>4, <1>6 DEF Todo
  <2>3. TypeOK /\ log[o].id \notin Nearby(run.clean[run.at], Flushed) /\ log[p].id = log[o].id
    BY <1>2, <1>6 DEF Todo, EtlInv
  <2>4. DaysApart(o, p)
    BY <2>1, <2>2, <2>3, NotNearby
  <2>5. QED
    BY <1>2, <2>4 DEF DaysApart
<1>7. \A o : Covered(o) => Covered(o)'
  BY CoveredStays
<1>8. \A i \in 1 .. Len(run.clean) : i < run.at => \A o \in run.clean[i] : Covered(o)'
  BY <1>2, <1>7 DEF EtlInv, Loaded, Loading
<1>9. Todo \subseteq run.clean[run.at]
  BY DEF Todo
<1> HIDE DEF Todo
<1>10. CASE Todo = {} /\ run' = [run EXCEPT !.at = @ + 1]
  <2>1. /\ run'.step = "load" /\ run'.at = run.at + 1 /\ run'.files = run.files
        /\ run'.clean = run.clean /\ run'.next = run.next
    BY <1>2, <1>10 DEF Run
  <2>2. Staged' /\ Sorted' /\ Finished'
    BY <1>2, <2>1, LoadKeepsFiles DEF Loading
  <2>3. ASSUME NEW i \in 1 .. Len(run.clean), i < run.at + 1, NEW o \in run.clean[i]
        PROVE  Covered(o)'
    <3>1. CASE i = run.at
      BY <1>5, <1>10, <2>3, <3>1
    <3>2. CASE i # run.at
      <4>1. i < run.at
        BY <1>4, <2>3, <3>2
      <4>2. QED
        BY <1>8, <2>3, <4>1
    <3>3. QED
      BY <3>1, <3>2
  <2>4. Loaded' /\ Placed'
    BY <2>1, <2>3 DEF Loaded, Placed
  <2>5. QED
    BY <1>1, <2>2, <2>4
<1>11. CASE run' = [run EXCEPT !.step = "insert", !.todo = Todo, !.left = Todo]
  <2>1. /\ run'.step = "insert" /\ run'.todo = Todo /\ run'.left = Todo /\ run'.at = run.at
        /\ run'.files = run.files /\ run'.clean = run.clean /\ run'.next = run.next
    BY <1>2, <1>11 DEF Run
  <2>2. Staged' /\ Sorted' /\ Finished'
    BY <1>2, <2>1, LoadKeepsFiles DEF Loading
  <2>3. Loaded'
    BY <1>1, <1>4, <1>5, <1>8, <1>9, <2>1 DEF Loaded
  <2>4. Placed'
    BY <1>6, <2>1 DEF Placed
  <2>5. QED
    BY <1>1, <2>2, <2>3, <2>4
<1>12. QED
  BY <1>1, <1>10, <1>11

(***************************************************************************)
(* Lemma: a part of the file that is inserted is in the buffer, but for a  *)
(* row that cannot be loaded; the rest of the file has other ids.          *)
(***************************************************************************)
LEMMA InsertKeeps ==
  ASSUME EtlInv, Grows, NEW last \in Offsets, InsertPart(last)
  PROVE  TypeOK' /\ Staged' /\ Sorted' /\ Loaded' /\ Placed' /\ Finished'
<1>1. PICK part \in SUBSET run.left :
        /\ run \in Run /\ run.step = "insert"
        /\ run' = [run EXCEPT !.left = @ \ part,
                              !.step = IF run.left = part THEN "flush" ELSE "insert"]
        /\ buffer' = Insert(buffer, part \ OfKind(part, "unloadable"))
        /\ UNCHANGED <<log, consumed, letters, rejected, quarantined, table, wiped, up, faults>>
  <2> DEFINE first == {o \in run.left : o <= last}
  <2>1. /\ run.step = "insert"
        /\ run' = [run EXCEPT !.left = @ \ first,
                              !.step = IF run.left = first THEN "flush" ELSE "insert"]
        /\ buffer' = Insert(buffer, first \ OfKind(first, "unloadable"))
        /\ UNCHANGED <<log, consumed, letters, rejected, quarantined, table, wiped, up, faults>>
    BY DEF InsertPart
  <2>2. run \in Run /\ first \in SUBSET run.left
    BY DEF EtlInv, TypeOK, Run
  <2> HIDE DEF first
  <2>3. QED
    BY <2>1, <2>2
<1>2. /\ run' \in Run /\ run'.step = IF run.left = part THEN "flush" ELSE "insert"
      /\ run'.todo = run.todo /\ run'.left = run.left \ part /\ run'.gone = run.gone
      /\ run'.at = run.at /\ run'.files = run.files /\ run'.clean = run.clean
      /\ run'.next = run.next
  BY <1>1 DEF Run, Steps
<1>3. TypeOK'
  BY <1>1, <1>2, InsertTyped DEF EtlInv, TypeOK, Run
<1>4. Staged' /\ Sorted' /\ Finished'
  BY <1>1, <1>2, LoadKeepsFiles DEF Loading
<1>5. \A o : Covered(o) => Covered(o)'
  BY CoveredStays
<1>6. Loaded'
  BY <1>1, <1>2, <1>5 DEF EtlInv, Loaded, Loading
<1>7. /\ run.left \subseteq run.todo /\ run.todo \subseteq Offsets
      /\ \A o \in Offsets : table[o] \in Nat /\ buffer[o] \in Nat
      /\ \A o \in Offsets : buffer'[o] = buffer[o] + (IF o \in part \ OfKind(part, "unloadable") THEN 1 ELSE 0)
  BY <1>1 DEF EtlInv, Placed, TypeOK, Run, Insert
<1>8. ASSUME NEW o \in run.todo, o \notin run.left \ part
      PROVE  log[o].kind = "unloadable" \/ table'[o] + buffer'[o] > 0 \/ o \in run.gone
  <2>1. CASE o \in part
    BY <1>1, <1>7, <2>1 DEF OfKind
  <2>2. CASE o \notin run.left
    <3>1. log[o].kind = "unloadable" \/ table[o] + buffer[o] > 0 \/ o \in run.gone
      BY <1>1, <2>2 DEF EtlInv, Placed
    <3>2. QED
      BY <1>1, <1>7, <3>1
  <2>3. QED
    BY <1>8, <2>1, <2>2
<1>9. ASSUME NEW o \in run.left \ part, NEW p \in Offsets,
             table'[p] + buffer'[p] > 0, log[p].id = log[o].id
      PROVE  DaysApart(o, p)
  <2>1. CASE p \in part
    <3>1. run.at \in 1 .. Len(run.clean) /\ o \in run.clean[run.at] /\ p \in run.clean[run.at]
      BY <1>1, <1>7, <2>1 DEF EtlInv, Loaded, Run
    <3>2. o = p
      BY <1>1, <1>9, <3>1 DEF EtlInv, Sorted, Loading, Distinct
    <3>3. QED
      BY <1>9, <2>1, <3>2
  <2>2. CASE p \notin part
    <3>1. table[p] + buffer[p] > 0
      <4>1. buffer[p] \in Nat /\ table' = table /\ p \notin part \ OfKind(part, "unloadable")
        BY <1>1, <1>7, <2>2
      <4>2. buffer'[p] = buffer[p] + 0
        BY <1>7, <4>1
      <4>3. QED
        BY <1>9, <4>1, <4>2
    <3>2. QED
      BY <1>1, <1>9, <3>1 DEF EtlInv, Placed
  <2>3. QED
    BY <2>1, <2>2
<1>10. Placed'
  <2>1. \A o, p : DaysApart(o, p)' <=> DaysApart(o, p)
    BY <1>1 DEF DaysApart
  <2>2. CASE run.left = part
    <3>1. run'.step = "flush"
      BY <1>2, <2>2
    <3>2. \A o \in run.todo : o \notin run.left \ part
      BY <2>2
    <3>3. QED
      BY <1>1, <1>2, <1>8, <3>1, <3>2 DEF Placed
  <2>3. CASE run.left # part
    <3>1. run'.step = "insert"
      BY <1>2, <2>3
    <3>2. QED
      BY <1>1, <1>2, <1>7, <1>8, <1>9, <2>1, <3>1 DEF Placed
  <2>4. QED
    BY <2>2, <2>3
<1>11. QED
  BY <1>3, <1>4, <1>6, <1>10

(***************************************************************************)
(* Lemma: what is flushed is in the table, or was lost with the buffer.    *)
(***************************************************************************)
LEMMA FlushKeeps ==
  ASSUME EtlInv, Grows, FlushRows
  PROVE  TypeOK' /\ Staged' /\ Sorted' /\ Loaded' /\ Placed' /\ Finished'
<1>1. /\ run \in Run /\ run.step = "flush" /\ up
      /\ run' = [run EXCEPT !.step = "aside", !.gone = {}] /\ wiped' = wiped \cup run.gone
      /\ table' = Flushed
      /\ buffer' = [o \in Offsets |-> buffer[o] + table[o] - table'[o]]
      /\ UNCHANGED <<log, consumed, letters, rejected, quarantined, up, faults>>
  BY DEF EtlInv, TypeOK, Run, FlushRows
<1>2. /\ run' \in Run /\ run'.step = "aside" /\ run'.todo = run.todo /\ run'.at = run.at
      /\ run'.files = run.files /\ run'.clean = run.clean /\ run'.next = run.next
  BY <1>1 DEF Run, Steps
<1>3. /\ table' \in [Offsets -> Nat] /\ buffer' \in [Offsets -> Nat]
      /\ \A o \in Offsets : table'[o] = Copies(o)
  BY <1>1, CopiesMove DEF EtlInv
<1>4. TypeOK'
  <2>1. wiped' \in SUBSET Offsets
    BY <1>1 DEF EtlInv, TypeOK, Run
  <2>2. QED
    BY <1>1, <1>2, <1>3, <2>1 DEF EtlInv, TypeOK, Run
<1>5. Staged' /\ Sorted' /\ Finished'
  BY <1>1, <1>2, LoadKeepsFiles DEF Loading
<1>6. \A o : Covered(o) => Covered(o)'
  BY CoveredStays
<1>7. Loaded'
  BY <1>1, <1>2, <1>6 DEF EtlInv, Loaded, Loading
<1>8. \A o \in run.todo : log[o].kind = "unloadable" \/ table'[o] > 0 \/ o \in wiped'
  <2>1. run.todo \subseteq Offsets
    BY <1>1 DEF Run
  <2>2. \A o \in run.todo : log[o].kind = "unloadable" \/ Copies(o) > 0 \/ o \in run.gone
    BY <1>1 DEF EtlInv, Placed, Copies
  <2>3. QED
    BY <1>1, <1>3, <2>1, <2>2
<1>9. Placed'
  BY <1>1, <1>2, <1>8 DEF Placed
<1>10. QED
  BY <1>4, <1>5, <1>7, <1>9

(***************************************************************************)
(* Lemma: once the unloadable rows are in quarantine, the file is covered. *)
(***************************************************************************)
LEMMA QuarantineKeeps ==
  ASSUME EtlInv, Grows, Quarantine
  PROVE  TypeOK' /\ Staged' /\ Sorted' /\ Loaded' /\ Placed' /\ Finished'
<1>1. /\ run \in Run /\ run.step = "aside"
      /\ run' = [run EXCEPT !.step = "load", !.at = @ + 1, !.todo = {}]
      /\ quarantined' = quarantined \cup OfKind(run.todo, "unloadable")
      /\ UNCHANGED <<log, consumed, letters, rejected, buffer, table, wiped, up, faults>>
  BY DEF EtlInv, TypeOK, Run, Quarantine
<1>2. run.at \in Nat \ {0} /\ run.todo \in SUBSET Offsets /\ run.clean \in Seq(SUBSET Offsets)
  BY <1>1 DEF Run
<1>3. PICK at \in Nat \ {0} : at = run.at + 1
  BY <1>2
<1>4. run' = [run EXCEPT !.step = "load", !.at = at, !.todo = {}]
  BY <1>1, <1>3
<1>5. /\ run' \in Run /\ run'.step = "load" /\ run'.at = run.at + 1
      /\ run'.files = run.files /\ run'.clean = run.clean /\ run'.next = run.next
  BY <1>1, <1>3, <1>4 DEF Run, Steps
<1>6. TypeOK'
  <2>1. OfKind(run.todo, "unloadable") \subseteq Offsets
    BY <1>2 DEF OfKind
  <2>2. QED
    BY <1>1, <1>5, <2>1 DEF EtlInv, TypeOK, Run
<1>7. Staged' /\ Sorted' /\ Finished'
  BY <1>1, <1>5, LoadKeepsFiles DEF Loading
<1>8. \A o : Covered(o) => Covered(o)'
  BY CoveredStays
<1>9. ASSUME NEW o \in run.todo
      PROVE  Covered(o)'
  <2>1. CASE log[o].kind = "unloadable"
    BY <1>1, <2>1 DEF OfKind, Covered
  <2>2. CASE log[o].kind # "unloadable"
    <3>1. o \in Offsets /\ (table[o] > 0 \/ o \in wiped)
      BY <1>1, <1>2, <2>2 DEF EtlInv, Placed
    <3>2. QED
      BY <1>1, <3>1 DEF Covered
  <2>3. QED
    BY <2>1, <2>2
<1>10. ASSUME NEW i \in 1 .. Len(run.clean), i < run.at + 1, NEW o \in run.clean[i]
       PROVE  Covered(o)'
  <2>1. CASE i = run.at
    BY <1>1, <1>8, <1>9, <1>10, <2>1 DEF EtlInv, Loaded
  <2>2. CASE i # run.at
    <3>1. i < run.at
      BY <1>2, <1>10, <2>2
    <3>2. QED
      BY <1>1, <1>8, <1>10, <3>1 DEF EtlInv, Loaded, Loading
  <2>3. QED
    BY <2>1, <2>2
<1>11. Loaded' /\ Placed'
  BY <1>5, <1>10 DEF Loaded, Placed
<1>12. QED
  BY <1>6, <1>7, <1>11

(***************************************************************************)
(* Lemma: the commit moves the committed offset to the next one.           *)
(***************************************************************************)
LEMMA CommitKeeps ==
  ASSUME EtlInv, LogsAssumption, Grows, CommitOffsets
  PROVE  /\ TypeOK' /\ Staged' /\ Sorted' /\ Loaded' /\ Placed' /\ Finished'
         /\ consumed' = IF consumed >= run.next THEN consumed ELSE run.next
<1>1. /\ run \in Run /\ run.step = "commit" /\ run' = [run EXCEPT !.step = "report"]
      /\ consumed' = Max({consumed, run.next})
      /\ UNCHANGED <<log, letters, rejected, quarantined, buffer, table, wiped, up, faults>>
  BY DEF EtlInv, TypeOK, Run, CommitOffsets
<1>2. End \in Nat /\ consumed \in 0 .. End /\ run.next \in 0 .. End
  BY <1>1, OffsetsAreNumbers DEF EtlInv, TypeOK, Run
<1>3. consumed' = IF consumed >= run.next THEN consumed ELSE run.next
  BY <1>1, <1>2 DEF Max
<1>4. run' \in Run /\ run'.step = "report" /\ run'.next = run.next
  BY <1>1 DEF Run, Steps
<1>5. TypeOK'
  BY <1>1, <1>2, <1>3, <1>4 DEF EtlInv, TypeOK, Run
<1>6. \A o : Covered(o) => Covered(o)'
  BY CoveredStays
<1>7. Finished'
  BY <1>1, <1>4, <1>6 DEF EtlInv, Finished
<1>8. Staged'
  <2>1. \A o \in Offsets : ~(consumed' <= o /\ o < run'.next)
    BY <1>2, <1>3, <1>4, OffsetsAreNumbers
  <2>2. QED
    BY <1>4, <2>1 DEF Staged
<1>9. Sorted' /\ Loaded' /\ Placed'
  BY <1>4 DEF Sorted, Loaded, Placed, Loading
<1>10. QED
  BY <1>3, <1>5, <1>7, <1>8, <1>9

-----------------------------------------------------------------------------
(***************************************************************************)
(* Lemma: every step keeps what the run knows.                             *)
(***************************************************************************)
LEMMA StepKeepsRun ==
  ASSUME EtlInv, LogsAssumption, BoundsAssumption, [Next]_vars
  PROVE  TypeOK' /\ Staged' /\ Sorted' /\ Loaded' /\ Placed' /\ Finished'
<1>1. Grows
  BY StepGrows DEF EtlInv
<1>2. CASE UNCHANGED vars
  <2>1. TypeOK'
    BY <1>2 DEF vars, EtlInv, TypeOK
  <2>2. Placed'
    BY <1>2 DEF vars, EtlInv, Placed, DaysApart
  <2>3. QED
    BY <1>1, <1>2, <2>1, <2>2, QuietKeeps DEF vars
<1>3. CASE (\E n \in 1 .. BatchSize : ConsumeBatch(n)) \/ Rebalance
  BY <1>3, ExtractKeeps
<1>4. CASE \E recent \in SUBSET IdsOf(Rows(table)) : ValidateFile(recent)
  BY <1>4, ValidateKeeps
<1>5. CASE CheckFile \/ (\E o \in Offsets : InsertPart(o)) \/ FlushRows \/ Quarantine
  BY <1>1, <1>5, CheckKeeps, InsertKeeps, FlushKeeps, QuarantineKeeps
<1>6. CASE CommitOffsets
  BY <1>1, <1>6, CommitKeeps
<1>7. CASE \/ StartRun \/ EndExtract \/ EndValidate \/ EndLoad \/ EndRun
           \/ Refused \/ TaskFails
  BY <1>7, TaskKeeps
<1>8. CASE BufferFlushes \/ ServerCrashes \/ ServerReturns
  BY <1>1, <1>8, ServerKeeps
<1>9. QED
  BY <1>2, <1>3, <1>4, <1>5, <1>6, <1>7, <1>8 DEF Next, Work

(***************************************************************************)
(* Lemma: the offsets are committed after what lies below them is covered. *)
(***************************************************************************)
LEMMA StepLosesNothing ==
  ASSUME EtlInv, LogsAssumption, [Next]_vars
  PROVE  NothingIsLost'
<1>1. Grows
  BY StepGrows DEF EtlInv
<1>2. SUFFICES ASSUME NEW o \in Offsets, o < consumed'
               PROVE  Covered(o)'
  BY DEF NothingIsLost, Covered
<1>3. CASE CommitOffsets
  <2>1. consumed' = IF consumed >= run.next THEN consumed ELSE run.next
    BY <1>1, <1>3, CommitKeeps
  <2>2. o < consumed \/ o < run.next
    BY <1>2, <2>1
  <2>3. Covered(o)
    BY <1>3, <2>2 DEF CommitOffsets, EtlInv, NothingIsLost, Finished, Covered
  <2>4. QED
    BY <1>1, <2>3, CoveredStays
<1>4. CASE ~CommitOffsets
  <2>1. consumed' = consumed
    BY <1>4 DEF Next, Work, vars, StartRun, ConsumeBatch, Rebalance, EndExtract, ValidateFile,
                EndValidate, CheckFile, InsertPart, FlushRows, Quarantine, EndLoad,
                EndRun, TaskFails, Refused, BufferFlushes, ServerCrashes, ServerReturns
  <2>2. Covered(o)
    BY <1>2, <2>1 DEF EtlInv, NothingIsLost, Covered
  <2>3. QED
    BY <1>1, <2>2, CoveredStays
<1>5. QED
  BY <1>3, <1>4

(***************************************************************************)
(* Lemma: an insert brings only transactions that ClickHouse does not have *)
(* but under a date days apart, each once.                                 *)
(***************************************************************************)
LEMMA InsertLoadsOnce ==
  ASSUME EtlInv, LogsAssumption, run.step = "insert", NEW S, S \subseteq run.left,
         buffer' = Insert(buffer, S), UNCHANGED <<log, table>>
  PROVE  LoadedOnce'
<1>1. run \in Run /\ \A o \in Offsets : table[o] \in Nat /\ buffer[o] \in Nat
  BY DEF EtlInv, TypeOK, Run
<1>2. \A o \in Offsets : buffer'[o] = buffer[o] + (IF o \in S THEN 1 ELSE 0)
  BY DEF Insert
<1>3. \A o \in S, p \in Offsets :
        Copies(p) > 0 /\ log[p].id = log[o].id => DaysApart(o, p)
  BY DEF EtlInv, Placed, Copies
<1>4. S \subseteq Offsets /\ \A o, p \in S : log[o].id = log[p].id => o = p
  <2>1. /\ run.step \in Loading /\ run.at \in 1 .. Len(run.clean)
        /\ S \subseteq run.todo /\ S \subseteq run.clean[run.at]
    BY <1>1 DEF EtlInv, Loaded, Placed, Loading, Run
  <2>2. Distinct(run.clean[run.at])
    BY <2>1 DEF EtlInv, Sorted
  <2>3. QED
    BY <1>1, <2>1, <2>2 DEF Distinct, Run
<1>5. \A o \in Offsets : DaysApart(o, o) => FALSE
  <2>1. \A o \in Offsets : log[o].day \in Nat
    BY DEF EtlInv, TypeOK, Messages, LogsAssumption
  <2>2. QED
    BY <2>1 DEF DaysApart
<1>6. \A o \in Offsets : /\ o \in S => Copies(o) = 0 /\ Copies(o)' = 1
                         /\ o \notin S => Copies(o)' = Copies(o)
  <2>1. \A o \in S : Copies(o) = 0
    BY <1>1, <1>3, <1>4, <1>5 DEF Copies
  <2>2. QED
    BY <1>1, <1>2, <2>1 DEF Copies
<1>7. \A o, p \in Offsets :
        /\ Copies(o) <= 1
        /\ Copies(o) > 0 /\ Copies(p) > 0 /\ log[o].id = log[p].id => o = p \/ DaysApart(o, p)
  BY DEF EtlInv, LoadedOnce, Copies
<1>8. \A o, p : (DaysApart(o, p)' <=> DaysApart(o, p)) /\ (DaysApart(o, p) <=> DaysApart(p, o))
  BY DEF DaysApart
<1>9. SUFFICES ASSUME NEW o \in Offsets, NEW p \in Offsets
               PROVE  /\ Copies(o)' <= 1
                      /\ Copies(o)' > 0 /\ Copies(p)' > 0 /\ log[o].id = log[p].id
                         => o = p \/ DaysApart(o, p)
  BY <1>8 DEF LoadedOnce, Copies
<1> HIDE DEF Copies
<1>10. Copies(o)' <= 1
  BY <1>6, <1>7
<1>11. ASSUME Copies(o)' > 0, Copies(p)' > 0, log[o].id = log[p].id
       PROVE  o = p \/ DaysApart(o, p)
  <2>1. CASE o \in S /\ p \in S
    BY <1>4, <1>11, <2>1
  <2>2. CASE o \in S /\ p \notin S
    BY <1>3, <1>6, <1>11, <2>2
  <2>3. CASE o \notin S /\ p \in S
    BY <1>3, <1>6, <1>8, <1>11, <2>3
  <2>4. CASE o \notin S /\ p \notin S
    BY <1>6, <1>7, <1>11, <2>4
  <2>5. QED
    BY <2>1, <2>2, <2>3, <2>4
<1>12. QED
  BY <1>10, <1>11

(***************************************************************************)
(* Lemma: nor does any other step, which adds no row.                      *)
(***************************************************************************)
LEMMA StepLoadsOnce ==
  ASSUME EtlInv, LogsAssumption, [Next]_vars
  PROVE  LoadedOnce'
<1>1. ASSUME NEW last \in Offsets, InsertPart(last)
      PROVE  LoadedOnce'
  <2>1. PICK S \in SUBSET run.left : buffer' = Insert(buffer, S)
    BY <1>1 DEF InsertPart
  <2>2. QED
    BY <1>1, <2>1, InsertLoadsOnce DEF InsertPart
<1>2. log' = log => \A o, p : DaysApart(o, p)' <=> DaysApart(o, p)
  BY DEF DaysApart
<1>3. ASSUME log' = log, \A o \in Offsets : Copies(o)' = Copies(o) \/ Copies(o)' = 0
      PROVE  LoadedOnce'
  <2>1. \A o \in Offsets : Copies(o)' <= 1 /\ (Copies(o)' > 0 => Copies(o) > 0)
    BY <1>3 DEF EtlInv, LoadedOnce, Copies
  <2>2. QED
    BY <1>2, <1>3, <2>1 DEF EtlInv, LoadedOnce, Copies
<1>4. CASE CheckFile \/ FlushRows \/ BufferFlushes
  <2>1. /\ log' = log /\ table' = Flushed
        /\ buffer' = Empty \/ buffer' = [o \in Offsets |-> buffer[o] + table[o] - table'[o]]
    BY <1>4 DEF CheckFile, FlushRows, BufferFlushes
  <2>2. \A o \in Offsets : Copies(o)' = Copies(o)
    BY <2>1, CopiesMove DEF EtlInv
  <2>3. QED
    BY <1>3, <2>1, <2>2
<1>5. CASE ServerCrashes
  <2>1. UNCHANGED <<log, table>> /\ \A o \in Offsets : buffer'[o] = 0
    BY <1>5 DEF ServerCrashes, Empty
  <2>2. \A o \in Offsets : table[o] \in Nat /\ buffer[o] \in Nat
    BY DEF EtlInv, TypeOK
  <2>3. \A o \in Offsets : Copies(o)' <= Copies(o)
    BY <2>1, <2>2 DEF Copies
  <2>4. \A o \in Offsets : Copies(o)' \in Nat /\ Copies(o) \in Nat /\ Copies(o) <= 1
    BY <2>1, <2>2 DEF Copies, EtlInv, LoadedOnce
  <2>5. \A o \in Offsets : Copies(o)' = Copies(o) \/ Copies(o)' = 0
    BY <2>3, <2>4
  <2>6. QED
    BY <1>3, <2>1, <2>5
<1>6. CASE UNCHANGED <<log, table, buffer>>
  BY <1>3, <1>6 DEF Copies
<1>7. QED
  BY <1>1, <1>4, <1>5, <1>6
     DEF Next, Work, vars, StartRun, ConsumeBatch, Rebalance, EndExtract, ValidateFile,
         EndValidate, Quarantine, EndLoad, CommitOffsets, EndRun, TaskFails, Refused, ServerReturns

-----------------------------------------------------------------------------
(***************************************************************************)
(* Lemma: the invariant holds at first.                                    *)
(***************************************************************************)
LEMMA InitEtl ==
  ASSUME LogsAssumption, BoundsAssumption, Init
  PROVE  EtlInv
<1>1. /\ run = [step |-> "idle", tries |-> 0, pos |-> 0, next |-> 0, files |-> <<>>,
                clean |-> <<>>, at |-> 1, todo |-> {}, left |-> {}, gone |-> {}]
      /\ log \in Logs /\ consumed = 0 /\ letters = {} /\ rejected = {} /\ quarantined = {}
      /\ buffer = Empty /\ table = Empty /\ wiped = {} /\ up = TRUE /\ faults = 0
  BY DEF Init
<1>2. End \in Nat /\ Offsets \subseteq Nat /\ 0 \in 0 .. MaxRetries /\ 0 \in 0 .. MaxFaults
  BY OffsetsAreNumbers DEF BoundsAssumption
<1>3. 0 \in 0 .. End /\ <<>> \in Seq(SUBSET Offsets) /\ 1 \in Nat \ {0} /\ {} \in SUBSET Offsets
  BY <1>2
<1>4. run \in Run
  BY <1>1, <1>2, <1>3 DEF Run, Steps
<1>5. \A o \in Offsets : table[o] = 0 /\ buffer[o] = 0
  BY <1>1 DEF Empty
<1>6. Empty \in [Offsets -> Nat]
  BY DEF Empty
<1>7. log \in [Offsets -> Messages]
  BY <1>1 DEF LogsAssumption
<1>8. TypeOK
  BY <1>1, <1>2, <1>3, <1>4, <1>6, <1>7 DEF TypeOK, Run
<1>9. Staged /\ Sorted /\ Loaded /\ Placed /\ Finished
  BY <1>1 DEF Staged, Sorted, Loaded, Placed, Finished, Loading
<1>10. NothingIsLost /\ LoadedOnce
  BY <1>1, <1>2, <1>5 DEF NothingIsLost, LoadedOnce
<1>11. QED
  BY <1>8, <1>9, <1>10 DEF EtlInv

(***************************************************************************)
(* Theorem: what the runs of the DAG know holds in every state: nothing    *)
(* between two offsets is left out, every file is split without loss, and  *)
(* the rows at hand are where the load put them.                           *)
(***************************************************************************)
THEOREM EtlHolds ==
  ASSUME LogsAssumption, BoundsAssumption
  PROVE  Spec => []EtlInv
<1>1. Init => EtlInv
  BY InitEtl
<1>2. EtlInv /\ [Next]_vars => EtlInv'
  <2> SUFFICES ASSUME EtlInv, [Next]_vars PROVE EtlInv'
      OBVIOUS
  <2>1. TypeOK' /\ Staged' /\ Sorted' /\ Loaded' /\ Placed' /\ Finished'
    BY StepKeepsRun
  <2>2. NothingIsLost' /\ LoadedOnce'
    BY StepLosesNothing, StepLoadsOnce
  <2>3. QED
    BY <2>1, <2>2 DEF EtlInv
<1>3. QED
  BY <1>1, <1>2, PTL DEF Spec

(***************************************************************************)
(* Theorem: a message below the committed offset is in a file set aside    *)
(* for it or its transaction is in the table, whatever failed or was       *)
(* retried; but for rows that a crash took between INSERT and OPTIMIZE.    *)
(***************************************************************************)
THEOREM NoMessageIsLost ==
  ASSUME LogsAssumption, BoundsAssumption
  PROVE  Spec => []NothingIsLost
<1>1. EtlInv => NothingIsLost
  BY DEF EtlInv
<1>2. QED
  BY <1>1, EtlHolds, PTL

(***************************************************************************)
(* Theorem: no row is loaded twice, over buffer and table, after any       *)
(* retries and redeliveries, and a transaction that is repeated only under *)
(* a date more than a day away.                                            *)
(***************************************************************************)
THEOREM TransactionsLoadOnce ==
  ASSUME LogsAssumption, BoundsAssumption
  PROVE  Spec => []LoadedOnce
<1>1. EtlInv => LoadedOnce
  BY DEF EtlInv
<1>2. QED
  BY <1>1, EtlHolds, PTL
=============================================================================
