----------------------------- MODULE MCDelivery -----------------------------
(***************************************************************************)
(* What may never happen where messages and offers are delivered at least  *)
(* once: small instances of the listener's offsets, the daily ETL, the     *)
(* notification worker and the marks of shown offers, side by side.  They  *)
(* share no state; the first state chooses which of them runs.             *)
(***************************************************************************)
EXTENDS ListenerOffsets, Notifications, EtlTables, ShownOffers, TLC

CONSTANTS q1, q2, a, b

VARIABLES
  part,
  run, up, eFaults,
  request

etlVars == <<log, consumed, run, letters, rejected, quarantined, buffer, table, wiped, up, eFaults>>
markVars == <<marked, count, shown, contended, raced, request>>

\* The first message of every partition, so that partitions are symmetric.
MCBad == {<<q1, 0>>, <<q2, 0>>}
Nothing == {}

\* Every log of three messages over two ids of which one may be bad; the first
\* message is of the first id, which only names the ids.  The last
\* one may repeat the transaction before it under a date two days later.
EtlMessages == [id : {a, b}, day : {0, 2},
                kind : {"good", "undecodable", "malformed", "currency", "unloadable"}]
EtlLogs == {l \in [Offsets -> EtlMessages] :
              /\ l[0].id = a /\ Cardinality({o \in Offsets : l[o].kind # "good"}) <= 1
              /\ \A o \in Offsets : l[o].day = 2 =>
                   o = 2 /\ l[2].id = l[1].id /\ {l[1].kind, l[2].kind} = {"good"}}

Etl == INSTANCE EtlBatches WITH
  faults <- eFaults, Ids <- {a, b}, Days <- {0, 2}, Logs <- EtlLogs, BatchSize <- 2,
  MaxBatches <- 2, MaxRetries <- 1, MaxFaults <- 2

\* Two offers; the client of the first has the app, the other one does not.
MCReach == [o \in {1, 2} |-> IF o = 1 THEN {"push", "in_app", "sms"} ELSE {"in_app", "email"}]

\* Two requests of the three may overlap.
Marks == INSTANCE OfferMarks WITH TopK <- 2, Concurrency <- 2

ASSUME /\ Etl!LogsAssumption /\ Etl!BoundsAssumption
       /\ Marks!MarksAssumption

MCInit ==
  /\ part \in {"offsets", "etl", "notices", "marks"}
  /\ Init /\ Etl!Init /\ NoticesInit /\ Marks!Init
  /\ part # "offsets" => current = [l \in Listeners |-> CHOOSE q \in Partitions : TRUE]
  /\ part # "etl" => log = [o \in Offsets |-> [id |-> a, kind |-> "good", day |-> 0]]

MCNext ==
  \/ /\ part = "offsets" /\ Next
     /\ UNCHANGED <<part, etlVars, noticeVars, markVars>>
  \/ /\ part = "etl" /\ Etl!Next
     /\ UNCHANGED <<part, vars, noticeVars, markVars>>
  \/ /\ part = "notices" /\ NoticesNext
     /\ UNCHANGED <<part, vars, etlVars, markVars>>
  \/ /\ part = "marks" /\ Marks!Next
     /\ UNCHANGED <<part, vars, etlVars, noticeVars>>

MCSpec == MCInit /\ [][MCNext]_<<part, vars, etlVars, noticeVars, markVars>>

Symmetry == Permutations(Listeners) \cup Permutations(Partitions)

=============================================================================
