-------------------------- MODULE ListenerOffsets --------------------------
(***************************************************************************)
(* How TransactionListener reads transactions.raw: polled batches, offsets *)
(* committed only past messages that are done, seeks after a retryable     *)
(* failure, dead letters, and the consumer group around it.                *)
(*                                                                         *)
(* The group is aiokafka's: a rebalance runs in the background while a     *)
(* listener is inside a batch, resets the position of every assigned       *)
(* partition to the committed offset, and makes commits and seeks on a     *)
(* partition the listener no longer owns fail.  What a message does is     *)
(* module Accrual; here it is only done, dead-lettered or neither.         *)
(***************************************************************************)
EXTENDS Integers, FiniteSets

CONSTANTS Partitions,
          Listeners,
          LogEnd,     \* messages in each partition
          Bad,        \* messages that fail permanently
          Stuck,      \* messages that fail retryably for ever
          MaxChurn,   \* bound on crashes and needless rebalances
          Nobody      \* owner of an unassigned partition

Messages == Partitions \X (0 .. LogEnd - 1)

ASSUME ListenerAssumption ==
  /\ LogEnd \in Nat
  /\ Bad \subseteq Messages
  /\ Stuck \subseteq Messages
  /\ MaxChurn \in Nat
  /\ Nobody \notin Listeners

VARIABLES committed, \* the group's committed offset of a partition
          owner,     \* the listener a partition is assigned to
          position,  \* the next offset a listener fetches of a partition
          phase,     \* what a listener is doing
          current,   \* the partition of the batch it works on
          slice,     \* its batch: from first, up to upto, next to handle
          processed, \* messages _process returned an outcome for
          dead,      \* messages in the dead letter topic
          churn      \* crashes and needless rebalances so far

vars == <<committed, owner, position, phase, current, slice, processed, dead, churn>>

Offset == 0 .. LogEnd
Slice == [first : Offset, next : Offset, upto : Offset]
Empty == [first |-> 0, next |-> 0, upto |-> 0]
NoBatch == [p \in Partitions |-> Empty]
Phases == {"idle", "batch", "commit", "down"}

\* Every variable keeps its type; no offset lies beyond the end of the log.
TypeOK ==
  /\ committed \in [Partitions -> Offset]
  /\ owner \in [Partitions -> Listeners \cup {Nobody}]
  /\ position \in [Listeners -> [Partitions -> Offset]]
  /\ phase \in [Listeners -> Phases]
  /\ current \in [Listeners -> Partitions]
  /\ slice \in [Listeners -> [Partitions -> Slice]]
  /\ processed \subseteq Messages
  /\ dead \subseteq Messages
  /\ churn \in Nat

\* auto_offset_reset = earliest: a new group starts at offset 0.
Init ==
  /\ committed = [p \in Partitions |-> 0]
  /\ owner = [p \in Partitions |-> Nobody]
  /\ position = [l \in Listeners |-> [p \in Partitions |-> 0]]
  /\ phase = [l \in Listeners |-> "idle"]
  /\ current \in [Listeners -> Partitions]
  /\ slice = [l \in Listeners |-> NoBatch]
  /\ processed = {}
  /\ dead = {}
  /\ churn = 0

Remaining(batch) == {p \in Partitions : batch[p].next < batch[p].upto}

\* The offsets _process_batch collects in done.
Done(batch) == {p \in Partitions : batch[p].first < batch[p].next}

-----------------------------------------------------------------------------
\* getmany: some of the records after the position of each owned partition;
\* the position moves past them.  Which partition comes first is up to the
\* fetch responses.
Poll(l) ==
  /\ phase[l] = "idle"
  /\ \E batch \in [Partitions -> Slice] :
       /\ \A p \in Partitions :
            IF owner[p] = l /\ position[l][p] < batch[p].upto
            THEN batch[p].first = position[l][p] /\ batch[p].next = position[l][p]
            ELSE batch[p] = Empty
       /\ \E p \in Remaining(batch) : current' = [current EXCEPT ![l] = p]
       /\ slice' = [slice EXCEPT ![l] = batch]
       /\ position' = [position EXCEPT ![l] =
            [p \in Partitions |-> IF p \in Remaining(batch) THEN batch[p].upto
                                  ELSE position[l][p]]]
  /\ phase' = [phase EXCEPT ![l] = "batch"]
  /\ UNCHANGED <<committed, owner, processed, dead, churn>>

\* _handle had its effect: an outcome, or an acknowledged dead letter.
Handled(m) ==
  /\ processed' = IF m \in Bad THEN processed ELSE processed \cup {m}
  /\ dead' = IF m \in Bad THEN dead \cup {m} ELSE dead

\* One message of the batch is done.  After the last one done is committed.
Handle(l) ==
  LET p == current[l]
      batch == [slice[l] EXCEPT ![p].next = @ + 1]
  IN
  /\ phase[l] = "batch"
  /\ <<p, slice[l][p].next>> \notin Stuck
  /\ Handled(<<p, slice[l][p].next>>)
  /\ slice' = [slice EXCEPT ![l] = batch]
  /\ \/ /\ p \in Remaining(batch)
        /\ UNCHANGED <<current, phase>>
     \/ /\ p \notin Remaining(batch)
        /\ \E q \in Remaining(batch) : current' = [current EXCEPT ![l] = q]
        /\ UNCHANGED phase
     \/ /\ Remaining(batch) = {}
        /\ phase' = [phase EXCEPT ![l] = "commit"]
        /\ UNCHANGED current
  /\ UNCHANGED <<committed, owner, position, churn>>

\* Mutant: no seek at all.
NoneOfThem(l) == {}

\* The failed partition and every later one of the batch.
SoughtBack(l) == Remaining(slice[l])

\* A retryable failure, before the message had its effect or after: seek
\* (which fails on a partition that was revoked), then commit what is done.
Retry(l) ==
  LET p == current[l] IN
  /\ phase[l] = "batch"
  /\ Handled(<<p, slice[l][p].next>>) \/ UNCHANGED <<processed, dead>>
  /\ position' = [position EXCEPT ![l] =
       [q \in Partitions |-> IF q \in SoughtBack(l) /\ owner[q] = l THEN slice[l][q].next
                             ELSE position[l][q]]]
  /\ slice' = [slice EXCEPT ![l] =
       [q \in Partitions |-> [slice[l][q] EXCEPT !.upto = slice[l][q].next]]]
  /\ phase' = [phase EXCEPT ![l] = "commit"]
  /\ UNCHANGED <<committed, owner, current, churn>>

\* Mutant: off by one.
OneTooMany(l, p) == slice[l][p].next + 1

\* done[tp] = msg.offset + 1.
DoneOffset(l, p) == slice[l][p].next

\* Kafka takes a commit only of partitions the listener owns.
Commit(l) ==
  /\ phase[l] = "commit"
  /\ \A p \in Done(slice[l]) : owner[p] = l
  /\ committed' = [p \in Partitions |-> IF p \in Done(slice[l]) THEN DoneOffset(l, p)
                                        ELSE committed[p]]
  /\ phase' = [phase EXCEPT ![l] = "idle"]
  /\ slice' = [slice EXCEPT ![l] = NoBatch]
  /\ UNCHANGED <<owner, position, current, processed, dead, churn>>

\* The commit fails; it is logged and the loop goes on.
CommitFails(l) ==
  /\ phase[l] = "commit"
  /\ phase' = [phase EXCEPT ![l] = "idle"]
  /\ slice' = [slice EXCEPT ![l] = NoBatch]
  /\ UNCHANGED <<committed, owner, position, current, processed, dead, churn>>

\* The process dies, the loop crashes outside a batch, or SIGTERM cancels it
\* inside one: nothing is committed, the group takes its partitions.
Crash(l) ==
  /\ phase[l] # "down"
  /\ churn < MaxChurn
  /\ phase' = [phase EXCEPT ![l] = "down"]
  /\ slice' = [slice EXCEPT ![l] = NoBatch]
  /\ owner' = [p \in Partitions |-> IF owner[p] = l THEN Nobody ELSE owner[p]]
  /\ churn' = churn + 1
  /\ UNCHANGED <<committed, position, current, processed, dead>>

\* supervise() runs the loop again.
Restart(l) ==
  /\ phase[l] = "down"
  /\ phase' = [phase EXCEPT ![l] = "idle"]
  /\ UNCHANGED <<committed, owner, position, current, slice, processed, dead, churn>>

\* The group assigns every partition to a running listener, which starts at
\* the committed offset, even where it owned the partition before.
Rebalance ==
  \E assignment \in [Partitions -> {l \in Listeners : phase[l] # "down"}] :
    /\ \/ (\E p \in Partitions : owner[p] = Nobody) /\ UNCHANGED churn
       \/ churn < MaxChurn /\ churn' = churn + 1
    /\ owner' = assignment
    /\ position' = [l \in Listeners |-> [p \in Partitions |->
         IF assignment[p] = l THEN committed[p] ELSE position[l][p]]]
    /\ UNCHANGED <<committed, phase, current, slice, processed, dead>>

-----------------------------------------------------------------------------
Next ==
  \/ Rebalance
  \/ \E l \in Listeners :
       \/ Poll(l) \/ Handle(l) \/ Retry(l) \/ Commit(l) \/ CommitFails(l)
       \/ Crash(l) \/ Restart(l)

Spec == Init /\ [][Next]_vars

Safe(m) == m \in processed \/ m \in dead

(***************************************************************************)
(* No message is skipped, ever: the messages of a partition that are done  *)
(* are a prefix of it, whatever fails, crashes or is reassigned on the way *)
(* (listener.py: without a seek the unprocessed records would be skipped). *)
(***************************************************************************)
DoneIsPrefix ==
  \A m \in Messages : Safe(m) => \A i \in 0 .. m[2] : Safe(<<m[1], i>>)

(***************************************************************************)
(* An offset is committed only past messages that are done: accrued,       *)
(* skipped by a rule or in the dead letter topic.                          *)
(***************************************************************************)
CommittedIsDone ==
  \A p \in Partitions : \A i \in 0 .. committed[p] - 1 : Safe(<<p, i>>)

-----------------------------------------------------------------------------
(***************************************************************************)
(* Fairness: the loop keeps polling and committing, a message that is not  *)
(* stuck does not fail for ever, crashed loops are restarted and partitions*)
(* without an owner are assigned.  Failures, crashes and the order of the  *)
(* partitions in a batch are not fair.                                     *)
(***************************************************************************)
Fairness ==
  /\ WF_vars(Rebalance /\ \E p \in Partitions : owner[p] = Nobody)
  /\ \A l \in Listeners :
       /\ WF_vars(Poll(l))
       /\ SF_vars(Handle(l))
       /\ WF_vars(Retry(l))
       /\ WF_vars(Commit(l) \/ CommitFails(l))
       /\ WF_vars(Restart(l))

(***************************************************************************)
(* In addition every partition with something to fetch comes first in a    *)
(* batch now and then: aiokafka shuffles the partitions of its fetch       *)
(* requests, and a fetched batch is in the order of the responses.         *)
(***************************************************************************)
Shuffled ==
  \A l \in Listeners, p \in Partitions : SF_vars(Poll(l) /\ current'[l] = p)

ShuffledSpec == Spec /\ Fairness /\ Shuffled

\* A message that fails for ever stands before m, or is m.
Stalled(m) == \E i \in 0 .. m[2] : <<m[1], i>> \in Stuck

(***************************************************************************)
(* A failure delays a message instead of losing it, and a message that     *)
(* keeps failing stalls nothing but the rest of its partition (ADR 0014),  *)
(* although its failure ends every batch it is part of: every other        *)
(* message is done in the end, the bad ones in the dead letter topic.      *)
(***************************************************************************)
AllDone ==
  <>(\A m \in Messages :
       Stalled(m) \/ (IF m \in Bad THEN m \in dead ELSE m \in processed))
=============================================================================
