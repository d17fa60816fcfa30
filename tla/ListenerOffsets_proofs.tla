----------------------- MODULE ListenerOffsets_proofs -----------------------
(***************************************************************************)
(* The two loops of transaction_listener.  ListenerOffsets never skips a   *)
(* message, for any number of partitions, listeners and messages; and what *)
(* the notification loop records of an offer is true.                      *)
(***************************************************************************)
EXTENDS ListenerOffsets, Notifications, FiniteSetTheorems, TLAPS

USE ListenerAssumption DEF Messages, Offset

(***************************************************************************)
(* The inductive invariant.  BatchOK: a listener inside a batch works on a *)
(* partition with records left, outside it nothing is left.  Handled below *)
(* next, and below the position but for the rest of the batch: a listener  *)
(* may keep working on a slice of a partition that was reassigned twice.   *)
(***************************************************************************)
BatchOK ==
  \A l \in Listeners :
    /\ phase[l] = "batch" => slice[l][current[l]].next < slice[l][current[l]].upto
    /\ phase[l] # "batch" => \A p \in Partitions : slice[l][p].upto <= slice[l][p].next

SafeBelow(p, n) == \A i \in 0 .. n - 1 : Safe(<<p, i>>)

SlicesSafe ==
  \A l \in Listeners, p \in Partitions : SafeBelow(p, slice[l][p].next)

PositionSafe(l, p) ==
  \A i \in 0 .. position[l][p] - 1 :
    Safe(<<p, i>>) \/ (slice[l][p].next <= i /\ i < slice[l][p].upto)

PositionsSafe ==
  \A l \in Listeners, p \in Partitions : owner[p] = l => PositionSafe(l, p)

IInv == TypeOK /\ BatchOK /\ SlicesSafe /\ PositionsSafe /\ CommittedIsDone /\ DoneIsPrefix

(***************************************************************************)
(* Lemma: the first message of every partition is the next one of all.     *)
(***************************************************************************)
LEMMA InitIInv == Init => IInv
<1> SUFFICES ASSUME Init PROVE IInv
    OBVIOUS
<1> USE DEF Init, NoBatch, Empty
<1>1. TypeOK
  BY DEF TypeOK, Slice, Phases
<1>2. BatchOK /\ SlicesSafe /\ PositionsSafe
  BY DEF BatchOK, SlicesSafe, SafeBelow, PositionsSafe, PositionSafe
<1>3. CommittedIsDone /\ DoneIsPrefix
  BY DEF CommittedIsDone, DoneIsPrefix, Safe
<1>4. QED
  BY <1>1, <1>2, <1>3 DEF IInv

(***************************************************************************)
(* Lemma: what handling a message does to the set of messages that are     *)
(* done: it grows by the next one, so it stays a prefix.                   *)
(***************************************************************************)
LEMMA HandledNext ==
  ASSUME IInv, NEW l \in Listeners, NEW p \in Partitions, NEW n,
         p = current[l], n = slice[l][p].next, phase[l] = "batch",
         Handled(<<p, n>>) \/ UNCHANGED <<processed, dead>>
  PROVE  /\ <<p, n>> \in Messages /\ n \in Nat
         /\ processed' \subseteq Messages /\ dead' \subseteq Messages
         /\ \A m : Safe(m) => Safe(m)'
         /\ Handled(<<p, n>>) => Safe(<<p, n>>)'
         /\ DoneIsPrefix'
<1> USE DEF Safe
<1>1. <<p, n>> \in Messages /\ n \in Nat
  BY DEF IInv, BatchOK, TypeOK, Slice
<1>2. processed' \subseteq Messages /\ dead' \subseteq Messages
  BY <1>1 DEF IInv, TypeOK, Handled
<1>3. \A m : Safe(m) => Safe(m)'
  BY DEF Handled
<1>4. Handled(<<p, n>>) => Safe(<<p, n>>)'
  BY DEF Handled
<1>5. \A m : Safe(m)' => Safe(m) \/ m = <<p, n>>
  BY DEF Handled
<1>6. \A i \in 0 .. n - 1 : Safe(<<p, i>>)
  BY DEF IInv, SlicesSafe, SafeBelow
<1>7. DoneIsPrefix'
  <2> SUFFICES ASSUME NEW m \in Messages, Safe(m)', NEW i \in 0 .. m[2]
               PROVE  Safe(<<m[1], i>>)'
      BY DEF DoneIsPrefix
  <2>1. CASE Safe(m)
    BY <1>3, <2>1 DEF IInv, DoneIsPrefix
  <2>2. CASE ~Safe(m)
    <3>1. m = <<p, n>> /\ Safe(<<p, n>>)'
      BY <1>5, <2>2
    <3>2. CASE i = n
      BY <3>1, <3>2
    <3>3. CASE i # n
      BY <1>1, <1>3, <1>6, <3>1, <3>3
    <3>4. QED
      BY <3>2, <3>3
  <2>3. QED
    BY <2>1, <2>2
<1>8. QED
  BY <1>1, <1>2, <1>3, <1>4, <1>7

(***************************************************************************)
(* Lemma: where no message is handled, what is done stays a prefix.        *)
(***************************************************************************)
LEMMA NothingHandled ==
  ASSUME IInv, UNCHANGED <<processed, dead>>
  PROVE  /\ \A m : Safe(m)' <=> Safe(m)
         /\ DoneIsPrefix'
BY DEF IInv, DoneIsPrefix, Safe

(***************************************************************************)
(* Lemma: polling.                                                         *)
(***************************************************************************)
LEMMA PollIInv == ASSUME IInv, NEW l \in Listeners, Poll(l) PROVE IInv'
<1> USE DEF IInv
<1>1. PICK batch \in [Partitions -> Slice] :
        /\ \A p \in Partitions :
             IF owner[p] = l /\ position[l][p] < batch[p].upto
             THEN batch[p].first = position[l][p] /\ batch[p].next = position[l][p]
             ELSE batch[p] = Empty
        /\ \E p \in Remaining(batch) : current' = [current EXCEPT ![l] = p]
        /\ slice' = [slice EXCEPT ![l] = batch]
        /\ position' = [position EXCEPT ![l] =
             [p \in Partitions |-> IF p \in Remaining(batch) THEN batch[p].upto
                                   ELSE position[l][p]]]
  BY DEF Poll
<1>2. phase[l] = "idle" /\ phase' = [phase EXCEPT ![l] = "batch"]
      /\ UNCHANGED <<committed, owner, processed, dead, churn>>
  BY DEF Poll
<1>3. \A p \in Partitions : /\ batch[p].first \in Offset /\ batch[p].next \in Offset
                            /\ batch[p].upto \in Offset /\ position[l][p] \in Offset
  BY DEF Slice, TypeOK
<1>4. TypeOK'
  BY <1>1, <1>2, <1>3 DEF TypeOK, Phases, Remaining
<1>5. BatchOK'
  BY <1>1, <1>2 DEF BatchOK, Remaining, TypeOK
<1>6. \A p \in Partitions : owner[p] = l =>
        \A i \in 0 .. position[l][p] - 1 : Safe(<<p, i>>)
  <2> SUFFICES ASSUME NEW p \in Partitions, owner[p] = l, NEW i \in 0 .. position[l][p] - 1
               PROVE  Safe(<<p, i>>)
      OBVIOUS
  <2>1. Safe(<<p, i>>) \/ (slice[l][p].next <= i /\ i < slice[l][p].upto)
    BY DEF PositionsSafe, PositionSafe
  <2>2. slice[l][p].upto <= slice[l][p].next
    BY <1>2 DEF BatchOK
  <2>3. slice[l][p].next \in Nat /\ slice[l][p].upto \in Nat /\ i \in Int
    BY <1>3 DEF TypeOK, Slice
  <2>4. QED
    BY <2>1, <2>2, <2>3
<1>7. SlicesSafe'
  <2> SUFFICES ASSUME NEW k \in Listeners, NEW p \in Partitions,
                      NEW i \in 0 .. slice'[k][p].next - 1
               PROVE  Safe(<<p, i>>)
      BY <1>2, NothingHandled DEF SlicesSafe, SafeBelow
  <2>1. CASE k # l
    BY <1>1, <2>1 DEF SlicesSafe, SafeBelow, TypeOK
  <2>2. CASE k = l
    BY <1>1, <1>3, <1>6, <2>2 DEF TypeOK, Empty
  <2>3. QED
    BY <2>1, <2>2
<1>8. PositionsSafe'
  <2> SUFFICES ASSUME NEW k \in Listeners, NEW p \in Partitions, owner[p] = k,
                      NEW i \in 0 .. position'[k][p] - 1
               PROVE  Safe(<<p, i>>) \/ (slice'[k][p].next <= i /\ i < slice'[k][p].upto)
      BY <1>2, NothingHandled DEF PositionsSafe, PositionSafe
  <2>1. CASE k # l
    BY <1>1, <2>1 DEF PositionsSafe, PositionSafe, TypeOK
  <2>2. CASE k = l
    <3>1. slice'[k][p] = batch[p]
          /\ position'[k][p] = IF p \in Remaining(batch) THEN batch[p].upto
                               ELSE position[l][p]
      BY <1>1, <2>2 DEF TypeOK
    <3>2. CASE p \in Remaining(batch)
      BY <1>1, <1>3, <1>6, <2>2, <3>1, <3>2 DEF Remaining, Empty
    <3>3. CASE p \notin Remaining(batch)
      BY <1>6, <2>2, <3>1, <3>3
    <3>4. QED
      BY <3>2, <3>3
  <2>3. QED
    BY <2>1, <2>2
<1>9. CommittedIsDone' /\ DoneIsPrefix'
  BY <1>2, NothingHandled DEF CommittedIsDone
<1>10. QED
  BY <1>4, <1>5, <1>7, <1>8, <1>9

(***************************************************************************)
(* Lemma: a message of the batch is done.                                  *)
(***************************************************************************)
LEMMA HandleIInv == ASSUME IInv, NEW l \in Listeners, Handle(l) PROVE IInv'
<1> USE DEF IInv
<1> PICK p, n, batch : /\ p = current[l] /\ n = slice[l][p].next
                       /\ batch = [slice[l] EXCEPT ![p].next = @ + 1]
  OBVIOUS
<1>1. /\ phase[l] = "batch" /\ Handled(<<p, n>>)
      /\ slice' = [slice EXCEPT ![l] = batch]
      /\ UNCHANGED <<committed, owner, position, churn>>
  BY DEF Handle
<1>2. p \in Partitions /\ n < slice[l][p].upto /\ n \in Offset /\ slice[l][p].upto \in Offset
  BY <1>1 DEF BatchOK, TypeOK, Slice
<1>3. /\ <<p, n>> \in Messages /\ n \in Nat
      /\ processed' \subseteq Messages /\ dead' \subseteq Messages
      /\ \A m : Safe(m) => Safe(m)'
      /\ Safe(<<p, n>>)'
      /\ DoneIsPrefix'
  BY <1>1, <1>2, HandledNext
<1>4. /\ batch \in [Partitions -> Slice]
      /\ batch[p].next = n + 1 /\ batch[p].upto = slice[l][p].upto
      /\ \A q \in Partitions \ {p} : batch[q] = slice[l][q]
  <2>1. slice[l] \in [Partitions -> Slice]
    BY DEF TypeOK
  <2>2. batch[p] = [slice[l][p] EXCEPT !.next = n + 1]
    BY <1>2, <2>1
  <2>3. batch[p] \in Slice /\ batch[p].next = n + 1 /\ batch[p].upto = slice[l][p].upto
    BY <1>2, <2>1, <2>2 DEF Slice
  <2>4. \A q \in Partitions \ {p} : batch[q] = slice[l][q]
    BY <2>1
  <2>5. batch \in [Partitions -> Slice]
    BY <1>2, <2>1, <2>3, <2>4
  <2>6. QED
    BY <2>3, <2>4, <2>5
<1>5. /\ slice'[l] = batch
      /\ \A k \in Listeners \ {l} : slice'[k] = slice[k]
  BY <1>1 DEF TypeOK
<1>6. \/ \E q \in Remaining(batch) : current'[l] = q /\ phase'[l] = "batch"
      \/ Remaining(batch) = {} /\ phase'[l] = "commit"
  BY <1>1 DEF Handle, TypeOK
<1>7. \A k \in Listeners \ {l} : current'[k] = current[k] /\ phase'[k] = phase[k]
  BY DEF Handle, TypeOK
<1>8. TypeOK'
  <2>1. current' \in [Listeners -> Partitions] /\ phase' \in [Listeners -> Phases]
    BY DEF Handle, TypeOK, Remaining, Phases
  <2>2. slice' \in [Listeners -> [Partitions -> Slice]]
    BY <1>1, <1>4 DEF TypeOK
  <2>3. QED
    BY <1>1, <1>3, <2>1, <2>2 DEF TypeOK
<1>9. BatchOK'
  <2> SUFFICES ASSUME NEW k \in Listeners
               PROVE  /\ phase'[k] = "batch" =>
                           slice'[k][current'[k]].next < slice'[k][current'[k]].upto
                      /\ phase'[k] # "batch" =>
                           \A q \in Partitions : slice'[k][q].upto <= slice'[k][q].next
      BY DEF BatchOK
  <2>1. CASE k # l
    BY <1>5, <1>7, <2>1 DEF BatchOK
  <2>2. CASE k = l
    BY <1>4, <1>5, <1>6, <2>2 DEF Remaining, Slice
  <2>3. QED
    BY <2>1, <2>2
<1>10. SlicesSafe'
  <2> SUFFICES ASSUME NEW k \in Listeners, NEW q \in Partitions,
                      NEW i \in 0 .. slice'[k][q].next - 1
               PROVE  Safe(<<q, i>>)'
      BY DEF SlicesSafe, SafeBelow
  <2>1. CASE k # l \/ q # p
    BY <1>3, <1>4, <1>5, <2>1 DEF SlicesSafe, SafeBelow
  <2>2. CASE k = l /\ q = p
    <3>1. slice'[k][q].next = n + 1
      BY <1>4, <1>5, <2>2
    <3>2. i \in 0 .. n - 1 \/ i = n
      BY <1>3, <3>1
    <3>3. QED
      BY <1>3, <2>2, <3>2 DEF SlicesSafe, SafeBelow
  <2>3. QED
    BY <2>1, <2>2
<1>11. PositionsSafe'
  <2> SUFFICES ASSUME NEW k \in Listeners, NEW q \in Partitions, owner[q] = k,
                      NEW i \in 0 .. position[k][q] - 1
               PROVE  Safe(<<q, i>>)' \/ (slice'[k][q].next <= i /\ i < slice'[k][q].upto)
      BY <1>1 DEF PositionsSafe, PositionSafe
  <2>1. Safe(<<q, i>>) \/ (slice[k][q].next <= i /\ i < slice[k][q].upto)
    BY DEF PositionsSafe, PositionSafe
  <2>2. CASE k # l \/ q # p
    BY <1>3, <1>4, <1>5, <2>1, <2>2
  <2>3. CASE k = l /\ q = p
    <3>1. i = n \/ Safe(<<q, i>>) \/ (n + 1 <= i /\ i < slice[k][q].upto)
      BY <1>3, <2>1, <2>3
    <3>2. QED
      BY <1>3, <1>4, <1>5, <2>3, <3>1
  <2>4. QED
    BY <2>2, <2>3
<1>12. CommittedIsDone'
  BY <1>1, <1>3 DEF CommittedIsDone
<1>13. QED
  BY <1>3, <1>8, <1>9, <1>10, <1>11, <1>12
(***************************************************************************)
(* Lemma: a retryable failure.  Every partition of the batch with records  *)
(* left is sought back to its next one, unless it was revoked.             *)
(***************************************************************************)
LEMMA RetryIInv == ASSUME IInv, NEW l \in Listeners, Retry(l) PROVE IInv'
<1> USE DEF IInv
<1> PICK p, n : p = current[l] /\ n = slice[l][p].next
  OBVIOUS
<1>1. /\ phase[l] = "batch" /\ phase' = [phase EXCEPT ![l] = "commit"]
      /\ Handled(<<p, n>>) \/ UNCHANGED <<processed, dead>>
      /\ position' = [position EXCEPT ![l] =
           [q \in Partitions |-> IF q \in SoughtBack(l) /\ owner[q] = l THEN slice[l][q].next
                                 ELSE position[l][q]]]
      /\ slice' = [slice EXCEPT ![l] =
           [q \in Partitions |-> [slice[l][q] EXCEPT !.upto = slice[l][q].next]]]
      /\ UNCHANGED <<committed, owner, current, churn>>
  BY DEF Retry
<1>2. p \in Partitions
  BY DEF TypeOK
<1>3. /\ processed' \subseteq Messages /\ dead' \subseteq Messages
      /\ \A m : Safe(m) => Safe(m)'
      /\ DoneIsPrefix'
  BY <1>1, <1>2, HandledNext
<1>4. \A q \in Partitions : slice[l][q] \in Slice
  BY DEF TypeOK
<1>5. \A q \in Partitions :
        /\ slice'[l][q] \in Slice
        /\ slice'[l][q].next = slice[l][q].next /\ slice'[l][q].upto = slice[l][q].next
  BY <1>1, <1>4 DEF TypeOK, Slice
<1>6. \A k \in Listeners \ {l} : /\ slice'[k] = slice[k] /\ position'[k] = position[k]
                                 /\ phase'[k] = phase[k]
  BY <1>1 DEF TypeOK
<1>7. TypeOK'
  <2>1. position' \in [Listeners -> [Partitions -> Offset]]
    BY <1>1, <1>4 DEF TypeOK, Slice
  <2>2. slice'[l] \in [Partitions -> Slice]
    BY <1>1, <1>5 DEF TypeOK
  <2>3. slice' \in [Listeners -> [Partitions -> Slice]]
    BY <1>1, <2>2 DEF TypeOK
  <2>4. QED
    BY <1>1, <1>3, <2>1, <2>3 DEF TypeOK, Phases
<1>8. BatchOK'
  <2> SUFFICES ASSUME NEW k \in Listeners
               PROVE  /\ phase'[k] = "batch" =>
                           slice'[k][current[k]].next < slice'[k][current[k]].upto
                      /\ phase'[k] # "batch" =>
                           \A q \in Partitions : slice'[k][q].upto <= slice'[k][q].next
      BY <1>1 DEF BatchOK
  <2>1. CASE k # l
    BY <1>6, <2>1 DEF BatchOK
  <2>2. CASE k = l
    BY <1>1, <1>4, <1>5, <2>2 DEF TypeOK, Slice
  <2>3. QED
    BY <2>1, <2>2
<1>9. SlicesSafe'
  <2> SUFFICES ASSUME NEW k \in Listeners, NEW q \in Partitions,
                      NEW i \in 0 .. slice'[k][q].next - 1
               PROVE  Safe(<<q, i>>)'
      BY DEF SlicesSafe, SafeBelow
  <2>1. slice'[k][q].next = slice[k][q].next
    BY <1>5, <1>6
  <2>2. QED
    BY <1>3, <2>1 DEF SlicesSafe, SafeBelow
<1>10. PositionsSafe'
  <2> SUFFICES ASSUME NEW k \in Listeners, NEW q \in Partitions, owner[q] = k,
                      NEW i \in 0 .. position'[k][q] - 1
               PROVE  Safe(<<q, i>>)' \/ (slice'[k][q].next <= i /\ i < slice'[k][q].upto)
      BY <1>1 DEF PositionsSafe, PositionSafe
  <2>1. CASE k # l
    BY <1>3, <1>6, <2>1 DEF PositionsSafe, PositionSafe
  <2>2. CASE k = l /\ q \in Remaining(slice[l])
    <3>1. position'[k][q] = slice[l][q].next
      BY <1>1, <2>2 DEF TypeOK, SoughtBack
    <3>2. QED
      BY <1>3, <2>2, <3>1 DEF SlicesSafe, SafeBelow
  <2>3. CASE k = l /\ q \notin Remaining(slice[l])
    <3>1. position'[k][q] = position[k][q]
      BY <1>1, <2>3 DEF TypeOK, SoughtBack
    <3>2. Safe(<<q, i>>) \/ (slice[k][q].next <= i /\ i < slice[k][q].upto)
      BY <3>1 DEF PositionsSafe, PositionSafe
    <3>3. ~(slice[k][q].next <= i /\ i < slice[k][q].upto)
      BY <1>4, <2>3 DEF Remaining, Slice
    <3>4. QED
      BY <1>3, <3>2, <3>3
  <2>4. QED
    BY <2>1, <2>2, <2>3
<1>11. CommittedIsDone'
  BY <1>1, <1>3 DEF CommittedIsDone
<1>12. QED
  BY <1>3, <1>7, <1>8, <1>9, <1>10, <1>11

(***************************************************************************)
(* Lemma: the end of a batch, committed or not.                            *)
(***************************************************************************)
LEMMA CommitIInv ==
  ASSUME IInv, NEW l \in Listeners, Commit(l) \/ CommitFails(l)
  PROVE  IInv'
<1> USE DEF IInv
<1>1. /\ phase[l] = "commit" /\ phase' = [phase EXCEPT ![l] = "idle"]
      /\ slice' = [slice EXCEPT ![l] = NoBatch]
      /\ UNCHANGED <<owner, position, current, processed, dead, churn>>
  BY DEF Commit, CommitFails
<1>2. \A p \in Partitions :
        committed'[p] \in {committed[p], slice[l][p].next}
  BY DEF Commit, CommitFails, DoneOffset, TypeOK
<1>3. committed' \in [Partitions -> Offset]
  BY <1>2 DEF Commit, CommitFails, DoneOffset, TypeOK, Slice
<1>4. TypeOK'
  BY <1>1, <1>3 DEF TypeOK, Phases, NoBatch, Empty, Slice
<1>5. BatchOK'
  BY <1>1 DEF BatchOK, TypeOK, NoBatch, Empty
<1>6. SlicesSafe'
  <2>1. \A k \in Listeners, p \in Partitions : slice'[k][p].next \in {0, slice[k][p].next}
    BY <1>1 DEF TypeOK, NoBatch, Empty
  <2> SUFFICES ASSUME NEW k \in Listeners, NEW p \in Partitions,
                      NEW i \in 0 .. slice'[k][p].next - 1
               PROVE  Safe(<<p, i>>)
      BY <1>1, NothingHandled DEF SlicesSafe, SafeBelow
  <2>2. slice'[k][p].next = slice[k][p].next
    BY <2>1
  <2>3. QED
    BY <2>2 DEF SlicesSafe, SafeBelow
<1>7. PositionsSafe'
  <2> SUFFICES ASSUME NEW k \in Listeners, NEW p \in Partitions, owner[p] = k,
                      NEW i \in 0 .. position[k][p] - 1
               PROVE  Safe(<<p, i>>) \/ (slice'[k][p].next <= i /\ i < slice'[k][p].upto)
      BY <1>1, NothingHandled DEF PositionsSafe, PositionSafe
  <2>1. Safe(<<p, i>>) \/ (slice[k][p].next <= i /\ i < slice[k][p].upto)
    BY DEF PositionsSafe, PositionSafe
  <2>2. CASE k # l
    BY <1>1, <2>1, <2>2 DEF TypeOK
  <2>3. CASE k = l
    <3>1. slice[k][p].upto <= slice[k][p].next /\ slice[k][p] \in Slice /\ i \in Int
      BY <1>1, <2>3 DEF BatchOK, TypeOK
    <3>2. QED
      BY <2>1, <3>1 DEF Slice
  <2>4. QED
    BY <2>2, <2>3
<1>8. CommittedIsDone'
  <2> SUFFICES ASSUME NEW p \in Partitions, NEW i \in 0 .. committed'[p] - 1
               PROVE  Safe(<<p, i>>)
      BY <1>1, NothingHandled DEF CommittedIsDone
  <2>1. CASE committed'[p] = committed[p]
    BY <2>1 DEF CommittedIsDone
  <2>2. CASE committed'[p] = slice[l][p].next
    BY <2>2 DEF SlicesSafe, SafeBelow
  <2>3. QED
    BY <1>2, <2>1, <2>2
<1>9. DoneIsPrefix'
  BY <1>1, NothingHandled
<1>10. QED
  BY <1>4, <1>5, <1>6, <1>7, <1>8, <1>9

(***************************************************************************)
(* Lemma: a crash and a restart of a loop.                                 *)
(***************************************************************************)
LEMMA CrashIInv ==
  ASSUME IInv, NEW l \in Listeners, Crash(l) \/ Restart(l)
  PROVE  IInv'
<1> USE DEF IInv
<1>1. /\ UNCHANGED <<committed, position, current, processed, dead>>
      /\ slice' = [slice EXCEPT ![l] = NoBatch] \/ slice' = slice
      /\ \A p \in Partitions, k \in Listeners : owner'[p] = k => owner[p] = k
  BY DEF Crash, Restart
<1>2. TypeOK'
  <2>1. slice' \in [Listeners -> [Partitions -> Slice]]
    <3>1. NoBatch \in [Partitions -> Slice]
      BY DEF NoBatch, Empty, Slice
    <3>2. QED
      BY <1>1, <3>1 DEF TypeOK
  <2>2. owner' \in [Partitions -> Listeners \cup {Nobody}]
    BY DEF Crash, Restart, TypeOK
  <2>3. phase' \in [Listeners -> Phases] /\ churn' \in Nat
    BY DEF Crash, Restart, TypeOK, Phases
  <2>4. QED
    BY <1>1, <2>1, <2>2, <2>3 DEF TypeOK
<1>3. BatchOK'
  BY DEF Crash, Restart, BatchOK, TypeOK, NoBatch, Empty
<1>4. SlicesSafe'
  <2>1. \A k \in Listeners, p \in Partitions : slice'[k][p].next \in {0, slice[k][p].next}
    <3>1. CASE slice' = [slice EXCEPT ![l] = NoBatch]
      BY <3>1 DEF TypeOK, NoBatch, Empty
    <3>2. QED
      BY <1>1, <3>1
  <2> SUFFICES ASSUME NEW k \in Listeners, NEW p \in Partitions,
                      NEW i \in 0 .. slice'[k][p].next - 1
               PROVE  Safe(<<p, i>>)
      BY <1>1, NothingHandled DEF SlicesSafe, SafeBelow
  <2>2. slice'[k][p].next = slice[k][p].next
    BY <2>1
  <2>3. QED
    BY <2>2 DEF SlicesSafe, SafeBelow
<1>5. PositionsSafe'
  <2>1. CASE Crash(l)
    <3>1. \A p \in Partitions : owner'[p] # l
      BY <2>1 DEF Crash
    <3>2. \A k \in Listeners \ {l} : slice'[k] = slice[k]
      BY <1>1 DEF TypeOK
    <3>3. QED
      BY <1>1, <3>1, <3>2, NothingHandled DEF PositionsSafe, PositionSafe
  <2>2. CASE Restart(l)
    BY <2>2, NothingHandled DEF Restart, PositionsSafe, PositionSafe
  <2>3. QED
    BY <2>1, <2>2
<1>6. CommittedIsDone' /\ DoneIsPrefix'
  BY <1>1, NothingHandled DEF CommittedIsDone
<1>7. QED
  BY <1>2, <1>3, <1>4, <1>5, <1>6

(***************************************************************************)
(* Lemma: a rebalance, even in the middle of batches.                      *)
(***************************************************************************)
LEMMA RebalanceIInv == ASSUME IInv, Rebalance PROVE IInv'
<1> USE DEF IInv
<1> PICK assignment \in [Partitions -> {l \in Listeners : phase[l] # "down"}] :
      /\ owner' = assignment
      /\ position' = [l \in Listeners |-> [p \in Partitions |->
           IF assignment[p] = l THEN committed[p] ELSE position[l][p]]]
  BY DEF Rebalance
<1>1. UNCHANGED <<committed, phase, current, slice, processed, dead>> /\ churn' \in Nat
  BY DEF Rebalance, TypeOK
<1>2. TypeOK'
  BY <1>1 DEF TypeOK
<1>3. BatchOK' /\ SlicesSafe'
  BY <1>1, NothingHandled DEF BatchOK, SlicesSafe, SafeBelow
<1>4. PositionsSafe'
  BY <1>1, NothingHandled DEF PositionsSafe, PositionSafe, CommittedIsDone
<1>5. CommittedIsDone' /\ DoneIsPrefix'
  BY <1>1, NothingHandled DEF CommittedIsDone
<1>6. QED
  BY <1>2, <1>3, <1>4, <1>5

(***************************************************************************)
(* Lemma: the invariant is inductive.                                      *)
(***************************************************************************)
LEMMA AlwaysIInv == Spec => []IInv
<1>1. IInv /\ [Next]_vars => IInv'
  <2> SUFFICES ASSUME IInv, [Next]_vars PROVE IInv'
      OBVIOUS
  <2>1. CASE UNCHANGED vars
    BY <2>1 DEF vars, IInv, TypeOK, BatchOK, SlicesSafe, SafeBelow, PositionsSafe,
                PositionSafe, CommittedIsDone, DoneIsPrefix, Safe
  <2>2. QED
    BY <2>1, PollIInv, HandleIInv, RetryIInv, CommitIInv, CrashIInv, RebalanceIInv DEF Next
<1>2. QED
  BY <1>1, InitIInv, PTL DEF Spec

(***************************************************************************)
(* Theorem: every variable keeps its type; no offset passes the log's end. *)
(***************************************************************************)
THEOREM TypesHold == Spec => []TypeOK
<1>1. IInv => TypeOK
  BY DEF IInv
<1>2. QED
  BY <1>1, AlwaysIInv, PTL

(***************************************************************************)
(* Theorem: no message is ever skipped: what is done of a partition is a   *)
(* prefix of it, under any failures, crashes and rebalances.               *)
(***************************************************************************)
THEOREM NothingIsSkipped == Spec => []DoneIsPrefix
<1>1. IInv => DoneIsPrefix
  BY DEF IInv
<1>2. QED
  BY <1>1, AlwaysIInv, PTL

(***************************************************************************)
(* Theorem: a committed offset lies behind messages that are done or in    *)
(* the dead letter topic only, so a new owner of the partition loses none. *)
(***************************************************************************)
THEOREM CommitsAreSafe == Spec => []CommittedIsDone
<1>1. IInv => CommittedIsDone
  BY DEF IInv
<1>2. QED
  BY <1>1, AlwaysIInv, PTL

-----------------------------------------------------------------------------
USE NotificationsAssumption

(***************************************************************************)
(* The other loop of the process: the notifications.  The event at hand is *)
(* one that was fetched, the adapter about to be recorded has delivered,   *)
(* and no supervisor ever comes to its end by itself.                      *)
(***************************************************************************)
TaskInBatch == task.phase # "poll" => task.event \in 1 .. fetched

RecordingIsTrue == task.phase = "record" => task.by \in sent[task.event]

LoopsGoOn == \A l \in Loops : loop[l] # "ended"

NoticesInv ==
  NoticesTypeOK /\ TaskInBatch /\ RecordingIsTrue /\ LoopsGoOn
    /\ RecordedWasDelivered /\ FetchedIsHandled

TaskType == [event : Offers \cup {0}, phase : {"poll", "decide", "chain", "record"},
             allowed : SUBSET Adapters, tried : 0 .. Len(Chain), by : Adapters \cup {None}]

(***************************************************************************)
(* Lemma: the channels of the chain, and that no channel is none of them.  *)
(***************************************************************************)
LEMMA ChainOfAdapters ==
  /\ Len(Chain) = 4 /\ DOMAIN Chain = 1 .. 4
  /\ \A i \in 1 .. 4 : Chain[i] \in Adapters
  /\ "in_app" \in Adapters /\ None \notin Adapters
<1>1. Len(Chain) = 4 /\ DOMAIN Chain = 1 .. 4
  BY DEF Chain
<1>2. Chain[1] = "push" /\ Chain[2] = "in_app" /\ Chain[3] = "email" /\ Chain[4] = "sms"
  BY DEF Chain
<1>3. Adapters = {"push", "in_app", "email", "sms"}
  BY <1>1, <1>2 DEF Adapters
<1>4. \A i \in 1 .. 4 : Chain[i] \in Adapters
  BY <1>1 DEF Adapters
<1>5. QED
  BY <1>1, <1>3, <1>4 DEF None

(***************************************************************************)
(* Lemma: the adapter tried next is one of those that are left.            *)
(***************************************************************************)
LEMMA NextOfChain ==
  ASSUME NoticesTypeOK, Left # {}
  PROVE  Min(Left) \in 1 .. 4 /\ Chain[Min(Left)] \in Adapters
<1>1. Left \subseteq 1 .. 4
  BY ChainOfAdapters DEF Left
<1>2. \A S \in SUBSET (1 .. 4) : S # {} => \E i \in S : \A j \in S : i <= j
  <2> SUFFICES ASSUME NEW S \in SUBSET (1 .. 4), S # {}
               PROVE  \E i \in S : \A j \in S : i <= j
      OBVIOUS
  <2>1. CASE 1 \in S
    BY <2>1
  <2>2. CASE 1 \notin S /\ 2 \in S
    <3>1. \A j \in S : 2 <= j
      BY <2>2
    <3>2. QED
      BY <2>2, <3>1
  <2>3. CASE 1 \notin S /\ 2 \notin S /\ 3 \in S
    <3>1. \A j \in S : 3 <= j
      BY <2>3
    <3>2. QED
      BY <2>3, <3>1
  <2>4. CASE 1 \notin S /\ 2 \notin S /\ 3 \notin S
    <3>1. PICK i \in S : TRUE
      OBVIOUS
    <3>2. i \in S /\ \A j \in S : i <= j
      BY <2>4
    <3>3. QED
      BY <3>2
  <2>5. QED
    BY <2>1, <2>2, <2>3, <2>4
<1>3. Min(Left) \in Left
  BY <1>1, <1>2 DEF Min
<1>4. QED
  BY <1>1, <1>3, ChainOfAdapters

(***************************************************************************)
(* Lemma: when the event at hand is done, whatever became of it, the rest  *)
(* of the batch is still to come.                                          *)
(***************************************************************************)
LEMMA NextEventFollows ==
  ASSUME NoticesInv, task.phase # "poll",
         handled' = handled \cup {task.event}, task' = NextEvent,
         UNCHANGED <<fetched, stopping, killed>>
  PROVE  /\ task' \in TaskType /\ handled' \subseteq Offers
         /\ TaskInBatch' /\ FetchedIsHandled' /\ task'.phase \in {"poll", "decide"}
<1> USE DEF NoticesInv
<1>1. task.event \in 1 .. fetched /\ fetched \in Nat /\ 1 .. fetched \subseteq Offers
  BY FS_CardinalityType DEF TaskInBatch, NoticesTypeOK, NotificationsAssumption
<1>2. CASE task.event < fetched
  <2>1. task' = [event |-> task.event + 1, phase |-> "decide", allowed |-> {}, tried |-> 0,
                 by |-> None]
    BY <1>2 DEF NextEvent, NoTask
  <2>2. task' \in TaskType
    BY <1>1, <1>2, <2>1 DEF TaskType
  <2>3. TaskInBatch'
    BY <1>1, <1>2, <2>1 DEF TaskInBatch
  <2>4. FetchedIsHandled'
    BY <1>1, <1>2, <2>1 DEF FetchedIsHandled, InBatch
  <2>5. QED
    BY <1>1, <2>1, <2>2, <2>3, <2>4 DEF NoticesTypeOK
<1>3. CASE ~(task.event < fetched)
  <2>1. task' = NoTask /\ task.event = fetched
    BY <1>1, <1>3 DEF NextEvent
  <2>2. task' \in TaskType
    BY <2>1 DEF TaskType, NoTask
  <2>3. TaskInBatch'
    BY <2>1 DEF TaskInBatch, NoTask
  <2>4. FetchedIsHandled'
    BY <1>1, <2>1 DEF FetchedIsHandled, InBatch, NoTask
  <2>5. QED
    BY <1>1, <2>1, <2>2, <2>3, <2>4 DEF NoticesTypeOK, NoTask
<1>4. QED
  BY <1>2, <1>3

\* What a step may do to the channels.
ChannelIsKept == \A o \in Offers : channel[o] # None => channel'[o] = channel[o]

(***************************************************************************)
(* Lemma: the invariant holds before anything is published.                *)
(***************************************************************************)
LEMMA NoticesBegin == NoticesInit => NoticesInv
<1> SUFFICES ASSUME NoticesInit PROVE NoticesInv
    OBVIOUS
<1> USE DEF NoticesInit, NoTask
<1>1. NoticesTypeOK
  <2>1. NoTask \in TaskType
    BY ChainOfAdapters DEF TaskType
  <2>2. 0 \in 0 .. MaxFaults /\ 0 \in 0 .. MaxCrashes
    BY DEF NotificationsAssumption
  <2>3. /\ loop \in [Loops -> {"running", "crashed", "returned", "ended", "stopped"}]
        /\ sent \in [Offers -> SUBSET Adapters]
        /\ channel \in [Offers -> Adapters \cup {None}]
    OBVIOUS
  <2>4. {end, confirmed, fetched} \subseteq Offers \cup {0}
    OBVIOUS
  <2>5. task \in TaskType
    BY <2>1
  <2>6. confirmed <= fetched /\ fetched <= end /\ handled \subseteq Offers
    OBVIOUS
  <2>7. /\ stopping \in BOOLEAN /\ killed \in BOOLEAN
        /\ faults \in 0 .. MaxFaults /\ crashes \in 0 .. MaxCrashes
    BY <2>2
  <2> HIDE DEF NoticesInit, NoTask
  <2>8. QED
    BY <2>3, <2>4, <2>5, <2>6, <2>7 DEF NoticesTypeOK, TaskType
<1>2. TaskInBatch /\ RecordingIsTrue /\ LoopsGoOn
  BY DEF TaskInBatch, RecordingIsTrue, LoopsGoOn
<1>3. RecordedWasDelivered
  BY DEF RecordedWasDelivered
<1>4. FetchedIsHandled
  BY DEF FetchedIsHandled
<1>5. QED
  BY <1>1, <1>2, <1>3, <1>4 DEF NoticesInv

(***************************************************************************)
(* Lemma: the steps of the consumer keep the invariant.                    *)
(***************************************************************************)
LEMMA ConsumerGoesOn ==
  ASSUME NoticesInv, Consumer
  PROVE  NoticesInv' /\ ChannelIsKept
<1> USE DEF NoticesInv
<1>0. /\ task \in TaskType /\ confirmed \in Nat /\ fetched \in Nat /\ end \in Nat
      /\ 1 .. end \subseteq Offers
      /\ task.phase # "poll" => task.event \in Offers
  BY FS_CardinalityType DEF TaskInBatch, NoticesTypeOK, NotificationsAssumption, TaskType
<1>1. ASSUME NEW n \in 1 .. BatchSize, Fetch,
             fetched + n <= end, fetched' = fetched + n,
             task' = [NoTask EXCEPT !.event = fetched + 1, !.phase = "decide"]
      PROVE  NoticesInv'
  <2>0. n \in Nat \ {0} /\ fetched' \in Nat /\ fetched' <= end /\ fetched < fetched'
    BY <1>0, <1>1 DEF NotificationsAssumption
  <2>1. /\ task' = [event |-> fetched + 1, phase |-> "decide", allowed |-> {}, tried |-> 0,
                    by |-> None]
        /\ fetched + 1 \in 1 .. fetched' /\ fetched' \in Offers /\ fetched + 1 \in Offers
    <3>1. fetched + 1 \in 1 .. fetched' /\ fetched + 1 \in 1 .. end /\ fetched' \in 1 .. end
      BY <1>0, <2>0
    <3>2. QED
      BY <1>0, <1>1, <3>1 DEF NoTask
  <2>2. task' \in TaskType
    BY <2>1, ChainOfAdapters DEF TaskType
  <2>3. NoticesTypeOK'
    <3>1. /\ UNCHANGED <<end, confirmed, loop, stopping, sent, channel, handled,
                         faults, crashes, killed>>
      BY <1>1 DEF Fetch
    <3>2. confirmed <= fetched' /\ fetched' <= end
      BY <1>0, <2>0 DEF NoticesTypeOK
    <3>3. QED
      BY <2>1, <2>2, <3>1, <3>2 DEF NoticesTypeOK, TaskType
  <2>4. TaskInBatch' /\ RecordingIsTrue' /\ LoopsGoOn' /\ RecordedWasDelivered'
    BY <1>1, <2>1 DEF Fetch, TaskInBatch, RecordingIsTrue, LoopsGoOn, RecordedWasDelivered
  <2>5. FetchedIsHandled'
    BY <1>0, <1>1, <2>1 DEF Fetch, FetchedIsHandled, InBatch
  <2>6. QED
    BY <2>3, <2>4, <2>5
<1>2. ASSUME NEW active \in BOOLEAN, Decide(active)
      PROVE  NoticesInv'
  <2> DEFINE new == IF active THEN Reach[task.event] ELSE Reach[task.event] \cap {"in_app"}
  <2>1. new \subseteq Adapters /\ task.phase = "decide"
    BY <1>0, <1>2 DEF Decide, NotificationsAssumption
  <2>2. task' = [task EXCEPT !.phase = "chain", !.allowed = new]
    BY <1>2 DEF Decide
  <2> HIDE DEF new
  <2>3. task' \in TaskType /\ task'.event = task.event /\ task'.phase = "chain"
    BY <1>0, <2>1, <2>2 DEF TaskType
  <2>4. NoticesTypeOK'
    BY <1>2, <2>3 DEF Decide, NoticesTypeOK, TaskType
  <2>5. TaskInBatch' /\ RecordingIsTrue' /\ LoopsGoOn' /\ RecordedWasDelivered'
    BY <1>2, <2>1, <2>3
    DEF Decide, TaskInBatch, RecordingIsTrue, LoopsGoOn, RecordedWasDelivered
  <2>6. FetchedIsHandled'
    BY <1>2, <2>1, <2>3 DEF Decide, FetchedIsHandled, InBatch
  <2>7. QED
    BY <2>4, <2>5, <2>6
<1>3. ASSUME NEW delivered \in BOOLEAN, NEW effect \in BOOLEAN, Deliver(delivered, effect)
      PROVE  NoticesInv'
  <2> DEFINE i == Min(Left)
             adapter == Chain[i]
             e == task.event
  <2>1. /\ i \in 0 .. Len(Chain) /\ adapter \in Adapters
        /\ task.phase = "chain" /\ e \in Offers
    BY <1>0, <1>3, NextOfChain, ChainOfAdapters DEF Deliver
  <2>2. /\ delivered => effect
        /\ sent' = [sent EXCEPT ![e] = IF effect THEN @ \cup {adapter} ELSE @]
        /\ task' = [task EXCEPT !.phase = AfterAdapter(delivered), !.tried = i, !.by = adapter]
        /\ faults' = IF delivered THEN faults ELSE faults + 1
        /\ ~delivered => faults < MaxFaults
        /\ UNCHANGED <<end, confirmed, fetched, loop, stopping, channel, handled, crashes, killed>>
    BY <1>3 DEF Deliver
  <2> HIDE DEF i, adapter
  <2>3. /\ task' \in TaskType /\ task'.event = e /\ task'.by = adapter
        /\ task'.phase = IF delivered THEN "record" ELSE "chain"
    BY <1>0, <2>1, <2>2 DEF TaskType, AfterAdapter
  <2>4. sent \in [Offers -> SUBSET Adapters]
    BY DEF NoticesTypeOK
  <2>5. /\ sent' \in [Offers -> SUBSET Adapters]
        /\ \A o \in Offers : sent[o] \subseteq sent'[o]
        /\ effect => adapter \in sent'[e]
    BY <2>1, <2>2, <2>4
  <2>6. faults' \in 0 .. MaxFaults
    BY <2>2 DEF NoticesTypeOK, NotificationsAssumption
  <2>7. NoticesTypeOK'
    BY <2>2, <2>3, <2>5, <2>6 DEF NoticesTypeOK, TaskType
  <2>8. TaskInBatch' /\ LoopsGoOn'
    BY <2>1, <2>2, <2>3 DEF TaskInBatch, LoopsGoOn
  <2>9. RecordingIsTrue'
    BY <2>2, <2>3, <2>5 DEF RecordingIsTrue
  <2>10. RecordedWasDelivered'
    BY <2>2, <2>5 DEF RecordedWasDelivered
  <2>11. FetchedIsHandled'
    BY <2>1, <2>2, <2>3 DEF FetchedIsHandled, InBatch
  <2>12. QED
    BY <2>7, <2>8, <2>9, <2>10, <2>11
<1>4. ASSUME NoChannel PROVE NoticesInv'
  <2>1. /\ task' \in TaskType /\ handled' \subseteq Offers
        /\ TaskInBatch' /\ FetchedIsHandled' /\ task'.phase \in {"poll", "decide"}
    BY <1>4, NextEventFollows DEF NoChannel, Finish
  <2>2. NoticesTypeOK'
    BY <1>4, <2>1 DEF NoChannel, NoticesTypeOK, TaskType
  <2>3. RecordingIsTrue' /\ LoopsGoOn' /\ RecordedWasDelivered'
    BY <1>4, <2>1 DEF NoChannel, RecordingIsTrue, LoopsGoOn, RecordedWasDelivered
  <2>4. QED
    BY <2>1, <2>2, <2>3
<1>5. ASSUME Record PROVE NoticesInv'
  <2>1. /\ task' \in TaskType /\ handled' \subseteq Offers
        /\ TaskInBatch' /\ FetchedIsHandled' /\ task'.phase \in {"poll", "decide"}
    BY <1>5, NextEventFollows DEF Record, Finish
  <2>2. /\ task.event \in Offers /\ task.by \in sent[task.event] /\ task.by \in Adapters
        /\ channel \in [Offers -> Adapters \cup {None}]
        /\ channel' = [channel EXCEPT ![task.event] = IF @ = None THEN task.by ELSE @]
        /\ sent' = sent
    BY <1>0, <1>5 DEF Record, Recorded, RecordingIsTrue, NoticesTypeOK
  <2>3. /\ channel' \in [Offers -> Adapters \cup {None}]
        /\ \A o \in Offers : channel'[o] = channel[o] \/ channel'[o] \in sent[o]
    BY <2>2
  <2>4. NoticesTypeOK'
    BY <1>5, <2>1, <2>3 DEF Record, NoticesTypeOK, TaskType
  <2>5. RecordedWasDelivered'
    BY <2>2, <2>3 DEF RecordedWasDelivered
  <2>6. RecordingIsTrue' /\ LoopsGoOn'
    BY <1>5, <2>1 DEF Record, RecordingIsTrue, LoopsGoOn
  <2>7. QED
    BY <2>1, <2>4, <2>5, <2>6
<1>6. ASSUME RecordFails PROVE NoticesInv'
  <2>1. /\ task' \in TaskType /\ handled' \subseteq Offers
        /\ TaskInBatch' /\ FetchedIsHandled' /\ task'.phase \in {"poll", "decide"}
    BY <1>6, NextEventFollows DEF RecordFails, Finish
  <2>2. NoticesTypeOK'
    BY <1>6, <2>1 DEF RecordFails, NoticesTypeOK, TaskType, NotificationsAssumption
  <2>3. RecordingIsTrue' /\ LoopsGoOn' /\ RecordedWasDelivered'
    BY <1>6, <2>1 DEF RecordFails, RecordingIsTrue, LoopsGoOn, RecordedWasDelivered
  <2>4. QED
    BY <2>1, <2>2, <2>3
<1>7. ASSUME ProcessFails PROVE NoticesInv'
  <2>1. /\ task' \in TaskType /\ handled' \subseteq Offers
        /\ TaskInBatch' /\ FetchedIsHandled' /\ task'.phase \in {"poll", "decide"}
    BY <1>7, NextEventFollows DEF ProcessFails, AfterError
  <2>2. NoticesTypeOK'
    BY <1>7, <2>1 DEF ProcessFails, NoticesTypeOK, TaskType, NotificationsAssumption
  <2>3. RecordingIsTrue' /\ LoopsGoOn' /\ RecordedWasDelivered'
    BY <1>7, <2>1 DEF ProcessFails, RecordingIsTrue, LoopsGoOn, RecordedWasDelivered
  <2>4. QED
    BY <2>1, <2>2, <2>3
<1>8. ChannelIsKept
  <2>1. ASSUME Record PROVE ChannelIsKept
    <3>1. channel \in [Offers -> Adapters \cup {None}]
      BY DEF NoticesTypeOK
    <3>2. channel' = [channel EXCEPT ![task.event] = IF @ = None THEN task.by ELSE @]
      BY <2>1 DEF Record, Recorded
    <3>3. QED
      BY <3>1, <3>2 DEF ChannelIsKept
  <2>2. ASSUME channel' = channel PROVE ChannelIsKept
    BY <2>2 DEF ChannelIsKept
  <2>3. QED
    BY <2>1, <2>2 DEF Consumer, Fetch, Decide, Deliver, NoChannel, RecordFails, ProcessFails
<1>9. ASSUME Fetch PROVE NoticesInv'
  BY <1>1, <1>9 DEF Fetch
<1>10. QED
  BY <1>2, <1>3, <1>4, <1>5, <1>6, <1>7, <1>8, <1>9 DEF Consumer

(***************************************************************************)
(* Lemma: so does every step.                                              *)
(***************************************************************************)
LEMMA NoticesGoOn ==
  ASSUME NoticesInv, [NoticesNext]_noticeVars
  PROVE  NoticesInv' /\ ChannelIsKept
<1> USE DEF NoticesInv
<1>0. /\ end \in Nat /\ confirmed \in Nat /\ fetched \in Nat /\ Cardinality(Offers) \in Nat
      /\ Offers = 1 .. Cardinality(Offers)
  BY FS_CardinalityType DEF NoticesTypeOK, NotificationsAssumption
<1>1. CASE Publish
  <2>1. NoticesTypeOK'
    BY <1>0, <1>1 DEF Publish, NoticesTypeOK
  <2>2. TaskInBatch' /\ RecordingIsTrue' /\ LoopsGoOn' /\ RecordedWasDelivered'
    BY <1>1 DEF Publish, TaskInBatch, RecordingIsTrue, LoopsGoOn, RecordedWasDelivered
  <2>3. FetchedIsHandled' /\ ChannelIsKept
    BY <1>1 DEF Publish, FetchedIsHandled, InBatch, ChannelIsKept
  <2>4. QED
    BY <2>1, <2>2, <2>3
<1>2. CASE Consumer
  BY <1>2, ConsumerGoesOn
<1>3. CASE AutoCommit
  <2>1. NoticesTypeOK'
    BY <1>0, <1>3 DEF AutoCommit, NoticesTypeOK
  <2>2. TaskInBatch' /\ RecordingIsTrue' /\ LoopsGoOn' /\ RecordedWasDelivered'
    BY <1>3 DEF AutoCommit, TaskInBatch, RecordingIsTrue, LoopsGoOn, RecordedWasDelivered
  <2>3. FetchedIsHandled' /\ ChannelIsKept
    BY <1>3 DEF AutoCommit, FetchedIsHandled, InBatch, ChannelIsKept
  <2>4. QED
    BY <2>1, <2>2, <2>3
<1>4. ASSUME NEW o \in Offers, ShowInApp(o)
      PROVE  NoticesInv' /\ ChannelIsKept
  <2>1. /\ sent \in [Offers -> SUBSET Adapters] /\ channel \in [Offers -> Adapters \cup {None}]
        /\ sent' = [sent EXCEPT ![o] = @ \cup {"in_app"}]
        /\ channel' = [channel EXCEPT ![o] = IF @ = None THEN "in_app" ELSE @]
    BY <1>4 DEF ShowInApp, Recorded, NoticesTypeOK
  <2>2. sent' \in [Offers -> SUBSET Adapters] /\ channel' \in [Offers -> Adapters \cup {None}]
    BY <2>1, ChainOfAdapters
  <2>3. NoticesTypeOK'
    BY <1>4, <2>2 DEF ShowInApp, NoticesTypeOK
  <2>4. TaskInBatch' /\ LoopsGoOn' /\ FetchedIsHandled'
    BY <1>4 DEF ShowInApp, TaskInBatch, LoopsGoOn, FetchedIsHandled, InBatch
  <2>5. \A x \in Offers : sent[x] \subseteq sent'[x]
    BY <2>1
  <2>6. RecordingIsTrue'
    BY <1>0, <1>4, <2>5 DEF ShowInApp, RecordingIsTrue, TaskInBatch, NoticesTypeOK
  <2>7. RecordedWasDelivered' /\ ChannelIsKept
    BY <2>1, <2>5 DEF RecordedWasDelivered, ChannelIsKept
  <2>8. QED
    BY <2>3, <2>4, <2>6, <2>7
<1>5. ASSUME NEW l \in Loops, NEW how \in {"crashed", "returned"}, LoopBreaks(l, how)
      PROVE  NoticesInv' /\ ChannelIsKept
  <2>1. /\ loop' \in [Loops -> {"running", "crashed", "returned", "ended", "stopped"}]
        /\ crashes' \in 0 .. MaxCrashes
    BY <1>5 DEF LoopBreaks, NoticesTypeOK, NotificationsAssumption
  <2>2. NoticesTypeOK'
    BY <1>0, <1>5, <2>1 DEF LoopBreaks, NoticesTypeOK
  <2>3. TaskInBatch' /\ RecordingIsTrue' /\ RecordedWasDelivered'
    BY <1>5 DEF LoopBreaks, TaskInBatch, RecordingIsTrue, RecordedWasDelivered
  <2>4. LoopsGoOn'
    BY <1>5 DEF LoopBreaks, LoopsGoOn, NoticesTypeOK
  <2>5. FetchedIsHandled' /\ ChannelIsKept
    BY <1>5 DEF LoopBreaks, FetchedIsHandled, InBatch, ChannelIsKept
  <2>6. QED
    BY <2>2, <2>3, <2>4, <2>5
<1>6. ASSUME NEW l \in Loops, Supervise(l)
      PROVE  NoticesInv' /\ ChannelIsKept
  <2>1. NoticesTypeOK'
    BY <1>6 DEF Supervise, Again, NoticesTypeOK
  <2>2. TaskInBatch' /\ RecordingIsTrue' /\ RecordedWasDelivered'
    BY <1>6 DEF Supervise, TaskInBatch, RecordingIsTrue, RecordedWasDelivered
  <2>3. LoopsGoOn'
    BY <1>6 DEF Supervise, Again, LoopsGoOn, NoticesTypeOK
  <2>4. FetchedIsHandled' /\ ChannelIsKept
    BY <1>6 DEF Supervise, FetchedIsHandled, InBatch, ChannelIsKept
  <2>5. QED
    BY <2>1, <2>2, <2>3, <2>4
<1>7. CASE Stop
  <2>1. NoticesTypeOK'
    BY <1>7 DEF Stop, NoticesTypeOK
  <2>2. TaskInBatch' /\ RecordingIsTrue' /\ LoopsGoOn' /\ RecordedWasDelivered'
    BY <1>7 DEF Stop, TaskInBatch, RecordingIsTrue, LoopsGoOn, RecordedWasDelivered
  <2>3. FetchedIsHandled' /\ ChannelIsKept
    BY <1>7 DEF Stop, FetchedIsHandled, ChannelIsKept
  <2>4. QED
    BY <2>1, <2>2, <2>3
<1>8. CASE Shutdown
  <2>1. /\ stopping /\ stopping' = stopping /\ channel' = channel /\ sent' = sent
        /\ task' = NoTask /\ loop' = [l \in Loops |-> "stopped"]
        /\ UNCHANGED <<end, fetched, handled, faults, crashes, killed>>
        /\ confirmed' = fetched
    BY <1>8 DEF Shutdown, LoopsGoOn
  <2>2. task' \in TaskType /\ task'.phase = "poll"
    BY <2>1, ChainOfAdapters DEF NoTask, TaskType
  <2>3. NoticesTypeOK'
    BY <1>0, <2>1, <2>2 DEF NoticesTypeOK, TaskType
  <2>4. TaskInBatch' /\ RecordingIsTrue' /\ LoopsGoOn' /\ RecordedWasDelivered'
    BY <2>1, <2>2 DEF TaskInBatch, RecordingIsTrue, LoopsGoOn, RecordedWasDelivered
  <2>5. FetchedIsHandled' /\ ChannelIsKept
    BY <2>1 DEF FetchedIsHandled, ChannelIsKept
  <2>6. QED
    BY <2>3, <2>4, <2>5
<1>9. CASE Kill
  <2>1. /\ stopping' = stopping /\ channel' = channel /\ sent' = sent
        /\ task' = NoTask /\ loop' = [l \in Loops |-> "running"]
        /\ UNCHANGED <<end, confirmed, handled, faults>>
        /\ fetched' = confirmed /\ killed' = TRUE
        /\ crashes' = crashes + 1 /\ crashes < MaxCrashes
    BY <1>9 DEF Kill
  <2>2. task' \in TaskType /\ task'.phase = "poll"
    BY <2>1, ChainOfAdapters DEF NoTask, TaskType
  <2>3. NoticesTypeOK'
    BY <1>0, <2>1, <2>2 DEF NoticesTypeOK, TaskType, NotificationsAssumption
  <2>4. TaskInBatch' /\ RecordingIsTrue' /\ LoopsGoOn' /\ RecordedWasDelivered'
    BY <2>1, <2>2 DEF TaskInBatch, RecordingIsTrue, LoopsGoOn, RecordedWasDelivered
  <2>5. FetchedIsHandled' /\ ChannelIsKept
    BY <2>1 DEF FetchedIsHandled, ChannelIsKept
  <2>6. QED
    BY <2>3, <2>4, <2>5
<1>10. CASE UNCHANGED noticeVars
  <2>1. NoticesTypeOK'
    BY <1>10 DEF noticeVars, NoticesTypeOK
  <2>2. TaskInBatch' /\ RecordingIsTrue' /\ LoopsGoOn' /\ RecordedWasDelivered'
    BY <1>10 DEF noticeVars, TaskInBatch, RecordingIsTrue, LoopsGoOn, RecordedWasDelivered
  <2>3. FetchedIsHandled' /\ ChannelIsKept
    BY <1>10 DEF noticeVars, FetchedIsHandled, InBatch, ChannelIsKept
  <2>4. QED
    BY <2>1, <2>2, <2>3
<1>11. QED
  BY <1>1, <1>2, <1>3, <1>4, <1>5, <1>6, <1>7, <1>8, <1>9, <1>10 DEF NoticesNext

(***************************************************************************)
(* The invariant of the notification loop.                                 *)
(***************************************************************************)
THEOREM NoticesHold == NoticesSpec => []NoticesInv
<1>1. NoticesInv /\ [NoticesNext]_noticeVars => NoticesInv'
  BY NoticesGoOn
<1>2. QED
  BY <1>1, NoticesBegin, PTL DEF NoticesSpec

(***************************************************************************)
(* The channel of an offer is one by which it reached its client, and is   *)
(* never changed: whatever adapters failed, with an effect or without, and *)
(* whatever was delivered twice after a crash.                             *)
(***************************************************************************)
THEOREM ChannelsAreTrue == NoticesSpec => ChannelIsTrue
<1>1. NoticesInv => RecordedWasDelivered
  BY DEF NoticesInv
<1>2. NoticesInv /\ [NoticesNext]_noticeVars =>
        [\A o \in Offers : channel[o] # None => channel'[o] = channel[o]]_noticeVars
  BY NoticesGoOn DEF ChannelIsKept
<1>3. QED
  BY <1>1, <1>2, NoticesHold, PTL DEF NoticesSpec, ChannelIsTrue, ChannelIsFinal

(***************************************************************************)
(* Until the process is killed or stopped no event of a batch is skipped:  *)
(* offsets are committed past a whole batch, failures end no batch, and a  *)
(* loop breaks only between two of them.                                   *)
(***************************************************************************)
THEOREM NoEventIsSkipped == NoticesSpec => []FetchedIsHandled
<1>1. NoticesInv => FetchedIsHandled
  BY DEF NoticesInv
<1>2. QED
  BY <1>1, NoticesHold, PTL
=============================================================================
