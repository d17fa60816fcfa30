---------------------------- MODULE CircuitBreaker ----------------------------
(***************************************************************************)
(* The circuit breaker between mobile_api and recommendation_api.  Calls   *)
(* run concurrently in one event loop; record_success and record_failure   *)
(* are atomic, but a call is admitted by one look at the state and answers *)
(* any time later.  The retries inside a call are not told apart: a call   *)
(* succeeds, fails after its last attempt, or is cancelled by its client   *)
(* and then records nothing.                                               *)
(***************************************************************************)
EXTENDS Integers, FiniteSets

CONSTANTS Calls,      \* concurrent requests of this process
          Threshold,  \* failure_threshold
          Reset,      \* reset_seconds
          NotOpen     \* _opened_at is None

ASSUME BreakerAssumption ==
  /\ Threshold \in Nat \ {0}
  /\ Reset \in Nat \ {0}
  /\ NotOpen \notin Nat

VARIABLES failures,  \* _failures; beyond the threshold it tells nothing more
          age,       \* seconds since _opened_at, counted up to Reset
          call,      \* what each call is doing
          up         \* whether recommendation_api answers

breakerVars == <<failures, age, call, up>>

CallStates == {"idle", "call"}

\* The counter and the age stay in range.
BreakerTypeOK ==
  /\ failures \in 0 .. Threshold
  /\ age \in 0 .. Reset \cup {NotOpen}
  /\ call \in [Calls -> CallStates]
  /\ up \in BOOLEAN

BreakerInit ==
  /\ failures = 0
  /\ age = NotOpen
  /\ call = [k \in Calls |-> "idle"]
  /\ up \in BOOLEAN

state == IF age = NotOpen THEN "closed"
         ELSE IF age = Reset THEN "half_open" ELSE "open"

\* before_call: only an open breaker refuses; a half-open one admits every
\* call that comes, not only the first.
Admit(k) ==
  /\ call[k] = "idle"
  /\ state # "open"
  /\ call' = [call EXCEPT ![k] = "call"]
  /\ UNCHANGED <<failures, age, up>>

Over(k) == /\ call[k] # "idle"
           /\ call' = [call EXCEPT ![k] = "idle"]

\* Mutant: a success closes the breaker and forgets the counter.
StillCounting(n) == n

\* Mutant: a success resets the counter and leaves the breaker open.
StillOpen(a) == a

CounterReset(n) == 0
Reclosed(a) == NotOpen

\* record_success
RecordSuccess(k) ==
  /\ up
  /\ Over(k)
  /\ failures' = CounterReset(failures)
  /\ age' = Reclosed(age)
  /\ UNCHANGED up

\* record_failure: opens at the threshold, and never a breaker opened before.
RecordFailure(k) ==
  /\ ~up
  /\ Over(k)
  /\ failures' = IF failures = Threshold THEN failures ELSE failures + 1
  /\ age' = IF failures' = Threshold /\ age = NotOpen THEN 0 ELSE age
  /\ UNCHANGED up

\* CancelledError is no Exception: nothing is recorded.
Cancel(k) == Over(k) /\ UNCHANGED <<failures, age, up>>

Second ==
  /\ state = "open"
  /\ age' = age + 1
  /\ UNCHANGED <<failures, call, up>>

\* recommendation_api goes down or comes back.
Flip == up' = ~up /\ UNCHANGED <<failures, age, call>>

BreakerNext ==
  \/ \E k \in Calls : Admit(k) \/ RecordSuccess(k) \/ RecordFailure(k) \/ Cancel(k)
  \/ Second
  \/ Flip

BreakerSpec == BreakerInit /\ [][BreakerNext]_breakerVars

(***************************************************************************)
(* Time passes, clients keep asking and not every call is cancelled; the   *)
(* health of recommendation_api is not fair.                               *)
(***************************************************************************)
Fairness ==
  /\ WF_breakerVars(Second)
  /\ \A k \in Calls : WF_breakerVars(Admit(k))
  /\ SF_breakerVars(\E k \in Calls : RecordSuccess(k))

FairSpec == BreakerSpec /\ Fairness

(***************************************************************************)
(* The breaker is open exactly when the failures since the last success    *)
(* reached the threshold, whatever calls were already on their way when it *)
(* opened or closed.                                                       *)
(***************************************************************************)
OpenIffFailing == (age = NotOpen) <=> (failures < Threshold)

(***************************************************************************)
(* A breaker does not outlive the outage: once recommendation_api is back  *)
(* for good, the breaker is closed for good.                               *)
(***************************************************************************)
Recovers == <>[]up => <>[](state = "closed")
=============================================================================
