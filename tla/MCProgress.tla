----------------------------- MODULE MCProgress -----------------------------
(***************************************************************************)
(* What is bound to happen on the way from a purchase to its accrual, and  *)
(* to an operator who is locked out: small instances of Deliveries,        *)
(* ListenerOffsets and LoginThrottle, side by side.  They share no state;  *)
(* the first state chooses which of them runs.                             *)
(***************************************************************************)
EXTENDS MCCashbackSystem, Deliveries

CONSTANTS Partitions, Listeners, LogEnd, MaxChurn, q1, q2, l1, w1, w2, e1, ip, r1, r2

\* A bad message in front of the partition beside the one that is stuck.
MCBad == {<<q2, 0>>}
MCStuck == {<<q1, 1>>}

VARIABLES part,
          committed, owner, position, phase, current, slice, processed, dead, churn,
          counter, login, checked, faults

Offsets == INSTANCE ListenerOffsets WITH Bad <- MCBad, Stuck <- MCStuck

offsetVars == <<committed, owner, position, phase, current, slice, processed, dead, churn>>

Throttle == INSTANCE LoginThrottle WITH
  Emails <- {e1}, Ip <- ip, Logins <- {r1, r2},
  PairLimit <- 1, IpLimit <- 2, WindowLength <- 1, MaxFaults <- 1

throttleVars == <<counter, login, checked, faults>>

ASSUME Offsets!ListenerAssumption /\ Throttle!ThrottleAssumption

MCInit ==
  /\ part \in {"accruals", "offsets", "throttle"}
  /\ DeliveriesInit
  /\ Offsets!Init
  /\ Throttle!ThrottleInit
  /\ part # "offsets" => current = [l \in Listeners |-> q1]

MCNext ==
  \/ part = "accruals" /\ DeliveriesNext /\ UNCHANGED <<part, offsetVars, throttleVars>>
  \/ part = "offsets" /\ Offsets!Next /\ UNCHANGED <<part, deliveryVars, throttleVars>>
  \/ part = "throttle" /\ Throttle!ThrottleNext /\ UNCHANGED <<part, deliveryVars, offsetVars>>

(***************************************************************************)
(* The fairness of the three specifications.  part never changes, so one   *)
(* condition on a disjunction that has an action of each part says the     *)
(* same as a condition on each of the actions.                             *)
(***************************************************************************)
AccrualsRun(action) ==
  part = "accruals" /\ action /\ UNCHANGED <<part, offsetVars, throttleVars>>
OffsetsRun(action) ==
  part = "offsets" /\ action /\ UNCHANGED <<part, deliveryVars, throttleVars>>
ThrottleRun(action) ==
  part = "throttle" /\ action /\ UNCHANGED <<part, deliveryVars, offsetVars>>

WorkerRun(w, step) == AccrualsRun(Accrue(w, step))
Work(i) == <<w1, w2>>[i]

allVars == <<part, deliveryVars, offsetVars, throttleVars>>

Weak1 == \/ \E a \in Attempts : AccrualsRun(RequestStep(a) /\ UNCHANGED <<accrualVars, handled>>)
         \/ OffsetsRun(Offsets!Rebalance /\ \E q \in Partitions : owner[q] = Nobody)
         \/ ThrottleRun(Throttle!Tick)
Weak2(i) == \/ OffsetsRun(IF i = 1 THEN Offsets!Poll(l1) ELSE Offsets!Retry(l1))
            \/ ThrottleRun(Throttle!Step(<<r1, r2>>[i]))
Weak3(i) == \/ WorkerRun(Work(i), ReleaseKey(Work(i)) \/ Publish(Work(i)))
            \/ OffsetsRun(IF i = 1 THEN Offsets!Commit(l1) \/ Offsets!CommitFails(l1)
                                    ELSE Offsets!Restart(l1))
Strong1(i) == \/ WorkerRun(Work(i), LockOffer(Work(i)))
              \/ OffsetsRun(Offsets!Poll(l1) /\ current'[l1] = <<q1, q2>>[i])
              \/ ThrottleRun(\E r \in {r1, r2} : Throttle!Request(r, e1))
Strong2(i) == WorkerRun(Work(i), LockCampaign(Work(i)) \/ SkipCampaign(Work(i)))
Strong3(i) == WorkerRun(Work(i), Book(Work(i)))
Strong4 == AccrualsRun(Deliver(p1)) \/ OffsetsRun(Offsets!Handle(l1))

MCFairness ==
  /\ WF_allVars(Weak1)
  /\ \A i \in {1, 2} :
       /\ WF_allVars(Weak2(i)) /\ WF_allVars(Weak3(i))
       /\ SF_allVars(Strong1(i)) /\ SF_allVars(Strong2(i))
       /\ SF_allVars(Strong3(i))
  /\ SF_allVars(Strong4)

MCSpec == MCInit /\ [][MCNext]_allVars /\ MCFairness

(***************************************************************************)
(* A failure delays a message instead of losing it, and a message that     *)
(* keeps failing stalls nothing but its partition (ListenerOffsets).       *)
(***************************************************************************)
AllDone == part = "offsets" => Offsets!AllDone

(***************************************************************************)
(* Parallel logins do not get more password checks than the limit, and a   *)
(* lockout ends whatever failed when it began (LoginThrottle).             *)
(***************************************************************************)
ThrottleHolds == part = "throttle" => Throttle!ThrottleHolds
=============================================================================
