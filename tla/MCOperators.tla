----------------------------- MODULE MCOperators -----------------------------
(***************************************************************************)
(* What operators do in campaign_manager: small instances of their         *)
(* sessions, of an A/B experiment and of the reports, side by side.  They  *)
(* share no state; the first state chooses which of them runs, and the     *)
(* properties of the others hold in their first states.                    *)
(***************************************************************************)
EXTENDS Sessions, ABTests, Reports, TLC

CONSTANTS o1, o2

VARIABLE part

\* The buckets of the three users are all there are.
MCBucket == [u \in 1 .. 3 |-> u - 1]
MCPurchase == o1 :> 10 @@ o2 :> 20
MCCashback == o1 :> 1 @@ o2 :> 2
MCBuckets == [b \in {1} |-> {1}]

MCInit ==
  /\ part \in {"sessions", "tests", "reports"}
  /\ Init /\ ExperimentInit /\ ReportsInit
  /\ part # "reports" => client = [u \in Clients |-> [segment |-> 1, created |-> 0]]

MCNext ==
  \/ part = "sessions" /\ Next /\ UNCHANGED <<part, experimentVars, reportVars>>
  \/ part = "tests" /\ ExperimentNext /\ UNCHANGED <<part, vars, reportVars>>
  \/ part = "reports" /\ ReportsNext /\ UNCHANGED <<part, vars, experimentVars>>

MCSpec == MCInit /\ [][MCNext]_<<part, vars, experimentVars, reportVars>>

\* Tokens are clients in the reports, and calls campaigns, status changes and
\* assignments, so that one symmetry serves every part.
Symmetry == Permutations(Tokens) \cup Permutations(Calls)
=============================================================================
