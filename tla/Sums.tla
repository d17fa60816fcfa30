-------------------------------- MODULE Sums --------------------------------
(***************************************************************************)
(* SUM of a column over a set of rows, in the statistics of                *)
(* campaign_manager and of mobile_api.                                     *)
(***************************************************************************)
EXTENDS Integers, FiniteSets, FiniteSetsExt

SumOf(amount, S) == MapThenSumSet(LAMBDA x : amount[x], S)

\* The sum of all the amounts there are.
SumAll(amount) == SumOf(amount, DOMAIN amount)
=============================================================================
