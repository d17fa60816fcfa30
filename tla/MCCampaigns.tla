---------------------------- MODULE MCCampaigns ----------------------------
(***************************************************************************)
(* Campaigns and the dashboard that follows them: small instances of the   *)
(* campaign lifecycle and of the event streams, side by side.  They share  *)
(* no state; the first state chooses which of them runs, and the           *)
(* properties of the others hold in their first states.                    *)
(***************************************************************************)
EXTENDS CampaignLifecycle, EventStreams

CONSTANTS boss, clerk, n1, n2, n3

VARIABLE part

MCInit ==
  /\ part \in {"campaigns", "stream", "crowd"}
  /\ Init
  /\ StreamsInit
  /\ part # "campaigns" =>
       campaign = [c \in Campaigns |-> [status |-> "NONE", archived |-> FALSE, ends |-> 0,
                                        rate |-> CHOOSE r \in Rates : TRUE]]

CampaignsRun(action) == part = "campaigns" /\ action /\ UNCHANGED <<part, eventVars>>

\* One stream of a clerk whose account, role and right "dashboard" change ...
StreamRun(action) ==
  /\ part = "stream"
  /\ action
  /\ conn'[n2] = NoConn /\ conn'[n3] = NoConn
  /\ \A k \in SseTokens : sse'[k] # None => sse'[k].user = clerk
  /\ UNCHANGED <<part, vars>>

\* ... and a crowd: three connections of two viewers, with room for two.
CrowdRun(action) == part = "crowd" /\ UNCHANGED <<part, vars, accountVars>> /\ action

MCNext == CampaignsRun(Next) \/ StreamRun(StreamsNext) \/ CrowdRun(StreamsNext)

allVars == <<part, vars, eventVars>>

\* The fairness of the three: part never changes, so one condition on a
\* disjunction with an action of each says the same as one on each action.
MCFairness ==
  /\ WF_allVars(CampaignsRun(CompleteExpired) \/ StreamRun(Revalidate(n1)))
  /\ WF_allVars(CampaignsRun(Tick))
  /\ \A c \in Connections :
       /\ WF_allVars(StreamRun(Handler(c)) \/ CrowdRun(Handler(c)))
       /\ WF_allVars(StreamRun(NextEvent(c)) \/ CrowdRun(NextEvent(c)))

MCSpec == MCInit /\ [][MCNext]_allVars /\ MCFairness
=============================================================================
