------------------------------- MODULE ABTests -------------------------------
(***************************************************************************)
(* One A/B experiment of campaign_manager (api/ab_testing.py): operators   *)
(* create, start and stop it, assign users to its variants and read its    *)
(* results, while the users' conversions come in.  No request locks the    *)
(* experiment's row: what one has read may be old when it writes.          *)
(***************************************************************************)
EXTENDS Sums

CONSTANTS Participants,   \* users to be assigned
          Bucket,         \* deterministic_bucket of each user, in 0 .. Grid - 1
          Grid,           \* the buckets; weights are multiples of 1 / Grid
          VariantCount,   \* variants of the experiment, numbered by name
          StatusPatches,  \* PATCH status, concurrent ones
          Assigns,        \* POST assign, concurrent ones
          MinN,           \* ab_min_observations
          ZSquared,       \* ten times the square of z at ab_significance_alpha
          TrendSquared,   \* and at ab_trending_alpha
          MaxEvents       \* bound: conversions of a user

Variants == 1 .. VariantCount
Absent == 0               \* no user, no variant

\* MinN observations can tell two variants apart: they are 200, z at the
\* trending level is 1.28.
ASSUME ABAssumption ==
  /\ Grid \in Nat \ {0} /\ VariantCount \in Nat \ {0, 1}
  /\ IsFiniteSet(Participants) /\ Absent \notin Participants
  /\ Bucket \in [Participants -> 0 .. Grid - 1]
  /\ MinN \in Nat /\ ZSquared \in Nat /\ TrendSquared \in Nat
  /\ 10 * MinN > TrendSquared
  /\ MaxEvents \in Nat

VARIABLES status,   \* ab_experiments.status
          weights,  \* traffic_weight of each variant
          control,  \* the variant with is_control
          patch,    \* what each status change read and wants
          assign,   \* the progress of each assignment
          rows,     \* ab_assignments: variant of a user and how many rows
          events    \* ab_events: conversions of a user's assignment

experimentVars == <<status, weights, control, patch, assign, rows, events>>

Statuses == {"absent", "DRAFT", "ACTIVE", "STOPPED"}
NoPatch == [action |-> "none", read |-> "absent"]
NoAssign == [user |-> Absent, phase |-> "idle"]
NoRow == [variant |-> Absent, count |-> 0]

\* pick_variant: the cumulative weights, walked until they pass the bucket
UpTo(w, v) == SumOf(w, 1 .. v)

Beyond(bucket, w) == {v \in Variants : bucket < UpTo(w, v)}
PickVariant(bucket, w) == IF Beyond(bucket, w) = {} THEN VariantCount
                          ELSE Min(Beyond(bucket, w))

-----------------------------------------------------------------------------
\* create_experiment: the weights sum to 1, one variant is the control.
CreateExperiment ==
  /\ status = "absent"
  /\ status' = "DRAFT"
  /\ weights' \in {w \in [Variants -> 0 .. Grid] : SumAll(w) = Grid}
  /\ control' \in Variants
  /\ UNCHANGED <<patch, assign, rows, events>>

\* _FSM_AB
FSM == [start |-> [from |-> "DRAFT", to |-> "ACTIVE"],
        stop |-> [from |-> "ACTIVE", to |-> "STOPPED"]]

\* patch_experiment_status: the row is read and the action judged by it ...
ReadStatus(p, action) ==
  /\ patch[p].action = "none"
  /\ status = FSM[action].from
  /\ patch' = [patch EXCEPT ![p] = [action |-> action, read |-> status]]
  /\ UNCHANGED <<status, weights, control, assign, rows, events>>

\* ... and the new status is written, whatever the row has become.
WriteStatus(p) ==
  /\ patch[p].action # "none"
  /\ status' = FSM[patch[p].action].to
  /\ patch' = [patch EXCEPT ![p] = NoPatch]
  /\ UNCHANGED <<weights, control, assign, rows, events>>

\* assign_user: only into an ACTIVE experiment, or 409 ...
ReadActive(a, u) ==
  /\ assign[a].phase = "idle"
  /\ status = "ACTIVE"
  /\ assign' = [assign EXCEPT ![a] = [user |-> u, phase |-> "insert"]]
  /\ UNCHANGED <<status, weights, control, patch, rows, events>>

\* Mutant: INSERT without ON CONFLICT.
Inserted(row, v) == [variant |-> v, count |-> row.count + 1]

\* INSERT ... ON CONFLICT (user_id, experiment_id) DO NOTHING, which waits for
\* another request's uncommitted row of the user; then the row is read.
InsertedOnce(row, v) == IF row.count > 0 THEN row ELSE [variant |-> v, count |-> 1]

InsertAssignment(a) ==
  LET u == assign[a].user
  IN /\ assign[a].phase = "insert"
     /\ rows' = [rows EXCEPT ![u] = InsertedOnce(@, PickVariant(Bucket[u], weights))]
     /\ assign' = [assign EXCEPT ![a] = NoAssign]
     /\ UNCHANGED <<status, weights, control, patch, events>>

\* A conversion of an assigned user, stopped experiment or not.
Convert(u) ==
  /\ rows[u].count > 0
  /\ events[u] < MaxEvents
  /\ events' = [events EXCEPT ![u] = @ + 1]
  /\ UNCHANGED <<status, weights, control, patch, assign, rows>>

-----------------------------------------------------------------------------
ExperimentInit ==
  /\ status = "absent"
  /\ weights = [v \in Variants |-> 0]
  /\ control = 1
  /\ patch = [p \in StatusPatches |-> NoPatch]
  /\ assign = [a \in Assigns |-> NoAssign]
  /\ rows = [u \in Participants |-> NoRow]
  /\ events = [u \in Participants |-> 0]

ExperimentNext ==
  \/ CreateExperiment
  \/ \E p \in StatusPatches : (\E action \in DOMAIN FSM : ReadStatus(p, action)) \/ WriteStatus(p)
  \/ \E a \in Assigns : (\E u \in Participants : ReadActive(a, u)) \/ InsertAssignment(a)
  \/ \E u \in Participants : Convert(u)

ExperimentSpec == ExperimentInit /\ [][ExperimentNext]_experimentVars

-----------------------------------------------------------------------------
(***************************************************************************)
(* GET results: the control and the first other variant by name, their     *)
(* assignments and those with a conversion, the z-test and its verdict.    *)
(***************************************************************************)
Treatment == Min(Variants \ {control})

\* _variant_stats: COUNT(DISTINCT assignment_id), of assignments and of events
AssignedTo(v) == {u \in Participants : rows[u].variant = v}
Trials(v) == SumOf([u \in Participants |-> rows[u].count], AssignedTo(v))

\* Mutant: events are counted instead of users.
AllEvents(v) == SumOf(events, AssignedTo(v))

Successes(v) == Cardinality({u \in AssignedTo(v) : events[u] > 0})

\* two_proportion_z_test: the square of z against a critical one.  There is no
\* test with an empty group, a share outside [0, 1] or no variance.
Exceeds(c, t, critical) ==
  LET nc == Trials(c)      nt == Trials(t)
      sc == Successes(c)   st == Successes(t)
      n == nc + nt         s == sc + st
  IN /\ nc > 0 /\ nt > 0 /\ sc <= nc /\ st <= nt
     /\ s > 0 /\ s < n
     /\ n >= MinN
     /\ 10 * n * (st * nc - sc * nt) * (st * nc - sc * nt) > critical * nc * nt * s * (n - s)

\* _significance_badge
Significance(c, t) == IF Exceeds(c, t, ZSquared) THEN "significant"
                      ELSE IF Exceeds(c, t, TrendSquared) THEN "trending" ELSE "no_data"

\* _winner: whose rate is higher, once there is a significance or a trend
Winner ==
  LET t == Treatment
      diff == Successes(t) * Trials(control) - Successes(control) * Trials(t)
  IN IF Significance(control, t) = "no_data" \/ diff = 0 THEN Absent
     ELSE IF diff > 0 THEN t ELSE control

-----------------------------------------------------------------------------
\* Every variable keeps its type.
ExperimentTypeOK ==
  /\ status \in Statuses
  /\ weights \in [Variants -> 0 .. Grid] /\ control \in Variants
  /\ patch \in [StatusPatches -> [action : {"none", "start", "stop"}, read : Statuses]]
  /\ assign \in [Assigns -> [user : Participants \cup {Absent}, phase : {"idle", "insert"}]]
  /\ rows \in [Participants -> [variant : Variants \cup {Absent}, count : Nat]]
  /\ events \in [Participants -> 0 .. MaxEvents]

(***************************************************************************)
(* ab_testing.py:271: however many requests assign a user at once, he is   *)
(* in the experiment once, in the variant of his bucket.                   *)
(***************************************************************************)
OneVariantEach ==
  \A u \in Participants :
    /\ rows[u].count <= 1
    /\ rows[u].count = 1 => rows[u].variant = PickVariant(Bucket[u], weights)

(***************************************************************************)
(* ab_testing.py:7, 336: the verdict names the variant whose users convert *)
(* more often.  A user who converts again counts once, and a share of 1    *)
(* with repeated conversions does not take the verdict away.               *)
(***************************************************************************)
WithEvents(v) == {u \in AssignedTo(v) : events[u] > 0}
WinnerIsBetter ==
  LET t == Treatment
      other(v) == IF v = t THEN control ELSE t
      ahead(v, w) == Cardinality(WithEvents(v)) * Cardinality(AssignedTo(w))
                       > Cardinality(WithEvents(w)) * Cardinality(AssignedTo(v))
  IN /\ Winner # Absent => ahead(Winner, other(Winner))
     /\ \A v \in {t, control} :
            /\ AssignedTo(v) # {} /\ WithEvents(v) = AssignedTo(v)
            /\ AssignedTo(other(v)) # {} /\ WithEvents(other(v)) = {}
            /\ Cardinality(AssignedTo(v)) + Cardinality(AssignedTo(other(v))) >= MinN
          => Winner = v

(***************************************************************************)
(* Every variant gets the share of the buckets that its weight says, one   *)
(* of weight 0 none (ab_testing.pick_variant).                             *)
(***************************************************************************)
TrafficFollowsWeights ==
  status # "absent" =>
    \A v \in Variants :
      Cardinality({b \in 0 .. Grid - 1 : PickVariant(b, weights) = v}) = weights[v]

(***************************************************************************)
(* However many requests assign a user at once, he is in the experiment    *)
(* once, in the variant of his bucket; and every variant gets the share of *)
(* the buckets that its weight says.                                       *)
(***************************************************************************)
AssignedOnce == OneVariantEach /\ TrafficFollowsWeights

(***************************************************************************)
(* ab_testing.py:271: users are assigned to an ACTIVE experiment only.     *)
(***************************************************************************)
AssignedWhileActive == [][rows' # rows => status = "ACTIVE"]_experimentVars
=============================================================================
