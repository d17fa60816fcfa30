---------------------------- MODULE LoginThrottle ----------------------------
(***************************************************************************)
(* The throttling of logins in campaign_manager (api/auth.py): every       *)
(* attempt counts itself in Redis before the password is checked, once for *)
(* the pair of e-mail and IP and once for the IP, and a counter above its  *)
(* limit answers 429 until its window is over.                             *)
(*                                                                         *)
(* All attempts come from one IP.  Every call to Redis is a step, and may  *)
(* fail before or after it was applied; a process may die between them.    *)
(***************************************************************************)
EXTENDS Integers, FiniteSetsExt

CONSTANTS Emails,
          Ip,          \* the IP's counter, no member of Emails
          Logins,      \* POST /auth/login requests
          PairLimit,   \* login_max_failures_per_email_ip
          IpLimit,     \* login_max_attempts_per_ip
          WindowLength,
          MaxFaults    \* bound: failures of Redis and of processes

Keys == Emails \cup {Ip}
Limit(k) == IF k = Ip THEN IpLimit ELSE PairLimit

ThrottleAssumption == /\ Ip \notin Emails /\ Emails # {} /\ IsFiniteSet(Logins)
                      /\ PairLimit \in Nat \ {0} /\ IpLimit \in Nat \ {0}
                      /\ WindowLength \in Nat \ {0} /\ MaxFaults \in Nat

Forever == -1    \* TTL of a key without one

VARIABLES counter,   \* auth:login_fail:* and auth:login_ip:*
          login,     \* the progress of each request
          checked,   \* history: password checks of the attempts a counter
                     \* counted since it began
          faults

throttleVars == <<counter, login, checked, faults>>

\* A count is told from others up to the limit.
Unset == [n |-> 0, ttl |-> Forever]
KeyExists(k) == counter[k].n > 0
Exhausted(k) == counter[k].n > Limit(k)

\* countedIn: the counters that counted the attempt and have not ended since
NoLogin(e) == [at |-> "idle", email |-> e, key |-> Ip, blocked |-> FALSE, countedIn |-> {}]

\* A key is deleted or expires; what it counted belongs to the past.
Forgotten(gone) ==
  /\ checked' = [k \in Keys |-> IF k \in gone THEN 0 ELSE checked[k]]
  /\ login' = [r \in Logins |-> [login[r] EXCEPT !.countedIn = @ \ gone]]

MoveTo(r, place) == login' = [login EXCEPT ![r].at = place]

-----------------------------------------------------------------------------
Request(r, e) ==
  /\ login[r].at = "idle"
  /\ login' = [login EXCEPT ![r] = [NoLogin(e) EXCEPT !.at = "incr", !.key = e]]
  /\ UNCHANGED <<counter, checked, faults>>

\* _throttle_attempt: the pair, the IP, and then the verdict
AfterHit(r) ==
  IF login[r].key # Ip
  THEN [login EXCEPT ![r].at = "incr", ![r].key = Ip]
  ELSE [login EXCEPT ![r] = IF @.blocked THEN NoLogin(@.email) ELSE [@ EXCEPT !.at = "check"]]

\* _hit, INCR
Incremented(k) == [counter[k] EXCEPT !.n = Min({@ + 1, Limit(k) + 1})]

Incr(r) ==
  LET k == login[r].key
      n == Incremented(k).n
  IN /\ login[r].at = "incr"
     /\ counter' = [counter EXCEPT ![k] = Incremented(k)]
     /\ login' = [login EXCEPT ![r] =
          [@ EXCEPT !.at = IF n = 1 THEN "expire" ELSE "ttl",
                    !.blocked = login[r].blocked \/ n > Limit(k),
                    !.countedIn = login[r].countedIn \cup {k}]]
     /\ UNCHANGED <<checked, faults>>

\* Mutant: only the first attempt gives the key its TTL.
NeverRepaired(k) == FALSE

\* _hit, TTL: a key whose first attempt died before EXPIRE is repaired
Unbounded(k) == KeyExists(k) /\ counter[k].ttl = Forever

ReadTtl(r) ==
  /\ login[r].at = "ttl"
  /\ IF Unbounded(login[r].key) THEN MoveTo(r, "expire") ELSE login' = AfterHit(r)
  /\ UNCHANGED <<counter, checked, faults>>

\* _hit, EXPIRE; nothing happens to a key that is gone
Bounded(k) == IF KeyExists(k) THEN [counter[k] EXCEPT !.ttl = WindowLength] ELSE counter[k]

Expire(r) ==
  LET k == login[r].key
  IN /\ login[r].at = "expire"
     /\ counter' = [counter EXCEPT ![k] = Bounded(k)]
     /\ login' = AfterHit(r)
     /\ UNCHANGED <<checked, faults>>

\* login, the one bcrypt check: a wrong password, an unknown or a disabled
\* user, ...
CheckPassword(r, outcome) ==
  /\ login[r].at = "check"
  /\ checked' = [k \in Keys |-> checked[k] + IF k \in login[r].countedIn THEN 1 ELSE 0]
  /\ login' = [login EXCEPT ![r] = IF outcome = "wrong" THEN NoLogin(@.email)
                                   ELSE [@ EXCEPT !.at = "reset"]]
  /\ UNCHANGED <<counter, faults>>

\* ... or _throttle_reset
ThrottleReset(r) ==
  LET k == login[r].email
  IN /\ login[r].at = "reset"
     /\ counter' = [counter EXCEPT ![k] = Unset]
     /\ checked' = [checked EXCEPT ![k] = 0]
     /\ login' = [q \in Logins |->
          IF q = r THEN NoLogin(k) ELSE [login[q] EXCEPT !.countedIn = @ \ {k}]]
     /\ UNCHANGED faults

-----------------------------------------------------------------------------
\* Redis does not answer, its call applied or not: the attempt goes on
\* unthrottled, and a reset is given up.
Unthrottled(r) ==
  login' = [login EXCEPT ![r] = IF @.at = "reset" THEN NoLogin(@.email)
                                ELSE [@ EXCEPT !.at = "check", !.countedIn = {}]]

RedisFails(r) ==
  /\ login[r].at \in {"incr", "ttl", "expire", "reset"}
  /\ faults < MaxFaults
  /\ LET k == login[r].key
     IN \/ UNCHANGED counter
        \/ login[r].at = "incr" /\ counter' = [counter EXCEPT ![k] = Incremented(k)]
        \/ login[r].at = "expire" /\ counter' = [counter EXCEPT ![k] = Bounded(k)]
  /\ Unthrottled(r)
  /\ faults' = faults + 1
  /\ UNCHANGED checked

\* The process dies.
Crash(r) ==
  /\ login[r].at # "idle"
  /\ faults < MaxFaults
  /\ login' = [login EXCEPT ![r] = NoLogin(@.email)]
  /\ faults' = faults + 1
  /\ UNCHANGED <<counter, checked>>

\* Time passes in Redis.
Tick ==
  LET ending == {k \in Keys : counter[k].ttl = 1}
  IN /\ \E k \in Keys : counter[k].ttl > 0
     /\ counter' = [k \in Keys |-> IF k \in ending THEN Unset
                                   ELSE IF counter[k].ttl = Forever THEN counter[k]
                                   ELSE [counter[k] EXCEPT !.ttl = @ - 1]]
     /\ Forgotten(ending)
     /\ UNCHANGED faults

-----------------------------------------------------------------------------
ThrottleInit ==
  /\ counter = [k \in Keys |-> Unset]
  /\ login = [r \in Logins |-> NoLogin(CHOOSE e \in Emails : TRUE)]
  /\ checked = [k \in Keys |-> 0]
  /\ faults = 0

Step(r) ==
  \/ Incr(r) \/ ReadTtl(r) \/ Expire(r) \/ ThrottleReset(r)
  \/ \E outcome \in {"right", "wrong"} : CheckPassword(r, outcome)

ThrottleNext ==
  \/ \E r \in Logins : \/ \E e \in Emails : Request(r, e)
                       \/ Step(r) \/ RedisFails(r) \/ Crash(r)
  \/ Tick

ThrottleSpec == ThrottleInit /\ [][ThrottleNext]_throttleVars

(***************************************************************************)
(* A request that has begun runs on, time passes, and somebody keeps       *)
(* trying to log in by each e-mail: nobody else repairs a key.             *)
(***************************************************************************)
ThrottleFairness ==
  /\ WF_throttleVars(Tick)
  /\ \A r \in Logins : WF_throttleVars(Step(r))
  /\ \A e \in Emails : SF_throttleVars(\E r \in Logins : Request(r, e))

FairThrottleSpec == ThrottleSpec /\ ThrottleFairness

-----------------------------------------------------------------------------
\* Every variable keeps its type.
ThrottleTypeOK ==
  /\ counter \in [Keys -> [n : Nat, ttl : -1 .. WindowLength]]
  /\ \A k \in Keys : counter[k].n <= Limit(k) + 1
  /\ login \in [Logins -> [at : {"idle", "incr", "ttl", "expire", "check", "reset"},
                           email : Emails, key : Keys, blocked : BOOLEAN,
                           countedIn : SUBSET Keys]]
  /\ checked \in [Keys -> Nat] /\ faults \in 0 .. MaxFaults

(***************************************************************************)
(* auth.py:154: parallel requests do not slip through between the check    *)
(* and the count.  Of the attempts that a counter counted between its      *)
(* first INCR and its end, no more than its limit reach a password check.  *)
(***************************************************************************)
GuessesAreBounded == \A k \in Keys : checked[k] <= Limit(k)

(***************************************************************************)
(* auth.py:139: a lockout ends, also when a process died between INCR and  *)
(* EXPIRE, or when EXPIRE failed, and left a key that never expires.       *)
(***************************************************************************)
LockoutsEnd == \A k \in Keys : Exhausted(k) ~> ~Exhausted(k)

ThrottleHolds == []GuessesAreBounded /\ LockoutsEnd
=============================================================================
