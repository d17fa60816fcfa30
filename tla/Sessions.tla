------------------------------ MODULE Sessions ------------------------------
(***************************************************************************)
(* The sessions of the operators: login, the rotation of refresh tokens,   *)
(* logout and change_password (campaign_manager, api/auth.py), over the    *)
(* accounts that user management changes under them.                       *)
(*                                                                         *)
(* A refresh token is signed and carries its jti, its family and the       *)
(* token_version of its account; Redis keeps a record per jti not yet      *)
(* exchanged and a mark per revoked family.  Every await on Redis or       *)
(* Postgres is a step.  Whoever holds a token may present it at any time,  *)
(* twice or in parallel.  The horizon is the lifetime of the tokens.       *)
(***************************************************************************)
EXTENDS Accounts

CONSTANTS Tokens,   \* jtis of refresh tokens; a family is named by its first
          Calls,    \* concurrent login, refresh, logout and change requests
          Unissued

VARIABLES token,    \* what each issued token says
          stored,   \* auth:refresh:{jti}
          revoked,  \* auth:refresh_fam_revoked:{fam}
          call      \* the progress of each request

sessionVars == <<token, stored, revoked, call>>
vars == <<accountVars, sessionVars>>

\* password: the one its holder logged in with; the token does not say it.
Token == [user: Users, fam: Tokens, ver: 0 .. MaxVersion, password: Nat]

ASSUME SessionsAssumption ==
  /\ Unissued \notin Token \cup Tokens
  /\ Calls \cap Edits = {}
  /\ NoRequest \notin Calls

CallPhases == {"idle", "mark", "family", "load", "issue", "drop",
               "change", "changing"}

\* About one account or one token; ver and password as they were read.
Call == [phase: CallPhases, user: Users, jti: Tokens \cup {Unissued},
         ver: 0 .. MaxVersion, password: Nat]

Idle == [phase |-> "idle", user |-> CHOOSE u \in Users : TRUE,
         jti |-> Unissued, ver |-> 0, password |-> 0]

Init ==
  /\ AccountsInit
  /\ token = [t \in Tokens |-> Unissued]
  /\ stored = {}
  /\ revoked = {}
  /\ call = [c \in Calls |-> Idle]

Issued == {t \in Tokens : token[t] # Unissued}

At(c, phase) == call[c].phase = phase

Goto(c, phase) == call' = [call EXCEPT ![c].phase = phase]

Finish(c) == call' = [call EXCEPT ![c] = Idle]

\* A session begins with the account as it was read.
Read(phase, u) == [phase |-> phase, user |-> u, jti |-> Unissued,
                   ver |-> account[u].ver, password |-> account[u].password]

-----------------------------------------------------------------------------
\* login: the row is read once, without a lock.  bcrypt (in a thread) and the
\* commit of last_login_at follow; neither reads it again (expire_on_commit is
\* False), so the pair is issued for the row as it was.
ReadLogin(c, u) ==
  /\ At(c, "idle")
  /\ Active(u)
  /\ call' = [call EXCEPT ![c] = Read("issue", u)]
  /\ UNCHANGED <<accountVars, token, stored, revoked>>

\* Mutant: GET, and no DEL.
Kept(t) == stored

Without(t) == stored \ {t}

\* refresh: GETDEL of the record.
TakeRecord(c, t) ==
  /\ At(c, "idle")
  /\ t \in Issued
  /\ call' = [call EXCEPT ![c] = [Idle EXCEPT !.jti = t,
                !.phase = IF t \in stored THEN "family" ELSE "mark"]]
  /\ stored' = Without(t)
  /\ UNCHANGED <<accountVars, token, revoked>>

\* refresh: there was none, the token is a copy, its family goes.
MarkReuse(c) ==
  /\ At(c, "mark")
  /\ revoked' = revoked \cup {token[call[c].jti].fam}
  /\ Finish(c)
  /\ UNCHANGED <<accountVars, token, stored>>

\* Mutant: nobody looks at the mark of the family.
AnyFamily(t) == TRUE

FamilyAlive(t) == token[t].fam \notin revoked

\* refresh: EXISTS of the mark.
CheckFamily(c) ==
  /\ At(c, "family")
  /\ IF FamilyAlive(call[c].jti) THEN Goto(c, "load") ELSE Finish(c)
  /\ UNCHANGED <<accountVars, token, stored, revoked>>

Current(u, v) == Active(u) /\ account[u].ver = v

\* refresh: load_token_user.
LoadUser(c) ==
  LET t == call[c].jti IN
  /\ At(c, "load")
  /\ IF Current(token[t].user, token[t].ver)
     THEN call' = [call EXCEPT ![c] = [Read("issue", token[t].user) EXCEPT
                                         !.jti = t, !.password = token[t].password]]
     ELSE Finish(c)
  /\ UNCHANGED <<accountVars, token, stored, revoked>>

\* Mutant: the row is read again after the commit.
VersionNow(c) == account[call[c].user].ver

VersionRead(c) == call[c].ver

\* _issue_pair.  Without Redis a login and a change still hand out the pair.
IssuePair(c, t) ==
  LET old == call[c].jti IN
  /\ At(c, "issue")
  /\ t \notin Issued
  /\ token' = [token EXCEPT ![t] =
       [user |-> call[c].user, ver |-> VersionRead(c), password |-> call[c].password,
        fam |-> IF old = Unissued THEN t ELSE token[old].fam]]
  /\ stored' \in {stored \cup {t}} \cup (IF old = Unissued THEN {stored} ELSE {})
  /\ Finish(c)
  /\ UNCHANGED <<accountVars, revoked>>

\* logout: the family first, then the record.
Logout(c, t) ==
  /\ At(c, "idle")
  /\ t \in Issued
  /\ revoked' = revoked \cup {token[t].fam}
  /\ call' = [call EXCEPT ![c] = [Idle EXCEPT !.phase = "drop", !.jti = t]]
  /\ UNCHANGED <<accountVars, token, stored>>

LogoutRecord(c) ==
  /\ At(c, "drop")
  /\ stored' = stored \ {call[c].jti}
  /\ Finish(c)
  /\ UNCHANGED <<accountVars, token, revoked>>

-----------------------------------------------------------------------------
\* change_password: authenticated with the version of then, must_change or not.
BeginChange(c, u) ==
  /\ At(c, "idle")
  /\ Active(u)
  /\ call' = [call EXCEPT ![c] = Read("change", u)]
  /\ UNCHANGED <<accountVars, token, stored, revoked>>

\* _lock_user; a version that moved since, or an inactive account, is a 401.
LockChange(c) ==
  LET u == call[c].user IN
  /\ At(c, "change")
  /\ RowFree(u)
  /\ Current(u, call[c].ver)
  /\ rowLock' = [rowLock EXCEPT ![u] = c]
  /\ Goto(c, "changing")
  /\ UNCHANGED <<account, granted, edit, token, stored, revoked>>

Unlock(c) == rowLock' = [u \in Users |-> IF rowLock[u] = c THEN NoRequest ELSE rowLock[u]]

\* The current password was the right one; the new one is committed.
Change(c) ==
  LET u == call[c].user
      ver == call[c].ver + 1 IN
  /\ At(c, "changing")
  /\ Bumpable(call[c].ver)
  /\ account' = [account EXCEPT ![u].ver = ver, ![u].mustChange = FALSE,
                                ![u].password = @ + 1]
  /\ call' = [call EXCEPT ![c].phase = "issue", ![c].ver = ver,
                          ![c].password = account[u].password + 1]
  /\ Unlock(c)
  /\ UNCHANGED <<granted, edit, token, stored, revoked>>

\* A refusal (401, 422), a Redis that does not answer (503) or a crash ends a
\* request before its next step; what it did stays, its locks go.
Abandon(c) ==
  /\ ~At(c, "idle")
  /\ Finish(c)
  /\ Unlock(c)
  /\ UNCHANGED <<account, granted, edit, token, stored, revoked>>

CallStep(c) ==
  \/ \E u \in Users : ReadLogin(c, u) \/ BeginChange(c, u)
  \/ \E t \in Tokens : TakeRecord(c, t) \/ IssuePair(c, t) \/ Logout(c, t)
  \/ MarkReuse(c) \/ CheckFamily(c) \/ LoadUser(c) \/ LogoutRecord(c)
  \/ LockChange(c) \/ Change(c) \/ Abandon(c)

Next ==
  \/ \E c \in Calls : CallStep(c)
  \/ \E e \in Edits : EditStep(e) /\ UNCHANGED sessionVars

Spec == Init /\ [][Next]_vars

-----------------------------------------------------------------------------
\* Every variable keeps its type.
TypeOK ==
  /\ AccountsTypeOK
  /\ rowLock \in [Users -> Calls \cup Edits \cup {NoRequest}]
  /\ token \in [Tokens -> Token \cup {Unissued}]
  /\ stored \subseteq Tokens
  /\ revoked \subseteq Tokens
  /\ call \in [Calls -> Call]

\* The exchanges of a family between GETDEL and the new record.
Exchanging(f) == {c \in Calls : /\ call[c].phase \in {"family", "load", "issue"}
                                /\ call[c].jti # Unissued
                                /\ token[call[c].jti].fam = f}

Redeemable(f) == {t \in stored : token[t].fam = f}

(***************************************************************************)
(* A refresh token is single-use (auth.py:5): a session has one token that *)
(* can be exchanged or one exchange under way, never two of either, however *)
(* often and however much in parallel its tokens are presented.            *)
(***************************************************************************)
OneTokenPerFamily ==
  \A f \in Tokens : Cardinality(Exchanging(f)) + Cardinality(Redeemable(f)) <= 1

(***************************************************************************)
(* A token that still refreshes (its record is there, its family and its   *)
(* version are alive) belongs to somebody who knew the password the        *)
(* account has now, whatever was changed or reset between the check of the *)
(* password and the answer.                                                *)
(***************************************************************************)
LiveTokensKnowThePassword ==
  \A t \in stored :
    FamilyAlive(t) /\ Current(token[t].user, token[t].ver)
      => token[t].password = account[token[t].user].password

(***************************************************************************)
(* Every committed change of a password, a role or a status ends the       *)
(* tokens of before: token_version moves by exactly one, so of two         *)
(* concurrent changes none is lost (auth.py:113-115).                      *)
(***************************************************************************)
ChangesEndTokens ==
  [][\A u \in Users :
       Registered(u) /\ Signed(u)' # Signed(u) => account'[u].ver = account[u].ver + 1]_vars

(***************************************************************************)
(* The reuse of a token, or a logout, ends the whole session: a revoked    *)
(* family gets no token but from the exchange that had passed the check of *)
(* its mark before; none passes it any more, whichever steps of a reuse, a *)
(* logout and an exchange meet.                                            *)
(***************************************************************************)
Passed(f) == {c \in Exchanging(f) : call[c].phase # "family"}

RevokedFamiliesEnd ==
  [][\A f \in revoked :
       /\ Passed(f)' \subseteq Passed(f)
       /\ \A t \in Tokens \ Issued :
            token'[t] # Unissued /\ token'[t].fam = f => Passed(f) # {}]_vars

(***************************************************************************)
(* The right "users" can be delegated, the ADMIN role cannot (rbac.py:19): *)
(* an account becomes or ceases to be ADMIN only by a request whose        *)
(* operator was ADMIN when it was authenticated.                           *)
(***************************************************************************)
AdminAt(a, u) == a[u] # NoAccount /\ a[u].role = "ADMIN"

AdminsMakeAdmins ==
  [][\A u \in Users : AdminAt(account, u) # AdminAt(account', u) =>
       \E e \in Edits : edit[e].role = "ADMIN" /\ edit'[e].phase # edit[e].phase]_vars
=============================================================================
