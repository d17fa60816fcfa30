--------------------------- MODULE Sessions_proofs ---------------------------
(***************************************************************************)
(* Theorems about Sessions and LoginThrottle, for every choice of their    *)
(* constants.                                                              *)
(***************************************************************************)
EXTENDS Sessions, LoginThrottle, Accounts_proofs, FiniteSetTheorems

USE AccountsAssumption, SessionsAssumption

-----------------------------------------------------------------------------
(***************************************************************************)
(* The inductive invariant.  Locks: a transaction that is to write a row   *)
(* holds its lock, so that the row still is as it was read.                *)
(***************************************************************************)
ChangeLocked(c) ==
  LET u == call[c].user IN
  /\ rowLock[u] = c
  /\ Registered(u)
  /\ account[u].ver = call[c].ver

LocksHeld ==
  /\ EditsLocked
  /\ \A c \in Calls : call[c].phase = "changing" => ChangeLocked(c)

\* Tokens: whatever is stored, revoked or being dealt with was issued, the
\* first token of every family too.
TokensIssued ==
  /\ stored \subseteq Issued
  /\ revoked \subseteq Issued
  /\ \A t \in Issued : token[t].fam \in Issued
  /\ \A c \in Calls :
       /\ call[c].phase \in {"mark", "family", "load", "drop"} => call[c].jti \in Issued
       /\ call[c].phase = "issue" => call[c].jti \in Issued \cup {Unissued}
       /\ call[c].phase \in {"change", "changing"} => call[c].jti = Unissued

\* One token per family, with the exchange and the token told apart.
Exchanges(c) == call[c].phase \in {"family", "load", "issue"} /\ call[c].jti # Unissued

Singular ==
  /\ \A s, t \in stored : token[s].fam = token[t].fam => s = t
  /\ \A c \in Calls, t \in stored : Exchanges(c) => token[call[c].jti].fam # token[t].fam
  /\ \A c, d \in Calls :
       Exchanges(c) /\ Exchanges(d) /\ token[call[c].jti].fam = token[call[d].jti].fam => c = d

\* Passwords: whoever has the version of today knew the password of today,
\* and nobody has the version of tomorrow.
Knows(u, ver, password) ==
  /\ Registered(u)
  /\ ver <= account[u].ver
  /\ ver = account[u].ver => password = account[u].password

PasswordsKnown ==
  /\ \A t \in Issued : Knows(token[t].user, token[t].ver, token[t].password)
  /\ \A c \in Calls : call[c].phase \in {"issue", "change", "changing"} =>
       Knows(call[c].user, call[c].ver, call[c].password)

SessionsInv == TypeOK /\ LocksHeld /\ TokensIssued /\ Singular /\ PasswordsKnown

-----------------------------------------------------------------------------
(***************************************************************************)
(* Lemma: the initial state is well typed.                                 *)
(***************************************************************************)
LEMMA InitTyped == Init => TypeOK
<1> SUFFICES ASSUME Init PROVE TypeOK
    OBVIOUS
<1>1. (CHOOSE u \in Users : TRUE) \in Users
  OBVIOUS
<1>2. Idle \in Call
  BY <1>1 DEF Idle, Call, CallPhases
<1>3. AccountsTyped(Calls)
  BY AccountsStart DEF Init
<1>4. QED
  BY <1>2, <1>3 DEF Init, AccountsTyped, TypeOK

(***************************************************************************)
(* Lemma: what moving one request to another phase changes.                *)
(***************************************************************************)
LEMMA MovedCall ==
  ASSUME call \in [Calls -> Call], NEW c \in Calls, NEW phase \in CallPhases,
         call' = [call EXCEPT ![c].phase = phase]
  PROVE  /\ call' \in [Calls -> Call]
         /\ call'[c].phase = phase
         /\ call'[c].user = call[c].user
         /\ call'[c].jti = call[c].jti
         /\ call'[c].ver = call[c].ver
         /\ call'[c].password = call[c].password
         /\ \A d \in Calls \ {c} : call'[d] = call[d]
<1>1. call'[c] = [call[c] EXCEPT !.phase = phase]
  OBVIOUS
<1>2. [call[c] EXCEPT !.phase = phase] \in Call
  BY DEF Call
<1>3. \A d \in Calls \ {c} : call'[d] = call[d]
  OBVIOUS
<1>4. call' \in [Calls -> Call]
  BY <1>1, <1>2, <1>3
<1>5. QED
  BY <1>1, <1>3, <1>4 DEF Call

(***************************************************************************)
(* Lemma: a request that ends is idle and knows nothing any more.          *)
(***************************************************************************)
LEMMA EndedCall ==
  ASSUME call \in [Calls -> Call], NEW c \in Calls, Finish(c)
  PROVE  /\ call' \in [Calls -> Call]
         /\ call'[c].phase = "idle"
         /\ \A d \in Calls \ {c} : call'[d] = call[d]
<1>1. Idle \in Call
  BY DEF Idle, Call, CallPhases
<1>2. QED
  BY <1>1 DEF Finish, Idle

(***************************************************************************)
(* Lemma: an account that was read is typed, and so is the call about it.  *)
(***************************************************************************)
LEMMA ReadTyped ==
  ASSUME AccountsTypeOK, NEW u \in Users, Active(u), NEW phase \in CallPhases
  PROVE  /\ account[u] \in Account
         /\ Read(phase, u) \in Call
BY DEF AccountsTypeOK, Active, Registered, Read, Call, Account

(***************************************************************************)
(* Lemma: what the change of a password does to the row it locked.         *)
(***************************************************************************)
LEMMA ChangedRow ==
  ASSUME TypeOK, NEW c \in Calls, ChangeLocked(c), Change(c)
  PROVE  LET u == call[c].user IN
         /\ account' \in [Users -> Account \cup {NoAccount}]
         /\ account'[u] \in Account
         /\ account'[u].role = account[u].role
         /\ account'[u].password = account[u].password + 1
         /\ account'[u].ver = account[u].ver + 1
         /\ \A v \in Users \ {u} : account'[v] = account[v]
         /\ call' \in [Calls -> Call]
         /\ call'[c].phase = "issue"
         /\ call'[c].user = u
         /\ call'[c].jti = call[c].jti
         /\ call'[c].ver = account[u].ver + 1
         /\ call'[c].password = account[u].password + 1
         /\ \A d \in Calls \ {c} : call'[d] = call[d]
<1> DEFINE u == call[c].user
           ver == call[c].ver + 1
           password == account[u].password + 1
<1>1. /\ u \in Users /\ call[c] \in Call /\ call[c].ver \in 0 .. MaxVersion
      /\ account \in [Users -> Account \cup {NoAccount}] /\ call \in [Calls -> Call]
  BY DEF TypeOK, AccountsTypeOK, Call
<1>2. account[u] \in Account /\ call[c].ver = account[u].ver
  BY <1>1 DEF ChangeLocked, Registered
<1>3. password \in Nat /\ ver \in 0 .. MaxVersion
  BY <1>1, <1>2 DEF Account, Change, Bumpable
<1>4. account'[u] = [account[u] EXCEPT !.ver = ver, !.mustChange = FALSE, !.password = password]
  BY <1>1, <1>2 DEF Change
<1>5. call'[c] = [call[c] EXCEPT !.phase = "issue", !.ver = ver, !.password = password]
  BY <1>1 DEF Change
<1>6. \A v \in Users \ {u} : account'[v] = account[v]
  BY <1>1 DEF Change
<1>7. \A d \in Calls \ {c} : call'[d] = call[d]
  BY <1>1 DEF Change
<1>8. account' = [v \in Users |-> account'[v]] /\ call' = [d \in Calls |-> call'[d]]
  BY <1>1 DEF Change
<1> HIDE DEF password, ver
<1>9. /\ account'[u] \in Account /\ account'[u].role = account[u].role
      /\ account'[u].password = password /\ account'[u].ver = ver
  BY <1>2, <1>3, <1>4 DEF Account
<1>10. /\ call'[c] \in Call /\ call'[c].phase = "issue" /\ call'[c].user = u
       /\ call'[c].jti = call[c].jti /\ call'[c].ver = ver /\ call'[c].password = password
  BY <1>1, <1>3, <1>5 DEF Call, CallPhases
<1>11. account' \in [Users -> Account \cup {NoAccount}]
  BY <1>1, <1>6, <1>8, <1>9
<1>12. call' \in [Calls -> Call]
  BY <1>1, <1>7, <1>8, <1>10
<1>13. QED
  BY <1>2, <1>6, <1>7, <1>9, <1>10, <1>11, <1>12 DEF password, ver

(***************************************************************************)
(* Lemma: what a call that presents a token records.                       *)
(***************************************************************************)
LEMMA PresentedCall ==
  ASSUME call \in [Calls -> Call], NEW c \in Calls, NEW t \in Tokens,
         NEW phase \in CallPhases,
         call' = [call EXCEPT ![c] = [Idle EXCEPT !.jti = t, !.phase = phase]]
  PROVE  /\ call' \in [Calls -> Call]
         /\ call'[c].phase = phase
         /\ call'[c].jti = t
         /\ \A d \in Calls \ {c} : call'[d] = call[d]
<1>1. Idle \in Call
  BY DEF Idle, Call, CallPhases
<1> DEFINE new == [Idle EXCEPT !.jti = t, !.phase = phase]
<1>2. new \in Call /\ new.phase = phase /\ new.jti = t
  BY <1>1 DEF Call
<1> HIDE DEF new
<1>3. call' = [call EXCEPT ![c] = new]
  BY DEF new
<1>4. QED
  BY <1>2, <1>3

(***************************************************************************)
(* Lemma: what a login or a change of a password records of the account.   *)
(***************************************************************************)
LEMMA ReadCall ==
  ASSUME TypeOK, NEW c \in Calls, NEW u \in Users, Active(u), NEW phase \in CallPhases,
         call' = [call EXCEPT ![c] = Read(phase, u)]
  PROVE  /\ call' \in [Calls -> Call]
         /\ call'[c].phase = phase
         /\ call'[c].user = u
         /\ call'[c].jti = Unissued
         /\ call'[c].ver = account[u].ver
         /\ call'[c].password = account[u].password
         /\ \A d \in Calls \ {c} : call'[d] = call[d]
<1>1. Read(phase, u) \in Call
  BY ReadTyped DEF TypeOK
<1>2. call'[c] = Read(phase, u)
  BY DEF TypeOK
<1>3. QED
  BY <1>1, <1>2 DEF TypeOK, Read

(***************************************************************************)
(* Lemma: what a refresh records of the account it loaded.                 *)
(***************************************************************************)
LEMMA LoadedCall ==
  ASSUME TypeOK, NEW c \in Calls, NEW t \in Issued, call[c].jti = t,
         Current(token[t].user, token[t].ver), LoadUser(c)
  PROVE  /\ call' \in [Calls -> Call]
         /\ call'[c].phase = "issue"
         /\ call'[c].user = token[t].user
         /\ call'[c].jti = t
         /\ call'[c].ver = account[token[t].user].ver
         /\ call'[c].password = token[t].password
         /\ \A d \in Calls \ {c} : call'[d] = call[d]
<1> DEFINE u == token[t].user
           new == [Read("issue", u) EXCEPT !.jti = t, !.password = token[t].password]
<1>1. t \in Tokens /\ token[t] \in Token
  BY DEF TypeOK, Issued
<1>2. u \in Users /\ token[t].password \in Nat
  BY <1>1 DEF Token
<1>3. Read("issue", u) \in Call
  BY <1>2, ReadTyped DEF TypeOK, Current, CallPhases
<1>4. /\ new \in Call /\ new.phase = "issue" /\ new.user = u /\ new.jti = t
      /\ new.ver = account[u].ver /\ new.password = token[t].password
  BY <1>1, <1>2, <1>3 DEF Read, Call
<1> HIDE DEF new
<1>5. call' = [call EXCEPT ![c] = new]
  BY DEF LoadUser, new
<1>6. QED
  BY <1>4, <1>5 DEF TypeOK

(***************************************************************************)
(* Lemma: what issuing a pair records: a token of the account and the      *)
(* version in hand, in the family of the token it replaces or in its own.  *)
(***************************************************************************)
LEMMA IssuedToken ==
  ASSUME TypeOK, TokensIssued, NEW c \in Calls, NEW t \in Tokens, IssuePair(c, t)
  PROVE  LET old == call[c].jti IN
         /\ t \notin Issued
         /\ Issued' = Issued \cup {t}
         /\ token' \in [Tokens -> Token \cup {Unissued}]
         /\ token'[t].user = call[c].user
         /\ token'[t].ver = call[c].ver
         /\ token'[t].password = call[c].password
         /\ token'[t].fam = IF old = Unissued THEN t ELSE token[old].fam
         /\ \A s \in Tokens \ {t} : token'[s] = token[s]
         /\ stored' \subseteq stored \cup {t}
<1> DEFINE old == call[c].jti
           fam == IF old = Unissued THEN t ELSE token[old].fam
           new == [user |-> call[c].user, ver |-> call[c].ver,
                   password |-> call[c].password, fam |-> fam]
<1>1. call[c] \in Call /\ token \in [Tokens -> Token \cup {Unissued}]
  BY DEF TypeOK
<1>2. old \in Issued \cup {Unissued}
  BY DEF TokensIssued, IssuePair, At
<1>3. fam \in Tokens
  BY <1>1, <1>2 DEF Issued, Token
<1> HIDE DEF fam
<1>4. new \in Token
  BY <1>1, <1>3 DEF Call, Token
<1>5. new.user = call[c].user /\ new.ver = call[c].ver
      /\ new.password = call[c].password /\ new.fam = fam
  OBVIOUS
<1>6. token' = [token EXCEPT ![t] = new]
  BY DEF IssuePair, VersionRead, fam
<1> HIDE DEF new
<1>7. token'[t] = new /\ \A s \in Tokens \ {t} : token'[s] = token[s]
  BY <1>1, <1>6
<1>8. token' \in [Tokens -> Token \cup {Unissued}]
  BY <1>1, <1>4, <1>6
<1>9. t \notin Issued /\ stored' \subseteq stored \cup {t}
  BY DEF IssuePair
<1>10. Issued' = Issued \cup {t}
  BY <1>4, <1>7 DEF Issued
<1>11. QED
  BY <1>5, <1>7, <1>8, <1>9, <1>10 DEF fam

(***************************************************************************)
(* Lemma: a step of a session keeps the types, moves rows as it should and *)
(* leaves every other request where it is.                                 *)
(***************************************************************************)
LEMMA CallEffect ==
  ASSUME TypeOK, LocksHeld, TokensIssued, NEW c \in Calls, CallStep(c)
  PROVE  /\ TypeOK'
         /\ RowsMove(c)
         /\ edit' = edit
         /\ \A d \in Calls \ {c} : call'[d] = call[d]
<1> DEFINE Effect == /\ TypeOK'
                     /\ RowsMove(c)
                     /\ edit' = edit
                     /\ \A d \in Calls \ {c} : call'[d] = call[d]
           Others == \A d \in Calls \ {c} : call'[d] = call[d]
<1>0. /\ call \in [Calls -> Call] /\ call[c] \in Call
      /\ token \in [Tokens -> Token \cup {Unissued}]
      /\ stored \subseteq Tokens /\ revoked \subseteq Tokens
      /\ rowLock \in [Users -> Calls \cup Edits \cup {NoRequest}]
      /\ account \in [Users -> Account \cup {NoAccount}]
  BY DEF TypeOK, AccountsTypeOK
\* What most steps leave alone, and what is left to show for them.
<1>1. ASSUME UNCHANGED accountVars, call' \in [Calls -> Call], Others,
             token' \in [Tokens -> Token \cup {Unissued}],
             stored' \subseteq Tokens, revoked' \subseteq Tokens
      PROVE  Effect
  <2>1. RowsMove(c)
    BY <1>1, SameRows DEF accountVars
  <2>2. TypeOK'
    BY <1>1 DEF TypeOK, AccountsTypeOK, accountVars
  <2>3. QED
    BY <1>1, <2>1, <2>2 DEF accountVars
<1>2. ASSUME NEW u \in Users, ReadLogin(c, u) \/ BeginChange(c, u)
      PROVE  Effect
  <2>1. /\ Active(u)
        /\ call' = [call EXCEPT ![c] = Read("issue", u)]
             \/ call' = [call EXCEPT ![c] = Read("change", u)]
        /\ UNCHANGED <<accountVars, token, stored, revoked>>
    BY <1>2 DEF ReadLogin, BeginChange
  <2>2. call' \in [Calls -> Call] /\ Others
    BY <2>1, ReadCall DEF CallPhases
  <2>3. QED
    BY <1>0, <1>1, <2>1, <2>2
<1>3. ASSUME NEW t \in Tokens, TakeRecord(c, t)
      PROVE  Effect
  <2> DEFINE phase == IF t \in stored THEN "family" ELSE "mark"
  <2>1. phase \in CallPhases
    BY DEF CallPhases
  <2>2. call' = [call EXCEPT ![c] = [Idle EXCEPT !.jti = t, !.phase = phase]]
    BY <1>3 DEF TakeRecord
  <2> HIDE DEF phase
  <2>3. call' \in [Calls -> Call] /\ Others
    BY <1>0, <2>1, <2>2, PresentedCall
  <2>4. QED
    BY <1>0, <1>1, <1>3, <2>3 DEF TakeRecord, Without
<1>4. ASSUME NEW t \in Tokens, Logout(c, t)
      PROVE  Effect
  <2>1. call' = [call EXCEPT ![c] = [Idle EXCEPT !.jti = t, !.phase = "drop"]]
    <3>1. [Idle EXCEPT !.phase = "drop", !.jti = t] = [Idle EXCEPT !.jti = t, !.phase = "drop"]
      BY DEF Idle
    <3>2. QED
      BY <1>4, <3>1 DEF Logout
  <2>2. call' \in [Calls -> Call] /\ Others
    BY <1>0, <2>1, PresentedCall DEF CallPhases
  <2>3. token[t].fam \in Tokens
    BY <1>0, <1>4 DEF Logout, Issued, Token
  <2>4. QED
    BY <1>0, <1>1, <1>4, <2>2, <2>3 DEF Logout
<1>5. ASSUME NEW t \in Tokens, IssuePair(c, t)
      PROVE  Effect
  <2>1. token' \in [Tokens -> Token \cup {Unissued}] /\ stored' \subseteq Tokens
    BY <1>0, <1>5, IssuedToken
  <2>2. Finish(c) /\ UNCHANGED <<accountVars, revoked>>
    BY <1>5 DEF IssuePair
  <2>3. call' \in [Calls -> Call] /\ Others
    BY <1>0, <2>2, EndedCall
  <2>4. QED
    BY <1>0, <1>1, <2>1, <2>2, <2>3
<1>6. CASE MarkReuse(c)
  <2>1. call[c].jti \in Issued
    BY <1>6 DEF MarkReuse, At, TokensIssued
  <2>2. token[call[c].jti].fam \in Tokens
    BY <1>0, <2>1 DEF Issued, Token
  <2>3. Finish(c)
    BY <1>6 DEF MarkReuse
  <2>4. call' \in [Calls -> Call] /\ Others
    BY <1>0, <2>3, EndedCall
  <2>5. QED
    BY <1>0, <1>1, <1>6, <2>2, <2>4 DEF MarkReuse
<1>7. CASE CheckFamily(c)
  <2>1. Goto(c, "load") \/ Finish(c)
    BY <1>7 DEF CheckFamily
  <2>2. call' \in [Calls -> Call] /\ Others
    BY <1>0, <2>1, EndedCall, MovedCall DEF Goto, CallPhases
  <2>3. QED
    BY <1>0, <1>1, <1>7, <2>2 DEF CheckFamily
<1>8. CASE LoadUser(c)
  <2>1. call[c].jti \in Issued
    BY <1>8 DEF LoadUser, At, TokensIssued
  <2>2. call' \in [Calls -> Call] /\ Others
    <3>1. CASE Current(token[call[c].jti].user, token[call[c].jti].ver)
      BY <1>8, <2>1, <3>1, LoadedCall
    <3>2. CASE ~Current(token[call[c].jti].user, token[call[c].jti].ver)
      <4>1. Finish(c)
        BY <1>8, <3>2 DEF LoadUser
      <4>2. QED
        BY <1>0, <4>1, EndedCall
    <3>3. QED
      BY <3>1, <3>2
  <2>3. QED
    BY <1>0, <1>1, <1>8, <2>2 DEF LoadUser
<1>9. CASE LogoutRecord(c)
  <2>1. Finish(c)
    BY <1>9 DEF LogoutRecord
  <2>2. call' \in [Calls -> Call] /\ Others
    BY <1>0, <2>1, EndedCall
  <2>3. QED
    BY <1>0, <1>1, <1>9, <2>2 DEF LogoutRecord
<1>10. CASE LockChange(c)
  <2> DEFINE u == call[c].user
  <2>1. /\ u \in Users /\ rowLock[u] = NoRequest /\ rowLock' = [rowLock EXCEPT ![u] = c]
        /\ Goto(c, "changing")
        /\ UNCHANGED <<account, granted, edit, token, stored, revoked>>
    BY <1>0, <1>10 DEF LockChange, RowFree, Call
  <2> HIDE DEF u
  <2>2. call' \in [Calls -> Call] /\ Others
    BY <1>0, <2>1, MovedCall DEF Goto, CallPhases
  <2>3. /\ rowLock' \in [Users -> Calls \cup Edits \cup {NoRequest}]
        /\ \A v \in Users : rowLock[v] # NoRequest => rowLock'[v] = rowLock[v]
    BY <1>0, <2>1
  <2>4. RowsMove(c)
    BY <2>1, <2>3, SameRows
  <2>5. TypeOK'
    BY <2>1, <2>2, <2>3 DEF TypeOK, AccountsTypeOK
  <2>6. QED
    BY <2>1, <2>2, <2>4, <2>5
<1>11. CASE Change(c)
  <2>0. PICK u \in Users : u = call[c].user
    BY <1>0 DEF Call
  <2>1. ChangeLocked(c)
    BY <1>11 DEF LocksHeld, Change, At
  <2>2. /\ account' \in [Users -> Account \cup {NoAccount}]
        /\ account'[u] \in Account
        /\ account'[u].ver = account[u].ver + 1
        /\ \A v \in Users \ {u} : account'[v] = account[v]
        /\ call' \in [Calls -> Call]
        /\ Others
    BY <1>11, <2>0, <2>1, ChangedRow
  <2>3. rowLock[u] = c
    BY <2>0, <2>1 DEF ChangeLocked
  <2>4. /\ rowLock' \in [Users -> Calls \cup Edits \cup {NoRequest}]
        /\ \A v \in Users : rowLock[v] # c => rowLock'[v] = rowLock[v]
    BY <1>0, <1>11, ReleasedLocks DEF Change, Unlock
  <2>5. Registered(u)' /\ RowMoves(u)
    BY <2>2 DEF Registered, RowMoves
  <2>6. \A v \in Users \ {u} : Registered(v) => Registered(v)' /\ RowMoves(v)
    BY <2>2 DEF Registered, RowMoves, Signed
  <2>7. RowsMove(c)
    BY <2>2, <2>3, <2>4, <2>5, <2>6 DEF RowsMove
  <2>8. UNCHANGED <<granted, edit, token, stored, revoked>>
    BY <1>11 DEF Change
  <2>9. TypeOK'
    BY <2>2, <2>4, <2>8 DEF TypeOK, AccountsTypeOK
  <2>10. QED
    BY <2>2, <2>7, <2>8, <2>9
<1>12. CASE Abandon(c)
  <2>1. Finish(c) /\ UNCHANGED <<account, granted, edit, token, stored, revoked>>
    BY <1>12 DEF Abandon
  <2>2. call' \in [Calls -> Call] /\ Others
    BY <1>0, <2>1, EndedCall
  <2>3. /\ rowLock' \in [Users -> Calls \cup Edits \cup {NoRequest}]
        /\ \A v \in Users : rowLock[v] # c => rowLock'[v] = rowLock[v]
    BY <1>0, <1>12, ReleasedLocks DEF Abandon, Unlock
  <2>4. RowsMove(c)
    BY <2>1, <2>3, SameRows
  <2>5. TypeOK'
    BY <2>1, <2>2, <2>3 DEF TypeOK, AccountsTypeOK
  <2>6. QED
    BY <2>1, <2>2, <2>4, <2>5
<1>13. QED
  BY <1>2, <1>3, <1>4, <1>5, <1>6, <1>7, <1>8, <1>9, <1>10, <1>11, <1>12 DEF CallStep

-----------------------------------------------------------------------------
(***************************************************************************)
(* Lemma: a step of x leaves what other sessions have locked as it was.    *)
(***************************************************************************)
LEMMA Bystanders ==
  ASSUME TypeOK, LocksHeld, NEW x, RowsMove(x),
         NEW d \in Calls \ {x}, call[d].phase = "changing", call'[d] = call[d]
  PROVE  ChangeLocked(d)'
<1>1. ChangeLocked(d)
  BY DEF LocksHeld
<1>2. call[d].user \in Users
  BY DEF TypeOK, Call
<1>3. /\ rowLock'[call[d].user] = rowLock[call[d].user]
      /\ account'[call[d].user] = account[call[d].user]
  BY <1>1, <1>2 DEF ChangeLocked, RowsMove
<1>4. QED
  BY <1>1, <1>3 DEF ChangeLocked, Registered

(***************************************************************************)
(* Lemma: a request of the user management keeps the types, moves rows as  *)
(* it should, and whoever is about to write a row holds its lock.          *)
(***************************************************************************)
LEMMA EditKeepsLocks ==
  ASSUME TypeOK, LocksHeld, NEW e \in Edits, EditStep(e), UNCHANGED sessionVars
  PROVE  TypeOK' /\ RowsMove(e) /\ LocksHeld'
<1>1. AccountsTyped(Calls) /\ EditsLocked
  BY DEF TypeOK, AccountsTyped, LocksHeld
<1>2. AccountsTyped(Calls)' /\ RowsMove(e) /\ EditsLocked'
  BY <1>1, EditTyped, EditMovesRows, EditKeepsEdits
<1>3. call' = call /\ token' = token /\ stored' = stored /\ revoked' = revoked
  BY DEF sessionVars
<1>4. TypeOK'
  BY <1>2, <1>3 DEF TypeOK, AccountsTyped
<1>5. \A d \in Calls : call'[d].phase = "changing" => ChangeLocked(d)'
  BY <1>2, <1>3, Bystanders
<1>6. QED
  BY <1>2, <1>4, <1>5 DEF LocksHeld

(***************************************************************************)
(* What a step of a session may be to its request c: it reads an account,  *)
(* presents a token, passes the mark of its family, loads the account of   *)
(* its token, locks an account, changes its password, or ends.             *)
(***************************************************************************)
SameTokens == UNCHANGED <<token, stored, revoked>>

Begins(c) ==
  /\ call'[c].phase \in {"issue", "change"}
  /\ call'[c].jti = Unissued
  /\ Active(call'[c].user)
  /\ call'[c].ver = account[call'[c].user].ver
  /\ call'[c].password = account[call'[c].user].password
  /\ account' = account
  /\ SameTokens

Presents(c) ==
  /\ call'[c].jti \in Issued
  /\ \/ /\ call'[c].phase = "family"
        /\ call'[c].jti \in stored
        /\ stored' = stored \ {call'[c].jti}
        /\ revoked' = revoked
     \/ /\ call'[c].phase = "mark"
        /\ UNCHANGED <<stored, revoked>>
     \/ /\ call'[c].phase = "drop"
        /\ stored' = stored
        /\ revoked' = revoked \cup {token[call'[c].jti].fam}
  /\ UNCHANGED <<account, token>>

Passes(c) ==
  /\ call[c].phase = "family" /\ call'[c].phase = "load"
  /\ call'[c].jti = call[c].jti
  /\ FamilyAlive(call[c].jti)
  /\ account' = account
  /\ SameTokens

Loads(c) ==
  /\ call[c].phase = "load" /\ call'[c].phase = "issue"
  /\ call'[c].jti = call[c].jti
  /\ LET t == token[call[c].jti] IN
     /\ Current(t.user, t.ver)
     /\ call'[c].user = t.user
     /\ call'[c].ver = t.ver
     /\ call'[c].password = t.password
  /\ account' = account
  /\ SameTokens

Locks(c) ==
  /\ call[c].phase = "change" /\ call'[c].phase = "changing"
  /\ call'[c].jti = call[c].jti
  /\ call'[c].user = call[c].user
  /\ call'[c].ver = call[c].ver
  /\ call'[c].password = call[c].password
  /\ Registered(call[c].user) /\ account[call[c].user].ver = call[c].ver
  /\ rowLock'[call[c].user] = c
  /\ account' = account
  /\ SameTokens

Changes(c) ==
  /\ call[c].phase = "changing" /\ call'[c].phase = "issue"
  /\ call'[c].jti = call[c].jti
  /\ call'[c].user = call[c].user
  /\ account'[call[c].user] \in Account
  /\ call'[c].ver = account'[call[c].user].ver
  /\ call'[c].password = account'[call[c].user].password
  /\ SameTokens

Issues(c, t) ==
  /\ call[c].phase = "issue"
  /\ t \notin Issued
  /\ Issued' = Issued \cup {t}
  /\ token'[t].user = call[c].user
  /\ token'[t].ver = call[c].ver
  /\ token'[t].password = call[c].password
  /\ token'[t].fam = IF call[c].jti = Unissued THEN t ELSE token[call[c].jti].fam
  /\ \A s \in Tokens \ {t} : token'[s] = token[s]
  /\ stored' \subseteq stored \cup {t}
  /\ UNCHANGED <<account, revoked>>

Ends(c) ==
  /\ call'[c].phase = "idle"
  /\ account' = account
  /\ \/ \E t \in Tokens : Issues(c, t)
     \/ /\ token' = token
        /\ stored' \subseteq stored
        /\ \/ revoked' = revoked
           \/ call[c].phase = "mark" /\ revoked' = revoked \cup {token[call[c].jti].fam}

(***************************************************************************)
(* Lemma: every step of a session is one of these.                         *)
(***************************************************************************)
LEMMA CallOutcome ==
  ASSUME TypeOK, LocksHeld, TokensIssued, NEW c \in Calls, CallStep(c)
  PROVE  \/ Begins(c) \/ Presents(c) \/ Passes(c) \/ Loads(c) \/ Locks(c) \/ Changes(c)
         \/ Ends(c)
<1>0. /\ call \in [Calls -> Call] /\ call[c] \in Call
      /\ token \in [Tokens -> Token \cup {Unissued}]
      /\ rowLock \in [Users -> Calls \cup Edits \cup {NoRequest}]
      /\ account \in [Users -> Account \cup {NoAccount}]
  BY DEF TypeOK, AccountsTypeOK
<1>1. ASSUME NEW u \in Users, ReadLogin(c, u) \/ BeginChange(c, u)
      PROVE  Begins(c)
  <2>1. /\ Active(u)
        /\ call' = [call EXCEPT ![c] = Read("issue", u)]
             \/ call' = [call EXCEPT ![c] = Read("change", u)]
        /\ UNCHANGED <<accountVars, token, stored, revoked>>
    BY <1>1 DEF ReadLogin, BeginChange
  <2>2. /\ call'[c].phase \in {"issue", "change"}
        /\ call'[c].user = u /\ call'[c].jti = Unissued
        /\ call'[c].ver = account[u].ver /\ call'[c].password = account[u].password
    BY <2>1, ReadCall DEF CallPhases
  <2>3. QED
    BY <2>1, <2>2 DEF Begins, SameTokens, accountVars
<1>2. ASSUME NEW t \in Tokens, TakeRecord(c, t)
      PROVE  Presents(c)
  <2> DEFINE phase == IF t \in stored THEN "family" ELSE "mark"
  <2>1. phase \in CallPhases
    BY DEF CallPhases
  <2>2. call' = [call EXCEPT ![c] = [Idle EXCEPT !.jti = t, !.phase = phase]]
    BY <1>2 DEF TakeRecord
  <2> HIDE DEF phase
  <2>3. call'[c].phase = phase /\ call'[c].jti = t
    BY <1>0, <2>1, <2>2, PresentedCall
  <2>4. t \in Issued /\ stored' = stored \ {t} /\ UNCHANGED <<account, token, revoked>>
    BY <1>2 DEF TakeRecord, Without, accountVars
  <2>5. CASE t \in stored
    BY <2>3, <2>4, <2>5 DEF phase, Presents
  <2>6. CASE t \notin stored
    BY <2>3, <2>4, <2>6 DEF phase, Presents
  <2>7. QED
    BY <2>5, <2>6
<1>3. ASSUME NEW t \in Tokens, Logout(c, t)
      PROVE  Presents(c)
  <2>1. [Idle EXCEPT !.phase = "drop", !.jti = t] = [Idle EXCEPT !.jti = t, !.phase = "drop"]
    BY DEF Idle
  <2>2. call' = [call EXCEPT ![c] = [Idle EXCEPT !.jti = t, !.phase = "drop"]]
    BY <1>3, <2>1 DEF Logout
  <2>3. call'[c].phase = "drop" /\ call'[c].jti = t
    BY <1>0, <2>2, PresentedCall DEF CallPhases
  <2>4. QED
    BY <1>3, <2>3 DEF Logout, Presents, accountVars
<1>4. ASSUME NEW t \in Tokens, IssuePair(c, t)
      PROVE  Ends(c)
  <2>1. call'[c].phase = "idle"
    BY <1>0, <1>4, EndedCall DEF IssuePair
  <2>2. Issues(c, t)
    BY <1>4, IssuedToken DEF Issues, IssuePair, At, accountVars
  <2>3. QED
    BY <2>1, <2>2 DEF Ends, Issues
<1>5. ASSUME MarkReuse(c) \/ LogoutRecord(c) \/ Abandon(c)
      PROVE  Ends(c)
  <2>1. Finish(c)
    BY <1>5 DEF MarkReuse, LogoutRecord, Abandon
  <2>2. call'[c].phase = "idle"
    BY <1>0, <2>1, EndedCall
  <2>3. QED
    BY <1>5, <2>2 DEF Ends, MarkReuse, LogoutRecord, Abandon, At, accountVars
<1>6. ASSUME CheckFamily(c)
      PROVE  Passes(c) \/ Ends(c)
  <2>1. CASE FamilyAlive(call[c].jti)
    <3>1. Goto(c, "load")
      BY <1>6, <2>1 DEF CheckFamily
    <3>2. call'[c].phase = "load" /\ call'[c].jti = call[c].jti
      BY <1>0, <3>1, MovedCall DEF Goto, CallPhases
    <3>3. QED
      BY <1>6, <2>1, <3>2 DEF CheckFamily, At, Passes, SameTokens, accountVars
  <2>2. CASE ~FamilyAlive(call[c].jti)
    <3>1. Finish(c)
      BY <1>6, <2>2 DEF CheckFamily
    <3>2. call'[c].phase = "idle"
      BY <1>0, <3>1, EndedCall
    <3>3. QED
      BY <1>6, <3>2 DEF CheckFamily, Ends, accountVars
  <2>3. QED
    BY <2>1, <2>2
<1>7. ASSUME LoadUser(c)
      PROVE  Loads(c) \/ Ends(c)
  <2> DEFINE t == call[c].jti
  <2>1. t \in Issued /\ call[c].phase = "load" /\ UNCHANGED <<accountVars, token, stored, revoked>>
    BY <1>7 DEF LoadUser, At, TokensIssued
  <2>2. CASE Current(token[t].user, token[t].ver)
    <3>1. /\ call'[c].phase = "issue" /\ call'[c].user = token[t].user
          /\ call'[c].jti = t /\ call'[c].ver = account[token[t].user].ver
          /\ call'[c].password = token[t].password
      BY <1>7, <2>1, <2>2, LoadedCall
    <3>2. QED
      BY <2>1, <2>2, <3>1 DEF Loads, SameTokens, accountVars, Current
  <2>3. CASE ~Current(token[t].user, token[t].ver)
    <3>1. Finish(c)
      BY <1>7, <2>3 DEF LoadUser
    <3>2. call'[c].phase = "idle"
      BY <1>0, <3>1, EndedCall
    <3>3. QED
      BY <2>1, <3>2 DEF Ends, accountVars
  <2>4. QED
    BY <2>2, <2>3
<1>8. ASSUME LockChange(c)
      PROVE  Locks(c)
  <2>1. /\ call'[c].phase = "changing" /\ call'[c].jti = call[c].jti
        /\ call'[c].user = call[c].user /\ call'[c].ver = call[c].ver
        /\ call'[c].password = call[c].password
    BY <1>0, <1>8, MovedCall DEF LockChange, Goto, CallPhases
  <2>2. call[c].user \in Users
    BY <1>0 DEF Call
  <2>3. rowLock'[call[c].user] = c
    BY <1>0, <1>8, <2>2 DEF LockChange
  <2>4. QED
    BY <1>8, <2>1, <2>3 DEF LockChange, At, Locks, SameTokens, Current, Active
<1>9. ASSUME Change(c)
      PROVE  Changes(c)
  <2>1. call[c].phase = "changing" /\ SameTokens
    BY <1>9 DEF Change, At, SameTokens
  <2>2. ChangeLocked(c)
    BY <2>1 DEF LocksHeld
  <2>3. QED
    BY <1>9, <2>1, <2>2, ChangedRow DEF Changes
<1>10. QED
  BY <1>1, <1>2, <1>3, <1>4, <1>5, <1>6, <1>7, <1>8, <1>9 DEF CallStep

(***************************************************************************)
(* Lemma: whoever is about to write a row holds its lock, whatever a       *)
(* session does.                                                           *)
(***************************************************************************)
LEMMA CallKeepsLocks ==
  ASSUME TypeOK, LocksHeld, TokensIssued, NEW c \in Calls, CallStep(c)
  PROVE  LocksHeld'
<1>1. /\ RowsMove(c) /\ edit' = edit
      /\ \A d \in Calls \ {c} : call'[d] = call[d]
  BY CallEffect
<1>2. EditsLocked'
  <2>1. AccountsTypeOK /\ EditsLocked /\ \A d \in Edits : d # c
    BY DEF TypeOK, LocksHeld
  <2>2. \A d \in Edits : edit'[d].phase = "write" => EditLocked(d)'
    BY <1>1, <2>1, EditBystanders
  <2>3. QED
    BY <2>2 DEF EditsLocked
<1>3. \A d \in Calls \ {c} : call'[d].phase = "changing" => ChangeLocked(d)'
  BY <1>1, Bystanders
<1>4. ASSUME call'[c].phase = "changing"
      PROVE  ChangeLocked(c)'
  <2>1. Locks(c)
    BY <1>4, CallOutcome DEF Begins, Presents, Passes, Loads, Changes, Ends
  <2>2. QED
    BY <2>1 DEF Locks, ChangeLocked, Registered
<1>5. QED
  BY <1>2, <1>3, <1>4 DEF LocksHeld

(***************************************************************************)
(* Lemma: whoever knew the password at some version still does after rows  *)
(* have moved, or his version is one of the past.                          *)
(***************************************************************************)
LEMMA KnowledgeKept ==
  ASSUME TypeOK, NEW x, RowsMove(x), NEW u \in Users, NEW ver \in 0 .. MaxVersion,
         NEW password, Knows(u, ver, password)
  PROVE  Knows(u, ver, password)'
<1>1. Registered(u) /\ Registered(u)' /\ RowMoves(u)
  BY DEF Knows, RowsMove
<1>2. account[u].ver \in Nat
  BY <1>1 DEF TypeOK, AccountsTypeOK, Registered, Account
<1>3. CASE account'[u].ver = account[u].ver /\ Signed(u)' = Signed(u)
  BY <1>1, <1>3 DEF Knows, Signed
<1>4. CASE account'[u].ver = account[u].ver + 1
  BY <1>1, <1>2, <1>4 DEF Knows
<1>5. QED
  BY <1>1, <1>3, <1>4 DEF RowMoves

(***************************************************************************)
(* Lemma: what a typed token and a typed request say.                      *)
(***************************************************************************)
LEMMA TokenTyped ==
  ASSUME TypeOK
  PROVE  /\ \A t \in Issued : /\ t \in Tokens /\ token[t].user \in Users
                             /\ token[t].fam \in Tokens /\ token[t].ver \in 0 .. MaxVersion
                             /\ token[t].password \in Nat
         /\ \A c \in Calls : /\ call[c].user \in Users /\ call[c].ver \in 0 .. MaxVersion
                             /\ call[c].password \in Nat
BY DEF TypeOK, Issued, Token, Call

(***************************************************************************)
(* Lemma: the knowledge of passwords survives the user management.         *)
(***************************************************************************)
LEMMA EditKeepsKnowledge ==
  ASSUME TypeOK, LocksHeld, PasswordsKnown, NEW e \in Edits, EditStep(e),
         UNCHANGED sessionVars
  PROVE  PasswordsKnown'
<1>1. RowsMove(e)
  BY EditKeepsLocks
<1>2. call' = call /\ token' = token /\ Issued' = Issued
  BY DEF sessionVars, Issued
<1>3. \A t \in Issued : Knows(token[t].user, token[t].ver, token[t].password)'
  <2>1. ASSUME NEW t \in Issued
        PROVE  Knows(token[t].user, token[t].ver, token[t].password)'
    <3>1. PICK u \in Users, ver \in 0 .. MaxVersion, password \in Nat :
            /\ u = token[t].user /\ ver = token[t].ver /\ password = token[t].password
            /\ Knows(u, ver, password)
      BY TokenTyped DEF PasswordsKnown
    <3>2. Knows(u, ver, password)'
      BY <1>1, <3>1, KnowledgeKept
    <3>3. QED
      BY <1>2, <3>1, <3>2 DEF Knows, Registered
  <2>2. QED
    BY <2>1
<1>4. ASSUME NEW c \in Calls, call[c].phase \in {"issue", "change", "changing"}
      PROVE  Knows(call[c].user, call[c].ver, call[c].password)'
  <2>1. PICK u \in Users, ver \in 0 .. MaxVersion, password \in Nat :
          /\ u = call[c].user /\ ver = call[c].ver /\ password = call[c].password
          /\ Knows(u, ver, password)
    BY <1>4, TokenTyped DEF PasswordsKnown
  <2>2. Knows(u, ver, password)'
    BY <1>1, <2>1, KnowledgeKept
  <2>3. QED
    BY <1>2, <2>1, <2>2 DEF Knows, Registered
<1>5. QED
  BY <1>2, <1>3, <1>4 DEF PasswordsKnown


-----------------------------------------------------------------------------
(***************************************************************************)
(* Lemma: unless it issues a token, a session leaves the tokens as they    *)
(* are.                                                                    *)
(***************************************************************************)
LEMMA SessionTokens ==
  ASSUME TypeOK, LocksHeld, TokensIssued, NEW c \in Calls, CallStep(c)
  PROVE  \/ token' = token /\ Issued' = Issued
         \/ \E t \in Tokens : Ends(c) /\ Issues(c, t)
BY CallOutcome DEF Begins, Presents, Passes, Loads, Locks, Changes, Ends, SameTokens, Issued

(***************************************************************************)
(* Lemma: what is stored, revoked or under way was issued, whatever a      *)
(* session does.                                                           *)
(***************************************************************************)
LEMMA CallKeepsIssued ==
  ASSUME TypeOK, LocksHeld, TokensIssued, NEW c \in Calls, CallStep(c)
  PROVE  TokensIssued'
<1>0. \A d \in Calls \ {c} : call'[d] = call[d]
  BY CallEffect
<1> DEFINE Dealt(d) ==
       /\ call[d].phase \in {"mark", "family", "load", "drop"} => call[d].jti \in Issued
       /\ call[d].phase = "issue" => call[d].jti \in Issued \cup {Unissued}
       /\ call[d].phase \in {"change", "changing"} => call[d].jti = Unissued
<1>1. \A d \in Calls : Dealt(d)
  BY DEF TokensIssued
<1>2. CASE token' = token /\ Issued' = Issued
  <2>1. stored' \subseteq Issued
    BY <1>2, CallOutcome DEF Begins, Presents, Passes, Loads, Locks, Changes, Ends, SameTokens,
                             TokensIssued, Issues
  <2>2. revoked' \subseteq Issued
    BY CallOutcome DEF Begins, Presents, Passes, Loads, Locks, Changes, Ends, SameTokens,
                             TokensIssued, Issues
  <2>3. Dealt(c)'
    BY <1>1, <1>2, CallOutcome DEF Begins, Presents, Passes, Loads, Locks, Changes, Ends
  <2>4. \A d \in Calls \ {c} : Dealt(d)'
    BY <1>0, <1>1, <1>2
  <2>5. \A d \in Calls : Dealt(d)'
    BY <2>3, <2>4
  <2>6. QED
    BY <1>2, <2>1, <2>2, <2>5 DEF TokensIssued
<1>3. CASE \E t \in Tokens : Ends(c) /\ Issues(c, t)
  <2>1. PICK t \in Tokens : Ends(c) /\ Issues(c, t)
    BY <1>3
  <2>2. stored' \subseteq Issued' /\ revoked' \subseteq Issued'
    BY <2>1 DEF Issues, TokensIssued
  <2>3. token'[t].fam \in Issued'
    BY <2>1, <1>1 DEF Issues, TokensIssued
  <2>4. \A s \in Issued : token'[s].fam \in Issued'
    BY <2>1 DEF Issues, TokensIssued, Issued
  <2>5. Dealt(c)'
    BY <2>1 DEF Ends
  <2>6. \A d \in Calls \ {c} : Dealt(d)'
    BY <1>0, <1>1, <2>1 DEF Issues
  <2>7. \A d \in Calls : Dealt(d)'
    BY <2>5, <2>6
  <2>8. \A s \in Issued' : token'[s].fam \in Issued'
    BY <2>1, <2>3, <2>4 DEF Issues
  <2>9. QED
    BY <2>2, <2>7, <2>8 DEF TokensIssued
<1>4. QED
  BY <1>2, <1>3, SessionTokens

(***************************************************************************)
(* Lemma: whoever holds a token or asks for one knew his password,         *)
(* whatever a session does.                                                *)
(***************************************************************************)
LEMMA CallKeepsKnowledge ==
  ASSUME TypeOK, LocksHeld, TokensIssued, PasswordsKnown, NEW c \in Calls, CallStep(c)
  PROVE  PasswordsKnown'
<1>0. /\ RowsMove(c) /\ TypeOK'
      /\ \A d \in Calls \ {c} : call'[d] = call[d]
  BY CallEffect
<1> DEFINE Phases3 == {"issue", "change", "changing"}
<1>1. ASSUME NEW t \in Issued
      PROVE  Knows(token[t].user, token[t].ver, token[t].password)' \/ token'[t] # token[t]
  <2>1. PICK u \in Users, ver \in 0 .. MaxVersion, password \in Nat :
          /\ u = token[t].user /\ ver = token[t].ver /\ password = token[t].password
          /\ Knows(u, ver, password)
    BY TokenTyped DEF PasswordsKnown
  <2>2. Knows(u, ver, password)'
    BY <1>0, <2>1, KnowledgeKept
  <2>3. QED
    BY <2>1, <2>2 DEF Knows, Registered
<1>2. ASSUME NEW d \in Calls, call[d].phase \in Phases3,
             call'[d].user = call[d].user, call'[d].ver = call[d].ver,
             call'[d].password = call[d].password
      PROVE  Knows(call[d].user, call[d].ver, call[d].password)'
  <2>1. PICK u \in Users, ver \in 0 .. MaxVersion, password \in Nat :
          /\ u = call[d].user /\ ver = call[d].ver /\ password = call[d].password
          /\ Knows(u, ver, password)
    BY <1>2, TokenTyped DEF PasswordsKnown
  <2>2. Knows(u, ver, password)'
    BY <1>0, <2>1, KnowledgeKept
  <2>3. QED
    BY <1>2, <2>1, <2>2 DEF Knows, Registered
<1>3. ASSUME NEW t \in Tokens, Issues(c, t)
      PROVE  Knows(token[t].user, token[t].ver, token[t].password)'
  <2>1. PICK u \in Users, ver \in 0 .. MaxVersion, password \in Nat :
          /\ u = call[c].user /\ ver = call[c].ver /\ password = call[c].password
          /\ Knows(u, ver, password)
    BY <1>3, TokenTyped DEF PasswordsKnown, Issues
  <2>2. Knows(u, ver, password)'
    BY <1>0, <2>1, KnowledgeKept
  <2>3. QED
    BY <1>3, <2>1, <2>2 DEF Knows, Registered, Issues
<1>4. \A t \in Issued' : Knows(token[t].user, token[t].ver, token[t].password)'
  <2>1. CASE token' = token /\ Issued' = Issued
    BY <1>1, <2>1
  <2>2. CASE \E t \in Tokens : Ends(c) /\ Issues(c, t)
    <3>1. PICK t \in Tokens : Issues(c, t)
      BY <2>2
    <3>2. ASSUME NEW s \in Issued' PROVE Knows(token[s].user, token[s].ver, token[s].password)'
      <4>1. CASE s = t
        BY <1>3, <3>1, <4>1
      <4>2. CASE s # t
        <5>1. s \in Issued /\ token'[s] = token[s]
          BY <3>1, <4>2 DEF Issues, Issued
        <5>2. QED
          BY <1>1, <5>1
      <4>3. QED
        BY <4>1, <4>2
    <3>3. QED
      BY <3>2
  <2>3. QED
    BY <2>1, <2>2, SessionTokens
<1>5. ASSUME call'[c].phase \in Phases3
      PROVE  Knows(call[c].user, call[c].ver, call[c].password)'
  <2>1. CASE Begins(c)
    <3>1. PICK u \in Users : u = call'[c].user
      BY <1>0 DEF TypeOK, Call
    <3>2. /\ account'[u] = account[u] /\ account[u] \in Account
          /\ call'[c].ver = account[u].ver /\ call'[c].password = account[u].password
      BY <2>1, <3>1 DEF Begins, Active, Registered, TypeOK, AccountsTypeOK
    <3>3. QED
      BY <3>1, <3>2 DEF Knows, Registered, Account
  <2>2. CASE Presents(c) \/ Passes(c) \/ Ends(c)
    BY <1>5, <2>2 DEF Presents, Passes, Ends
  <2>3. CASE Loads(c)
    <3>1. call[c].jti \in Issued
      BY <2>3 DEF Loads, TokensIssued
    <3>2. token'[call[c].jti] = token[call[c].jti]
      BY <2>3 DEF Loads, SameTokens
    <3>3. QED
      BY <1>1, <2>3, <3>1, <3>2 DEF Loads, Knows, Registered
  <2>4. CASE Locks(c)
    BY <1>2, <2>4 DEF Locks
  <2>5. CASE Changes(c)
    <3>1. PICK u \in Users : u = call'[c].user
      BY <1>0 DEF TypeOK, Call
    <3>2. /\ account'[u] \in Account
          /\ call'[c].ver = account'[u].ver /\ call'[c].password = account'[u].password
      BY <2>5, <3>1 DEF Changes
    <3>3. QED
      BY <3>1, <3>2 DEF Knows, Registered, Account
  <2>6. QED
    BY <2>1, <2>2, <2>3, <2>4, <2>5, CallOutcome
<1>6. \A d \in Calls : call'[d].phase \in Phases3 =>
        Knows(call[d].user, call[d].ver, call[d].password)'
  BY <1>0, <1>2, <1>5
<1>7. QED
  BY <1>4, <1>6 DEF PasswordsKnown

(***************************************************************************)
(* Lemma: a family keeps one token or one exchange, whatever a session     *)
(* does.                                                                   *)
(***************************************************************************)
LEMMA CallKeepsSingular ==
  ASSUME TypeOK, LocksHeld, TokensIssued, Singular, NEW c \in Calls, CallStep(c)
  PROVE  Singular'
<1>0. \A d \in Calls \ {c} : call'[d] = call[d]
  BY CallEffect
<1>1. ASSUME token' = token, stored' \subseteq stored,
             Exchanges(c)' => Exchanges(c) /\ call'[c].jti = call[c].jti
      PROVE  Singular'
  <2>1. \A d \in Calls : Exchanges(d)' => Exchanges(d) /\ call'[d].jti = call[d].jti
    BY <1>0, <1>1 DEF Exchanges
  <2>2. QED
    BY <1>1, <2>1 DEF Singular
<1>2. CASE Begins(c) \/ Passes(c) \/ Loads(c) \/ Locks(c)
  <2>1. token' = token /\ stored' = stored
    BY <1>2 DEF Begins, Passes, Loads, Locks, SameTokens
  <2>2. CASE Begins(c) \/ Locks(c)
    BY <1>1, <2>1, <2>2 DEF Begins, Locks, Exchanges
  <2>3. CASE Passes(c) \/ Loads(c)
    BY <1>1, <2>1, <2>3 DEF Passes, Loads, Exchanges
  <2>4. QED
    BY <1>2, <2>2, <2>3
<1>3. CASE Changes(c)
  <2>1. call[c].jti = Unissued
    BY <1>3 DEF Changes, TokensIssued
  <2>2. QED
    BY <1>1, <1>3, <2>1 DEF Changes, SameTokens, Exchanges
<1>4. CASE Presents(c)
  <2> DEFINE t == call'[c].jti
  <2>1. CASE call'[c].phase # "family"
    BY <1>1, <1>4, <2>1 DEF Presents, Exchanges
  <2>2. CASE call'[c].phase = "family"
    <3>1. t \in stored /\ stored' = stored \ {t} /\ token' = token
      BY <1>4, <2>2 DEF Presents
    <3>2. \A d \in Calls : Exchanges(d)' =>
            d = c \/ (Exchanges(d) /\ call'[d].jti = call[d].jti)
      BY <1>0 DEF Exchanges
    <3>3. \A r, s \in stored' : token'[r].fam = token'[s].fam => r = s
      BY <3>1 DEF Singular
    <3>4. \A d \in Calls, s \in stored' :
            Exchanges(d)' => token'[call'[d].jti].fam # token'[s].fam
      BY <3>1, <3>2 DEF Singular
    <3>5. \A d, e \in Calls :
            Exchanges(d)' /\ Exchanges(e)' /\ token'[call'[d].jti].fam = token'[call'[e].jti].fam
              => d = e
      BY <3>1, <3>2 DEF Singular
    <3>6. QED
      BY <3>3, <3>4, <3>5 DEF Singular
  <2>3. QED
    BY <2>1, <2>2
<1>5. CASE Ends(c)
  <2>1. ~Exchanges(c)'
    BY <1>5 DEF Ends, Exchanges
  <2>2. CASE token' = token /\ stored' \subseteq stored
    BY <1>1, <2>1, <2>2
  <2>3. CASE \E t \in Tokens : Issues(c, t)
    <3>1. PICK t \in Tokens : Issues(c, t)
      BY <2>3
    <3>2. t \notin Issued /\ stored' \subseteq stored \cup {t}
      BY <3>1 DEF Issues
    <3>3. \A s \in Issued : token'[s] = token[s] /\ token[s].fam \in Issued
      BY <3>1 DEF Issues, Issued, TokensIssued
    <3>4. \A d \in Calls : Exchanges(d)' =>
            /\ d # c /\ Exchanges(d)
            /\ call'[d].jti = call[d].jti /\ call[d].jti \in Issued
      BY <1>0, <2>1 DEF Exchanges, TokensIssued
    <3>5. stored \subseteq Issued
      BY DEF TokensIssued
    <3>6. \/ token'[t].fam = t
          \/ /\ Exchanges(c) /\ call[c].jti \in Issued
             /\ token'[t].fam = token[call[c].jti].fam
      BY <3>1 DEF Issues, Exchanges, TokensIssued
    <3>7. \A s \in stored : token'[t].fam # token'[s].fam
      BY <3>2, <3>3, <3>5, <3>6 DEF Singular
    <3>8. \A d \in Calls : Exchanges(d)' => token'[call'[d].jti].fam # token'[t].fam
      BY <3>2, <3>3, <3>4, <3>6 DEF Singular
    <3>9. \A r, s \in stored' : token'[r].fam = token'[s].fam => r = s
      BY <3>2, <3>3, <3>5, <3>7 DEF Singular
    <3>10. \A d \in Calls, s \in stored' :
             Exchanges(d)' => token'[call'[d].jti].fam # token'[s].fam
      BY <3>2, <3>3, <3>4, <3>5, <3>8 DEF Singular
    <3>11. \A d, e \in Calls :
            Exchanges(d)' /\ Exchanges(e)' /\ token'[call'[d].jti].fam = token'[call'[e].jti].fam
              => d = e
      BY <3>3, <3>4 DEF Singular
    <3>12. QED
      BY <3>9, <3>10, <3>11 DEF Singular
  <2>4. QED
    BY <1>5, <2>2, <2>3 DEF Ends
<1>6. QED
  BY <1>2, <1>3, <1>4, <1>5, CallOutcome

-----------------------------------------------------------------------------
(***************************************************************************)
(* Lemma: in the beginning nothing is issued, locked or under way.         *)
(***************************************************************************)
LEMMA InitSessions == Init => SessionsInv
<1> SUFFICES ASSUME Init PROVE SessionsInv
    OBVIOUS
<1>1. TypeOK
  BY InitTyped
<1>2. \A c \in Calls : call[c].phase = "idle"
  BY DEF Init, Idle
<1>3. \A e \in Edits : edit[e].phase = "idle"
  BY DEF Init, AccountsInit, NoEdit
<1>4. Issued = {} /\ stored = {} /\ revoked = {}
  BY DEF Init, Issued
<1>5. LocksHeld
  BY <1>2, <1>3 DEF LocksHeld, EditsLocked
<1>6. TokensIssued /\ Singular /\ PasswordsKnown
  BY <1>2, <1>4 DEF TokensIssued, Singular, Exchanges, PasswordsKnown
<1>7. QED
  BY <1>1, <1>5, <1>6 DEF SessionsInv

(***************************************************************************)
(* Lemma: every step keeps the invariant.                                  *)
(***************************************************************************)
LEMMA SessionsInvKept == SessionsInv /\ [Next]_vars => SessionsInv'
<1> SUFFICES ASSUME SessionsInv, [Next]_vars
             PROVE  SessionsInv'
    OBVIOUS
<1>0. TypeOK /\ LocksHeld /\ TokensIssued /\ Singular /\ PasswordsKnown
  BY DEF SessionsInv
<1>1. ASSUME NEW c \in Calls, CallStep(c)
      PROVE  SessionsInv'
  <2>1. TypeOK' /\ LocksHeld'
    BY <1>0, <1>1, CallEffect, CallKeepsLocks
  <2>2. TokensIssued' /\ Singular' /\ PasswordsKnown'
    BY <1>0, <1>1, CallKeepsIssued, CallKeepsSingular, CallKeepsKnowledge
  <2>3. QED
    BY <2>1, <2>2 DEF SessionsInv
<1>2. ASSUME NEW e \in Edits, EditStep(e), UNCHANGED sessionVars
      PROVE  SessionsInv'
  <2>1. TypeOK' /\ LocksHeld' /\ PasswordsKnown'
    BY <1>0, <1>2, EditKeepsLocks, EditKeepsKnowledge
  <2>2. TokensIssued' /\ Singular'
    BY <1>0, <1>2 DEF sessionVars, TokensIssued, Singular, Issued, Exchanges
  <2>3. QED
    BY <2>1, <2>2 DEF SessionsInv
<1>3. CASE UNCHANGED vars
  <2>1. /\ account' = account /\ granted' = granted /\ rowLock' = rowLock /\ edit' = edit
        /\ token' = token /\ stored' = stored /\ revoked' = revoked /\ call' = call
    BY <1>3 DEF vars, accountVars, sessionVars
  <2>2. TypeOK' /\ LocksHeld'
    BY <1>0, <2>1 DEF TypeOK, AccountsTypeOK, LocksHeld, EditsLocked, EditLocked, ChangeLocked,
                        Registered
  <2>3. TokensIssued' /\ Singular' /\ PasswordsKnown'
    BY <1>0, <2>1 DEF TokensIssued, Issued, Singular, Exchanges, PasswordsKnown, Knows, Registered
  <2>4. QED
    BY <2>2, <2>3 DEF SessionsInv
<1>4. QED
  BY <1>1, <1>2, <1>3 DEF Next

(***************************************************************************)
(* Theorem: the invariant of the sessions holds in every reachable state.  *)
(***************************************************************************)
THEOREM SessionsHold == Spec => []SessionsInv
BY InitSessions, SessionsInvKept, PTL DEF Spec

(***************************************************************************)
(* Theorem: every variable of the accounts and the sessions keeps its      *)
(* type.                                                                   *)
(***************************************************************************)
THEOREM SessionsTyped == Spec => []TypeOK
<1>1. SessionsInv => TypeOK
  BY DEF SessionsInv
<1>2. QED
  BY <1>1, SessionsHold, PTL

(***************************************************************************)
(* Theorem: a session has one token that can be exchanged or one exchange  *)
(* under way, never two of either, however its tokens are presented.       *)
(***************************************************************************)
THEOREM RefreshTokensAreSingleUse == Spec => []OneTokenPerFamily
<1>1. SessionsInv => OneTokenPerFamily
  <2> SUFFICES ASSUME TypeOK, TokensIssued, Singular, NEW f \in Tokens
               PROVE  Cardinality(Exchanging(f)) + Cardinality(Redeemable(f)) <= 1
      BY DEF SessionsInv, OneTokenPerFamily
  <2>1. \A c \in Exchanging(f) : c \in Calls /\ Exchanges(c) /\ token[call[c].jti].fam = f
    BY DEF Exchanging, Exchanges
  <2>2. \A t \in Redeemable(f) : t \in stored /\ token[t].fam = f
    BY DEF Redeemable
  <2>3. \A c, d \in Exchanging(f) : c = d
    BY <2>1 DEF Singular
  <2>4. \A s, t \in Redeemable(f) : s = t
    BY <2>2 DEF Singular
  <2>5. Exchanging(f) = {} \/ Redeemable(f) = {}
    BY <2>1, <2>2 DEF Singular
  <2>6. Exchanging(f) = {} \/ \E c : Exchanging(f) = {c}
    BY <2>3
  <2>7. Redeemable(f) = {} \/ \E t : Redeemable(f) = {t}
    BY <2>4
  <2>8. Cardinality({}) = 0 /\ \A x : Cardinality({x}) = 1
    BY FS_EmptySet, FS_Singleton
  <2>9. Cardinality(Exchanging(f)) = IF Exchanging(f) = {} THEN 0 ELSE 1
    BY <2>6, <2>8
  <2>10. Cardinality(Redeemable(f)) = IF Redeemable(f) = {} THEN 0 ELSE 1
    BY <2>7, <2>8
  <2>11. QED
    BY <2>5, <2>9, <2>10
<1>2. QED
  BY <1>1, SessionsHold, PTL

(***************************************************************************)
(* Theorem: a token that still refreshes belongs to somebody who knew the  *)
(* password the account has now.                                           *)
(***************************************************************************)
THEOREM RefreshersKnowThePassword == Spec => []LiveTokensKnowThePassword
<1>1. SessionsInv => LiveTokensKnowThePassword
  BY DEF SessionsInv, TokensIssued, PasswordsKnown, Knows, LiveTokensKnowThePassword, Current
<1>2. QED
  BY <1>1, SessionsHold, PTL

(***************************************************************************)
(* Theorem: every committed change of a password, a role or a status moves *)
(* token_version by exactly one, so of two concurrent changes none is      *)
(* lost.                                                                   *)
(***************************************************************************)
THEOREM ChangesRevoke == Spec => ChangesEndTokens
<1> DEFINE Revoking == \A u \in Users : Registered(u) /\ Signed(u)' # Signed(u)
                                          => account'[u].ver = account[u].ver + 1
<1>1. SessionsInv /\ [Next]_vars => [Revoking]_vars
  <2> SUFFICES ASSUME TypeOK, LocksHeld, TokensIssued, Next
               PROVE  Revoking
      BY DEF SessionsInv
  <2>1. \E x : RowsMove(x)
    BY CallEffect, EditKeepsLocks DEF Next
  <2>2. QED
    BY <2>1 DEF RowsMove, RowMoves
<1>2. QED
  BY <1>1, SessionsHold, PTL DEF Spec, ChangesEndTokens

(***************************************************************************)
(* Theorem: a revoked family gets no token but from the exchange that had  *)
(* passed the check of its mark before, and none passes it any more.       *)
(***************************************************************************)
THEOREM RevokedFamiliesStayRevoked == Spec => RevokedFamiliesEnd
<1> DEFINE Ended == \A f \in revoked :
       /\ Passed(f)' \subseteq Passed(f)
       /\ \A t \in Tokens \ Issued :
            token'[t] # Unissued /\ token'[t].fam = f => Passed(f) # {}
<1>1. SessionsInv /\ [Next]_vars => [Ended]_vars
  <2> SUFFICES ASSUME TypeOK, LocksHeld, TokensIssued, Next, NEW f \in revoked
               PROVE  /\ Passed(f)' \subseteq Passed(f)
                      /\ \A t \in Tokens \ Issued :
                           token'[t] # Unissued /\ token'[t].fam = f => Passed(f) # {}
      BY DEF SessionsInv
  <2> DEFINE Late(d) == /\ call[d].phase \in {"load", "issue"}
                        /\ call[d].jti # Unissued
                        /\ token[call[d].jti].fam = f
  <2>1. Passed(f) = {d \in Calls : Late(d)} /\ Passed(f)' = {d \in Calls : Late(d)'}
    BY DEF Passed, Exchanging
  <2>2. ASSUME NEW c \in Calls, CallStep(c)
        PROVE  /\ \A d \in Calls : Late(d)' => Late(d)
               /\ \A t \in Tokens \ Issued :
                    token'[t] # Unissued /\ token'[t].fam = f => Late(c)
    <3>1. \A d \in Calls \ {c} : call'[d] = call[d]
      BY <2>2, CallEffect
    <3>2. \A s \in Issued : token'[s] = token[s]
      BY <2>2, SessionTokens DEF Issues, Issued
    <3>3. \A d \in Calls \ {c} : Late(d)' => Late(d)
      BY <3>1, <3>2 DEF TokensIssued
    <3>4. Late(c)' => Late(c)
      <4> SUFFICES ASSUME Late(c)' PROVE Late(c)
          OBVIOUS
      <4>1. CASE Begins(c) \/ Presents(c) \/ Locks(c) \/ Ends(c)
        BY <4>1 DEF Begins, Presents, Locks, Ends
      <4>2. CASE Passes(c)
        BY <4>2 DEF Passes, SameTokens, FamilyAlive
      <4>3. CASE Loads(c)
        BY <4>3 DEF Loads, SameTokens
      <4>4. CASE Changes(c)
        BY <4>4 DEF Changes, TokensIssued
      <4>5. QED
        BY <2>2, <4>1, <4>2, <4>3, <4>4, CallOutcome
    <3>5. ASSUME NEW t \in Tokens \ Issued, token'[t] # Unissued, token'[t].fam = f
          PROVE  Late(c)
      <4>1. PICK s \in Tokens : Issues(c, s)
        BY <2>2, <3>5, SessionTokens DEF Issued
      <4>2. s = t
        BY <3>5, <4>1 DEF Issues, Issued
      <4>3. f # t
        BY <3>5 DEF TokensIssued
      <4>4. call[c].jti # Unissued /\ token[call[c].jti].fam = f
        BY <3>5, <4>1, <4>2, <4>3 DEF Issues
      <4>5. QED
        BY <4>1, <4>4 DEF Issues
    <3>6. QED
      BY <3>3, <3>4, <3>5
  <2>3. ASSUME NEW e \in Edits, UNCHANGED sessionVars
        PROVE  /\ \A d \in Calls : Late(d)' => Late(d)
               /\ \A t \in Tokens \ Issued : token'[t] = Unissued
    BY <2>3 DEF sessionVars, Issued
  <2>4. QED
    BY <2>1, <2>2, <2>3 DEF Next
<1>2. QED
  BY <1>1, SessionsHold, PTL DEF Spec, RevokedFamiliesEnd

(***************************************************************************)
(* Theorem: an account becomes or ceases to be ADMIN only by a request     *)
(* whose operator was ADMIN when it was authenticated.                     *)
(***************************************************************************)
THEOREM OnlyAdminsMakeAdmins == Spec => AdminsMakeAdmins
<1> DEFINE ByAdmin == \E e \in Edits : edit[e].role = "ADMIN" /\ edit'[e].phase # edit[e].phase
           Made == \A u \in Users : AdminAt(account, u) # AdminAt(account', u) => ByAdmin
<1>1. SessionsInv /\ [Next]_vars => [Made]_vars
  <2> SUFFICES ASSUME TypeOK, LocksHeld, TokensIssued, Next, NEW u \in Users,
                      AdminAt(account, u) # AdminAt(account', u)
               PROVE  ByAdmin
      BY DEF SessionsInv
  <2>0. account \in [Users -> Account \cup {NoAccount}] /\ edit \in [Edits -> Edit]
    BY DEF TypeOK, AccountsTypeOK
  <2>1. account' # account
    BY DEF AdminAt
  <2>2. ASSUME NEW c \in Calls, CallStep(c)
        PROVE  FALSE
    <3>1. Change(c)
      BY <2>1, <2>2 DEF CallStep, ReadLogin, BeginChange, TakeRecord, IssuePair, Logout, MarkReuse,
                        CheckFamily, LoadUser, LogoutRecord, LockChange, Abandon, accountVars
    <3>2. ChangeLocked(c)
      BY <3>1 DEF Change, At, LocksHeld
    <3>3. /\ account'[call[c].user] \in Account
          /\ account'[call[c].user].role = account[call[c].user].role
          /\ \A v \in Users \ {call[c].user} : account'[v] = account[v]
      BY <3>1, <3>2, ChangedRow
    <3>4. QED
      BY <3>2, <3>3 DEF AdminAt, ChangeLocked, Registered
  <2>3. ASSUME NEW e \in Edits, EditStep(e)
        PROVE  ByAdmin
    <3>1. CASE \E v \in Users, role \in Roles : CreateUser(e, v, role)
      <4>1. PICK v \in Users, role \in Roles : CreateUser(e, v, role)
        BY <3>1
      <4>2. edit[e].phase = "create" /\ edit'[e].phase = "idle"
        BY <2>0, <4>1 DEF CreateUser, NoEdit
      <4>3. u = v
        BY <2>0, <4>1 DEF CreateUser, AdminAt
      <4>4. role = "ADMIN"
        BY <2>0, <4>1, <4>3 DEF CreateUser, AdminAt, Registered, NewAccount
      <4>5. edit[e].role = "ADMIN"
        BY <4>1, <4>4 DEF CreateUser, MayTouch
      <4>6. QED
        BY <4>2, <4>5
    <3>2. CASE \E role \in Roles, active, reset \in BOOLEAN : CommitEdit(e, role, active, reset)
      <4>1. PICK role \in Roles, active, reset \in BOOLEAN : CommitEdit(e, role, active, reset)
        BY <3>2
      <4>2. edit[e].phase = "write" /\ edit'[e].phase = "idle"
        BY <2>0, <4>1 DEF CommitEdit, NoEdit
      <4>3. EditLocked(e)
        BY <4>2 DEF LocksHeld, EditsLocked
      <4>4. /\ account'[edit[e].target] \in Account
            /\ account'[edit[e].target].role = role
            /\ \A v \in Users \ {edit[e].target} : account'[v] = account[v]
        BY <2>0, <4>1, <4>3, CommittedRow DEF EditLocked
      <4>5. u = edit[e].target
        BY <4>4 DEF AdminAt
      <4>6. role # account[u].role /\ (role = "ADMIN" \/ account[u].role = "ADMIN")
        BY <4>3, <4>4, <4>5 DEF AdminAt, EditLocked, Registered
      <4>7. edit[e].role = "ADMIN"
        BY <4>1, <4>3, <4>5, <4>6 DEF CommitEdit, MayTouch, EditLocked
      <4>8. QED
        BY <4>2, <4>7
    <3>3. QED
      BY <2>1, <2>3, <3>1, <3>2 DEF EditStep, Authenticate, AuthenticateAdmin, LockTarget,
                                    MergeRights, AbandonEdit
  <2>4. QED
    BY <2>2, <2>3 DEF Next
<1>2. QED
  BY <1>1, SessionsHold, PTL DEF Spec, AdminsMakeAdmins

-----------------------------------------------------------------------------
(***************************************************************************)
(* The login throttle (LoginThrottle).                                     *)
(*                                                                         *)
(* The attempts that a counter counted and that may still reach a password *)
(* check: each of them already took its place in the counter.              *)
(***************************************************************************)
Pending(k) ==
  {r \in Logins : /\ k \in login[r].countedIn /\ ~login[r].blocked
                  /\ login[r].at \in {"incr", "ttl", "expire", "check"}}

\* An attempt counts itself once in each counter, the IP's last, and what
\* reaches the check either passed them or was counted by none.
CountsInOrder(l) ==
  /\ Ip \in l.countedIn => l.key = Ip /\ l.at # "incr"
  /\ l.at = "incr" /\ l.key # Ip => l.countedIn = {}
  /\ l.at = "check" /\ l.blocked => l.countedIn = {}

\* Checks done and checks to come are among the counted, within the limit.
PlacesTaken(k) ==
  /\ checked[k] + Cardinality(Pending(k)) <= counter[k].n
  /\ checked[k] + Cardinality(Pending(k)) <= Limit(k)

ThrottleInv ==
  /\ ThrottleTypeOK
  /\ \A r \in Logins : CountsInOrder(login[r])
  /\ \A k \in Keys : PlacesTaken(k)

Login == [at : {"idle", "incr", "ttl", "expire", "check", "reset"},
          email : Emails, key : Keys, blocked : BOOLEAN, countedIn : SUBSET Keys]

(***************************************************************************)
(* Lemma: limits are numbers, and a count stops one above its limit.       *)
(***************************************************************************)
LEMMA CountStops ==
  ASSUME ThrottleAssumption, ThrottleTypeOK, NEW k \in Keys
  PROVE  /\ Limit(k) \in Nat /\ counter[k].n \in Nat /\ counter[k].ttl \in -1 .. WindowLength
         /\ counter[k].n <= Limit(k) + 1
         /\ Incremented(k) \in [n : Nat, ttl : -1 .. WindowLength]
         /\ Incremented(k).ttl = counter[k].ttl
         /\ Incremented(k).n = IF counter[k].n <= Limit(k) THEN counter[k].n + 1
                               ELSE counter[k].n
<1>1. Limit(k) \in Nat
  BY DEF ThrottleAssumption, Limit
<1>2. /\ counter[k] \in [n : Nat, ttl : -1 .. WindowLength]
      /\ counter[k].n \in Nat /\ counter[k].ttl \in -1 .. WindowLength
      /\ counter[k].n <= Limit(k) + 1
  BY DEF ThrottleTypeOK
<1> DEFINE next == IF counter[k].n <= Limit(k) THEN counter[k].n + 1 ELSE counter[k].n
<1>3. Min({counter[k].n + 1, Limit(k) + 1}) = next
  <2>1. /\ next \in {counter[k].n + 1, Limit(k) + 1} /\ next \in Nat
        /\ \A y \in {counter[k].n + 1, Limit(k) + 1} : next <= y /\ y \in Nat
    BY <1>1, <1>2
  <2>2. \A x \in {counter[k].n + 1, Limit(k) + 1} :
          (\A y \in {counter[k].n + 1, Limit(k) + 1} : x <= y) => x = next
    BY <2>1
  <2> HIDE DEF next
  <2>3. QED
    BY <2>1, <2>2 DEF Min
<1>4. next \in Nat
  BY <1>2
<1> HIDE DEF next
<1>5. Incremented(k) = [counter[k] EXCEPT !.n = next]
  BY <1>3 DEF Incremented
<1>6. QED
  BY <1>1, <1>2, <1>4, <1>5 DEF next

(***************************************************************************)
(* Lemma: where an attempt goes after a hit.                               *)
(***************************************************************************)
LEMMA AfterHitGoes ==
  ASSUME ThrottleTypeOK, NEW r \in Logins, login' = AfterHit(r)
  PROVE  /\ login' \in [Logins -> Login]
         /\ \A q \in Logins : q # r => login'[q] = login[q]
         /\ login[r].key # Ip =>
              /\ login'[r].at = "incr" /\ login'[r].key = Ip
              /\ login'[r].blocked = login[r].blocked
              /\ login'[r].countedIn = login[r].countedIn
         /\ login[r].key = Ip /\ ~login[r].blocked =>
              /\ login'[r].at = "check" /\ login'[r].key = Ip
              /\ login'[r].blocked = login[r].blocked
              /\ login'[r].countedIn = login[r].countedIn
         /\ login[r].key = Ip /\ login[r].blocked => login'[r].countedIn = {} /\ login'[r].at = "idle"
<1>1. login \in [Logins -> Login] /\ login[r] \in Login
  BY DEF ThrottleTypeOK, Login
<1>2. Ip \in Keys
  BY DEF Keys
<1>3. CASE login[r].key # Ip
  BY <1>1, <1>2, <1>3 DEF AfterHit, Login
<1>4. CASE login[r].key = Ip /\ ~login[r].blocked
  BY <1>1, <1>2, <1>4 DEF AfterHit, Login
<1>5. CASE login[r].key = Ip /\ login[r].blocked
  BY <1>1, <1>2, <1>5 DEF AfterHit, Login, NoLogin
<1>6. QED
  BY <1>1, <1>3, <1>4, <1>5 DEF Login

(***************************************************************************)
(* Lemma: a step that neither adds to the pending attempts of a counter    *)
(* nor checks a password, nor lowers the count, keeps its bound.           *)
(***************************************************************************)
LEMMA PlacesKept ==
  ASSUME ThrottleAssumption, ThrottleInv, ThrottleTypeOK', NEW k \in Keys,
         Pending(k)' \subseteq Pending(k), checked'[k] = checked[k],
         counter'[k].n >= counter[k].n
  PROVE  PlacesTaken(k)'
<1>1. IsFiniteSet(Pending(k)) /\ Cardinality(Pending(k)) \in Nat
  <2>1. Pending(k) \subseteq Logins
    BY DEF Pending
  <2>2. IsFiniteSet(Pending(k))
    BY <2>1, FS_Subset DEF ThrottleAssumption
  <2>3. QED
    BY <2>2, FS_CardinalityType
<1>2. Cardinality(Pending(k)') <= Cardinality(Pending(k)) /\ Cardinality(Pending(k)') \in Nat
  BY <1>1, FS_Subset, FS_CardinalityType
<1>3. /\ checked[k] \in Nat /\ counter[k].n \in Nat /\ counter'[k].n \in Nat /\ Limit(k) \in Nat
      /\ checked[k] + Cardinality(Pending(k)) <= counter[k].n
      /\ checked[k] + Cardinality(Pending(k)) <= Limit(k)
  BY CountStops DEF ThrottleInv, ThrottleTypeOK, PlacesTaken
<1>4. /\ checked'[k] + Cardinality(Pending(k)') <= counter'[k].n
      /\ checked'[k] + Cardinality(Pending(k)') <= Limit(k)
  BY <1>1, <1>2, <1>3
<1>5. QED
  BY <1>4 DEF PlacesTaken, Limit

(***************************************************************************)
(* Lemma: every step keeps the types.                                      *)
(***************************************************************************)
LEMMA ThrottleTypes ==
  ASSUME ThrottleAssumption, ThrottleTypeOK, [ThrottleNext]_throttleVars
  PROVE  ThrottleTypeOK'
<1>1. /\ counter \in [Keys -> [n : Nat, ttl : -1 .. WindowLength]]
      /\ login \in [Logins -> Login] /\ checked \in [Keys -> Nat] /\ faults \in 0 .. MaxFaults
      /\ \A k \in Keys : counter[k].n <= Limit(k) + 1 /\ Limit(k) \in Nat
      /\ \A k \in Keys : k \in Emails \cup {Ip}
      /\ WindowLength \in Nat \ {0} /\ MaxFaults \in Nat /\ Forever = -1
  BY DEF ThrottleTypeOK, Login, ThrottleAssumption, Limit, Keys, Forever
<1>2. \A k \in Keys : /\ Incremented(k) \in [n : Nat, ttl : -1 .. WindowLength]
                      /\ Incremented(k).n <= Limit(k) + 1
  BY <1>1, CountStops
<1>3. \A k \in Keys : /\ Bounded(k) \in [n : Nat, ttl : -1 .. WindowLength]
                      /\ Bounded(k).n <= Limit(k) + 1
  BY <1>1 DEF Bounded
<1>4. Unset \in [n : Nat, ttl : -1 .. WindowLength] /\ \A k \in Keys : Unset.n <= Limit(k) + 1
  BY <1>1 DEF Unset
<1>5. \A e \in Emails : NoLogin(e) \in Login
  BY DEF NoLogin, Login, Keys
<1>6. \A l \in Login : l.key \in Keys /\ l.email \in Emails /\ l.email \in Keys
  BY DEF Login, Keys
<1> DEFINE Counters == [Keys -> [n : Nat, ttl : -1 .. WindowLength]]
<1>7. SUFFICES /\ counter' \in Counters /\ \A k \in Keys : counter'[k].n <= Limit(k) + 1
               /\ login' \in [Logins -> Login] /\ checked' \in [Keys -> Nat]
               /\ faults' \in 0 .. MaxFaults
  BY DEF ThrottleTypeOK, Login, Limit
<1>8. ASSUME NEW r \in Logins, NEW e \in Emails, Request(r, e)
      PROVE  /\ login' \in [Logins -> Login]
             /\ counter' = counter /\ checked' = checked /\ faults' = faults
  <2>1. [NoLogin(e) EXCEPT !.at = "incr", !.key = e] \in Login
    BY DEF NoLogin, Login, Keys
  <2>2. QED
    BY <1>1, <1>8, <2>1 DEF Request
<1>9. ASSUME NEW r \in Logins, Incr(r)
      PROVE  /\ counter' \in Counters /\ \A k \in Keys : counter'[k].n <= Limit(k) + 1
             /\ login' \in [Logins -> Login] /\ checked' = checked /\ faults' = faults
  <2> DEFINE k == login[r].key
             above == login[r].blocked \/ Incremented(k).n > Limit(k)
             next == [login[r] EXCEPT !.at = IF Incremented(k).n = 1 THEN "expire" ELSE "ttl",
                                      !.blocked = above,
                                      !.countedIn = login[r].countedIn \cup {k}]
  <2>1. k \in Keys /\ login[r] \in Login
    BY <1>1, <1>6
  <2>2. next \in Login
    BY <2>1 DEF Login
  <2>3. /\ counter' = [counter EXCEPT ![k] = Incremented(k)]
        /\ checked' = checked /\ faults' = faults
    BY <1>9 DEF Incr
  <2>4. login' = [login EXCEPT ![r] = next]
    BY <1>9, Zenon DEF Incr
  <2> HIDE DEF next, k
  <2>5. QED
    BY <1>1, <1>2, <2>1, <2>2, <2>3, <2>4
<1>10. ASSUME NEW r \in Logins, ReadTtl(r)
       PROVE  /\ login' \in [Logins -> Login]
              /\ counter' = counter /\ checked' = checked /\ faults' = faults
  <2>1. CASE login' = AfterHit(r)
    BY <1>10, <2>1, AfterHitGoes DEF ReadTtl
  <2>2. CASE MoveTo(r, "expire")
    BY <1>1, <1>10, <2>2 DEF ReadTtl, MoveTo, Login
  <2>3. QED
    BY <1>10, <2>1, <2>2 DEF ReadTtl
<1>11. ASSUME NEW r \in Logins, Expire(r)
       PROVE  /\ counter' \in Counters /\ \A k \in Keys : counter'[k].n <= Limit(k) + 1
              /\ login' \in [Logins -> Login] /\ checked' = checked /\ faults' = faults
  <2>1. login[r].key \in Keys
    BY <1>1, <1>6
  <2>2. login' \in [Logins -> Login]
    BY <1>11, AfterHitGoes DEF Expire
  <2>3. QED
    BY <1>1, <1>3, <1>11, <2>1, <2>2 DEF Expire
<1>12. ASSUME NEW r \in Logins, NEW outcome \in {"right", "wrong"}, CheckPassword(r, outcome)
       PROVE  /\ login' \in [Logins -> Login] /\ checked' \in [Keys -> Nat]
              /\ counter' = counter /\ faults' = faults
  <2>1. login[r] \in Login /\ [login[r] EXCEPT !.at = "reset"] \in Login
    BY <1>1 DEF Login
  <2>2. NoLogin(login[r].email) \in Login
    BY <1>5, <1>6, <2>1
  <2>3. login' \in [Logins -> Login]
    BY <1>1, <1>12, <2>1, <2>2 DEF CheckPassword
  <2>4. checked' \in [Keys -> Nat]
    BY <1>1, <1>12 DEF CheckPassword
  <2>5. QED
    BY <1>12, <2>3, <2>4 DEF CheckPassword
<1>13. ASSUME NEW r \in Logins, ThrottleReset(r)
       PROVE  /\ counter' \in Counters /\ \A k \in Keys : counter'[k].n <= Limit(k) + 1
              /\ login' \in [Logins -> Login] /\ checked' \in [Keys -> Nat] /\ faults' = faults
  <2>1. login[r].email \in Keys /\ NoLogin(login[r].email) \in Login
    BY <1>1, <1>5, <1>6
  <2>2. \A q \in Logins : [login[q] EXCEPT !.countedIn = @ \ {login[r].email}] \in Login
    BY <1>1 DEF Login
  <2>3. login' \in [Logins -> Login]
    BY <1>13, <2>1, <2>2 DEF ThrottleReset
  <2>4. checked' \in [Keys -> Nat]
    BY <1>1, <1>13, <2>1 DEF ThrottleReset
  <2>5. counter' \in Counters /\ \A k \in Keys : counter'[k].n <= Limit(k) + 1
    BY <1>1, <1>4, <1>13, <2>1 DEF ThrottleReset
  <2>6. QED
    BY <1>13, <2>3, <2>4, <2>5 DEF ThrottleReset
<1>14. ASSUME NEW r \in Logins, RedisFails(r)
       PROVE  /\ counter' \in Counters /\ \A k \in Keys : counter'[k].n <= Limit(k) + 1
              /\ login' \in [Logins -> Login] /\ checked' = checked
              /\ faults' \in 0 .. MaxFaults
  <2>1. login[r] \in Login /\ login[r].key \in Keys /\ NoLogin(login[r].email) \in Login
    BY <1>1, <1>5, <1>6
  <2>2. [login[r] EXCEPT !.at = "check", !.countedIn = {}] \in Login
    BY <2>1 DEF Login
  <2>3. login' \in [Logins -> Login]
    BY <1>1, <1>14, <2>1, <2>2 DEF RedisFails, Unthrottled
  <2>4. counter' \in Counters /\ \A k \in Keys : counter'[k].n <= Limit(k) + 1
    BY <1>1, <1>2, <1>3, <1>14, <2>1 DEF RedisFails
  <2>5. faults' \in 0 .. MaxFaults
    BY <1>1, <1>14 DEF RedisFails
  <2>6. QED
    BY <1>14, <2>3, <2>4, <2>5 DEF RedisFails
<1>15. ASSUME NEW r \in Logins, Crash(r)
       PROVE  /\ counter' = counter /\ login' \in [Logins -> Login] /\ checked' = checked
              /\ faults' \in 0 .. MaxFaults
  <2>1. NoLogin(login[r].email) \in Login
    BY <1>1, <1>5, <1>6
  <2>2. QED
    BY <1>1, <1>15, <2>1 DEF Crash
<1>16. ASSUME Tick
       PROVE  /\ counter' \in Counters /\ \A k \in Keys : counter'[k].n <= Limit(k) + 1
              /\ login' \in [Logins -> Login] /\ checked' \in [Keys -> Nat] /\ faults' = faults
  <2> DEFINE ending == {k \in Keys : counter[k].ttl = 1}
  <2>1. /\ counter' = [k \in Keys |-> IF k \in ending THEN Unset
                                      ELSE IF counter[k].ttl = Forever THEN counter[k]
                                      ELSE [counter[k] EXCEPT !.ttl = @ - 1]]
        /\ checked' = [k \in Keys |-> IF k \in ending THEN 0 ELSE checked[k]]
        /\ login' = [q \in Logins |-> [login[q] EXCEPT !.countedIn = @ \ ending]]
        /\ faults' = faults
    BY <1>16 DEF Tick, Forgotten
  <2>2. \A k \in Keys :
          counter[k].ttl # Forever =>
            /\ [counter[k] EXCEPT !.ttl = @ - 1] \in [n : Nat, ttl : -1 .. WindowLength]
            /\ [counter[k] EXCEPT !.ttl = @ - 1].n = counter[k].n
    BY <1>1
  <2>3. \A q \in Logins : [login[q] EXCEPT !.countedIn = @ \ ending] \in Login
    BY <1>1 DEF Login
  <2> HIDE DEF ending
  <2>4. counter' \in Counters /\ \A k \in Keys : counter'[k].n <= Limit(k) + 1
    BY <1>1, <1>4, <2>1, <2>2
  <2>5. checked' \in [Keys -> Nat]
    BY <1>1, <2>1
  <2>6. QED
    BY <2>1, <2>3, <2>4, <2>5
<1>17. CASE UNCHANGED throttleVars
  BY <1>1, <1>17 DEF throttleVars
<1>18. QED
  BY <1>1, <1>8, <1>9, <1>10, <1>11, <1>12, <1>13, <1>14, <1>15, <1>16, <1>17
  DEF ThrottleNext, Step

(***************************************************************************)
(* Lemma: an attempt that changes alone, and is not pending in a counter   *)
(* unless it was, adds nothing to the pending ones.                        *)
(***************************************************************************)
LEMMA NoMorePending ==
  ASSUME NEW r \in Logins, NEW k \in Keys,
         \A q \in Logins : q # r => login'[q] = login[q],
         r \in Pending(k)' => r \in Pending(k)
  PROVE  Pending(k)' \subseteq Pending(k)
BY DEF Pending

(***************************************************************************)
(* Lemma: an attempt that is given up is pending nowhere.                  *)
(***************************************************************************)
LEMMA GivenUp ==
  ASSUME NEW r \in Logins, login'[r].countedIn = {}
  PROVE  /\ \A k \in Keys : r \notin Pending(k)'
         /\ CountsInOrder(login'[r])
BY DEF Pending, CountsInOrder

(***************************************************************************)
(* Lemma: when counters end, what they counted is pending there no longer, *)
(* and what others counted stays.                                          *)
(***************************************************************************)
LEMMA Ended ==
  ASSUME ThrottleAssumption, ThrottleInv, ThrottleTypeOK', NEW gone \in SUBSET Keys,
         \A q \in Logins :
           \/ login'[q].countedIn = {}
           \/ login'[q] = [login[q] EXCEPT !.countedIn = @ \ gone],
         \A k \in Keys : IF k \in gone THEN checked'[k] = 0
                         ELSE checked'[k] = checked[k] /\ counter'[k].n = counter[k].n
  PROVE  /\ \A q \in Logins : CountsInOrder(login'[q])
         /\ \A k \in Keys : PlacesTaken(k)'
<1>1. /\ login \in [Logins -> Login]
      /\ \A q \in Logins : CountsInOrder(login[q])
      /\ \A k \in Keys : checked[k] \in Nat /\ Limit(k) \in Nat
      /\ \A k \in Keys : counter[k].n \in Nat /\ counter'[k].n \in Nat
  BY CountStops DEF ThrottleInv, ThrottleTypeOK, Login
<1>2. ASSUME NEW q \in Logins, login'[q] = [login[q] EXCEPT !.countedIn = @ \ gone]
      PROVE  /\ login'[q].at = login[q].at /\ login'[q].key = login[q].key
             /\ login'[q].blocked = login[q].blocked
             /\ login'[q].countedIn = login[q].countedIn \ gone
  BY <1>1, <1>2 DEF Login
<1>3. ASSUME NEW q \in Logins
      PROVE  CountsInOrder(login'[q])
  <2>1. CASE login'[q].countedIn = {}
    BY <2>1, GivenUp
  <2>2. CASE login'[q] = [login[q] EXCEPT !.countedIn = @ \ gone]
    BY <1>1, <1>2, <2>2 DEF CountsInOrder
  <2>3. QED
    BY <2>1, <2>2
<1>4. ASSUME NEW k \in Keys, k \in gone
      PROVE  PlacesTaken(k)'
  <2>1. Pending(k)' = {}
    BY <1>2, <1>4 DEF Pending
  <2>2. Cardinality(Pending(k)') = 0
    BY <2>1, FS_EmptySet
  <2>3. checked'[k] = 0 /\ counter'[k].n \in Nat /\ Limit(k) \in Nat
    BY <1>1, <1>4
  <2>4. /\ checked'[k] + Cardinality(Pending(k)') <= counter'[k].n
        /\ checked'[k] + Cardinality(Pending(k)') <= Limit(k)
    BY <2>2, <2>3
  <2>5. QED
    BY <2>4 DEF PlacesTaken, Limit
<1>5. ASSUME NEW k \in Keys, k \notin gone
      PROVE  PlacesTaken(k)'
  <2>1. Pending(k)' \subseteq Pending(k)
    BY <1>2 DEF Pending
  <2>2. checked'[k] = checked[k] /\ counter'[k].n >= counter[k].n
    BY <1>1, <1>5
  <2>3. QED
    BY <2>1, <2>2, PlacesKept
<1>6. QED
  BY <1>3, <1>4, <1>5

(***************************************************************************)
(* Lemma: an attempt takes its place in a counter before it goes on.       *)
(***************************************************************************)
LEMMA IncrKeepsPlaces ==
  ASSUME ThrottleAssumption, ThrottleInv, ThrottleTypeOK', NEW r \in Logins, Incr(r)
  PROVE  /\ \A q \in Logins : CountsInOrder(login'[q])
         /\ \A k \in Keys : PlacesTaken(k)'
<1>0. PICK key \in Keys : key = login[r].key
  BY DEF ThrottleInv, ThrottleTypeOK
<1> DEFINE above == login[r].blocked \/ Incremented(key).n > Limit(key)
<1>1. /\ login \in [Logins -> Login] /\ login[r] \in Login
      /\ counter \in [Keys -> [n : Nat, ttl : -1 .. WindowLength]]
      /\ login[r].at = "incr" /\ CountsInOrder(login[r])
  BY DEF ThrottleInv, ThrottleTypeOK, Login, Incr
<1>2. login' = [login EXCEPT ![r] =
                  [login[r] EXCEPT !.at = IF Incremented(key).n = 1 THEN "expire" ELSE "ttl",
                                   !.blocked = above,
                                   !.countedIn = login[r].countedIn \cup {key}]]
  BY <1>0, Zenon DEF Incr
<1>3. counter' = [counter EXCEPT ![key] = Incremented(key)] /\ checked' = checked
  BY <1>0 DEF Incr
<1> HIDE DEF above
<1>4. /\ \A q \in Logins : q # r => login'[q] = login[q]
      /\ login'[r].at \in {"ttl", "expire"} /\ login'[r].key = key
      /\ login'[r].blocked = above
      /\ login'[r].countedIn = login[r].countedIn \cup {key}
  BY <1>0, <1>1, <1>2 DEF Login
<1>5. CountsInOrder(login'[r])
  <2>1. key # Ip => login[r].countedIn = {}
    BY <1>0, <1>1 DEF CountsInOrder
  <2>2. QED
    BY <1>4, <2>1 DEF CountsInOrder
<1>6. \A q \in Logins : CountsInOrder(login'[q])
  BY <1>4, <1>5 DEF ThrottleInv
<1>7. key \notin login[r].countedIn
  BY <1>0, <1>1 DEF CountsInOrder
<1>8. /\ Limit(key) \in Nat /\ counter[key].n \in Nat /\ checked[key] \in Nat
      /\ Incremented(key).n = IF counter[key].n <= Limit(key) THEN counter[key].n + 1
                              ELSE counter[key].n
  BY <1>1, CountStops DEF ThrottleInv, ThrottleTypeOK
<1>9. above => \A k \in Keys : r \notin Pending(k)'
  BY <1>4 DEF Pending
<1>10. ~above => ~login[r].blocked /\ Incremented(key).n <= Limit(key)
  BY <1>8 DEF above
<1>11. ASSUME NEW k \in Keys, k # key
       PROVE  PlacesTaken(k)'
  <2>1. r \in Pending(k)' => r \in Pending(k)
    BY <1>1, <1>4, <1>9, <1>10, <1>11 DEF Pending
  <2>2. Pending(k)' \subseteq Pending(k)
    BY <1>4, <2>1, NoMorePending
  <2>3. checked'[k] = checked[k] /\ counter'[k].n >= counter[k].n
    BY <1>1, <1>3, <1>11
  <2>4. QED
    BY <2>2, <2>3, PlacesKept
<1>12. CASE above
  <2>1. Pending(key)' \subseteq Pending(key)
    BY <1>1, <1>4, <1>9, <1>12, NoMorePending
  <2>2. checked'[key] = checked[key] /\ counter'[key].n >= counter[key].n
    BY <1>1, <1>3, <1>8
  <2>3. PlacesTaken(key)'
    BY <1>1, <2>1, <2>2, PlacesKept
  <2>4. QED
    BY <1>6, <1>11, <2>3
<1>13. CASE ~above
  <2>1. IsFiniteSet(Pending(key)) /\ Cardinality(Pending(key)) \in Nat
    <3>1. Pending(key) \subseteq Logins
      BY DEF Pending
    <3>2. QED
      BY <3>1, FS_Subset, FS_CardinalityType DEF ThrottleAssumption
  <2>2. r \notin Pending(key)
    BY <1>7 DEF Pending
  <2>3. Pending(key)' \subseteq Pending(key) \cup {r}
    BY <1>4 DEF Pending
  <2>4. /\ IsFiniteSet(Pending(key) \cup {r})
        /\ Cardinality(Pending(key) \cup {r}) = Cardinality(Pending(key)) + 1
    BY <2>1, <2>2, FS_AddElement
  <2>5. /\ Cardinality(Pending(key)') <= Cardinality(Pending(key)) + 1
        /\ Cardinality(Pending(key)') \in Nat
    BY <2>3, <2>4, FS_Subset, FS_CardinalityType
  <2>6. checked[key] + Cardinality(Pending(key)) <= counter[key].n
    BY <1>1 DEF ThrottleInv, PlacesTaken
  <2>7. counter'[key].n = counter[key].n + 1 /\ counter[key].n + 1 <= Limit(key)
    BY <1>1, <1>3, <1>8, <1>10, <1>13
  <2>8. /\ checked'[key] + Cardinality(Pending(key)') <= counter'[key].n
        /\ checked'[key] + Cardinality(Pending(key)') <= Limit(key)
    BY <1>3, <1>8, <2>1, <2>5, <2>6, <2>7
  <2>9. PlacesTaken(key)'
    BY <2>8 DEF PlacesTaken, Limit
  <2>10. QED
    BY <1>6, <1>11, <2>9
<1>14. QED
  BY <1>12, <1>13

(***************************************************************************)
(* Lemma: a password check turns a place taken into a check done.          *)
(***************************************************************************)
LEMMA CheckKeepsPlaces ==
  ASSUME ThrottleAssumption, ThrottleInv, ThrottleTypeOK', NEW r \in Logins,
         NEW outcome \in {"right", "wrong"}, CheckPassword(r, outcome)
  PROVE  /\ \A q \in Logins : CountsInOrder(login'[q])
         /\ \A k \in Keys : PlacesTaken(k)'
<1>1. /\ login \in [Logins -> Login] /\ login[r] \in Login
      /\ login[r].at = "check" /\ CountsInOrder(login[r]) /\ checked \in [Keys -> Nat]
  BY DEF ThrottleInv, ThrottleTypeOK, Login, CheckPassword
<1>2. /\ \A q \in Logins : q # r => login'[q] = login[q]
      /\ \/ login'[r].countedIn = {}
         \/ /\ login'[r].at = "reset" /\ login'[r].key = login[r].key
            /\ login'[r].blocked = login[r].blocked
            /\ login'[r].countedIn = login[r].countedIn
  BY <1>1 DEF CheckPassword, NoLogin, Login
<1>3. /\ counter' = counter
      /\ \A k \in Keys : checked'[k] = checked[k] + (IF k \in login[r].countedIn THEN 1 ELSE 0)
  BY <1>1 DEF CheckPassword
<1>4. CountsInOrder(login'[r]) /\ \A k \in Keys : r \notin Pending(k)'
  BY <1>1, <1>2 DEF CountsInOrder, Pending
<1>5. \A q \in Logins : CountsInOrder(login'[q])
  BY <1>2, <1>4 DEF ThrottleInv
<1>6. ASSUME NEW k \in Keys, k \notin login[r].countedIn
      PROVE  PlacesTaken(k)'
  <2>1. Pending(k)' \subseteq Pending(k)
    BY <1>2, <1>4, NoMorePending
  <2>2. checked'[k] = checked[k] /\ counter'[k].n >= counter[k].n
    BY <1>1, <1>3, <1>6, CountStops DEF ThrottleInv
  <2>3. QED
    BY <2>1, <2>2, PlacesKept
<1>7. ASSUME NEW k \in Keys, k \in login[r].countedIn
      PROVE  PlacesTaken(k)'
  <2>1. r \in Pending(k)
    BY <1>1, <1>7 DEF CountsInOrder, Pending
  <2>2. IsFiniteSet(Pending(k))
    <3>1. Pending(k) \subseteq Logins
      BY DEF Pending
    <3>2. QED
      BY <3>1, FS_Subset DEF ThrottleAssumption
  <2>3. Pending(k)' \subseteq Pending(k) \ {r}
    BY <1>2, <1>4 DEF Pending
  <2>4. /\ IsFiniteSet(Pending(k) \ {r})
        /\ Cardinality(Pending(k) \ {r}) = Cardinality(Pending(k)) - 1
    BY <2>1, <2>2, FS_RemoveElement
  <2>5. /\ Cardinality(Pending(k)') <= Cardinality(Pending(k)) - 1
        /\ Cardinality(Pending(k)') \in Nat /\ Cardinality(Pending(k)) \in Nat
    BY <2>2, <2>3, <2>4, FS_Subset, FS_CardinalityType
  <2>6. /\ checked[k] + Cardinality(Pending(k)) <= counter[k].n
        /\ checked[k] + Cardinality(Pending(k)) <= Limit(k)
    BY DEF ThrottleInv, PlacesTaken
  <2>7. /\ checked[k] \in Nat /\ counter[k].n \in Nat /\ Limit(k) \in Nat
        /\ checked'[k] = checked[k] + 1 /\ counter'[k].n = counter[k].n
    BY <1>1, <1>3, <1>7, CountStops DEF ThrottleInv
  <2>8. /\ checked'[k] + Cardinality(Pending(k)') <= counter'[k].n
        /\ checked'[k] + Cardinality(Pending(k)') <= Limit(k)
    BY <2>5, <2>6, <2>7
  <2>9. QED
    BY <2>8 DEF PlacesTaken, Limit
<1>8. QED
  BY <1>5, <1>6, <1>7

(***************************************************************************)
(* Lemma: a step of one attempt that checks nothing and counts nothing for *)
(* it, keeps what the counters know.                                       *)
(***************************************************************************)
LEMMA OthersKeepPlaces ==
  ASSUME ThrottleAssumption, ThrottleInv, ThrottleTypeOK', NEW r \in Logins,
         \A q \in Logins : q # r => login'[q] = login[q],
         \/ login'[r].countedIn = {}
         \/ /\ login'[r].countedIn = login[r].countedIn
            /\ login'[r].blocked = login[r].blocked
            /\ login'[r].at \in {"incr", "ttl", "expire", "check"} =>
                 login[r].at \in {"incr", "ttl", "expire", "check"}
            /\ CountsInOrder(login'[r]),
         checked' = checked,
         \A k \in Keys : counter'[k].n >= counter[k].n
  PROVE  /\ \A q \in Logins : CountsInOrder(login'[q])
         /\ \A k \in Keys : PlacesTaken(k)'
<1>1. CountsInOrder(login'[r]) /\ \A k \in Keys : r \in Pending(k)' => r \in Pending(k)
  BY GivenUp DEF Pending
<1>2. \A q \in Logins : CountsInOrder(login'[q])
  BY <1>1 DEF ThrottleInv
<1>3. ASSUME NEW k \in Keys
      PROVE  PlacesTaken(k)'
  <2>1. Pending(k)' \subseteq Pending(k)
    BY <1>1, NoMorePending
  <2>2. QED
    BY <2>1, PlacesKept
<1>4. QED
  BY <1>2, <1>3

(***************************************************************************)
(* Lemma: after a hit an attempt is in order.                              *)
(***************************************************************************)
LEMMA AfterHitInOrder ==
  ASSUME ThrottleAssumption, ThrottleInv, NEW r \in Logins, login' = AfterHit(r),
         login[r].at \in {"ttl", "expire"}
  PROVE  /\ \A q \in Logins : q # r => login'[q] = login[q]
         /\ \/ login'[r].countedIn = {}
            \/ /\ login'[r].countedIn = login[r].countedIn
               /\ login'[r].blocked = login[r].blocked
               /\ CountsInOrder(login'[r])
<1>1. ThrottleTypeOK /\ CountsInOrder(login[r])
  BY DEF ThrottleInv
<1>2. QED
  BY <1>1, AfterHitGoes DEF CountsInOrder

(***************************************************************************)
(* Lemma: every step keeps the invariant.                                  *)
(***************************************************************************)
LEMMA ThrottleStep ==
  ASSUME ThrottleAssumption, ThrottleInv, [ThrottleNext]_throttleVars
  PROVE  ThrottleInv'
<1>0. ThrottleTypeOK /\ ThrottleTypeOK' /\ \A q \in Logins : CountsInOrder(login[q])
  BY ThrottleTypes DEF ThrottleInv
<1>1. /\ counter \in [Keys -> [n : Nat, ttl : -1 .. WindowLength]]
      /\ login \in [Logins -> Login] /\ checked \in [Keys -> Nat]
      /\ \A k \in Keys : counter[k].n \in Nat /\ counter[k].n >= counter[k].n
      /\ \A q \in Logins : login[q].key \in Keys /\ login[q].email \in Keys
  BY <1>0 DEF ThrottleTypeOK, Login, Keys
<1>2. SUFFICES /\ \A q \in Logins : CountsInOrder(login'[q])
               /\ \A k \in Keys : PlacesTaken(k)'
  BY <1>0 DEF ThrottleInv
<1>3. \A k \in Keys : Bounded(k).n = counter[k].n /\ Incremented(k).n >= counter[k].n
  BY <1>0, <1>1, CountStops DEF Bounded
<1> DEFINE Goal == /\ \A q \in Logins : CountsInOrder(login'[q])
                   /\ \A k \in Keys : PlacesTaken(k)'
<1>4. ASSUME NEW r \in Logins, NEW e \in Emails, Request(r, e)
      PROVE  Goal
  <2>1. /\ \A q \in Logins : q # r => login'[q] = login[q]
        /\ login'[r].countedIn = {} /\ checked' = checked /\ counter' = counter
    BY <1>1, <1>4 DEF Request, NoLogin, Login
  <2>2. QED
    BY <1>0, <1>1, <2>1, OthersKeepPlaces
<1>5. ASSUME NEW r \in Logins, Incr(r)
      PROVE  Goal
  BY <1>0, <1>5, IncrKeepsPlaces
<1>6. ASSUME NEW r \in Logins, ReadTtl(r)
      PROVE  Goal
  <2>1. login[r].at = "ttl" /\ checked' = checked /\ counter' = counter
    BY <1>6 DEF ReadTtl
  <2>2. CASE login' = AfterHit(r)
    <3>1. /\ \A q \in Logins : q # r => login'[q] = login[q]
          /\ \/ login'[r].countedIn = {}
             \/ /\ login'[r].countedIn = login[r].countedIn
                /\ login'[r].blocked = login[r].blocked
                /\ CountsInOrder(login'[r])
      BY <2>1, <2>2, AfterHitInOrder
    <3>2. QED
      BY <1>0, <1>1, <2>1, <3>1, OthersKeepPlaces
  <2>3. CASE MoveTo(r, "expire")
    <3>1. /\ \A q \in Logins : q # r => login'[q] = login[q]
          /\ login'[r].countedIn = login[r].countedIn /\ login'[r].key = login[r].key
          /\ login'[r].blocked = login[r].blocked /\ login'[r].at = "expire"
      BY <1>1, <2>3 DEF MoveTo, Login
    <3>2. CountsInOrder(login'[r])
      BY <1>0, <2>1, <3>1 DEF CountsInOrder
    <3>3. QED
      BY <1>0, <1>1, <2>1, <3>1, <3>2, OthersKeepPlaces
  <2>4. QED
    BY <1>6, <2>2, <2>3 DEF ReadTtl
<1>7. ASSUME NEW r \in Logins, Expire(r)
      PROVE  Goal
  <2>1. /\ login[r].at = "expire" /\ checked' = checked /\ login' = AfterHit(r)
        /\ counter' = [counter EXCEPT ![login[r].key] = Bounded(login[r].key)]
    BY <1>7 DEF Expire
  <2>2. \A k \in Keys : counter'[k].n >= counter[k].n
    BY <1>1, <1>3, <2>1
  <2>3. /\ \A q \in Logins : q # r => login'[q] = login[q]
        /\ \/ login'[r].countedIn = {}
           \/ /\ login'[r].countedIn = login[r].countedIn
              /\ login'[r].blocked = login[r].blocked
              /\ CountsInOrder(login'[r])
    BY <2>1, AfterHitInOrder
  <2>4. QED
    BY <1>0, <2>1, <2>2, <2>3, OthersKeepPlaces
<1>8. ASSUME NEW r \in Logins, NEW outcome \in {"right", "wrong"}, CheckPassword(r, outcome)
      PROVE  Goal
  BY <1>0, <1>8, CheckKeepsPlaces
<1>9. ASSUME NEW r \in Logins, ThrottleReset(r)
      PROVE  Goal
  <2>1. PICK key \in Keys : key = login[r].email
    BY <1>1
  <2>2. \A q \in Logins : \/ login'[q].countedIn = {}
                          \/ login'[q] = [login[q] EXCEPT !.countedIn = @ \ {key}]
    BY <1>9, <2>1 DEF ThrottleReset, NoLogin
  <2>3. \A k \in Keys : IF k \in {key} THEN checked'[k] = 0
                        ELSE checked'[k] = checked[k] /\ counter'[k].n = counter[k].n
    BY <1>1, <1>9, <2>1 DEF ThrottleReset
  <2>4. QED
    BY <1>0, <2>2, <2>3, Ended
<1>10. ASSUME NEW r \in Logins, RedisFails(r)
       PROVE  Goal
  <2>1. /\ \A q \in Logins : q # r => login'[q] = login[q]
        /\ login'[r].countedIn = {} /\ checked' = checked
    BY <1>1, <1>10 DEF RedisFails, Unthrottled, NoLogin, Login
  <2>2. \A k \in Keys : counter'[k].n >= counter[k].n
    BY <1>1, <1>3, <1>10 DEF RedisFails
  <2>3. QED
    BY <1>0, <2>1, <2>2, OthersKeepPlaces
<1>11. ASSUME NEW r \in Logins, Crash(r)
       PROVE  Goal
  <2>1. /\ \A q \in Logins : q # r => login'[q] = login[q]
        /\ login'[r].countedIn = {} /\ checked' = checked /\ counter' = counter
    BY <1>1, <1>11 DEF Crash, NoLogin
  <2>2. QED
    BY <1>0, <1>1, <2>1, OthersKeepPlaces
<1>12. ASSUME Tick
       PROVE  Goal
  <2>1. PICK gone \in SUBSET Keys : gone = {k \in Keys : counter[k].ttl = 1}
    OBVIOUS
  <2>2. \A q \in Logins : login'[q] = [login[q] EXCEPT !.countedIn = @ \ gone]
    BY <1>12, <2>1 DEF Tick, Forgotten
  <2>3. \A k \in Keys : IF k \in gone THEN checked'[k] = 0
                        ELSE checked'[k] = checked[k] /\ counter'[k].n = counter[k].n
    BY <1>1, <1>12, <2>1 DEF Tick, Forgotten
  <2>4. QED
    BY <1>0, <2>2, <2>3, Ended
<1>13. CASE UNCHANGED throttleVars
  BY <1>0, <1>13 DEF throttleVars, ThrottleInv, PlacesTaken, Pending, CountsInOrder, Limit
<1>14. QED
  BY <1>4, <1>5, <1>6, <1>7, <1>8, <1>9, <1>10, <1>11, <1>12, <1>13 DEF ThrottleNext, Step

(***************************************************************************)
(* Lemma: no attempt has begun, no counter exists.                         *)
(***************************************************************************)
LEMMA ThrottleStarts ==
  ASSUME ThrottleAssumption, ThrottleInit
  PROVE  ThrottleInv
<1>1. \A k \in Keys : Limit(k) \in Nat
  BY DEF ThrottleAssumption, Limit
<1>2. (CHOOSE e \in Emails : TRUE) \in Emails
  BY DEF ThrottleAssumption
<1>3. Unset \in [n : Nat, ttl : -1 .. WindowLength] /\ Unset.n = 0
  BY DEF Unset, Forever, ThrottleAssumption
<1>4. \A r \in Logins : login[r] \in Login /\ login[r].countedIn = {} /\ login[r].at = "idle"
  BY <1>2 DEF ThrottleInit, NoLogin, Login, Keys
<1>5. ThrottleTypeOK
  BY <1>1, <1>3, <1>4 DEF ThrottleTypeOK, ThrottleInit, Login, ThrottleAssumption
<1>6. \A r \in Logins : CountsInOrder(login[r])
  BY <1>4 DEF CountsInOrder
<1>7. ASSUME NEW k \in Keys
      PROVE  PlacesTaken(k)
  <2>1. Pending(k) = {}
    BY <1>4 DEF Pending
  <2>2. Cardinality(Pending(k)) = 0
    BY <2>1, FS_EmptySet
  <2>3. QED
    BY <1>1, <1>3, <2>2 DEF ThrottleInit, PlacesTaken
<1>8. QED
  BY <1>5, <1>6, <1>7 DEF ThrottleInv

(***************************************************************************)
(* Parallel logins do not slip through between the check and the count:    *)
(* of the attempts that a counter counted no more than its limit reach a   *)
(* password check, however many there are, whatever Redis loses and        *)
(* whoever dies (auth.py:154, _throttle_attempt).                          *)
(***************************************************************************)
THEOREM GuessesAlwaysBounded ==
  ASSUME ThrottleAssumption
  PROVE  ThrottleSpec => [](ThrottleTypeOK /\ GuessesAreBounded)
<1>1. ThrottleInit => ThrottleInv
  BY ThrottleStarts
<1>2. ThrottleInv /\ [ThrottleNext]_throttleVars => ThrottleInv'
  BY ThrottleStep
<1>3. ThrottleInv => ThrottleTypeOK /\ GuessesAreBounded
  <2> SUFFICES ASSUME ThrottleInv, NEW k \in Keys
               PROVE  checked[k] <= Limit(k)
    BY DEF ThrottleInv, GuessesAreBounded
  <2>1. Pending(k) \subseteq Logins
    BY DEF Pending
  <2>2. Cardinality(Pending(k)) \in Nat
    BY <2>1, FS_Subset, FS_CardinalityType DEF ThrottleAssumption
  <2>3. checked[k] \in Nat /\ Limit(k) \in Nat
    BY CountStops DEF ThrottleInv, ThrottleTypeOK
  <2>4. checked[k] + Cardinality(Pending(k)) <= Limit(k)
    BY DEF ThrottleInv, PlacesTaken
  <2>5. QED
    BY <2>2, <2>3, <2>4
<1>4. QED
  BY <1>1, <1>2, <1>3, PTL DEF ThrottleSpec
=============================================================================
