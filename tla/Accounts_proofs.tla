--------------------------- MODULE Accounts_proofs ---------------------------
(***************************************************************************)
(* What the requests of the user management do to the accounts, whoever    *)
(* else locks and changes them: lemmas for the theorems about Sessions and *)
(* EventStreams, whose steps happen beside these.                          *)
(***************************************************************************)
EXTENDS Accounts, TLAPS

USE AccountsAssumption

-----------------------------------------------------------------------------
\* The types, with the requests of another module that may hold a row, too.
AccountsTyped(Others) ==
  AccountsTypeOK /\ rowLock \in [Users -> Others \cup Edits \cup {NoRequest}]

\* A request that is to write a row holds its lock, so that the row still is as
\* it was read, and an ADMIN's row is being written for an ADMIN.
EditLocked(e) ==
  LET u == edit[e].target IN
  /\ rowLock[u] = e
  /\ Registered(u)
  /\ account[u].ver = edit[e].seen
  /\ account[u].role = "ADMIN" => edit[e].role = "ADMIN"

EditsLocked == \A e \in Edits : edit[e].phase = "write" => EditLocked(e)

-----------------------------------------------------------------------------
(***************************************************************************)
(* Lemma: in the beginning the accounts are typed and nothing is locked.   *)
(***************************************************************************)
LEMMA AccountsStart ==
  ASSUME AccountsInit, NEW Others
  PROVE  AccountsTyped(Others) /\ EditsLocked
<1>1. NoEdit \in Edit /\ NoEdit.phase = "idle"
  BY DEF NoEdit, Edit, Phases, Roles
<1>2. \A u \in Users, role \in Roles : NewAccount(role, u \in Bootstrapped) \in Account
  <2> SUFFICES ASSUME NEW u \in Users, NEW role \in Roles
               PROVE  NewAccount(role, u \in Bootstrapped) \in Account
      OBVIOUS
  <2> DEFINE must == u \in Bootstrapped
  <2>1. must \in BOOLEAN
    OBVIOUS
  <2> HIDE DEF must
  <2>2. NewAccount(role, must) \in Account
    BY <2>1 DEF NewAccount, Account
  <2>3. QED
    BY <2>2 DEF must
<1>3. account \in [Users -> Account \cup {NoAccount}]
  <2>1. \A u \in Users : account[u] \in Account \cup {NoAccount}
    BY <1>2 DEF AccountsInit, Roles
  <2>2. QED
    BY <2>1 DEF AccountsInit
<1>4. QED
  BY <1>1, <1>3 DEF AccountsInit, AccountsTyped, AccountsTypeOK, EditsLocked

(***************************************************************************)
(* Lemma: the end of a request releases its locks and no other.            *)
(***************************************************************************)
LEMMA ReleasedLocks ==
  ASSUME NEW Others, rowLock \in [Users -> Others \cup Edits \cup {NoRequest}], NEW x,
         rowLock' = [u \in Users |-> IF rowLock[u] = x THEN NoRequest ELSE rowLock[u]]
  PROVE  /\ rowLock' \in [Users -> Others \cup Edits \cup {NoRequest}]
         /\ \A u \in Users : rowLock[u] # x => rowLock'[u] = rowLock[u]
OBVIOUS

(***************************************************************************)
(* Lemma: what the authentication of a request records.                    *)
(***************************************************************************)
LEMMA AuthenticatedEdit ==
  ASSUME edit \in [Edits -> Edit], NEW e \in Edits, NEW u \in Users, NEW phase \in Phases,
         account[u].role \in Roles, Authenticate(e, u, phase, "users")
  PROVE  /\ edit' \in [Edits -> Edit]
         /\ edit'[e].phase = phase
         /\ \A d \in Edits \ {e} : edit'[d] = edit[d]
<1>1. edit'[e] = [edit[e] EXCEPT !.phase = phase, !.operator = u, !.role = account[u].role]
  BY DEF Authenticate
<1>2. edit'[e] \in Edit /\ edit'[e].phase = phase
  BY <1>1 DEF Edit
<1>3. \A d \in Edits \ {e} : edit'[d] = edit[d]
  BY DEF Authenticate
<1>4. edit' = [d \in Edits |-> edit'[d]]
  BY DEF Authenticate
<1>5. QED
  BY <1>2, <1>3, <1>4

(***************************************************************************)
(* Lemma: what a request records of the row it locked.                     *)
(***************************************************************************)
LEMMA LockedEdit ==
  ASSUME edit \in [Edits -> Edit], NEW e \in Edits, NEW u \in Users,
         account[u].ver \in 0 .. MaxVersion, LockTarget(e, u)
  PROVE  /\ edit' \in [Edits -> Edit]
         /\ edit'[e].phase = "write"
         /\ edit'[e].target = u
         /\ edit'[e].seen = account[u].ver
         /\ edit'[e].role = edit[e].role
         /\ \A d \in Edits \ {e} : edit'[d] = edit[d]
<1>1. edit'[e] = [edit[e] EXCEPT !.phase = "write", !.target = u, !.seen = account[u].ver]
  BY DEF LockTarget
<1>2. edit'[e] \in Edit
  BY <1>1 DEF Edit, Phases
<1>3. /\ edit'[e].phase = "write"
      /\ edit'[e].target = u
      /\ edit'[e].seen = account[u].ver
      /\ edit'[e].role = edit[e].role
  BY <1>1 DEF Edit
<1>4. \A d \in Edits \ {e} : edit'[d] = edit[d]
  BY DEF LockTarget
<1>5. edit' = [d \in Edits |-> edit'[d]]
  BY DEF LockTarget
<1>6. QED
  BY <1>2, <1>3, <1>4, <1>5

(***************************************************************************)
(* Lemma: what the commit of a change does to the row it locked.           *)
(***************************************************************************)
LEMMA CommittedRow ==
  ASSUME account \in [Users -> Account \cup {NoAccount}], edit \in [Edits -> Edit],
         NEW e \in Edits, NEW role \in Roles, NEW active \in BOOLEAN, NEW reset \in BOOLEAN,
         Registered(edit[e].target), CommitEdit(e, role, active, reset)
  PROVE  LET u == edit[e].target
             revoke == Revokes(account[u], role, active, reset) IN
         /\ account' \in [Users -> Account \cup {NoAccount}]
         /\ account'[u] \in Account
         /\ account'[u].role = role
         /\ account'[u].active = active
         /\ account'[u].password = IF reset THEN account[u].password + 1 ELSE account[u].password
         /\ account'[u].ver = IF revoke THEN edit[e].seen + 1 ELSE account[u].ver
         /\ \A v \in Users \ {u} : account'[v] = account[v]
<1> DEFINE u == edit[e].target
           row == account[u]
           password == IF reset THEN row.password + 1 ELSE row.password
           revoke == Revokes(row, role, active, reset)
           ver == IF revoke THEN edit[e].seen + 1 ELSE row.ver
<1>1. u \in Users /\ edit[e].seen \in 0 .. MaxVersion
  BY DEF Edit
<1>2. row \in Account
  BY <1>1 DEF Registered
<1>3. password \in Nat
  BY <1>2 DEF Account
<1>4. ver \in 0 .. MaxVersion
  BY <1>1, <1>2 DEF CommitEdit, Bumpable, Account
<1>5. account' = [account EXCEPT ![u] = [row EXCEPT !.role = role, !.active = active,
                                                  !.password = password, !.ver = ver]]
  BY <1>2 DEF CommitEdit, Account
<1> DEFINE new == [row EXCEPT !.role = role, !.active = active, !.password = password, !.ver = ver]
<1> HIDE DEF password, ver
<1>6. new \in Account /\ new.role = role /\ new.active = active
      /\ new.password = password /\ new.ver = ver
  BY <1>2, <1>3, <1>4 DEF Account
<1> HIDE DEF new
<1>7. account'[u] = new /\ \A v \in Users \ {u} : account'[v] = account[v]
  BY <1>1, <1>5 DEF new
<1>8. account' \in [Users -> Account \cup {NoAccount}]
  BY <1>1, <1>5, <1>6 DEF new
<1>9. QED
  BY <1>6, <1>7, <1>8 DEF password, ver

(***************************************************************************)
(* Lemma: the requests of the user management keep the types.              *)
(***************************************************************************)
LEMMA EditTyped ==
  ASSUME NEW Others, AccountsTyped(Others), EditsLocked, NEW e \in Edits, EditStep(e)
  PROVE  AccountsTyped(Others)'
<1>1. NoEdit \in Edit
  BY DEF NoEdit, Edit, Phases, Roles
<1>2. edit \in [Edits -> Edit] /\ account \in [Users -> Account \cup {NoAccount}]
      /\ granted \subseteq Rights
      /\ rowLock \in [Users -> Others \cup Edits \cup {NoRequest}]
  BY DEF AccountsTyped, AccountsTypeOK
<1> DEFINE Typed == /\ edit' \in [Edits -> Edit]
                    /\ account' \in [Users -> Account \cup {NoAccount}]
                    /\ granted' \subseteq Rights
                    /\ rowLock' \in [Users -> Others \cup Edits \cup {NoRequest}]
<1>3. ASSUME NEW u \in Users, NEW phase \in Phases, Authenticate(e, u, phase, "users")
      PROVE  Typed
  <2>1. account[u].role \in Roles
    BY <1>2, <1>3 DEF Authenticate, Active, Registered, Account
  <2>2. edit' \in [Edits -> Edit]
    BY <1>2, <1>3, <2>1, AuthenticatedEdit
  <2>3. QED
    BY <1>2, <1>3, <2>2 DEF Authenticate
<1>4. ASSUME NEW u \in Users, NEW role \in Roles, CreateUser(e, u, role)
      PROVE  Typed
  <2>1. NewAccount(role, FALSE) \in Account
    BY DEF NewAccount, Account
  <2>2. QED
    BY <1>1, <1>2, <1>4, <2>1 DEF CreateUser
<1>5. ASSUME NEW u \in Users, LockTarget(e, u)
      PROVE  Typed
  <2>1. account[u].ver \in 0 .. MaxVersion
    BY <1>2, <1>5 DEF LockTarget, Registered, Account
  <2>2. edit' \in [Edits -> Edit]
    BY <1>2, <1>5, <2>1, LockedEdit
  <2>3. QED
    BY <1>2, <1>5, <2>2 DEF LockTarget
<1>6. ASSUME NEW role \in Roles, NEW active \in BOOLEAN, NEW reset \in BOOLEAN,
             CommitEdit(e, role, active, reset)
      PROVE  Typed
  <2>1. edit[e].phase = "write"
    BY <1>6 DEF CommitEdit
  <2>2. Registered(edit[e].target)
    BY <2>1 DEF EditsLocked, EditLocked
  <2>3. account' \in [Users -> Account \cup {NoAccount}]
    BY <1>2, <1>6, <2>2, CommittedRow
  <2>4. rowLock' \in [Users -> Others \cup Edits \cup {NoRequest}]
    BY <1>2, <1>6, ReleasedLocks DEF CommitEdit, ReleaseRows
  <2>5. edit' \in [Edits -> Edit]
    BY <1>1, <1>2, <1>6 DEF CommitEdit
  <2>6. granted' = granted
    BY <1>6 DEF CommitEdit
  <2>7. QED
    BY <1>2, <2>3, <2>4, <2>5, <2>6
<1>7. ASSUME NEW right \in Patches, NEW on \in BOOLEAN, MergeRights(e, right, on)
      PROVE  Typed
  BY <1>1, <1>2, <1>7 DEF MergeRights
<1>8. ASSUME AbandonEdit(e)
      PROVE  Typed
  BY <1>1, <1>2, <1>8, ReleasedLocks DEF AbandonEdit, ReleaseRows
<1>9. Typed
  BY <1>3, <1>4, <1>5, <1>6, <1>7, <1>8 DEF EditStep, AuthenticateAdmin, Phases
<1>10. QED
  BY <1>9 DEF AccountsTyped, AccountsTypeOK

-----------------------------------------------------------------------------
(***************************************************************************)
(* What every step of request x does to the accounts: a row keeps its      *)
(* version and what the version signs, or it moves to the next version;    *)
(* and a row somebody else has locked stays as it is.                      *)
(***************************************************************************)
RowMoves(u) ==
  \/ account'[u].ver = account[u].ver /\ Signed(u)' = Signed(u)
  \/ account'[u].ver = account[u].ver + 1

RowsMove(x) ==
  \A u \in Users : Registered(u) =>
    /\ Registered(u)'
    /\ RowMoves(u)
    /\ rowLock[u] \notin {x, NoRequest} => rowLock'[u] = rowLock[u] /\ account'[u] = account[u]

(***************************************************************************)
(* Lemma: a step that leaves the accounts alone moves no row.              *)
(***************************************************************************)
LEMMA SameRows ==
  ASSUME NEW x, account' = account,
         \A u \in Users : rowLock[u] \notin {x, NoRequest} => rowLock'[u] = rowLock[u]
  PROVE  RowsMove(x)
BY DEF RowsMove, RowMoves, Registered, Signed

(***************************************************************************)
(* Lemma: the requests of the user management move rows as they should.    *)
(***************************************************************************)
LEMMA EditMovesRows ==
  ASSUME NEW Others, AccountsTyped(Others), EditsLocked, NEW e \in Edits, EditStep(e)
  PROVE  RowsMove(e)
<1>1. /\ edit \in [Edits -> Edit] /\ account \in [Users -> Account \cup {NoAccount}]
      /\ rowLock \in [Users -> Others \cup Edits \cup {NoRequest}]
  BY DEF AccountsTyped, AccountsTypeOK
<1>2. ASSUME NEW u \in Users, NEW phase \in Phases, Authenticate(e, u, phase, "users")
      PROVE  RowsMove(e)
  BY <1>2, SameRows DEF Authenticate
<1>3. ASSUME NEW u \in Users, NEW role \in Roles, CreateUser(e, u, role)
      PROVE  RowsMove(e)
  <2>1. ~Registered(u) /\ rowLock' = rowLock
    BY <1>3 DEF CreateUser
  <2>2. \A v \in Users \ {u} : account'[v] = account[v]
    BY <1>1, <1>3 DEF CreateUser
  <2>3. QED
    BY <2>1, <2>2 DEF RowsMove, RowMoves, Registered, Signed
<1>4. ASSUME NEW u \in Users, LockTarget(e, u)
      PROVE  RowsMove(e)
  <2>1. \A v \in Users : rowLock[v] # NoRequest => rowLock'[v] = rowLock[v]
    BY <1>1, <1>4 DEF LockTarget, RowFree
  <2>2. account' = account
    BY <1>4 DEF LockTarget
  <2>3. QED
    BY <2>1, <2>2, SameRows
<1>5. ASSUME NEW role \in Roles, NEW active \in BOOLEAN, NEW reset \in BOOLEAN,
             CommitEdit(e, role, active, reset)
      PROVE  RowsMove(e)
  <2>0. PICK u \in Users : u = edit[e].target
    BY <1>1 DEF Edit
  <2>1. edit[e].phase = "write"
    BY <1>5 DEF CommitEdit
  <2>2. EditLocked(e)
    BY <2>1 DEF EditsLocked
  <2>3. rowLock[u] = e /\ Registered(u) /\ account[u].ver = edit[e].seen
    BY <2>0, <2>2 DEF EditLocked
  <2>4. /\ account'[u] \in Account
        /\ account'[u].role = role /\ account'[u].active = active
        /\ account'[u].password = IF reset THEN account[u].password + 1 ELSE account[u].password
        /\ account'[u].ver = IF Revokes(account[u], role, active, reset)
                             THEN edit[e].seen + 1 ELSE account[u].ver
        /\ \A v \in Users \ {u} : account'[v] = account[v]
    BY <1>1, <1>5, <2>0, <2>3, CommittedRow
  <2>5. \A v \in Users : rowLock[v] # e => rowLock'[v] = rowLock[v]
    BY <1>1, <1>5, ReleasedLocks DEF CommitEdit, ReleaseRows
  <2>6. RowMoves(u)
    <3>1. CASE Revokes(account[u], role, active, reset)
      BY <2>3, <2>4, <3>1 DEF RowMoves
    <3>2. CASE ~Revokes(account[u], role, active, reset)
      <4>1. role = account[u].role /\ active = account[u].active /\ ~reset
        BY <3>2 DEF Revokes
      <4>2. account'[u].ver = account[u].ver
        BY <2>4, <3>2
      <4>3. account'[u].password = account[u].password
        BY <2>4, <4>1
      <4>4. QED
        BY <2>4, <4>1, <4>2, <4>3 DEF RowMoves, Signed
    <3>3. QED
      BY <3>1, <3>2
  <2>7. Registered(u)'
    BY <2>4 DEF Registered
  <2>8. \A v \in Users \ {u} : Registered(v) => Registered(v)' /\ RowMoves(v)
    BY <2>4 DEF Registered, RowMoves, Signed
  <2>9. QED
    BY <2>3, <2>4, <2>5, <2>6, <2>7, <2>8 DEF RowsMove
<1>6. ASSUME NEW right \in Patches, NEW on \in BOOLEAN, MergeRights(e, right, on)
      PROVE  RowsMove(e)
  BY <1>6, SameRows DEF MergeRights
<1>7. ASSUME AbandonEdit(e)
      PROVE  RowsMove(e)
  BY <1>1, <1>7, ReleasedLocks, SameRows DEF AbandonEdit, ReleaseRows
<1>8. QED
  BY <1>2, <1>3, <1>4, <1>5, <1>6, <1>7 DEF EditStep, AuthenticateAdmin, Phases

(***************************************************************************)
(* Lemma: a request moves on alone, and is about to write only a row it    *)
(* has just locked.                                                        *)
(***************************************************************************)
LEMMA EditMovesAlone ==
  ASSUME NEW Others, AccountsTyped(Others), NEW e \in Edits, EditStep(e)
  PROVE  /\ \A d \in Edits \ {e} : edit'[d] = edit[d]
         /\ edit'[e].phase = "write" => EditLocked(e)'
<1>1. /\ edit \in [Edits -> Edit] /\ account \in [Users -> Account \cup {NoAccount}]
      /\ rowLock \in [Users -> Others \cup Edits \cup {NoRequest}]
  BY DEF AccountsTyped, AccountsTypeOK
<1> DEFINE Alone == /\ \A d \in Edits \ {e} : edit'[d] = edit[d]
                    /\ edit'[e].phase = "write" => EditLocked(e)'
<1>2. ASSUME edit' = [edit EXCEPT ![e] = NoEdit]
      PROVE  Alone
  BY <1>1, <1>2 DEF NoEdit
<1>3. ASSUME NEW u \in Users, NEW phase \in {"create", "lock", "rights"},
             Authenticate(e, u, phase, "users")
      PROVE  Alone
  <2>1. account[u].role \in Roles
    BY <1>1, <1>3 DEF Authenticate, Active, Registered, Account
  <2>2. QED
    BY <1>1, <1>3, <2>1, AuthenticatedEdit DEF Phases
<1>4. ASSUME NEW u \in Users, LockTarget(e, u)
      PROVE  Alone
  <2>1. account[u].ver \in 0 .. MaxVersion
    BY <1>1, <1>4 DEF LockTarget, Registered, Account
  <2>2. /\ edit'[e].target = u /\ edit'[e].seen = account[u].ver
        /\ edit'[e].role = edit[e].role
        /\ \A d \in Edits \ {e} : edit'[d] = edit[d]
    BY <1>1, <1>4, <2>1, LockedEdit
  <2>3. /\ rowLock'[u] = e /\ account' = account /\ Registered(u)
        /\ account[u].role = "ADMIN" => edit[e].role = "ADMIN"
    BY <1>1, <1>4 DEF LockTarget, MayTouch
  <2>4. EditLocked(e)'
    BY <2>2, <2>3 DEF EditLocked, Registered
  <2>5. QED
    BY <2>2, <2>4
<1>5. QED
  BY <1>2, <1>3, <1>4 DEF EditStep, AuthenticateAdmin, CreateUser, CommitEdit, MergeRights,
                          AbandonEdit

(***************************************************************************)
(* Lemma: a step of x leaves what the others have locked as it was.        *)
(***************************************************************************)
LEMMA EditBystanders ==
  ASSUME AccountsTypeOK, EditsLocked, NEW x, RowsMove(x),
         NEW d \in Edits \ {x}, edit[d].phase = "write", edit'[d] = edit[d]
  PROVE  EditLocked(d)'
<1>1. EditLocked(d)
  BY DEF EditsLocked
<1>2. edit[d].target \in Users
  BY DEF AccountsTypeOK, Edit
<1>3. /\ rowLock'[edit[d].target] = rowLock[edit[d].target]
      /\ account'[edit[d].target] = account[edit[d].target]
  BY <1>1, <1>2 DEF EditLocked, RowsMove
<1>4. QED
  BY <1>1, <1>3 DEF EditLocked, Registered

(***************************************************************************)
(* Lemma: whoever is about to write a row holds its lock, whatever a       *)
(* request of the user management does.                                    *)
(***************************************************************************)
LEMMA EditKeepsEdits ==
  ASSUME NEW Others, AccountsTyped(Others), EditsLocked, NEW e \in Edits, EditStep(e)
  PROVE  EditsLocked'
<1>1. RowsMove(e) /\ AccountsTypeOK
  BY EditMovesRows DEF AccountsTyped
<1>2. \A d \in Edits : edit'[d].phase = "write" => EditLocked(d)'
  BY <1>1, EditMovesAlone, EditBystanders
<1>3. QED
  BY <1>2 DEF EditsLocked

(***************************************************************************)
(* Lemma: a version of an account that was read remains one of today or of *)
(* before, and one of before never comes back.                             *)
(***************************************************************************)
LEMMA VersionsGrow ==
  ASSUME AccountsTypeOK, NEW x, RowsMove(x), NEW u \in Users, Registered(u),
         NEW ver \in 0 .. MaxVersion, ver <= account[u].ver
  PROVE  /\ Registered(u)'
         /\ ver <= account'[u].ver
         /\ account[u].ver # ver => account'[u].ver # ver
<1>1. Registered(u)' /\ RowMoves(u)
  BY DEF RowsMove
<1>2. account[u].ver \in Nat
  BY DEF AccountsTypeOK, Registered, Account
<1>3. QED
  BY <1>1, <1>2 DEF RowMoves
=============================================================================
