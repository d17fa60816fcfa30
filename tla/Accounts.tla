------------------------------ MODULE Accounts ------------------------------
(***************************************************************************)
(* The operators' accounts of campaign_manager (admin_users) and the       *)
(* rights of their roles (role_permissions), with the requests of the user *)
(* management: create_user, update_user and update_permissions.            *)
(*                                                                         *)
(* A request is authenticated by one read of its operator's row, which it  *)
(* trusts to its end; the row it changes is read again under FOR UPDATE.   *)
(* An operator always has an access token of his current version at hand.  *)
(***************************************************************************)
EXTENDS Integers, FiniteSets

CONSTANTS Users,       \* operators, by email
          Founders,    \* the ADMIN accounts there are from the start
          Staff,       \* the MARKETER accounts there are from the start
          Edits,       \* concurrent requests of the user management
          Bootstrapped, \* accounts whose first password has to be changed
          Delegated,   \* the rights the MARKETER role has from the start
          Patches,     \* rights that update_permissions sets or clears
          MaxVersion,  \* bound on token_version
          NoAccount,   \* no row has this email
          NoRequest       \* the row is not locked

VARIABLES account,  \* admin_users
          granted,  \* the rights of the MARKETER role in role_permissions
          rowLock,     \* the request that holds the row FOR UPDATE
          edit      \* the progress of each management request

accountVars == <<account, granted, rowLock, edit>>

Roles == {"ADMIN", "MARKETER"}

\* The permissions something in the models asks for.
Rights == {"users", "dashboard"}

\* Passwords are numbered in the order they are set.
Account == [role: Roles, active: BOOLEAN, mustChange: BOOLEAN,
            ver: 0 .. MaxVersion, password: Nat]

ASSUME AccountsAssumption ==
  /\ Users # {}
  /\ Founders \subseteq Users
  /\ Staff \subseteq Users
  /\ Founders \cap Staff = {}
  /\ Delegated \subseteq Rights
  /\ Patches \subseteq Rights
  /\ MaxVersion \in Nat
  /\ NoAccount \notin Account
  /\ NoRequest \notin Edits

Phases == {"idle", "create", "lock", "write", "rights"}

\* role: the operator's, as authenticated; seen: token_version under the lock.
Edit == [phase: Phases, operator: Users, role: Roles, target: Users,
         seen: 0 .. MaxVersion]

NoEdit == [phase |-> "idle", operator |-> CHOOSE u \in Users : TRUE,
           role |-> "MARKETER", target |-> CHOOSE u \in Users : TRUE, seen |-> 0]

NewAccount(role, mustChange) ==
  [role |-> role, active |-> TRUE, mustChange |-> mustChange, ver |-> 0, password |-> 0]

AccountsInit ==
  /\ account = [u \in Users |-> IF u \in Founders THEN NewAccount("ADMIN", u \in Bootstrapped)
                               ELSE IF u \in Staff THEN NewAccount("MARKETER", u \in Bootstrapped)
                               ELSE NoAccount]
  /\ granted = Delegated
  /\ rowLock = [u \in Users |-> NoRequest]
  /\ edit = [e \in Edits |-> NoEdit]

Registered(u) == account[u] # NoAccount
Active(u) == Registered(u) /\ account[u].active
RightsOf(role) == IF role = "ADMIN" THEN Rights ELSE granted

\* What a version of an account stands for
Signed(u) == <<account[u].role, account[u].active, account[u].password>>

\* Mutant: the row is read without FOR UPDATE.
NoLock(u) == TRUE

RowFree(u) == rowLock[u] = NoRequest

\* token_version moves by one; the bound is the model's.
Bumpable(v) == v < MaxVersion

-----------------------------------------------------------------------------
\* get_current_user and require_permission: one look at the operator's row.
Authenticate(e, u, phase, needed) ==
  /\ edit[e].phase = "idle"
  /\ Active(u)
  /\ ~account[u].mustChange
  /\ needed \in RightsOf(account[u].role)
  /\ edit' = [edit EXCEPT ![e].phase = phase, ![e].operator = u,
                          ![e].role = account[u].role]
  /\ UNCHANGED <<account, granted, rowLock>>

\* forbid_admin_escalation
MayTouch(e, role) == role = "ADMIN" => edit[e].role = "ADMIN"

\* create_user: the email is unique, the new account has version 0.
CreateUser(e, u, role) ==
  /\ edit[e].phase = "create"
  /\ ~Registered(u)
  /\ MayTouch(e, role)
  /\ account' = [account EXCEPT ![u] = NewAccount(role, FALSE)]
  /\ edit' = [edit EXCEPT ![e] = NoEdit]
  /\ UNCHANGED <<granted, rowLock>>

\* update_user: _lock_user, and the target's current role.
LockTarget(e, u) ==
  /\ edit[e].phase = "lock"
  /\ Registered(u)
  /\ RowFree(u)
  /\ MayTouch(e, account[u].role)
  /\ rowLock' = [rowLock EXCEPT ![u] = e]
  /\ edit' = [edit EXCEPT ![e].phase = "write", ![e].target = u,
                          ![e].seen = account[u].ver]
  /\ UNCHANGED <<account, granted>>

ReleaseRows(e) == rowLock' = [u \in Users |-> IF rowLock[u] = e THEN NoRequest ELSE rowLock[u]]

\* Nobody demotes or deactivates himself.
OwnAccountKept(e, row, role, active) ==
  edit[e].operator = edit[e].target =>
    /\ role \in {row.role, "ADMIN"}
    /\ active \/ ~row.active

Revokes(row, role, active, reset) == role # row.role \/ active # row.active \/ reset

\* update_user: role, status and password at will, in one commit; a change of
\* any of them moves token_version on from what was read under the lock.
CommitEdit(e, role, active, reset) ==
  LET u == edit[e].target
      row == account[u]
      revoke == Revokes(row, role, active, reset) IN
  /\ edit[e].phase = "write"
  /\ role # row.role => MayTouch(e, role)
  /\ OwnAccountKept(e, row, role, active)
  /\ revoke => Bumpable(edit[e].seen)
  /\ account' = [account EXCEPT ![u] =
       [row EXCEPT !.role = role, !.active = active,
                   !.password = IF reset THEN @ + 1 ELSE @,
                   !.ver = IF revoke THEN edit[e].seen + 1 ELSE @]]
  /\ edit' = [edit EXCEPT ![e] = NoEdit]
  /\ ReleaseRows(e)
  /\ UNCHANGED granted

\* update_permissions: require_role("ADMIN"), then one upsert that merges the
\* patch into the row as it is then.
AuthenticateAdmin(e, u) ==
  /\ Registered(u) => account[u].role = "ADMIN"
  /\ Authenticate(e, u, "rights", "users")

MergeRights(e, right, on) ==
  /\ edit[e].phase = "rights"
  /\ granted' = IF on THEN granted \cup {right} ELSE granted \ {right}
  /\ edit' = [edit EXCEPT ![e] = NoEdit]
  /\ UNCHANGED <<account, rowLock>>

\* 403, 404, 409, 422, a lost connection or a crash: the transaction ends.
AbandonEdit(e) ==
  /\ edit[e].phase # "idle"
  /\ edit' = [edit EXCEPT ![e] = NoEdit]
  /\ ReleaseRows(e)
  /\ UNCHANGED <<account, granted>>

EditStep(e) ==
  \/ \E u \in Users :
       \/ Authenticate(e, u, "create", "users") \/ Authenticate(e, u, "lock", "users")
       \/ AuthenticateAdmin(e, u) \/ LockTarget(e, u)
       \/ \E role \in Roles : CreateUser(e, u, role)
  \/ \E role \in Roles, active, reset \in BOOLEAN : CommitEdit(e, role, active, reset)
  \/ \E right \in Patches, on \in BOOLEAN : MergeRights(e, right, on)
  \/ AbandonEdit(e)

-----------------------------------------------------------------------------
\* Every variable of the accounts keeps its type.
AccountsTypeOK ==
  /\ account \in [Users -> Account \cup {NoAccount}]
  /\ granted \subseteq Rights
  /\ edit \in [Edits -> Edit]
=============================================================================
