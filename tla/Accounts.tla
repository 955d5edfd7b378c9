------------------------------ MODULE Accounts ------------------------------
(***************************************************************************)
(* Accounts, their roles and what a role may do.  A request is authorised  *)
(* on the account as it is when the request arrives and writes later, with *)
(* no lock between the two: several administrators act on one another's    *)
(* accounts at the same time.  The first start creates an administrator.   *)
(***************************************************************************)
EXTENDS Naturals, FiniteSets

CONSTANTS
    Users,       \* rows of `users`, and the people who sign in
    Boss,        \* the user name of the administrator that the first start creates
    Roles,       \* the roles that are given: among ADMIN, INVESTIGATOR and USER
    Handlers,    \* handlers that run at the same time
    MaxAdmitted  \* bound: requests

ASSUME AccountsAssumption ==
    /\ Boss \in Users /\ Roles \subseteq {"ADMIN", "INVESTIGATOR", "USER"} /\ "ADMIN" \in Roles
    /\ MaxAdmitted \in Nat

VARIABLES
    accounts,    \* [Users -> row, its profile and its roles]
    tokens,      \* users whose access token has not expired
    asks,        \* [Handlers -> what the handler is to do and what it has read]
    admitted     \* requests so far

accountVars == <<accounts, tokens, asks, admitted>>

Account   == [there : BOOLEAN, is_active : BOOLEAN, roles : SUBSET Roles, must_change : BOOLEAN]
NoAccount == [there |-> FALSE, is_active |-> FALSE, roles |-> {}, must_change |-> FALSE]

Kinds == {"none", "create", "roles", "status", "reset", "password"}
NoAsk == [kind |-> "none", by |-> Boss, target |-> Boss, read |-> NoAccount, roles |-> {}, flag |-> FALSE]

AccountsTypeOK ==
    /\ accounts \in [Users -> Account] /\ tokens \subseteq Users /\ admitted \in 0..MaxAdmitted
    /\ asks \in [Handlers -> [kind : Kinds, by : Users, target : Users, read : Account,
                              roles : SUBSET Roles, flag : BOOLEAN]]

AccountsInit ==
    /\ accounts = [u \in Users |-> NoAccount] /\ tokens = {} /\ admitted = 0
    /\ asks = [q \in Handlers |-> NoAsk]

----------------------------------------------------------------------------
(* Roles, permissions and the sessions they open *)

\* ROLE_PERMISSIONS, as far as the access to accounts and sessions goes.
RolePermissions ==
    [ADMIN        |-> {"users.manage", "investigations.read_all", "investigations.read_assigned"},
     INVESTIGATOR |-> {"investigations.create", "investigations.read_assigned"},
     USER         |-> {"investigations.read_assigned"}]

PermissionCodes(u) == UNION {RolePermissions[r] : r \in accounts[u].roles}

\* get_current_user, require_permission.
SignedIn(u)      == u \in tokens /\ accounts[u].there /\ accounts[u].is_active
MayManage(u)     == SignedIn(u) /\ "users.manage" \in PermissionCodes(u)
Administrator(u) == accounts[u].there /\ accounts[u].is_active /\ "ADMIN" \in accounts[u].roles

\* user_can_access_session: a session has a creator and the profiles assigned to it.
CanAccess(u, creator, assigned) ==
    \/ "investigations.read_all" \in PermissionCodes(u)
    \/ /\ "investigations.read_assigned" \in PermissionCodes(u)
       /\ u = creator \/ u \in assigned

\* accessible_sessions_stmt.
Listed(u, creator, assigned) ==
    "investigations.read_all" \in PermissionCodes(u) \/ u = creator \/ u \in assigned

----------------------------------------------------------------------------
(* Starting, signing in and out *)

\* run_bootstrap at a start of the server: only where there is no account at all.
Bootstrap ==
    /\ \A u \in Users : ~accounts[u].there
    /\ accounts' = [accounts EXCEPT ![Boss] =
                      [there |-> TRUE, is_active |-> TRUE, roles |-> {"ADMIN"}, must_change |-> TRUE]]
    /\ UNCHANGED <<tokens, asks, admitted>>

Login(u) ==
    /\ accounts[u].there /\ accounts[u].is_active /\ u \notin tokens
    /\ tokens' = tokens \cup {u}
    /\ UNCHANGED <<accounts, asks, admitted>>

\* The token expires or is thrown away; the server keeps no list of tokens.
SignOut(u) == u \in tokens /\ tokens' = tokens \ {u} /\ UNCHANGED <<accounts, asks, admitted>>

----------------------------------------------------------------------------
(* Handlers: authorised and read, then written *)

Admit(q, k, by, target, roles, flag) ==
    /\ asks[q].kind = "none" /\ admitted < MaxAdmitted /\ admitted' = admitted + 1
    /\ asks' = [asks EXCEPT ![q] = [kind |-> k, by |-> by, target |-> target, read |-> accounts[target],
                                    roles |-> roles, flag |-> flag]]
    /\ UNCHANGED <<accounts, tokens>>

AskCreate(q) ==
    \E by, u \in Users, roles \in (SUBSET Roles) \ {{}} :
        MayManage(by) /\ ~accounts[u].there /\ Admit(q, "create", by, u, roles, TRUE)

\* Mutant of MayUpdate.
MayUpdateOwn(by, u, roles) == accounts[u].there /\ MayManage(by)

\* update_user: nobody gives up being an administrator.
MayUpdate(by, u, roles) == accounts[u].there /\ MayManage(by) /\ (by = u => "ADMIN" \in roles)

AskRoles(q) ==
    \E by, u \in Users, roles \in (SUBSET Roles) \ {{}} :
        roles # accounts[u].roles /\ MayUpdate(by, u, roles) /\ Admit(q, "roles", by, u, roles, FALSE)

AskStatus(q) ==
    \E by, u \in Users, flag \in BOOLEAN :
        /\ MayManage(by) /\ accounts[u].there /\ (by = u => flag)
        /\ Admit(q, "status", by, u, {}, flag)

AskReset(q) ==
    \E by, u \in Users, flag \in BOOLEAN :
        MayManage(by) /\ accounts[u].there /\ Admit(q, "reset", by, u, {}, flag)

AskPassword(q) == \E u \in Users : SignedIn(u) /\ Admit(q, "password", u, u, {}, FALSE)

Write(q, k, row) ==
    /\ asks[q].kind = k
    /\ accounts' = [accounts EXCEPT ![asks[q].target] = row]
    /\ asks' = [asks EXCEPT ![q] = NoAsk]
    /\ UNCHANGED <<tokens, admitted>>

\* The user name is unique: the second of two requests fails.
CreateUser(q) ==
    /\ ~accounts[asks[q].target].there
    /\ Write(q, "create", [there |-> TRUE, is_active |-> TRUE, roles |-> asks[q].roles,
                              must_change |-> asks[q].flag])

\* _set_roles writes the difference to the roles that were read; a row that another request
\* has deleted or inserted meanwhile fails the whole request.
SetRoles(q) ==
    LET a == asks[q]  now == accounts[a.target]
    IN  /\ a.read.roles \ a.roles \subseteq now.roles /\ (a.roles \ a.read.roles) \cap now.roles = {}
        /\ Write(q, "roles", [now EXCEPT !.roles = (@ \ (a.read.roles \ a.roles)) \cup (a.roles \ a.read.roles)])

\* A column that keeps the value that was read is not written.
SetUserStatus(q) ==
    LET a == asks[q]  now == accounts[a.target]
    IN  Write(q, "status", [now EXCEPT !.is_active = IF a.flag = a.read.is_active THEN @ ELSE a.flag])

ResetPassword(q) ==
    LET a == asks[q]  now == accounts[a.target]
    IN  Write(q, "reset", [now EXCEPT !.must_change = IF a.flag = a.read.must_change THEN @ ELSE a.flag])

ChangePassword(q) ==
    LET a == asks[q]  now == accounts[a.target]
    IN  Write(q, "password", [now EXCEPT !.must_change = IF a.read.must_change THEN FALSE ELSE @])

RequestFails(q) ==
    /\ asks[q].kind # "none" /\ asks' = [asks EXCEPT ![q] = NoAsk]
    /\ UNCHANGED <<accounts, tokens, admitted>>

RequestSteps(q) ==
    \/ AskCreate(q) \/ AskRoles(q) \/ AskStatus(q) \/ AskReset(q) \/ AskPassword(q)
    \/ CreateUser(q) \/ SetRoles(q) \/ SetUserStatus(q) \/ ResetPassword(q) \/ ChangePassword(q)
    \/ RequestFails(q)

AccountsNext ==
    \/ Bootstrap \/ (\E u \in Users : Login(u) \/ SignOut(u))
    \/ \E q \in Handlers : RequestSteps(q)

AccountsSpec == AccountsInit /\ [][AccountsNext]_accountVars

----------------------------------------------------------------------------
\* An installation keeps an administrator, and nobody's list of sessions differs from the sessions
\* they may open.  Excepted is what the code leaves open, and nothing else: a request of somebody
\* who lost the right to make it after it was authorised may take the last administrator away, and
\* two requests on one account, each of which read it before the other wrote, may leave it no role.
AccountsHold ==
    [][/\ (\E u \in Users : Administrator(u)) =>
             \/ \E u \in Users : Administrator(u)'
             \/ \E q \in Handlers : asks[q].kind # "none" /\ asks'[q] = NoAsk /\ ~Administrator(asks[q].by)
       /\ \A u \in Users : accounts[u].roles # {} =>
             \/ accounts'[u].roles # {}
             \/ \E q \in Handlers : /\ asks[q].kind = "roles" /\ asks[q].target = u /\ asks'[q] = NoAsk
                                    /\ asks[q].read.roles # accounts[u].roles
       /\ \A u, creator \in Users, assigned \in SUBSET Users :
             accounts'[u].roles # {} => Listed(u, creator, assigned)' = CanAccess(u, creator, assigned)']_accountVars
=============================================================================
