------------------------------ MODULE Accounts ------------------------------
(***************************************************************************)
(* Accounts and roles: registration, login and invitations                 *)
(* (app/api/v1/endpoints/auth.py) and the management of a tenant's users   *)
(* (app/api/v1/endpoints/users.py).                                        *)
(*                                                                         *)
(* Every await on PostgreSQL or Redis is a step of its own, so requests    *)
(* interleave between a check and the write it guards.  A request is named *)
(* by its id, which also names what it creates: its user, its tenant or    *)
(* its invite code (fresh UUIDs in the code).  A token is a signed JWT: no *)
(* request looks at its user's row again, and nothing revokes it.          *)
(***************************************************************************)
EXTENDS Integers, FiniteSets

CONSTANTS
    Requests,     \* requests, and the ids of what they create
    Emails,       \* stand for an account's two unique columns, email and username
    None,         \* no account, no invite, no token, no value
    MaxExpiries,  \* bound on the invites that expire
    MaxCrashes    \* bound on the requests whose server process dies

Roles    == {"owner", "admin", "member"}
Tokens   == [user : Requests, tenant : Requests, role : Roles]
Profiles == [email : Emails, tenant : Requests, role : Roles, active : BOOLEAN]

ASSUME NoneAssumption   == None \notin Requests \cup Emails \cup Roles \cup Tokens \cup Profiles
ASSUME LimitsAssumption == MaxExpiries \in Nat /\ MaxCrashes \in Nat

VARIABLES
    account,   \* users table: id -> Profiles, or None
    invite,    \* Redis invite:<code> -> its creator's token, or None
    tokens,    \* JWTs handed out so far
    pc,        \* per request: its next step
    args,      \* per request: what it was sent, or None
    granter,   \* per user: the user whose request gave it its role
    expiries,  \* invites that expired so far
    crashes    \* requests that died so far

vars   == <<account, invite, tokens, pc, args, granter, expiries, crashes>>
db     == <<account, granter>>
limits == <<expiries, crashes>>

Init ==
    /\ account = [r \in Requests |-> None]
    /\ invite = [r \in Requests |-> None]
    /\ tokens = {}
    /\ pc = [r \in Requests |-> "new"]
    /\ args = [r \in Requests |-> None]
    /\ granter = [r \in Requests |-> None]
    /\ expiries = 0
    /\ crashes = 0

Users == {u \in Requests : account[u] # None}

Taken(e) == \E u \in Users : account[u].email = e

Goto(r, step) == pc' = [pc EXCEPT ![r] = step]

TokenFor(u, a) == [user |-> u, tenant |-> a.tenant, role |-> a.role]

(* A request's arguments: the token it shows, the email and the role it    *)
(* asks for, and the user or the invite code it is about.                  *)
Args(token, email, role, id) ==
    [token |-> token, email |-> email, role |-> role, id |-> id]

(* A request arrives and passes every check made before its first await    *)
(* (one that fails them is refused and changes nothing).                   *)
Send(r, step, a) ==
    /\ pc[r] = "new"
    /\ Goto(r, step)
    /\ args' = [args EXCEPT ![r] = a]
    /\ UNCHANGED <<db, invite, tokens, limits>>

------------------------------------------------------------------------------
(* Arrivals.  What a request may ask for depends on the role in its token. *)

Register(r) == \E e \in Emails : Send(r, "check", Args(None, e, "owner", r))

Login(r) == \E e \in Emails : Send(r, "login", Args(None, e, None, None))

GenerateInvite(r) ==
    \E t \in tokens : t.role \in {"owner", "admin"} /\ Send(r, "invite", Args(t, None, None, r))

RegisterMember(r) ==
    \E e \in Emails, code \in Requests : Send(r, "code", Args(None, e, "member", code))

(* Mutant: an admin may create admins.                                     *)
CreateUserAny(r) ==
    \E t \in tokens, e \in Emails, role \in {"admin", "member"} :
        /\ t.role \in {"owner", "admin"}
        /\ Send(r, "check", Args(t, e, role, r))

(* Mutant: an owner may create a second owner.                             *)
CreateUserOwner(r) ==
    \E t \in tokens, e \in Emails, role \in Roles :
        /\ t.role = "owner" \/ (t.role = "admin" /\ role = "member")
        /\ Send(r, "check", Args(t, e, role, r))

(* Only an owner may create an admin, and nobody a second owner.           *)
CreateUser(r) ==
    \E t \in tokens, e \in Emails, role \in {"admin", "member"} :
        /\ t.role = "owner" \/ (t.role = "admin" /\ role = "member")
        /\ Send(r, "check", Args(t, e, role, r))

(* Mutant: the new role is not validated.                                  *)
ChangeRoleUnvalidated(r) ==
    \E t \in tokens, u \in Requests, role \in {"admin", "member", "guest"} :
        t.role = "owner" /\ Send(r, "findForRole", Args(t, None, role, u))

ChangeRole(r) ==
    \E t \in tokens, u \in Requests, role \in {"admin", "member"} :
        t.role = "owner" /\ Send(r, "findForRole", Args(t, None, role, u))

DeactivateUser(r) ==
    \E t \in tokens : \E u \in Requests \ {t.user} :
        t.role = "owner" /\ Send(r, "findToDeactivate", Args(t, None, None, u))

------------------------------------------------------------------------------
(* Invitations: stored in Redis under a fresh code.                        *)

StoreInvite(r) ==
    /\ pc[r] = "invite"
    /\ invite' = [invite EXCEPT ![r] = args[r].token]
    /\ Goto(r, "done")
    /\ UNCHANGED <<db, tokens, args, limits>>

(* INVITE_TTL ends, or Redis (allkeys-lru, not persistent) drops the key.  *)
ExpireInvite(code) ==
    /\ invite[code] # None
    /\ expiries < MaxExpiries
    /\ invite' = [invite EXCEPT ![code] = None]
    /\ expiries' = expiries + 1
    /\ UNCHANGED <<db, tokens, pc, args, crashes>>

(* register_member reads the invite; the tenant it names is active, since  *)
(* nothing deactivates tenants.                                            *)
ReadInvite(r) ==
    /\ pc[r] = "code"
    /\ IF invite[args[r].id] = None
       THEN Goto(r, "refused") /\ UNCHANGED args
       ELSE Goto(r, "check") /\ args' = [args EXCEPT ![r].token = invite[args[r].id]]
    /\ UNCHANGED <<db, invite, tokens, limits>>

ConsumeInvite(r) ==
    /\ pc[r] = "consume"
    /\ invite' = [invite EXCEPT ![args[r].id] = None]
    /\ Goto(r, "token")
    /\ UNCHANGED <<db, tokens, args, limits>>

------------------------------------------------------------------------------
(* New accounts.                                                           *)

(* register, register_member and create_user ask whether email and         *)
(* username are free.                                                      *)
CheckEmail(r) ==
    /\ pc[r] = "check"
    /\ Goto(r, IF Taken(args[r].email) THEN "refused" ELSE "insert")
    /\ UNCHANGED <<db, invite, tokens, args, limits>>

(* Where a request goes on once its user is committed: create_user hands   *)
(* out no token, register_member deletes its invite first.                 *)
AfterInsert(r) ==
    CASE args[r].token = None -> "token"
      [] args[r].token # None /\ args[r].id # r -> "consume"
      [] OTHER -> "done"

(* The tenant of the new user: the one of the token or invite, or its own. *)
TenantFor(r) == IF args[r].token = None THEN r ELSE args[r].token.tenant

(* Commit the user, and for register its tenant.  The unique columns       *)
(* refuse an email that was taken since the check.                         *)
InsertUser(r) ==
    /\ pc[r] = "insert"
    /\ IF Taken(args[r].email)
       THEN Goto(r, "refused") /\ UNCHANGED db
       ELSE /\ account' = [account EXCEPT ![r] = [email |-> args[r].email, tenant |-> TenantFor(r),
                                                  role |-> args[r].role, active |-> TRUE]]
            /\ granter' = [granter EXCEPT ![r] = IF args[r].token = None THEN r
                                                                          ELSE args[r].token.user]
            /\ Goto(r, AfterInsert(r))
    /\ UNCHANGED <<invite, tokens, args, limits>>

(* login: the active user with this email and the right password.          *)
FindLogin(r) ==
    /\ pc[r] = "login"
    /\ \/ \E u \in Users :
             /\ account[u].email = args[r].email
             /\ account[u].active
             /\ args' = [args EXCEPT ![r].token = TokenFor(u, account[u])]
             /\ Goto(r, "issue")
       \/ Goto(r, "refused") /\ UNCHANGED args
    /\ UNCHANGED <<db, invite, tokens, limits>>

(* The token names the user that logged in, or the one just created.       *)
IssueToken(r) ==
    /\ pc[r] \in {"issue", "token"}
    /\ tokens' = tokens \cup {IF pc[r] = "issue" THEN args[r].token
                               ELSE [user |-> r, tenant |-> TenantFor(r), role |-> args[r].role]}
    /\ Goto(r, "done")
    /\ UNCHANGED <<db, invite, args, limits>>

------------------------------------------------------------------------------
(* Changes to a user of the token's tenant.                                *)

(* Mutant: the user is looked up without its tenant.                       *)
FoundAnywhere(r) == account[args[r].id] # None

Found(r) ==
    /\ account[args[r].id] # None
    /\ account[args[r].id].tenant = args[r].token.tenant

(* Mutant: the owner's role can be changed.                                *)
FindForRoleAny(r) ==
    /\ pc[r] = "findForRole"
    /\ IF Found(r)
       THEN Goto(r, IF account[args[r].id].role = args[r].role THEN "done" ELSE "setRole")
       ELSE Goto(r, "refused")
    /\ UNCHANGED <<db, invite, tokens, args, limits>>

(* Nobody changes an owner's role; a role the user already has is not      *)
(* written.                                                                *)
FindForRole(r) ==
    /\ pc[r] = "findForRole"
    /\ IF Found(r) /\ account[args[r].id].role # "owner"
       THEN Goto(r, IF account[args[r].id].role = args[r].role THEN "done" ELSE "setRole")
       ELSE Goto(r, "refused")
    /\ UNCHANGED <<db, invite, tokens, args, limits>>

(* Mutant: the row is written back as an active one.                       *)
SetRoleOfRow(r) ==
    /\ pc[r] = "setRole"
    /\ account' = [account EXCEPT ![args[r].id].role = args[r].role, ![args[r].id].active = TRUE]
    /\ granter' = [granter EXCEPT ![args[r].id] = args[r].token.user]
    /\ Goto(r, "done")
    /\ UNCHANGED <<invite, tokens, args, limits>>

(* The UPDATE writes the changed column only.                              *)
SetRole(r) ==
    /\ pc[r] = "setRole"
    /\ account' = [account EXCEPT ![args[r].id].role = args[r].role]
    /\ granter' = [granter EXCEPT ![args[r].id] = args[r].token.user]
    /\ Goto(r, "done")
    /\ UNCHANGED <<invite, tokens, args, limits>>

FindToDeactivate(r) ==
    /\ pc[r] = "findToDeactivate"
    /\ Goto(r, IF Found(r) /\ account[args[r].id].role # "owner" THEN "deactivate" ELSE "refused")
    /\ UNCHANGED <<db, invite, tokens, args, limits>>

Deactivate(r) ==
    /\ pc[r] = "deactivate"
    /\ account' = [account EXCEPT ![args[r].id].active = FALSE]
    /\ Goto(r, "done")
    /\ UNCHANGED <<granter, invite, tokens, args, limits>>

(* A call raises or the server process dies between two steps.             *)
Resting == {"new", "done", "refused", "crashed"}

Crash(r) ==
    /\ pc[r] \notin Resting
    /\ crashes < MaxCrashes
    /\ crashes' = crashes + 1
    /\ Goto(r, "crashed")
    /\ UNCHANGED <<db, invite, tokens, args, expiries>>

------------------------------------------------------------------------------
Arrive(r) ==
    \/ Register(r) \/ Login(r) \/ GenerateInvite(r) \/ RegisterMember(r)
    \/ CreateUser(r) \/ ChangeRole(r) \/ DeactivateUser(r)

Step(r) ==
    \/ StoreInvite(r) \/ ReadInvite(r) \/ ConsumeInvite(r)
    \/ CheckEmail(r) \/ InsertUser(r) \/ FindLogin(r) \/ IssueToken(r)
    \/ FindForRole(r) \/ SetRole(r) \/ FindToDeactivate(r) \/ Deactivate(r)

Next ==
    \/ \E r \in Requests : Arrive(r) \/ Step(r) \/ Crash(r)
    \/ \E code \in Requests : ExpireInvite(code)

Spec == Init /\ [][Next]_vars

------------------------------------------------------------------------------
(* Properties.                                                             *)

Steps == Resting \cup {"invite", "code", "consume", "check", "insert", "login", "issue", "token",
                        "findForRole", "setRole", "findToDeactivate", "deactivate"}

(* The variables keep their types.                                         *)
TypeOK ==
    /\ account \in [Requests -> Profiles \cup {None}]
    /\ invite \in [Requests -> Tokens \cup {None}]
    /\ tokens \subseteq Tokens
    /\ pc \in [Requests -> Steps]
    /\ args \in [Requests -> [token : Tokens \cup {None}, email : Emails \cup {None},
                              role : Roles \cup {None}, id : Requests \cup {None}] \cup {None}]
    /\ granter \in [Requests -> Requests \cup {None}]
    /\ expiries \in Nat /\ crashes \in Nat

(* A tenant has one owner, the user that registered it, who stays owner    *)
(* and active whatever the owner's and the admins' requests do.            *)
OneOwner ==
    \A u \in Users : /\ account[u].role = "owner" <=> account[u].tenant = u
                     /\ account[u].role = "owner" => account[u].active
                     /\ account[account[u].tenant] # None

(* Of two requests that both found an email free, one is refused: an email *)
(* names one account.                                                      *)
EmailsUnique ==
    \A u, v \in Users : account[u].email = account[v].email => u = v

(* Only the owner of a tenant makes somebody an admin of it, also while    *)
(* tokens of admins that were demoted or deactivated are still accepted.   *)
AdminsByOwner ==
    \A u \in Users : account[u].role = "admin" => granter[u] = account[u].tenant

(* A token with the role owner is its tenant's owner's: such tokens decide *)
(* everything and are never checked against the users table.               *)
OwnerTokens ==
    \A t \in tokens : /\ account[t.user] # None /\ account[t.user].tenant = t.tenant
                      /\ t.role = "owner" <=> t.user = t.tenant

(* Whoever gave a user its role, by creating, inviting or promoting it,    *)
(* belongs to the user's tenant.                                           *)
GrantedWithin ==
    \A u \in Users : /\ granter[u] \in Users
                     /\ account[granter[u]].tenant = account[u].tenant

(* No request reactivates a user or moves it to another tenant, however    *)
(* it overlaps the deactivation.                                           *)
DeactivationSticks ==
    [][\A u \in Users : /\ account'[u] # None
                        /\ account'[u].tenant = account[u].tenant
                        /\ ~account[u].active => ~account'[u].active]_vars

(* "Single-use invite code": at most one user joins with a code.           *)
InviteUsedOnce ==
    \A u, v \in Users : args[u].id = args[v].id => u = v
==============================================================================
