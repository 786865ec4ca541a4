--------------------------- MODULE AccountsProofs ---------------------------
(***************************************************************************)
(* Theorems about module Accounts, for any requests, emails and faults.    *)
(*                                                                         *)
(* Tokens outlive what they were issued for and requests act on what they  *)
(* read earlier, so the invariants hold only because a user never changes  *)
(* tenant and ownership never moves.  The inductive invariant says so of   *)
(* every token, stored invite and request at work.                         *)
(***************************************************************************)
EXTENDS Accounts, TLAPS

USE NoneAssumption, LimitsAssumption

Wishes == [token : Tokens \cup {None}, email : Emails \cup {None},
           role : Roles \cup {None}, id : Requests \cup {None}]

(* A token tells the truth about its user's tenant, and about ownership.   *)
Truthful(t) ==
    /\ t \in Tokens
    /\ account[t.user] # None
    /\ account[t.user].tenant = t.tenant
    /\ t.role = "owner" <=> t.user = t.tenant

(* The steps at which a request has not created its user.                  *)
Before == Steps \ {"consume", "token", "done", "crashed"}

(* A request about to create a user asks for what its token, or the        *)
(* absence of one, allows.                                                 *)
MayCreate(r) ==
    /\ args[r].email \in Emails /\ args[r].id \in Requests
    /\ args[r].token = None => args[r].role = "owner"
    /\ args[r].token # None =>
          /\ Truthful(args[r].token)
          /\ args[r].role \in {"admin", "member"}
          /\ args[r].role = "admin" => args[r].token.role = "owner"

(* A request about to change a user shows its owner's token.               *)
MayChange(r) ==
    /\ Truthful(args[r].token) /\ args[r].token.role = "owner"
    /\ args[r].id \in Requests

(* The user it found is in the owner's tenant and not the owner.           *)
HasFound(r) ==
    /\ account[args[r].id] # None
    /\ account[args[r].id].tenant = args[r].token.tenant
    /\ account[args[r].id].role # "owner"

Sound(r) ==
    /\ pc[r] # "new" => args[r] \in Wishes
    /\ pc[r] \in Before => account[r] = None
    /\ pc[r] = "code" => /\ args[r].email \in Emails /\ args[r].id \in Requests
                         /\ args[r].role = "member"
    /\ pc[r] \in {"check", "insert"} => MayCreate(r)
    /\ pc[r] \in {"consume", "token"} =>
          /\ args[r].id \in Requests
          /\ Truthful([user |-> r, tenant |-> TenantFor(r), role |-> args[r].role])
    /\ pc[r] \in {"issue", "invite"} => Truthful(args[r].token)
    /\ pc[r] \in {"findForRole", "setRole", "findToDeactivate", "deactivate"} => MayChange(r)
    /\ pc[r] \in {"findForRole", "setRole"} => args[r].role \in {"admin", "member"}
    /\ pc[r] \in {"setRole", "deactivate"} => HasFound(r)

InvitesTruthful == \A c \in Requests : invite[c] # None => Truthful(invite[c])
TokensTruthful  == \A t \in tokens : Truthful(t)
RequestsSound   == \A r \in Requests : Sound(r)

IInv ==
    /\ TypeOK /\ OneOwner /\ AdminsByOwner /\ GrantedWithin
    /\ InvitesTruthful /\ TokensTruthful /\ RequestsSound
------------------------------------------------------------------------------
(* Types.                                                                  *)

(* What a request sends is a record of the right kinds of values.          *)
LEMMA ArgsType ==
    ASSUME NEW t \in Tokens \cup {None}, NEW e \in Emails \cup {None},
           NEW role \in Roles \cup {None}, NEW id \in Requests \cup {None}
    PROVE  /\ Args(t, e, role, id) \in Wishes
           /\ Args(t, e, role, id).token = t /\ Args(t, e, role, id).email = e
           /\ Args(t, e, role, id).role = role /\ Args(t, e, role, id).id = id
BY DEF Args, Wishes

(* Sending a request keeps the types.                                      *)
LEMMA SendType ==
    ASSUME TypeOK, NEW r \in Requests, NEW a \in Wishes, NEW step \in Steps, Send(r, step, a)
    PROVE  TypeOK'
BY DEF TypeOK, Send, Goto, db, limits, Wishes

(* The steps after the arrival keep them too, for a sound request.         *)
LEMMA TypeStep == IInv /\ [Next]_vars => TypeOK'
<1> SUFFICES ASSUME IInv, [Next]_vars PROVE TypeOK'
    OBVIOUS
<1> USE DEF Steps, Resting
<1>1. ASSUME NEW r \in Requests, Arrive(r) PROVE TypeOK'
    <2>0. \A t \in tokens : t \in Tokens
        BY DEF IInv, TypeOK
    <2> TypeOK
        BY DEF IInv
    <2>1. CASE Register(r)
        BY <2>1, SendType, ArgsType DEF Register, Roles
    <2>2. CASE Login(r)
        BY <2>2, SendType, ArgsType DEF Login
    <2>3. CASE GenerateInvite(r)
        BY <2>3, <2>0, SendType, ArgsType DEF GenerateInvite
    <2>4. CASE RegisterMember(r)
        BY <2>4, SendType, ArgsType DEF RegisterMember, Roles
    <2>5. CASE CreateUser(r)
        BY <2>5, <2>0, SendType, ArgsType DEF CreateUser, Roles
    <2>6. CASE ChangeRole(r)
        BY <2>6, <2>0, SendType, ArgsType DEF ChangeRole, Roles
    <2>7. CASE DeactivateUser(r)
        BY <2>7, <2>0, SendType, ArgsType DEF DeactivateUser
    <2> QED
        BY <1>1, <2>1, <2>2, <2>3, <2>4, <2>5, <2>6, <2>7 DEF Arrive
<1>2. ASSUME NEW r \in Requests, Step(r) PROVE TypeOK'
    <2> TypeOK /\ Sound(r) /\ InvitesTruthful
        BY DEF IInv, RequestsSound
    <2>1. CASE StoreInvite(r)
        BY <2>1 DEF StoreInvite, TypeOK, Sound, Truthful, Goto, db, limits
    <2>2. CASE ReadInvite(r)
        <3>1. args[r] \in Wishes /\ args[r].id \in Requests
            BY <2>2 DEF ReadInvite, Sound
        <3>2. ASSUME invite[args[r].id] # None
              PROVE  [args[r] EXCEPT !.token = invite[args[r].id]] \in Wishes
            BY <3>1, <3>2 DEF Wishes, TypeOK
        <3> QED
            BY <2>2, <3>1, <3>2 DEF ReadInvite, TypeOK, Wishes, Goto, db, limits
    <2>3. CASE ConsumeInvite(r)
        BY <2>3 DEF ConsumeInvite, TypeOK, Goto, db, limits
    <2>4. CASE CheckEmail(r)
        BY <2>4 DEF CheckEmail, TypeOK, Goto, db, limits
    <2>5. CASE InsertUser(r)
        <3>1. MayCreate(r) /\ args[r] \in Wishes
            BY <2>5 DEF InsertUser, Sound
        <3>2. AfterInsert(r) \in {"token", "consume", "done"}
            BY DEF AfterInsert
        <3>3. TenantFor(r) \in Requests
            BY <3>1 DEF TenantFor, MayCreate, Truthful, Tokens
        <3>4. [email |-> args[r].email, tenant |-> TenantFor(r),
               role |-> args[r].role, active |-> TRUE] \in Profiles
            BY <3>1, <3>3 DEF MayCreate, Profiles, Roles
        <3>5. (IF args[r].token = None THEN r ELSE args[r].token.user) \in Requests
            BY <3>1 DEF MayCreate, Truthful, Tokens
        <3> DEFINE new == [email |-> args[r].email, tenant |-> TenantFor(r),
                           role |-> args[r].role, active |-> TRUE]
                   from == IF args[r].token = None THEN r ELSE args[r].token.user
        <3>6. /\ account' = account \/ account' = [account EXCEPT ![r] = new]
              /\ granter' = granter \/ granter' = [granter EXCEPT ![r] = from]
              /\ pc' = [pc EXCEPT ![r] = "refused"] \/ pc' = [pc EXCEPT ![r] = AfterInsert(r)]
              /\ UNCHANGED <<invite, tokens, args, expiries, crashes>>
            BY <2>5 DEF InsertUser, Goto, db, limits
        <3>7. new \in Profiles /\ from \in Requests
            BY <3>4, <3>5
        <3> HIDE DEF new, from
        <3> QED
            BY <3>2, <3>6, <3>7 DEF TypeOK
    <2>6. CASE FindLogin(r)
        <3>1. ASSUME NEW u \in Users
              PROVE  [args[r] EXCEPT !.token = TokenFor(u, account[u])] \in Wishes
            BY <2>6, <3>1 DEF FindLogin, Sound, Wishes, TokenFor, Tokens, Users, TypeOK, Profiles
        <3> QED
            BY <2>6, <3>1 DEF FindLogin, TypeOK, Wishes, Goto, db, limits
    <2>7. CASE IssueToken(r)
        BY <2>7 DEF IssueToken, TypeOK, Sound, Truthful, Goto, db, limits
    <2>8. CASE FindForRole(r)
        BY <2>8 DEF FindForRole, TypeOK, Goto, db, limits
    <2>9. CASE SetRole(r)
        <3>1. /\ account[args[r].id] \in Profiles /\ args[r].id \in Requests
              /\ args[r].role \in Roles /\ args[r].token.user \in Requests
            BY <2>9 DEF SetRole, Sound, HasFound, MayChange, Truthful, Tokens, TypeOK, Roles
        <3>2. [account[args[r].id] EXCEPT !.role = args[r].role] \in Profiles
            BY <3>1 DEF Profiles
        <3> QED
            BY <2>9, <3>1, <3>2 DEF SetRole, TypeOK, Goto, limits
    <2>10. CASE FindToDeactivate(r)
        BY <2>10 DEF FindToDeactivate, TypeOK, Goto, db, limits
    <2>11. CASE Deactivate(r)
        <3>1. account[args[r].id] \in Profiles /\ args[r].id \in Requests
            BY <2>11 DEF Deactivate, Sound, HasFound, MayChange, TypeOK
        <3>2. [account[args[r].id] EXCEPT !.active = FALSE] \in Profiles
            BY <3>1 DEF Profiles
        <3> QED
            BY <2>11, <3>1, <3>2 DEF Deactivate, TypeOK, Goto, limits
    <2> QED
        BY <1>2, <2>1, <2>2, <2>3, <2>4, <2>5, <2>6, <2>7, <2>8, <2>9, <2>10, <2>11 DEF Step
<1>3. ASSUME NEW r \in Requests, Crash(r) PROVE TypeOK'
    BY <1>3 DEF IInv, Crash, TypeOK, Goto, db
<1>4. ASSUME NEW c \in Requests, ExpireInvite(c) PROVE TypeOK'
    BY <1>4 DEF IInv, ExpireInvite, TypeOK, db
<1>5. CASE UNCHANGED vars
    BY <1>5 DEF IInv, vars, TypeOK
<1> QED
    BY <1>1, <1>2, <1>3, <1>4, <1>5 DEF Next

------------------------------------------------------------------------------
(* What a step never does to the users that exist.                         *)

Grows ==
    \A u \in Users : /\ account'[u] # None
                     /\ account'[u].tenant = account[u].tenant
                     /\ account'[u].role = "owner" <=> account[u].role = "owner"

(* The steps that leave the users table alone.                             *)
LEMMA TableKept ==
    ASSUME TypeOK, NEW r \in Requests, Arrive(r) \/ Step(r) \/ Crash(r),
           ~InsertUser(r), ~SetRole(r), ~Deactivate(r)
    PROVE  UNCHANGED <<account, granter>>
BY DEF Arrive, Step, Crash, Send, db, Register, Login, GenerateInvite, RegisterMember, CreateUser,
       ChangeRole, DeactivateUser, StoreInvite, ReadInvite, ConsumeInvite, CheckEmail, FindLogin,
       IssueToken, FindForRole, FindToDeactivate

(* A profile with another role or activity is otherwise the same.          *)
LEMMA ChangedProfile ==
    ASSUME NEW p \in Profiles, NEW role \in Roles
    PROVE  /\ [p EXCEPT !.role = role].tenant = p.tenant
           /\ [p EXCEPT !.role = role].email = p.email
           /\ [p EXCEPT !.role = role].role = role
           /\ [p EXCEPT !.role = role].active = p.active
           /\ [p EXCEPT !.role = role] \in Profiles
           /\ [p EXCEPT !.active = FALSE].tenant = p.tenant
           /\ [p EXCEPT !.active = FALSE].email = p.email
           /\ [p EXCEPT !.active = FALSE].role = p.role
           /\ [p EXCEPT !.active = FALSE].active = FALSE
           /\ [p EXCEPT !.active = FALSE] \in Profiles
BY DEF Profiles

(* Inserting a user: the new one is sound, the others stay.                *)
LEMMA InsertEffect ==
    ASSUME IInv, NEW r \in Requests, InsertUser(r)
    PROVE  \/ UNCHANGED <<account, granter>> /\ pc'[r] = "refused"
           \/ /\ account[r] = None
              /\ ~Taken(args[r].email)
              /\ account'[r] # None
              /\ account'[r].email = args[r].email
              /\ account'[r].tenant = TenantFor(r) /\ TenantFor(r) \in Requests
              /\ account'[r].role = args[r].role
              /\ account'[r].active
              /\ granter'[r] = IF args[r].token = None THEN r ELSE args[r].token.user
              /\ \A u \in Requests \ {r} : account'[u] = account[u] /\ granter'[u] = granter[u]
              /\ pc'[r] = AfterInsert(r)
<1>1. MayCreate(r) /\ account[r] = None
    BY DEF IInv, RequestsSound, Sound, InsertUser, Before, Steps, Resting
<1>2. TenantFor(r) \in Requests
    BY <1>1 DEF TenantFor, MayCreate, Truthful, Tokens
<1> DEFINE new == [email |-> args[r].email, tenant |-> TenantFor(r),
                   role |-> args[r].role, active |-> TRUE]
           from == IF args[r].token = None THEN r ELSE args[r].token.user
<1>3. new \in Profiles
    BY <1>1, <1>2 DEF MayCreate, Profiles, Roles
<1>4. CASE Taken(args[r].email)
    BY <1>4 DEF IInv, InsertUser, Goto, db, TypeOK
<1>5. CASE ~Taken(args[r].email)
    <2>1. /\ account' = [account EXCEPT ![r] = new]
          /\ granter' = [granter EXCEPT ![r] = from]
          /\ pc' = [pc EXCEPT ![r] = AfterInsert(r)]
        BY <1>5 DEF InsertUser, Goto
    <2>2. new # None
        BY <1>3
    <2>3. /\ new.email = args[r].email /\ new.tenant = TenantFor(r)
          /\ new.role = args[r].role /\ new.active
        OBVIOUS
    <2> HIDE DEF new
    <2> QED
        BY <1>1, <1>2, <1>5, <2>1, <2>2, <2>3 DEF IInv, TypeOK
<1> QED
    BY <1>4, <1>5

(* A role change touches one user, of the owner's tenant, not the owner.   *)
LEMMA SetRoleEffect ==
    ASSUME IInv, NEW r \in Requests, SetRole(r)
    PROVE  LET u == args[r].id
           IN  /\ u \in Requests /\ account[u] # None
               /\ account[u].role # "owner" /\ account'[u].role \in {"admin", "member"}
               /\ account'[u] # None
               /\ account'[u].tenant = account[u].tenant
               /\ account'[u].email = account[u].email
               /\ account'[u].active = account[u].active
               /\ granter'[u] = account[u].tenant /\ Truthful(args[r].token)
               /\ args[r].token.user = account[u].tenant
               /\ \A v \in Requests \ {u} : account'[v] = account[v] /\ granter'[v] = granter[v]
<1> DEFINE u == args[r].id
           p == [account[u] EXCEPT !.role = args[r].role]
<1>1. MayChange(r) /\ HasFound(r) /\ args[r].role \in {"admin", "member"}
    BY DEF IInv, RequestsSound, Sound, SetRole
<1>2. u \in Requests /\ account[u] \in Profiles
    BY <1>1 DEF MayChange, HasFound, IInv, TypeOK
<1>3. /\ p \in Profiles /\ p.tenant = account[u].tenant /\ p.email = account[u].email
      /\ p.active = account[u].active /\ p.role = args[r].role
    <2>1. args[r].role \in Roles
        BY <1>1 DEF Roles
    <2> QED
        BY <1>2, <2>1, ChangedProfile
<1>4. account' = [account EXCEPT ![u] = p] /\ granter' = [granter EXCEPT ![u] = args[r].token.user]
    BY DEF SetRole
<1>5. /\ args[r].token.user = account[u].tenant /\ Truthful(args[r].token)
      /\ account[u] # None /\ account[u].role # "owner"
    BY <1>1 DEF MayChange, HasFound, Truthful
<1> HIDE DEF p
<1>6. account'[u] = p /\ p # None /\ granter'[u] = account[u].tenant
    BY <1>2, <1>3, <1>4, <1>5 DEF IInv, TypeOK
<1>7. \A v \in Requests \ {u} : account'[v] = account[v] /\ granter'[v] = granter[v]
    BY <1>2, <1>4 DEF IInv, TypeOK
<1> QED
    BY <1>1, <1>2, <1>3, <1>5, <1>6, <1>7

(* A deactivation touches one user, not the owner.                         *)
LEMMA DeactivateEffect ==
    ASSUME IInv, NEW r \in Requests, Deactivate(r)
    PROVE  LET u == args[r].id
           IN  /\ u \in Requests /\ account[u] # None /\ account[u].role # "owner"
               /\ account'[u] # None
               /\ account'[u].tenant = account[u].tenant
               /\ account'[u].email = account[u].email
               /\ account'[u].role = account[u].role
               /\ ~account'[u].active
               /\ \A v \in Requests \ {u} : account'[v] = account[v]
               /\ granter' = granter
<1> DEFINE u == args[r].id
           p == [account[u] EXCEPT !.active = FALSE]
<1>1. MayChange(r) /\ HasFound(r)
    BY DEF IInv, RequestsSound, Sound, Deactivate
<1>2. u \in Requests /\ account[u] \in Profiles
    BY <1>1 DEF MayChange, HasFound, IInv, TypeOK
<1>3. /\ p \in Profiles /\ p.tenant = account[u].tenant /\ p.email = account[u].email
      /\ ~p.active /\ p.role = account[u].role
    BY <1>2, ChangedProfile DEF Roles
<1>4. account' = [account EXCEPT ![u] = p] /\ granter' = granter
    BY DEF Deactivate
<1> HIDE DEF p
<1> QED
    BY <1>1, <1>2, <1>3, <1>4 DEF IInv, TypeOK, MayChange, HasFound

(* Users keep existing, in their tenant, and owners stay owners.           *)
LEMMA Growth == IInv /\ [Next]_vars => Grows
<1> SUFFICES ASSUME IInv, [Next]_vars PROVE Grows
    OBVIOUS
<1>1. CASE UNCHANGED account
    BY <1>1 DEF Grows, Users
<1>2. ASSUME NEW r \in Requests, InsertUser(r) PROVE Grows
    BY <1>2, InsertEffect DEF Grows, Users
<1>3. ASSUME NEW r \in Requests, SetRole(r) PROVE Grows
    BY <1>3, SetRoleEffect DEF Grows, Users
<1>4. ASSUME NEW r \in Requests, Deactivate(r) PROVE Grows
    BY <1>4, DeactivateEffect DEF Grows, Users
<1>5. ASSUME NEW c \in Requests, ExpireInvite(c) PROVE UNCHANGED account
    BY <1>5 DEF ExpireInvite, db
<1> QED
    BY <1>1, <1>2, <1>3, <1>4, <1>5, TableKept DEF Next, vars, IInv

(* A truthful token stays truthful, whatever becomes of its user.          *)
LEMMA TruthKept ==
    ASSUME TypeOK, Grows
    PROVE  \A t : Truthful(t) => Truthful(t)'
BY DEF Grows, Truthful, Users, Tokens

(* The users table: owners, admins and where their roles come from.        *)
LEMMA TableStep ==
    IInv /\ [Next]_vars => OneOwner' /\ AdminsByOwner' /\ GrantedWithin'
<1> SUFFICES ASSUME IInv, [Next]_vars PROVE OneOwner' /\ AdminsByOwner' /\ GrantedWithin'
    OBVIOUS
<1> Grows /\ TypeOK /\ OneOwner /\ AdminsByOwner /\ GrantedWithin
    BY Growth DEF IInv
<1>1. CASE UNCHANGED <<account, granter>>
    BY <1>1 DEF OneOwner, AdminsByOwner, GrantedWithin, Users
<1>2. ASSUME NEW r \in Requests, InsertUser(r)
      PROVE  OneOwner' /\ AdminsByOwner' /\ GrantedWithin'
    <2>1. CASE UNCHANGED <<account, granter>>
        BY <2>1, <1>1
    <2>2. CASE account[r] = None /\ ~UNCHANGED <<account, granter>>
        <3>1. /\ account'[r] # None /\ account'[r].active
              /\ account'[r].tenant = TenantFor(r) /\ account'[r].role = args[r].role
              /\ granter'[r] = IF args[r].token = None THEN r ELSE args[r].token.user
              /\ \A u \in Requests \ {r} : account'[u] = account[u] /\ granter'[u] = granter[u]
            BY <1>2, <2>2, InsertEffect
        <3>2. MayCreate(r)
            BY <1>2 DEF IInv, RequestsSound, Sound, InsertUser
        <3>3. CASE args[r].token = None
            <4>1. args[r].role = "owner" /\ TenantFor(r) = r /\ granter'[r] = r
                BY <3>1, <3>2, <3>3 DEF MayCreate, TenantFor
            <4> QED
                BY <3>1, <4>1, <2>2 DEF OneOwner, AdminsByOwner, GrantedWithin, Users, TypeOK, Profiles
        <3>4. CASE args[r].token # None
            <4> DEFINE t == args[r].token
            <4>1. /\ Truthful(t) /\ args[r].role # "owner" /\ TenantFor(r) = t.tenant
                  /\ args[r].role = "admin" => t.role = "owner"
                  /\ granter'[r] = t.user
                BY <3>1, <3>2, <3>4 DEF MayCreate, TenantFor
            <4>2. /\ t.user \in Requests /\ account[t.user] # None
                  /\ account[t.user].tenant = t.tenant /\ t.tenant \in Requests
                  /\ args[r].role = "admin" => t.user = t.tenant
                BY <4>1 DEF Truthful, Tokens
            <4>3. t.user # r /\ t.tenant # r /\ account[t.tenant] # None
                BY <4>2, <2>2 DEF OneOwner, Users
            <4> HIDE DEF t
            <4>4. OneOwner'
                BY <3>1, <4>1, <4>2, <4>3, <2>2 DEF OneOwner, Users, TypeOK, Profiles
            <4>5. AdminsByOwner'
                BY <3>1, <4>1, <4>2, <4>3, <2>2 DEF AdminsByOwner, Users
            <4>6. GrantedWithin'
                BY <3>1, <4>1, <4>2, <4>3, <2>2 DEF GrantedWithin, Users, TypeOK
            <4> QED
                BY <4>4, <4>5, <4>6
        <3> QED
            BY <3>3, <3>4
    <2> QED
        BY <1>2, <2>1, <2>2, InsertEffect
<1>3. ASSUME NEW r \in Requests, SetRole(r)
      PROVE  OneOwner' /\ AdminsByOwner' /\ GrantedWithin'
    <2> DEFINE u == args[r].id
    <2>1. /\ u \in Requests /\ account[u] # None
          /\ account[u].role # "owner" /\ account'[u].role \in {"admin", "member"}
          /\ account'[u] # None /\ account'[u].tenant = account[u].tenant
          /\ granter'[u] = account[u].tenant
          /\ \A v \in Requests \ {u} : account'[v] = account[v] /\ granter'[v] = granter[v]
        BY <1>3, SetRoleEffect
    <2>2. /\ account[granter'[u]] # None
          /\ account[granter'[u]].tenant = account[u].tenant /\ granter'[u] \in Users
        <3>1. Truthful(args[r].token) /\ args[r].token.user = account[u].tenant
            BY <1>3, SetRoleEffect
        <3>2. MayChange(r) /\ HasFound(r)
            BY <1>3 DEF IInv, RequestsSound, Sound, SetRole
        <3> QED
            BY <2>1, <3>1, <3>2 DEF Truthful, Users, Tokens, HasFound
    <2> HIDE DEF u
    <2>3. OneOwner'
        BY <2>1 DEF OneOwner, Users, TypeOK, Profiles
    <2>4. AdminsByOwner'
        BY <2>1 DEF AdminsByOwner, Users
    <2>5. GrantedWithin'
        BY <2>1, <2>2 DEF GrantedWithin, Users, TypeOK, Grows
    <2> QED
        BY <2>3, <2>4, <2>5
<1>4. ASSUME NEW r \in Requests, Deactivate(r)
      PROVE  OneOwner' /\ AdminsByOwner' /\ GrantedWithin'
    <2> DEFINE u == args[r].id
    <2>1. /\ u \in Requests /\ account[u] # None /\ account[u].role # "owner"
          /\ account'[u] # None /\ account'[u].tenant = account[u].tenant
          /\ account'[u].role = account[u].role
          /\ \A v \in Requests \ {u} : account'[v] = account[v]
          /\ granter' = granter
        BY <1>4, DeactivateEffect
    <2> HIDE DEF u
    <2>2. OneOwner'
        BY <2>1 DEF OneOwner, Users, TypeOK, Profiles
    <2>3. AdminsByOwner' /\ GrantedWithin'
        BY <2>1 DEF AdminsByOwner, GrantedWithin, Users
    <2> QED
        BY <2>2, <2>3
<1>5. ASSUME NEW c \in Requests, ExpireInvite(c) PROVE UNCHANGED <<account, granter>>
    BY <1>5 DEF ExpireInvite, db
<1> QED
    BY <1>1, <1>2, <1>3, <1>4, <1>5, TableKept DEF Next, vars

------------------------------------------------------------------------------
(* Requests, tokens and invites.                                           *)

(* A request that does not move stays sound while the others act.          *)
LEMMA SoundKept ==
    ASSUME TypeOK, Grows, NEW s \in Requests, Sound(s),
           pc'[s] = pc[s], args'[s] = args[s], account[s] = None => account'[s] = None
    PROVE  Sound(s)'
<1>1. \A t : Truthful(t) => Truthful(t)'
    BY TruthKept
<1>2. MayCreate(s) => MayCreate(s)'
    BY <1>1 DEF MayCreate
<1>3. MayChange(s) => MayChange(s)'
    BY <1>1 DEF MayChange
<1>4. HasFound(s) /\ MayChange(s) => HasFound(s)'
    BY DEF HasFound, MayChange, Grows, Users
<1>5. TenantFor(s)' = TenantFor(s)
    BY DEF TenantFor
<1> QED
    BY <1>1, <1>2, <1>3, <1>4, <1>5 DEF Sound

(* Only the request that acts moves.                                       *)
LEMMA OthersStay ==
    ASSUME IInv, NEW r \in Requests, Arrive(r) \/ Step(r) \/ Crash(r), NEW s \in Requests \ {r}
    PROVE  pc'[s] = pc[s] /\ args'[s] = args[s] /\ (account[s] = None => account'[s] = None)
<1>1. pc'[s] = pc[s] /\ args'[s] = args[s]
    BY DEF IInv, TypeOK, Arrive, Step, Crash, Send, Goto, Register, Login, GenerateInvite,
           RegisterMember, CreateUser, ChangeRole, DeactivateUser, StoreInvite, ReadInvite,
           ConsumeInvite, CheckEmail, InsertUser, FindLogin, IssueToken, FindForRole, SetRole,
           FindToDeactivate, Deactivate
<1>2. account[s] = None => account'[s] = None
    BY TableKept, InsertEffect, SetRoleEffect, DeactivateEffect DEF IInv
<1> QED
    BY <1>1, <1>2

(* Every arrival starts a sound request.                                   *)
LEMMA ArrivalSound ==
    ASSUME IInv, NEW r \in Requests, Arrive(r)
    PROVE  Sound(r)'
<1>1. ASSUME NEW step, NEW a, Send(r, step, a)
      PROVE  pc'[r] = step /\ args'[r] = a /\ account' = account /\ account[r] = None
    BY <1>1 DEF IInv, TypeOK, RequestsSound, Sound, Send, Goto, db, Before, Steps, Resting
<1>2. \A t \in tokens : Truthful(t) /\ t \in Tokens
    BY DEF IInv, TokensTruthful, Truthful
<1>3. CASE Register(r)
    BY <1>1, <1>3, ArgsType DEF Register, Sound, MayCreate, Roles
<1>4. CASE Login(r)
    BY <1>1, <1>4, ArgsType DEF Login, Sound
<1>5. CASE GenerateInvite(r)
    BY <1>1, <1>2, <1>5, ArgsType DEF GenerateInvite, Sound, Truthful
<1>6. CASE RegisterMember(r)
    BY <1>1, <1>6, ArgsType DEF RegisterMember, Sound, Roles
<1>7. CASE CreateUser(r)
    BY <1>1, <1>2, <1>7, ArgsType DEF CreateUser, Sound, MayCreate, Truthful, Roles
<1>8. CASE ChangeRole(r)
    BY <1>1, <1>2, <1>8, ArgsType DEF ChangeRole, Sound, MayChange, Truthful, Roles
<1>9. CASE DeactivateUser(r)
    BY <1>1, <1>2, <1>9, ArgsType DEF DeactivateUser, Sound, MayChange, Truthful
<1> QED
    BY <1>3, <1>4, <1>5, <1>6, <1>7, <1>8, <1>9 DEF Arrive

(* Every later step leaves the request that takes it sound.                *)
LEMMA StepSound ==
    ASSUME IInv, [Next]_vars, NEW r \in Requests, Step(r) \/ Crash(r)
    PROVE  Sound(r)'
<1> Grows /\ TypeOK /\ TypeOK' /\ Sound(r) /\ pc[r] # "new"
    BY Growth, TypeStep
       DEF IInv, RequestsSound, Step, Crash, Resting, StoreInvite, ReadInvite, ConsumeInvite,
           CheckEmail, InsertUser, FindLogin, IssueToken, FindForRole, SetRole,
           FindToDeactivate, Deactivate
<1>1. \A t : Truthful(t) => Truthful(t)'
    BY TruthKept
<1>2. CASE pc'[r] \in {"done", "crashed"}
    <2>1. args'[r] \in Wishes
        BY DEF TypeOK, Sound, Step, Crash, StoreInvite, ReadInvite, ConsumeInvite, CheckEmail,
               InsertUser, FindLogin, IssueToken, FindForRole, SetRole, FindToDeactivate,
               Deactivate, Wishes, Tokens, TokenFor, Users, Profiles
    <2> QED
        BY <1>2, <2>1 DEF Sound, Before
<1>3. CASE StoreInvite(r) \/ IssueToken(r) \/ SetRole(r) \/ Deactivate(r) \/ Crash(r)
    BY <1>2, <1>3 DEF StoreInvite, IssueToken, SetRole, Deactivate, Crash, Goto, TypeOK
<1>4. CASE ReadInvite(r)
    <2>1. args[r] \in Wishes /\ args[r].email \in Emails /\ args[r].id \in Requests
          /\ args[r].role = "member" /\ account'[r] = None
        BY <1>4 DEF ReadInvite, Sound, db, Before, Steps, Resting
    <2>2. CASE invite[args[r].id] = None
        BY <1>4, <2>1, <2>2 DEF ReadInvite, Sound, Goto, TypeOK
    <2>3. CASE invite[args[r].id] # None
        <3> DEFINE a == [args[r] EXCEPT !.token = invite[args[r].id]]
        <3>1. pc'[r] = "check" /\ args'[r] = a
            BY <1>4, <2>3 DEF ReadInvite, Goto, TypeOK
        <3>2. Truthful(invite[args[r].id])
            BY <2>1, <2>3 DEF IInv, InvitesTruthful
        <3>3. /\ a \in Wishes /\ a.email = args[r].email /\ a.id = args[r].id
              /\ a.role = "member" /\ a.token = invite[args[r].id] /\ a.token # None
            BY <2>1, <2>3, <3>2 DEF Wishes, Truthful
        <3> HIDE DEF a
        <3>4. Truthful(args[r].token)'
            BY <3>1, <3>2, <3>3, <1>4 DEF ReadInvite, Truthful, db
        <3> QED
            <4>1. MayCreate(r)'
                BY <2>1, <3>1, <3>3, <3>4 DEF MayCreate
            <4> QED
                BY <2>1, <3>1, <3>3, <4>1 DEF Sound
    <2> QED
        BY <2>2, <2>3
<1>5. CASE ConsumeInvite(r)
    <2>1. pc'[r] = "token" /\ pc[r] = "consume" /\ UNCHANGED <<args, account>>
        BY <1>5 DEF ConsumeInvite, Goto, db, TypeOK
    <2> QED
        BY <2>1 DEF Sound, Before, TenantFor, Truthful
<1>6. CASE CheckEmail(r)
    <2>1. pc'[r] \in {"refused", "insert"} /\ pc[r] = "check" /\ UNCHANGED <<args, account>>
        BY <1>6 DEF CheckEmail, Goto, db, TypeOK
    <2> QED
        BY <2>1 DEF Sound, Before, Steps, Resting, MayCreate, Truthful
<1>7. CASE InsertUser(r)
    <2>1. args' = args /\ pc[r] = "insert" /\ MayCreate(r) /\ args[r] \in Wishes
        BY <1>7 DEF InsertUser, Sound
    <2>2. CASE UNCHANGED <<account, granter>> /\ pc'[r] = "refused"
        BY <2>1, <2>2 DEF Sound, Before, Steps, Resting
    <2>3. CASE ~(UNCHANGED <<account, granter>> /\ pc'[r] = "refused")
        <3>1. /\ account'[r] # None /\ account'[r].tenant = TenantFor(r)
              /\ TenantFor(r) \in Requests /\ pc'[r] = AfterInsert(r) /\ account[r] = None
            BY <1>7, <2>3, InsertEffect
        <3>2. CASE pc'[r] = "done"
            BY <1>2, <3>2
        <3>3. CASE pc'[r] \in {"token", "consume"}
            <4>1. args[r].role \in Roles /\ (args[r].role = "owner" <=> r = TenantFor(r))
                <5>1. ASSUME args[r].token # None PROVE account[args[r].token.tenant] # None
                    BY <2>1, <5>1 DEF MayCreate, Truthful, IInv, OneOwner, Users, Tokens
                <5> QED
                    BY <2>1, <3>1, <5>1 DEF MayCreate, TenantFor, Roles
            <4>2. TenantFor(r)' = TenantFor(r)
                BY <2>1 DEF TenantFor
            <4>3. Truthful([user |-> r, tenant |-> TenantFor(r), role |-> args[r].role])'
                BY <2>1, <3>1, <4>1, <4>2 DEF Truthful, Tokens
            <4> QED
                BY <2>1, <3>3, <4>3 DEF Sound, MayCreate, Before
        <3> QED
            BY <3>1, <3>2, <3>3 DEF AfterInsert
    <2> QED
        BY <2>2, <2>3
<1>8. CASE FindLogin(r)
    <2>1. UNCHANGED account /\ args[r] \in Wishes /\ account[r] = None
        BY <1>8 DEF FindLogin, db, Sound, Before, Steps, Resting
    <2>2. CASE pc'[r] = "refused" /\ args' = args
        BY <2>1, <2>2 DEF Sound
    <2>3. ASSUME NEW u \in Users,
                 args' = [args EXCEPT ![r].token = TokenFor(u, account[u])], pc'[r] = "issue"
          PROVE  Sound(r)'
        <3> DEFINE t == TokenFor(u, account[u])
        <3>1. Truthful(t)
            BY DEF TokenFor, Truthful, Tokens, Users, TypeOK, Profiles, IInv, OneOwner
        <3>2. args'[r] = [args[r] EXCEPT !.token = t]
            BY <2>3 DEF TypeOK
        <3>3. args'[r] \in Wishes /\ args'[r].token = t
            BY <2>1, <3>1, <3>2 DEF Wishes, Truthful
        <3> HIDE DEF t
        <3> QED
            BY <2>1, <2>3, <3>1, <3>3 DEF Sound, Truthful
    <2> QED
        BY <1>8, <2>2, <2>3 DEF FindLogin, Goto, TypeOK
<1>9. CASE FindForRole(r)
    <2>1. /\ pc[r] = "findForRole" /\ UNCHANGED <<account, args>>
          /\ pc'[r] \in {"refused", "done", "setRole"}
          /\ pc'[r] = "setRole" => HasFound(r)
        BY <1>9 DEF FindForRole, Found, HasFound, Goto, db, TypeOK
    <2> QED
        BY <1>2, <2>1 DEF Sound, MayChange, HasFound, Truthful, Before, Steps, Resting
<1>10. CASE FindToDeactivate(r)
    <2>1. /\ pc[r] = "findToDeactivate" /\ UNCHANGED <<account, args>>
          /\ pc'[r] \in {"refused", "deactivate"}
          /\ pc'[r] = "deactivate" => HasFound(r)
        BY <1>10 DEF FindToDeactivate, Found, HasFound, Goto, db, TypeOK
    <2> QED
        BY <2>1 DEF Sound, MayChange, HasFound, Truthful, Before, Steps, Resting
<1> QED
    BY <1>3, <1>4, <1>5, <1>6, <1>7, <1>8, <1>9, <1>10 DEF Step

(* What is stored in Redis or handed out is truthful.                      *)
LEMMA TokensStep ==
    ASSUME IInv, [Next]_vars
    PROVE  InvitesTruthful' /\ TokensTruthful'
<1> Grows /\ TypeOK /\ InvitesTruthful /\ TokensTruthful
    BY Growth DEF IInv
<1>1. \A t : Truthful(t) => Truthful(t)'
    BY TruthKept
<1>2. CASE UNCHANGED <<invite, tokens>>
    BY <1>1, <1>2 DEF InvitesTruthful, TokensTruthful
<1>3. ASSUME NEW r \in Requests, StoreInvite(r) PROVE InvitesTruthful' /\ TokensTruthful'
    <2>1. Truthful(args[r].token)
        BY <1>3 DEF StoreInvite, IInv, RequestsSound, Sound
    <2>2. invite' = [invite EXCEPT ![r] = args[r].token] /\ UNCHANGED <<account, tokens>>
        BY <1>3 DEF StoreInvite, db
    <2> QED
        BY <2>1, <2>2 DEF InvitesTruthful, TokensTruthful, Truthful, TypeOK
<1>4. ASSUME NEW r \in Requests, ConsumeInvite(r) PROVE InvitesTruthful' /\ TokensTruthful'
    BY <1>4 DEF ConsumeInvite, db, InvitesTruthful, TokensTruthful, Truthful, TypeOK
<1>5. ASSUME NEW c \in Requests, ExpireInvite(c) PROVE InvitesTruthful' /\ TokensTruthful'
    BY <1>5 DEF ExpireInvite, db, InvitesTruthful, TokensTruthful, Truthful, TypeOK
<1>6. ASSUME NEW r \in Requests, IssueToken(r) PROVE InvitesTruthful' /\ TokensTruthful'
    <2> DEFINE t == IF pc[r] = "issue" THEN args[r].token
                    ELSE [user |-> r, tenant |-> TenantFor(r), role |-> args[r].role]
    <2>1. Truthful(t)
        BY <1>6 DEF IssueToken, IInv, RequestsSound, Sound
    <2>2. tokens' = tokens \cup {t} /\ UNCHANGED <<account, invite>>
        BY <1>6 DEF IssueToken, db
    <2> HIDE DEF t
    <2> QED
        BY <2>1, <2>2 DEF InvitesTruthful, TokensTruthful, Truthful
<1>7. ASSUME NEW r \in Requests, Arrive(r) \/ Step(r) \/ Crash(r),
             ~StoreInvite(r), ~ConsumeInvite(r), ~IssueToken(r)
      PROVE  UNCHANGED <<invite, tokens>>
    BY <1>7 DEF Arrive, Step, Crash, Send, Register, Login, GenerateInvite, RegisterMember,
                CreateUser, ChangeRole, DeactivateUser, ReadInvite, CheckEmail, InsertUser,
                FindLogin, FindForRole, SetRole, FindToDeactivate, Deactivate
<1> QED
    BY <1>2, <1>3, <1>4, <1>5, <1>6, <1>7 DEF Next, vars

(* The invariant is inductive.                                             *)
LEMMA Inductive == IInv /\ [Next]_vars => IInv'
<1> SUFFICES ASSUME IInv, [Next]_vars PROVE IInv'
    OBVIOUS
<1>1. RequestsSound'
    <2> Grows /\ TypeOK /\ RequestsSound
        BY Growth DEF IInv
    <2>1. ASSUME NEW r \in Requests, Arrive(r) \/ Step(r) \/ Crash(r), NEW s \in Requests
          PROVE  Sound(s)'
        <3>1. CASE s = r
            BY <2>1, <3>1, ArrivalSound, StepSound
        <3>2. CASE s # r
            BY <2>1, <3>2, OthersStay, SoundKept DEF RequestsSound
        <3> QED
            BY <3>1, <3>2
    <2>2. CASE \E c \in Requests : ExpireInvite(c)
        BY <2>2, SoundKept DEF RequestsSound, ExpireInvite, db
    <2>3. CASE UNCHANGED vars
        BY <2>3, SoundKept DEF RequestsSound, vars
    <2> QED
        BY <2>1, <2>2, <2>3 DEF Next, RequestsSound
<1> QED
    BY <1>1, TypeStep, TableStep, TokensStep DEF IInv

LEMMA Initially == Init => IInv
BY DEF Init, IInv, TypeOK, OneOwner, AdminsByOwner, GrantedWithin, InvitesTruthful,
       TokensTruthful, RequestsSound, Sound, Users, Before, Steps, Resting

(* The inductive invariant holds of every reachable state.                 *)
THEOREM Invariant == Spec => []IInv
BY Initially, Inductive, PTL DEF Spec

(* The variables keep their types.                                         *)
THEOREM TypeCorrect == Spec => []TypeOK
BY Invariant, PTL DEF IInv

(* A tenant never has no owner or two, and its owner is never disabled.    *)
THEOREM Ownership == Spec => []OneOwner
BY Invariant, PTL DEF IInv

(* Admins are made by owners only, whatever old tokens are still shown.    *)
THEOREM AdminsFromOwners == Spec => []AdminsByOwner
BY Invariant, PTL DEF IInv

(* No role comes from outside the tenant.                                  *)
THEOREM RolesFromWithin == Spec => []GrantedWithin
BY Invariant, PTL DEF IInv

(* A token with the role owner is the owner's.                             *)
THEOREM OwnersTokens == Spec => []OwnerTokens
<1>1. IInv => OwnerTokens
    BY DEF IInv, TokensTruthful, Truthful, OwnerTokens
<1> QED
    BY <1>1, Invariant, PTL

(* No overlap of requests makes two accounts of one email.                 *)
LEMMA EmailsStep == IInv /\ EmailsUnique /\ [Next]_vars => EmailsUnique'
<1> SUFFICES ASSUME IInv, EmailsUnique, [Next]_vars PROVE EmailsUnique'
    OBVIOUS
<1>1. CASE UNCHANGED account
    BY <1>1 DEF EmailsUnique, Users
<1>2. ASSUME NEW r \in Requests, InsertUser(r) PROVE EmailsUnique'
    <2>1. CASE UNCHANGED account
        BY <1>1, <2>1
    <2>2. CASE /\ account[r] = None /\ ~Taken(args[r].email)
               /\ account'[r].email = args[r].email
               /\ \A u \in Requests \ {r} : account'[u] = account[u]
        BY <2>2 DEF EmailsUnique, Users, Taken
    <2> QED
        BY <1>2, <2>1, <2>2, InsertEffect
<1>3. ASSUME NEW r \in Requests, SetRole(r) PROVE EmailsUnique'
    BY <1>3, SetRoleEffect DEF EmailsUnique, Users
<1>4. ASSUME NEW r \in Requests, Deactivate(r) PROVE EmailsUnique'
    BY <1>4, DeactivateEffect DEF EmailsUnique, Users
<1>5. ASSUME NEW c \in Requests, ExpireInvite(c) PROVE UNCHANGED account
    BY <1>5 DEF ExpireInvite, db
<1> QED
    BY <1>1, <1>2, <1>3, <1>4, <1>5, TableKept DEF Next, vars, IInv

(* An email names one account.                                             *)
THEOREM UniqueEmails == Spec => []EmailsUnique
<1>1. Init => EmailsUnique
    BY DEF Init, EmailsUnique, Users
<1> QED
    BY <1>1, EmailsStep, Invariant, PTL DEF Spec

(* No step reactivates a user or moves it to another tenant.               *)
THEOREM Deactivation == Spec => DeactivationSticks
<1>1. IInv /\ [Next]_vars =>
        [\A u \in Users : /\ account'[u] # None
                          /\ account'[u].tenant = account[u].tenant
                          /\ ~account[u].active => ~account'[u].active]_vars
    <2> SUFFICES ASSUME IInv, Next, NEW u \in Users
                 PROVE  /\ account'[u] # None
                        /\ account'[u].tenant = account[u].tenant
                        /\ ~account[u].active => ~account'[u].active
        OBVIOUS
    <2>1. account'[u] # None /\ account'[u].tenant = account[u].tenant
        BY Growth DEF Grows
    <2>2. ~account[u].active => ~account'[u].active
        <3>1. CASE UNCHANGED account
            BY <3>1
        <3>2. ASSUME NEW r \in Requests, InsertUser(r) PROVE account'[u] = account[u]
            BY <3>2, InsertEffect DEF Users
        <3>3. ASSUME NEW r \in Requests, SetRole(r) PROVE account'[u].active = account[u].active
            BY <3>3, SetRoleEffect DEF Users
        <3>4. ASSUME NEW r \in Requests, Deactivate(r)
              PROVE  account'[u] = account[u] \/ ~account'[u].active
            BY <3>4, DeactivateEffect DEF Users
        <3>5. ASSUME NEW c \in Requests, ExpireInvite(c) PROVE UNCHANGED account
            BY <3>5 DEF ExpireInvite, db
        <3> QED
            BY <3>1, <3>2, <3>3, <3>4, <3>5, TableKept DEF Next, IInv
    <2> QED
        BY <2>1, <2>2
<1> QED
    BY <1>1, Invariant, PTL DEF Spec, DeactivationSticks
==============================================================================
