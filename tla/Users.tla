------------------------------- MODULE Users -------------------------------
(***************************************************************************)
(* The accounts of an installation and everybody who writes them from      *)
(* outside a sign-in: the bootstrap of the first administrator             *)
(* (internal/app/bootstrap.go), the administrators                         *)
(* (internal/app/adminusers/adminusers.go) and the operator's shell        *)
(* (internal/app/recovery/recovery.go), over the users, user_passwords,    *)
(* user_identities and pending_identities tables                           *)
(* (internal/infra/postgres).                                              *)
(*                                                                         *)
(* An operation is a sequence of statements with no transaction around     *)
(* them, except where the code opens one; it may end after any statement   *)
(* (Abort, Crash), which also stands for the next one failing.  One that   *)
(* ends before its first write changes nothing and is left in progress.    *)
(* FederatedSignIn adds the sign-ins through the identity provider.        *)
(***************************************************************************)
EXTENDS Integers, FiniteSets

CONSTANTS
    AdminIds,    \* the random ids of accounts people create
    Subjects,    \* the provider's subjects; a subject is also the id derived
                 \* from it for the account its sign-up creates
    Emails, NoEmail,
    Policies,    \* model-access policies, told apart only
    Grants,      \* the policies the provider's groups may grant
    NewUsers,    \* what administrators ask CreateUser for
    Changes,     \* what administrators ask UpdateUser for
    Configs,     \* the deployment's settings a start may find
    Procs,       \* administrators' operations in progress at a time
    MaxOps,      \* bound: how many operations anybody begins
    MaxStarts,   \* bound: how many times the process starts
    NoId, NoUser

Ids == AdminIds \cup Subjects
Addresses == Emails \cup {NoEmail}

\* One users row.  `name' is who set the display name, "" for none.
User == [kind : {"human", "service"}, role : {"user", "admin"},
         status : {"active", "blocked"}, email : Addresses,
         name : {"", "admin", "idp"}, policy : Policies,
         source : {"local", "idp"}, must : BOOLEAN]

\* An edit; "keep" is a field it does not set.
Change == [role : {"keep", "user", "admin"},
           status : {"keep", "active", "blocked"},
           policy : Policies \cup {"keep"}, name : {"keep", "set"}]

NewUser == [kind : {"human", "service"}, role : {"user", "admin"},
            email : Addresses, signIn : {"password", "oidc"},
            policy : Policies]

Config == [email : Addresses, mapping : BOOLEAN, signUp : BOOLEAN]

ASSUME UsersAssumption ==
    /\ AdminIds \cap Subjects = {}
    /\ NoEmail \notin Emails
    /\ NoId \notin Ids
    /\ NoUser \notin User
    /\ Policies # {}
    /\ Configs \subseteq Config /\ Configs # {}
    /\ Grants \subseteq Policies
    /\ Changes \subseteq Change
    /\ NewUsers \subseteq NewUser
    /\ {MaxOps, MaxStarts} \subseteq Nat

VARIABLES
    users,       \* users: a row, or NoUser
    password,    \* user_passwords: who has one
    invitation,  \* pending_identities: live, lapsed, or no row: none
                 \* was ever written, or a redemption deleted it (spent)
    links,       \* user_identities: subject to account
    config,      \* the settings of the running process
    boot,        \* how far the process is: down, a step of Bootstrap, or up
    admin,       \* administrators' operations in progress
    recovery,    \* the shell's operation
    ops, starts,
    stale        \* an administrator's edit landed after that administrator
                 \* stopped being an active one

usersVars == <<users, password, invitation, links, config, boot, admin,
               recovery, ops, starts, stale>>

CanSignIn(u) == u # NoUser /\ u.kind = "human" /\ u.status = "active"
IsAdmin(id) == CanSignIn(users[id]) /\ users[id].role = "admin"
ByEmail(e) == {id \in Ids : users[id] # NoUser /\ users[id].email = e}
Taken(e) == e # NoEmail /\ ByEmail(e) # {}
Linked(id) == \E s \in Subjects : links[s] = id

IdleAdmin == [pc |-> "idle", actor |-> NoId, target |-> NoId,
              change |-> NoId, new |-> NoId]
IdleRecovery == [pc |-> "idle", id |-> NoId]
BootIdle == [pc |-> "down", id |-> NoId]

UsersTypeOK ==
    /\ users \in [Ids -> User \cup {NoUser}]
    /\ password \in [Ids -> BOOLEAN]
    /\ invitation \in [Ids -> {"none", "live", "lapsed", "spent"}]
    /\ links \in [Subjects -> Ids \cup {NoId}]
    /\ config \in Config
    /\ boot \in [pc : {"down", "exists", "create", "resume", "password",
                       "up"}, id : Ids \cup {NoId}]
    /\ admin \in [Procs -> [pc : {"idle", "update", "create", "invite",
                                  "flag", "reset"},
                             actor : Ids \cup {NoId},
                             target : Ids \cup {NoId},
                             change : Changes \cup {NoId},
                             new : NewUsers \cup {NoId}]]
    /\ recovery \in [pc : {"idle", "list", "unblock", "flag", "reset"},
                     id : Ids \cup {NoId}]
    /\ ops \in 0 .. MaxOps
    /\ starts \in 0 .. MaxStarts
    /\ stale \in BOOLEAN

UsersInit ==
    /\ users = [i \in Ids |-> NoUser]
    /\ password = [i \in Ids |-> FALSE]
    /\ invitation = [i \in Ids |-> "none"]
    /\ links = [s \in Subjects |-> NoId]
    /\ config = CHOOSE c \in Configs : TRUE
    /\ boot = BootIdle
    /\ admin = [p \in Procs |-> IdleAdmin]
    /\ recovery = IdleRecovery
    /\ ops = 0 /\ starts = 0
    /\ stale = FALSE

Up == boot.pc = "up"

-----------------------------------------------------------------------------
(* Bootstrap, as the process starts.                                       *)

\* bootstrapAdmin, and Bootstrap up to its first statement: with no address
\* there is nothing to do.
Start(c) ==
    /\ boot.pc = "down"
    /\ starts < MaxStarts
    /\ starts' = starts + 1
    /\ config' = c
    /\ boot' = [BootIdle EXCEPT
                  !.pc = IF c.email = NoEmail THEN "up" ELSE "exists"]
    /\ UNCHANGED <<users, password, invitation, links, admin, recovery,
                   ops, stale>>

\* A variant of AdminExists that takes any administrator for a finished
\* bootstrap.
AdminExistsDone ==
    /\ boot.pc = "exists"
    /\ boot' = [boot EXCEPT !.pc =
          IF \E i \in Ids : users[i] # NoUser /\ users[i].role = "admin"
          THEN "up" ELSE "create"]
    /\ UNCHANGED <<users, password, invitation, links, config, admin,
                   recovery, ops, starts, stale>>

\* AdminExists counts a blocked administrator too.
AdminExists ==
    /\ boot.pc = "exists"
    /\ boot' = [boot EXCEPT !.pc =
          IF \E i \in Ids : users[i] # NoUser /\ users[i].role = "admin"
          THEN "resume" ELSE "create"]
    /\ UNCHANGED <<users, password, invitation, links, config, admin,
                   recovery, ops, starts, stale>>

Administrator(e) ==
    [kind |-> "human", role |-> "admin", status |-> "active", email |-> e,
     name |-> "admin", policy |-> CHOOSE p \in Policies : TRUE,
     source |-> "local", must |-> TRUE]

\* users.Create: an address somebody else's account holds ends the start.
CreateAdministrator ==
    /\ boot.pc = "create"
    /\ \/ /\ Taken(config.email)
          /\ boot' = BootIdle
          /\ UNCHANGED users
       \/ /\ ~ Taken(config.email)
          /\ \E i \in {j \in AdminIds : users[j] = NoUser} :
                /\ users' = [users EXCEPT ![i] = Administrator(config.email)]
                /\ boot' = [pc |-> "password", id |-> i]
    /\ UNCHANGED <<password, invitation, links, config, admin, recovery,
                   ops, starts, stale>>

\* resumeBootstrap: an administrator at the address, still to change a
\* password that never landed.
Unfinished(i) ==
    /\ users[i].role = "admin"
    /\ users[i].must
    /\ ~ password[i]

BootstrapUnfinished == \E i \in ByEmail(config.email) : Unfinished(i)

ResumeBootstrap ==
    /\ boot.pc = "resume"
    /\ boot' = IF BootstrapUnfinished
               THEN [pc |-> "password",
                     id |-> CHOOSE i \in ByEmail(config.email) :
                               Unfinished(i)]
               ELSE [BootIdle EXCEPT !.pc = "up"]
    /\ UNCHANGED <<users, password, invitation, links, config, admin,
                   recovery, ops, starts, stale>>

IssueBootstrapPassword ==
    /\ boot.pc = "password"
    /\ password' = [password EXCEPT ![boot.id] = TRUE]
    /\ boot' = [BootIdle EXCEPT !.pc = "up"]
    /\ UNCHANGED <<users, invitation, links, config, admin, recovery, ops,
                   starts, stale>>

\* The process ends anywhere, a failed start included; the shell's command
\* is a process of its own.
Crash ==
    /\ boot.pc # "down"
    /\ boot' = BootIdle
    /\ admin' = [p \in Procs |-> IdleAdmin]
    /\ UNCHANGED <<users, password, invitation, links, config, recovery,
                   ops, starts, stale>>

-----------------------------------------------------------------------------
(* The administrators.                                                     *)

\* loadSession, requireFullSession and requireAdmin: the account behind the
\* session is read once, as the request arrives.
Authenticated(a) ==
    /\ Up
    /\ IsAdmin(a)
    /\ ~ users[a].must
    /\ password[a] \/ Linked(a)

Begin(p, a, t, pc, ch, new) ==
    /\ admin[p] = IdleAdmin
    /\ Authenticated(a)
    /\ ops < MaxOps
    /\ ops' = ops + 1
    /\ admin' = [admin EXCEPT ![p] = [pc |-> pc, actor |-> a, target |-> t,
                                      change |-> ch, new |-> new]]
    /\ UNCHANGED <<users, password, invitation, links, config, boot,
                   recovery, starts, stale>>

LocksOutSelf(a, t, ch) ==
    t = a /\ (ch.status = "blocked" \/ ch.role = "user")

IDPOwns(t) == config.mapping /\ users[t].source = "idp"

\* A variant of BeginUpdate without ErrSelfLockout.
BeginUpdateAnyone(p, a, t, ch) ==
    /\ users[t] # NoUser
    /\ ~ (users[t].kind = "service" /\ ch.role = "admin")
    /\ ~ (ch.policy # "keep" /\ IDPOwns(t))
    /\ Begin(p, a, t, "update", ch, NoId)

\* UpdateUser up to its write: the edit is refused for a service account's
\* role, a policy the provider owns, and an administrator's own lockout.
BeginUpdate(p, a, t, ch) ==
    /\ ~ LocksOutSelf(a, t, ch)
    /\ users[t] # NoUser
    /\ ~ (users[t].kind = "service" /\ ch.role = "admin")
    /\ ~ (ch.policy # "keep" /\ IDPOwns(t))
    /\ Begin(p, a, t, "update", ch, NoId)

Edited(u, ch) ==
    [u EXCEPT
       !.role = IF ch.role = "keep" THEN @ ELSE ch.role,
       !.status = IF ch.status = "keep" THEN @ ELSE ch.status,
       !.policy = IF ch.policy = "keep" THEN @ ELSE ch.policy,
       !.source = IF ch.policy = "keep" THEN @ ELSE "local",
       !.name = IF ch.name = "keep" THEN @ ELSE "admin"]

Done(p) == admin' = [admin EXCEPT ![p] = IdleAdmin]
Outlived(p) == stale' = (stale \/ ~ IsAdmin(admin[p].actor))

\* UpdateAdminState: the columns the edit names, in one statement that
\* matches no row whose policy the provider has come to own.  Blocking then
\* ends the account's sessions (Sessions).
UpdateAdminState(p) ==
    /\ admin[p].pc = "update"
    /\ LET t == admin[p].target
           ch == admin[p].change
       IN  \/ /\ ch.policy # "keep" /\ IDPOwns(t)
              /\ UNCHANGED <<users, stale>>
           \/ /\ ~ (ch.policy # "keep" /\ IDPOwns(t))
              /\ users' = [users EXCEPT ![t] = Edited(@, ch)]
              /\ Outlived(p)
    /\ Done(p)
    /\ UNCHANGED <<password, invitation, links, config, boot, recovery,
                   ops, starts>>

\* CreateUser up to its write: a service account has no address and no role.
BeginCreate(p, a, new) ==
    /\ new.kind = "service" => new.email = NoEmail /\ new.role = "user"
    /\ new.kind = "human" => new.email # NoEmail
    /\ Begin(p, a, NoId, "create", NoId, new)

NewRow(new) ==
    [kind |-> new.kind, role |-> new.role, status |-> "active",
     email |-> new.email, name |-> "admin", policy |-> new.policy,
     source |-> "local",
     must |-> new.kind = "human" /\ new.signIn = "password"]

\* WriteInvitation: any other invitation for the address goes.
Invited(id, e) ==
    [i \in Ids |-> IF i = id THEN "live"
                   ELSE IF users[i] # NoUser /\ users[i].email = e
                        THEN "none" ELSE invitation[i]]

\* CreateAccount: the account, its first credential and the audit record in
\* one transaction, under a fresh id; a taken address rolls it back.
CreateAccount(p) ==
    /\ admin[p].pc = "create"
    /\ LET new == admin[p].new
           oidc == new.kind = "human" /\ new.signIn = "oidc"
       IN  \/ /\ Taken(new.email)
              /\ UNCHANGED <<users, password, invitation>>
           \/ /\ ~ Taken(new.email)
              /\ \E i \in {j \in AdminIds : users[j] = NoUser} :
                    /\ users' = [users EXCEPT ![i] = NewRow(new)]
                    /\ password' = [password EXCEPT
                                      ![i] = new.kind = "human" /\ ~ oidc]
                    /\ invitation' = IF oidc THEN Invited(i, new.email)
                                     ELSE invitation
    /\ Done(p)
    /\ UNCHANGED <<links, config, boot, recovery, ops, starts,
                   stale>>

\* RenewInvitation up to its write.
BeginInvite(p, a, t) ==
    /\ users[t] # NoUser
    /\ users[t].kind = "human" /\ users[t].email # NoEmail
    /\ Begin(p, a, t, "invite", NoId, NoId)

\* Invite: one transaction, rolled back for an account that is linked.
Invite(p) ==
    /\ admin[p].pc = "invite"
    /\ LET t == admin[p].target
       IN  \/ Linked(t) /\ UNCHANGED invitation
           \/ ~ Linked(t) /\ invitation' = Invited(t, users[t].email)
    /\ Done(p)
    /\ UNCHANGED <<users, password, links, config, boot, recovery, ops,
                   starts, stale>>

\* ResetPassword up to its first write.
BeginReset(p, a, t) ==
    /\ users[t] # NoUser
    /\ users[t].kind = "human"
    /\ Begin(p, a, t, "flag", NoId, NoId)

\* The restriction lands before the password.
ResetFlag(p) ==
    /\ admin[p].pc = "flag"
    /\ users' = [users EXCEPT ![admin[p].target].must = TRUE]
    /\ admin' = [admin EXCEPT ![p].pc = "reset"]
    /\ UNCHANGED <<password, invitation, links, config, boot, recovery,
                   ops, starts, stale>>

ResetPassword(p) ==
    /\ admin[p].pc = "reset"
    /\ password' = [password EXCEPT ![admin[p].target] = TRUE]
    /\ Done(p)
    /\ UNCHANGED <<users, invitation, links, config, boot, recovery, ops,
                   starts, stale>>

Abort(p) ==
    /\ admin[p].pc = "reset"
    /\ Done(p)
    /\ UNCHANGED <<users, password, invitation, links, config, boot,
                   recovery, ops, starts, stale>>

-----------------------------------------------------------------------------
(* The shell.                                                              *)

\* recovery.ResetPassword's first read; the server may be running or not.
Recover(e, unblock) ==
    /\ recovery = IdleRecovery
    /\ ops < MaxOps
    /\ ops' = ops + 1
    /\ \E i \in ByEmail(e) :
          /\ users[i].kind = "human"
          /\ users[i].status = "blocked" => users[i].role = "admin" /\ unblock
          /\ recovery' = [pc |-> IF users[i].status = "active" THEN "flag"
                                 ELSE "list",
                          id |-> i]
    /\ UNCHANGED <<users, password, invitation, links, config, boot, admin,
                   starts, stale>>

\* otherActiveAdmin.
RecoverList ==
    /\ recovery.pc = "list"
    /\ recovery' = IF \E i \in Ids \ {recovery.id} : IsAdmin(i)
                   THEN IdleRecovery ELSE [recovery EXCEPT !.pc = "unblock"]
    /\ UNCHANGED <<users, password, invitation, links, config, boot, admin,
                   ops, starts, stale>>

Unblock ==
    /\ recovery.pc = "unblock"
    /\ users' = [users EXCEPT ![recovery.id].status = "active"]
    /\ recovery' = [recovery EXCEPT !.pc = "flag"]
    /\ UNCHANGED <<password, invitation, links, config, boot, admin, ops,
                   starts, stale>>

RecoverFlag ==
    /\ recovery.pc = "flag"
    /\ users' = [users EXCEPT ![recovery.id].must = TRUE]
    /\ recovery' = [recovery EXCEPT !.pc = "reset"]
    /\ UNCHANGED <<password, invitation, links, config, boot, admin, ops,
                   starts, stale>>

RecoverReset ==
    /\ recovery.pc = "reset"
    /\ password' = [password EXCEPT ![recovery.id] = TRUE]
    /\ recovery' = IdleRecovery
    /\ UNCHANGED <<users, invitation, links, config, boot, admin, ops, starts,
                   stale>>

RecoverAbort ==
    /\ recovery.pc \in {"flag", "reset"}
    /\ recovery' = IdleRecovery
    /\ UNCHANGED <<users, password, invitation, links, config, boot, admin,
                   ops, starts, stale>>

-----------------------------------------------------------------------------
\* A person replaces their password (Sessions) and the restriction goes.
ChangePassword(i) ==
    /\ Up
    /\ CanSignIn(users[i])
    /\ users[i].must
    /\ password[i]
    /\ users' = [users EXCEPT ![i].must = FALSE]
    /\ UNCHANGED <<password, invitation, links, config, boot, admin,
                   recovery, ops, starts, stale>>

\* InvitationTTL passes.
Lapse(i) ==
    /\ invitation[i] = "live"
    /\ invitation' = [invitation EXCEPT ![i] = "lapsed"]
    /\ UNCHANGED <<users, password, links, config, boot, admin, recovery,
                   ops, starts, stale>>

UsersNext ==
    \/ \E c \in Configs : Start(c)
    \/ AdminExists
    \/ CreateAdministrator
    \/ ResumeBootstrap
    \/ IssueBootstrapPassword
    \/ \E p \in Procs :
          \/ \E a \in Ids, t \in Ids :
                \/ \E ch \in Changes : BeginUpdate(p, a, t, ch)
                \/ BeginInvite(p, a, t)
                \/ BeginReset(p, a, t)
          \/ \E a \in Ids, new \in NewUsers : BeginCreate(p, a, new)
          \/ UpdateAdminState(p)
          \/ CreateAccount(p)
          \/ Invite(p)
          \/ ResetFlag(p)
          \/ ResetPassword(p)
          \/ Abort(p)
    \/ \E e \in Emails, unblock \in BOOLEAN : Recover(e, unblock)
    \/ RecoverList
    \/ Unblock
    \/ RecoverFlag
    \/ RecoverReset
    \/ RecoverAbort
    \/ \E i \in Ids : ChangePassword(i) \/ Lapse(i)

-----------------------------------------------------------------------------
(***************************************************************************)
(* Once the process is up with a bootstrap address, some administrator can *)
(* sign in, unless an administrator's edit landed after that administrator *)
(* had been blocked or demoted: nobody may lock themselves out, but two    *)
(* administrators may lock each other out at the same moment               *)
(* (adminusers.go UpdateUser, ErrSelfLockout).                             *)
(***************************************************************************)
AdminRemainsUnlessStale ==
    Up /\ config.email # NoEmail /\ ~ stale => \E i \in Ids : IsAdmin(i)

(***************************************************************************)
(* Whatever start died between the bootstrap administrator's row and its   *)
(* password, a start that comes up with that address has finished the job  *)
(* (bootstrap.go resumeBootstrap).                                         *)
(***************************************************************************)
BootstrapFinished ==
    [][~ Up /\ Up' /\ config'.email # NoEmail =>
          ~ BootstrapUnfinished']_usersVars

=============================================================================
