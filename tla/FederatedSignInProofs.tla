----------------------- MODULE FederatedSignInProofs -----------------------
(***************************************************************************)
(* The theorems of the accounts: FederatedSignIn, with Users under it, for *)
(* any number of accounts, subjects, addresses, administrators' operations *)
(* and sign-ins in progress.                                               *)
(***************************************************************************)
EXTENDS FederatedSignIn, FiniteSetTheorems, TLAPS

-----------------------------------------------------------------------------
(* The inductive invariant.                                                *)

Exists(i) == i \in Ids /\ users[i] \in User

\* An administrator's operation in progress knows what it is about to write:
\* its account exists, the edit does not lock its author out, and what it
\* creates has passed CreateUser's checks.
AdminOpOK(p) ==
    /\ admin[p].pc \in {"update", "invite", "flag", "reset"} =>
          Exists(admin[p].target)
    /\ admin[p].pc = "update" =>
          /\ admin[p].actor \in Ids
          /\ admin[p].change \in Changes
          /\ ~ LocksOutSelf(admin[p].actor, admin[p].target,
                            admin[p].change)
    /\ admin[p].pc = "create" =>
          /\ admin[p].new \in NewUsers
          /\ admin[p].new.kind = "service" =>
                admin[p].new.email = NoEmail /\ admin[p].new.role = "user"
          /\ admin[p].new.kind = "human" => admin[p].new.email # NoEmail
    /\ admin[p].pc = "invite" => users[admin[p].target].email # NoEmail

AdminOK == \A p \in Procs : AdminOpOK(p)

\* The shell's account exists; the account a start issues a password to is
\* the one at its address; an administrator works only while it is up.
RecoveryOK == recovery.pc # "idle" => Exists(recovery.id)

BootOK ==
    /\ boot.pc = "password" =>
          Exists(boot.id) /\ users[boot.id].email = config.email
    /\ ~ Up => \A p \in Procs : admin[p].pc = "idle"

\* users_email_key: an address belongs to one account.
EmailsUnique ==
    \A i, j \in Ids :
        /\ users[i] # NoUser /\ users[j] # NoUser
        /\ users[i].email = users[j].email /\ users[i].email # NoEmail
        => i = j

HasRole(i) == users[i] # NoUser /\ users[i].role = "admin"

\* Until an edit outlives its author, where there is an administrator there
\* is one who can sign in, and a start past its first read has found one.
AdminsOK ==
    ~ stale =>
        /\ (\E i \in Ids : HasRole(i)) => \E i \in Ids : IsAdmin(i)
        /\ \/ boot.pc \in {"resume", "password"}
           \/ Up /\ config.email # NoEmail
           => \E i \in Ids : HasRole(i)

\* What a sign-in knows at each step of it.
SignInOK(l) ==
    LET r == login[l]
    IN  /\ r.pc # "idle" =>
              /\ r.subject \in Subjects
              /\ r.policy \in Policies
              /\ r.email \in EmailsOf[r.subject] \cup {NoEmail}
        /\ r.pc \in {"create", "own"} => r.id = r.subject
        /\ r.pc \in {"linked", "invited", "consume", "link", "fill", "save"}
              => Exists(r.id)
        /\ r.pc \in {"invited", "consume", "link"} /\ r.id # r.subject =>
              /\ users[r.id].email \in EmailsOf[r.subject]
              /\ invitation[r.id] # "none"

LoginOK == \A l \in Logins : SignInOK(l)

LinksOK == \A s \in Subjects : links[s] # NoId => Exists(links[s])

\* A sign-in between finding the invitation of `i' and linking a subject
\* other than the one `i' was created for.
Busy(l, i) ==
    /\ login[l].id = i
    /\ \/ login[l].pc \in {"invited", "consume"}
       \/ login[l].pc = "link" /\ login[l].subject # i

By(i) == {s \in Subjects \ {i} : links[s] = i}

\* Where no two redemptions met: one sign-in at a time redeems, with nobody
\* linked yet, and a link, made or about to be, has no live invitation left.
RedeemedOK(i) ==
    /\ \A k, l \in Logins : Busy(k, i) /\ Busy(l, i) => k = l
    /\ \A l \in Logins : Busy(l, i) => By(i) = {}
    /\ \A l \in Logins :
          Busy(l, i) /\ login[l].pc = "link" => invitation[i] # "live"
    /\ By(i) # {} => invitation[i] # "live"
    /\ \A s, t \in By(i) : s = t

RedeemOK == \A i \in Ids \ raced : RedeemedOK(i)

Inv ==
    /\ TypeOK
    /\ AdminOK
    /\ RecoveryOK
    /\ BootOK
    /\ EmailsUnique
    /\ AdminsOK
    /\ LoginOK
    /\ LinksOK
    /\ SubjectOwnsAccount
    /\ RedeemOK
-----------------------------------------------------------------------------
(* The users table, whoever writes it.                                     *)

\* A step keeps every row, its address and its kind, and adds at most one
\* row, at an address nobody has.
Rows ==
    /\ users' \in [Ids -> User \cup {NoUser}]
    /\ \A i \in Ids : users[i] \in User =>
          /\ users'[i] \in User
          /\ users'[i].email = users[i].email
          /\ users'[i].kind = users[i].kind
    /\ \/ \A i \in Ids : users[i] = NoUser => users'[i] = NoUser
       \/ \E j \in Ids :
             /\ users[j] = NoUser
             /\ ~ Taken(users'[j].email)
             /\ \A i \in Ids \ {j} : users[i] = NoUser => users'[i] = NoUser

\* A step demotes and blocks nobody, and a row it adds for an administrator
\* is one who can sign in.
Roles ==
    \A i \in Ids :
        /\ users[i] \in User =>
              /\ users'[i].role = users[i].role
              /\ users'[i].status \in {users[i].status, "active"}
        /\ users[i] = NoUser /\ users'[i] \in User
              /\ users'[i].role = "admin" =>
              users'[i].kind = "human" /\ users'[i].status = "active"

\* A row is a user, or there is none.
LEMMA RowIs ==
    ASSUME users \in [Ids -> User \cup {NoUser}], NEW i \in Ids
    PROVE  users[i] # NoUser <=> users[i] \in User
  BY UsersAssumption

LEMMA RowsSame ==
    ASSUME users \in [Ids -> User \cup {NoUser}], users' = users
    PROVE  Rows /\ Roles
  BY UsersAssumption DEF Rows, Roles

\* A statement that rewrites one row.
LEMMA RowWritten ==
    ASSUME users \in [Ids -> User \cup {NoUser}],
           NEW i \in Ids, users[i] \in User, NEW v \in User,
           v.email = users[i].email, v.kind = users[i].kind,
           users' = [users EXCEPT ![i] = v]
    PROVE  /\ Rows
           /\ v.role = users[i].role
                 /\ v.status \in {users[i].status, "active"} => Roles
<1>1. NoUser \notin User
  BY UsersAssumption
<1>2. \A j \in Ids : users'[j] = IF j = i THEN v ELSE users[j]
  OBVIOUS
<1>3. users' \in [Ids -> User \cup {NoUser}]
  OBVIOUS
<1> QED BY <1>1, <1>2, <1>3 DEF Rows, Roles

\* A statement that inserts one row.
LEMMA RowAdded ==
    ASSUME users \in [Ids -> User \cup {NoUser}],
           NEW i \in Ids, users[i] = NoUser, NEW v \in User,
           ~ Taken(v.email),
           v.role = "admin" => v.kind = "human" /\ v.status = "active",
           users' = [users EXCEPT ![i] = v]
    PROVE  Rows /\ Roles
<1>1. NoUser \notin User
  BY UsersAssumption
<1>2. \A j \in Ids : users'[j] = IF j = i THEN v ELSE users[j]
  OBVIOUS
<1>3. users' \in [Ids -> User \cup {NoUser}]
  OBVIOUS
<1>4. Rows
  BY <1>1, <1>2, <1>3 DEF Rows
<1>5. Roles
  BY <1>1, <1>2 DEF Roles
<1> QED BY <1>4, <1>5

\* The rows the code writes are rows.
LEMMA EditedTyped ==
    ASSUME NEW u \in User, NEW ch \in Change
    PROVE  /\ Edited(u, ch) \in User
           /\ Edited(u, ch).email = u.email
           /\ Edited(u, ch).kind = u.kind
           /\ Edited(u, ch).role = IF ch.role = "keep" THEN u.role ELSE ch.role
           /\ Edited(u, ch).status =
                 IF ch.status = "keep" THEN u.status ELSE ch.status
           /\ ch.policy = "keep" => /\ Edited(u, ch).policy = u.policy
                                    /\ Edited(u, ch).source = u.source
<1> DEFINE r == IF ch.role = "keep" THEN u.role ELSE ch.role
           st == IF ch.status = "keep" THEN u.status ELSE ch.status
           po == IF ch.policy = "keep" THEN u.policy ELSE ch.policy
           so == IF ch.policy = "keep" THEN u.source ELSE "local"
           na == IF ch.name = "keep" THEN u.name ELSE "admin"
           v == [u EXCEPT !.role = r, !.status = st, !.policy = po,
                          !.source = so, !.name = na]
<1>1. r \in {"user", "admin"} /\ st \in {"active", "blocked"}
  BY DEF User, Change
<1>2. po \in Policies /\ so \in {"local", "idp"} /\ na \in {"", "admin", "idp"}
  BY DEF User, Change
<1>3. Edited(u, ch) = v
  BY DEF Edited, User
<1>4. ch.policy = "keep" => po = u.policy /\ so = u.source
  OBVIOUS
<1> HIDE DEF r, st, po, so, na
<1>5. /\ v \in User
      /\ v.email = u.email /\ v.kind = u.kind
      /\ v.role = r /\ v.status = st
      /\ v.policy = po /\ v.source = so
  BY <1>1, <1>2 DEF User
<1> HIDE DEF v
<1> QED BY <1>3, <1>4, <1>5 DEF r, st

LEMMA NewRowTyped ==
    ASSUME NEW new \in NewUser
    PROVE  NewRow(new) \in User
  BY DEF NewRow, NewUser, User

LEMMA AdministratorTyped ==
    ASSUME NEW e \in Addresses
    PROVE  Administrator(e) \in User
  BY UsersAssumption DEF Administrator, User

LEMMA MustTyped ==
    ASSUME NEW u \in User, NEW b \in BOOLEAN
    PROVE  /\ [u EXCEPT !.must = b] \in User
           /\ [u EXCEPT !.must = b].email = u.email
           /\ [u EXCEPT !.must = b].kind = u.kind
           /\ [u EXCEPT !.must = b].role = u.role
           /\ [u EXCEPT !.must = b].status = u.status
           /\ [u EXCEPT !.must = b].policy = u.policy
           /\ [u EXCEPT !.must = b].source = u.source
  BY DEF User
-----------------------------------------------------------------------------
(* What every step of Users leaves to the sign-ins.                        *)

\* An invitation that was written never turns into none, and one becomes
\* live only while nobody is linked to its account.
Invitations ==
    /\ \A i \in Ids : invitation[i] # "none" => invitation'[i] # "none"
    /\ \A i \in Ids :
          invitation[i] # "live" /\ invitation'[i] = "live" => ~ Linked(i)

\* With its address to itself, an invited account takes nobody's invitation.
LEMMA InvitedAlone ==
    ASSUME users \in [Ids -> User \cup {NoUser}], NEW i \in Ids, NEW e,
           ~ Linked(i),
           \A j \in Ids \ {i} : users[j] # NoUser => users[j].email # e,
           invitation' = Invited(i, e)
    PROVE  Invitations
<1>1. \A j \in Ids : invitation'[j] = IF j = i THEN "live" ELSE invitation[j]
  BY DEF Invited
<1> QED BY <1>1 DEF Invitations

LEMMA BootRows ==
    ASSUME Inv,
           \/ \E c \in Configs : Start(c)
           \/ AdminExists \/ CreateAdministrator \/ ResumeBootstrap
           \/ IssueBootstrapPassword
    PROVE  Rows /\ Roles /\ Invitations /\ links' = links
<1>1. users \in [Ids -> User \cup {NoUser}] /\ config.email \in Addresses
  BY DEF Inv, TypeOK, UsersTypeOK, Config
<1>2. links' = links /\ invitation' = invitation
  BY DEF Start, AdminExists, CreateAdministrator, ResumeBootstrap,
         IssueBootstrapPassword
<1>3. CASE users' = users
  BY <1>1, <1>2, <1>3, RowsSame DEF Invitations
<1>4. CASE CreateAdministrator /\ users' # users
  <2>1. PICK i \in AdminIds :
           /\ ~ Taken(config.email) /\ users[i] = NoUser
           /\ users' = [users EXCEPT ![i] = Administrator(config.email)]
    BY <1>4 DEF CreateAdministrator
  <2>2. /\ Administrator(config.email).email = config.email
        /\ Administrator(config.email).kind = "human"
        /\ Administrator(config.email).status = "active"
    BY DEF Administrator
  <2>3. Administrator(config.email) \in User /\ i \in Ids
    BY <1>1, AdministratorTyped DEF Ids
  <2>4. Rows /\ Roles
    BY <1>1, <2>1, <2>2, <2>3, RowAdded
  <2> QED BY <1>2, <2>4 DEF Invitations
<1> QED BY <1>3, <1>4
        DEF Start, AdminExists, ResumeBootstrap, IssueBootstrapPassword

LEMMA CreateAccountRows ==
    ASSUME Inv, NEW p \in Procs, CreateAccount(p)
    PROVE  Rows /\ Roles /\ Invitations /\ links' = links
<1> DEFINE new == admin[p].new
           oidc == new.kind = "human" /\ new.signIn = "oidc"
<1>1. users \in [Ids -> User \cup {NoUser}]
  BY DEF Inv, TypeOK, UsersTypeOK
<1>2. links' = links
  BY DEF CreateAccount
<1>3. CASE UNCHANGED <<users, password, invitation>>
  BY <1>1, <1>2, <1>3, RowsSame DEF Invitations
<1>4. CASE ~ UNCHANGED <<users, password, invitation>>
  <2>1. PICK i \in AdminIds :
           /\ ~ Taken(new.email) /\ users[i] = NoUser
           /\ users' = [users EXCEPT ![i] = NewRow(new)]
           /\ invitation' = IF oidc THEN Invited(i, new.email)
                            ELSE invitation
    BY <1>4 DEF CreateAccount
  <2>2. /\ new \in NewUser
        /\ new.kind = "service" => new.role = "user"
        /\ new.kind = "human" => new.email # NoEmail
    BY UsersAssumption DEF Inv, AdminOK, AdminOpOK, CreateAccount
  <2>3. i \in Ids /\ NewRow(new) \in User
    BY <2>2, NewRowTyped DEF Ids
  <2>4. /\ NewRow(new).email = new.email
        /\ NewRow(new).role = "admin" =>
              NewRow(new).kind = "human" /\ NewRow(new).status = "active"
    BY <2>2 DEF NewRow, NewUser
  <2>5. Rows /\ Roles
    BY <1>1, <2>1, <2>3, <2>4, RowAdded
  <2>6. ~ Linked(i)
    BY <2>1, <2>3, UsersAssumption DEF Inv, LinksOK, Linked, Exists, Ids
  <2>7. Invitations
    <3>1. CASE oidc
      <4>1. \A j \in Ids : users[j] # NoUser => users[j].email # new.email
        BY <2>1, <2>2, <3>1 DEF Taken, ByEmail
      <4> HIDE DEF new
      <4> QED BY <1>1, <2>1, <2>3, <2>6, <3>1, <4>1, InvitedAlone
    <3>2. CASE ~ oidc
      BY <2>1, <3>2 DEF Invitations
    <3> QED BY <3>1, <3>2
  <2> QED BY <1>2, <2>5, <2>7
<1> QED BY <1>3, <1>4

LEMMA UpdateRows ==
    ASSUME Inv, NEW p \in Procs, UpdateAdminState(p)
    PROVE  /\ Rows /\ Invitations /\ links' = links
           /\ \/ UNCHANGED <<users, stale>>
              \/ /\ users' = [users EXCEPT ![admin[p].target] =
                                 Edited(@, admin[p].change)]
                 /\ Outlived(p)
                 /\ ~ (admin[p].change.policy # "keep"
                         /\ IDPOwns(admin[p].target))
<1> DEFINE t == admin[p].target
           ch == admin[p].change
<1>1. users \in [Ids -> User \cup {NoUser}]
  BY DEF Inv, TypeOK, UsersTypeOK
<1>2. links' = links /\ Invitations
  BY DEF UpdateAdminState, Invitations
<1>3. t \in Ids /\ users[t] \in User /\ ch \in Change
  BY UsersAssumption DEF Inv, AdminOK, AdminOpOK, Exists, UpdateAdminState
<1>4. \/ UNCHANGED <<users, stale>>
      \/ /\ users' = [users EXCEPT ![t] = Edited(users[t], ch)]
         /\ Outlived(p)
         /\ ~ (ch.policy # "keep" /\ IDPOwns(t))
  BY DEF UpdateAdminState
<1>5. Rows
  <2>1. CASE users' = users
    BY <1>1, <2>1, RowsSame
  <2>2. CASE users' = [users EXCEPT ![t] = Edited(users[t], ch)]
    <3> HIDE DEF t, ch
    <3> QED BY <1>1, <1>3, <2>2, EditedTyped, RowWritten
  <2> QED BY <1>4, <2>1, <2>2
<1> QED BY <1>2, <1>4, <1>5
\* The steps of an administrator's operation but the two above.
AdminRest(p) ==
    \/ \E a \in Ids, t \in Ids :
          \/ \E ch \in Changes : BeginUpdate(p, a, t, ch)
          \/ BeginInvite(p, a, t)
          \/ BeginReset(p, a, t)
    \/ \E a \in Ids, new \in NewUsers : BeginCreate(p, a, new)
    \/ Invite(p)
    \/ ResetFlag(p)
    \/ ResetPassword(p)
    \/ Abort(p)

\* The restriction of one account, set or lifted.
LEMMA MustRows ==
    ASSUME users \in [Ids -> User \cup {NoUser}], NEW i \in Ids,
           users[i] \in User, NEW b \in BOOLEAN,
           users' = [users EXCEPT ![i].must = b]
    PROVE  Rows /\ Roles
<1>1. users' = [users EXCEPT ![i] = [users[i] EXCEPT !.must = b]]
  OBVIOUS
<1> DEFINE v == [users[i] EXCEPT !.must = b]
<1>2. /\ v \in User /\ v.email = users[i].email /\ v.kind = users[i].kind
      /\ v.role = users[i].role /\ v.status = users[i].status
  BY MustTyped
<1> HIDE DEF v
<1> QED BY <1>1, <1>2, RowWritten DEF v

LEMMA AdminRestRows ==
    ASSUME Inv, NEW p \in Procs, AdminRest(p)
    PROVE  Rows /\ Roles /\ Invitations /\ links' = links
<1>1. users \in [Ids -> User \cup {NoUser}]
  BY DEF Inv, TypeOK, UsersTypeOK
<1>2. links' = links
  BY DEF AdminRest, BeginUpdate, BeginInvite, BeginReset, BeginCreate, Begin,
         Invite, ResetFlag, ResetPassword, Abort
<1>3. CASE Invite(p)
  <2> DEFINE t == admin[p].target
  <2>1. users' = users
    BY <1>3 DEF Invite
  <2>2. t \in Ids /\ users[t] \in User /\ users[t].email # NoEmail
    BY <1>3 DEF Inv, AdminOK, AdminOpOK, Exists, Invite
  <2>3. CASE Linked(t)
    BY <1>1, <1>2, <1>3, <2>1, <2>3, RowsSame DEF Invite, Invitations
  <2>4. CASE ~ Linked(t)
    <3>1. invitation' = Invited(t, users[t].email)
      BY <1>3, <2>4 DEF Invite
    <3>2. \A j \in Ids \ {t} : users[j] # NoUser =>
             users[j].email # users[t].email
      BY <2>2, UsersAssumption DEF Inv, EmailsUnique
    <3> HIDE DEF t
    <3>3. Invitations
      BY <1>1, <2>2, <2>4, <3>1, <3>2, InvitedAlone
    <3> QED BY <1>1, <1>2, <2>1, <3>3, RowsSame
  <2> QED BY <2>3, <2>4
<1>4. CASE ResetFlag(p)
  <2>1. Exists(admin[p].target)
    BY <1>4 DEF Inv, AdminOK, AdminOpOK, ResetFlag
  <2>2. users' = [users EXCEPT ![admin[p].target].must = TRUE]
    BY <1>4 DEF ResetFlag
  <2>3. Rows /\ Roles
    BY <1>1, <2>1, <2>2, MustRows DEF Exists
  <2> QED BY <1>2, <1>4, <2>3 DEF ResetFlag, Invitations
<1>5. CASE users' = users /\ invitation' = invitation
  BY <1>1, <1>2, <1>5, RowsSame DEF Invitations
<1> QED BY <1>3, <1>4, <1>5
        DEF AdminRest, BeginUpdate, BeginInvite, BeginReset, BeginCreate,
            Begin, ResetPassword, Abort

\* The shell's steps, and everybody else's.
ShellStep ==
    \/ \E e \in Emails, unblock \in BOOLEAN : Recover(e, unblock)
    \/ RecoverList
    \/ Unblock
    \/ RecoverFlag
    \/ RecoverReset
    \/ RecoverAbort

LEMMA ShellRows ==
    ASSUME Inv, ShellStep
    PROVE  Rows /\ Roles /\ Invitations /\ links' = links
<1>1. users \in [Ids -> User \cup {NoUser}]
  BY DEF Inv, TypeOK, UsersTypeOK
<1>2. links' = links /\ Invitations
  BY DEF ShellStep, Recover, RecoverList, Unblock, RecoverFlag, RecoverReset,
         RecoverAbort, Invitations
<1>3. CASE users' = users
  BY <1>1, <1>2, <1>3, RowsSame
<1>4. CASE Unblock
  <2> DEFINE i == recovery.id
             v == [users[i] EXCEPT !.status = "active"]
  <2>1. i \in Ids /\ users[i] \in User
    BY <1>4 DEF Inv, RecoveryOK, Exists, Unblock
  <2>2. users' = [users EXCEPT ![i] = v]
    BY <1>4 DEF Unblock
  <2>3. /\ v \in User /\ v.email = users[i].email /\ v.kind = users[i].kind
        /\ v.role = users[i].role /\ v.status = "active"
    BY <2>1 DEF User
  <2> HIDE DEF v, i
  <2> QED BY <1>1, <1>2, <2>1, <2>2, <2>3, RowWritten
<1>5. CASE RecoverFlag
  <2>1. Exists(recovery.id)
    BY <1>5 DEF Inv, RecoveryOK, RecoverFlag
  <2>2. users' = [users EXCEPT ![recovery.id].must = TRUE]
    BY <1>5 DEF RecoverFlag
  <2> QED BY <1>1, <1>2, <2>1, <2>2, MustRows DEF Exists
<1> QED BY <1>3, <1>4, <1>5
        DEF ShellStep, Recover, RecoverList, RecoverReset, RecoverAbort

LEMMA PersonRows ==
    ASSUME Inv, NEW i \in Ids, ChangePassword(i) \/ Lapse(i)
    PROVE  Rows /\ Roles /\ Invitations /\ links' = links
<1>1. /\ users \in [Ids -> User \cup {NoUser}]
      /\ invitation \in [Ids -> {"none", "live", "lapsed", "spent"}]
  BY DEF Inv, TypeOK, UsersTypeOK
<1>2. links' = links /\ Invitations
  BY <1>1 DEF ChangePassword, Lapse, Invitations
<1>3. CASE Lapse(i)
  BY <1>1, <1>2, <1>3, RowsSame DEF Lapse
<1>4. CASE ChangePassword(i)
  <2>1. users[i] \in User
    BY <1>1, <1>4, UsersAssumption DEF ChangePassword, CanSignIn
  <2>2. users' = [users EXCEPT ![i].must = FALSE]
    BY <1>4 DEF ChangePassword
  <2> QED BY <1>1, <1>2, <2>1, <2>2, MustRows
<1> QED BY <1>3, <1>4

\* Together.
LEMMA UsersCases ==
    ASSUME UsersNext
    PROVE  \/ \/ \E c \in Configs : Start(c)
              \/ AdminExists \/ CreateAdministrator \/ ResumeBootstrap
              \/ IssueBootstrapPassword
           \/ \E p \in Procs :
                 CreateAccount(p) \/ UpdateAdminState(p) \/ AdminRest(p)
           \/ ShellStep
           \/ \E i \in Ids : ChangePassword(i) \/ Lapse(i)
  BY Zenon DEF UsersNext, AdminRest, ShellStep

LEMMA UsersRows ==
    ASSUME Inv, UsersNext
    PROVE  /\ Rows /\ Invitations /\ links' = links
           /\ Roles \/ \E p \in Procs : UpdateAdminState(p)
  BY UsersCases, BootRows, CreateAccountRows, UpdateRows, AdminRestRows,
     ShellRows, PersonRows
\* The steps of a sign-in that write users.
LEMMA SignUpRows ==
    ASSUME Inv, NEW l \in Logins, NEW name \in {"", "idp"}, SignUp(l, name)
    PROVE  Rows /\ Roles
<1>1. users \in [Ids -> User \cup {NoUser}]
  BY DEF Inv, TypeOK, UsersTypeOK
<1>2. CASE users' = users
  BY <1>1, <1>2, RowsSame
<1>3. CASE users' # users
  <2> DEFINE v == SignedUp(l, name)
  <2>1. /\ users[login[l].id] = NoUser /\ ~ Taken(login[l].email)
        /\ users' = [users EXCEPT ![login[l].id] = v]
    BY <1>3 DEF SignUp
  <2>2. login[l].id \in Ids /\ login[l].policy \in Policies
    BY DEF Inv, LoginOK, SignInOK, SignUp, Ids
  <2>3. login[l].email \in Addresses
    BY DEF Inv, TypeOK
  <2>4. v \in User /\ v.email = login[l].email /\ v.role = "user"
    BY <2>2, <2>3, UsersAssumption DEF SignedUp, User
  <2> HIDE DEF v
  <2> QED BY <1>1, <2>1, <2>2, <2>4, RowAdded
<1> QED BY <1>2, <1>3

LEMMA FillRows ==
    ASSUME Inv, NEW l \in Logins, NEW name \in {"", "idp"},
           FillDisplayName(l, name)
    PROVE  /\ Rows /\ Roles
           /\ \A i \in Ids : users[i] \in User =>
                 /\ users'[i].status = users[i].status
                 /\ users[i].name # "" => users'[i].name = users[i].name
<1> DEFINE i == login[l].id
           n == IF users[i].name = "" THEN name ELSE users[i].name
           v == [users[i] EXCEPT !.name = n]
<1>1. users \in [Ids -> User \cup {NoUser}]
  BY DEF Inv, TypeOK, UsersTypeOK
<1>2. i \in Ids /\ users[i] \in User
  BY DEF Inv, LoginOK, SignInOK, Exists, FillDisplayName
<1>3. users' = [users EXCEPT ![i] = v]
  BY DEF FillDisplayName
<1>4. n \in {"", "admin", "idp"} /\ (users[i].name # "" => n = users[i].name)
  BY <1>2 DEF User
<1> HIDE DEF n
<1>5. /\ v \in User /\ v.email = users[i].email /\ v.kind = users[i].kind
      /\ v.role = users[i].role /\ v.status = users[i].status /\ v.name = n
  BY <1>2, <1>4 DEF User
<1> HIDE DEF v, i
<1>6. Rows /\ Roles
  BY <1>1, <1>2, <1>3, <1>5, RowWritten
<1> QED BY <1>1, <1>2, <1>3, <1>4, <1>5, <1>6

LEMMA SaveRows ==
    ASSUME Inv, NEW l \in Logins, SaveIdentityState(l)
    PROVE  /\ Rows /\ Roles
           /\ \A i \in Ids : users[i] \in User =>
                 /\ users'[i].status = users[i].status
                 /\ users'[i].name = users[i].name
<1> DEFINE i == login[l].id
           v == [users[i] EXCEPT !.policy = login[l].policy, !.source = "idp"]
<1>1. users \in [Ids -> User \cup {NoUser}]
  BY DEF Inv, TypeOK, UsersTypeOK
<1>2. i \in Ids /\ users[i] \in User /\ login[l].policy \in Policies
  BY DEF Inv, LoginOK, SignInOK, Exists, SaveIdentityState
<1>3. users' = [users EXCEPT ![i] = v]
  BY <1>1, <1>2 DEF SaveIdentityState
<1>5. /\ v \in User /\ v.email = users[i].email /\ v.kind = users[i].kind
      /\ v.role = users[i].role /\ v.status = users[i].status
      /\ v.name = users[i].name
  BY <1>2 DEF User
<1> HIDE DEF v, i
<1>6. Rows /\ Roles
  BY <1>1, <1>2, <1>3, <1>5, RowWritten
<1> QED BY <1>1, <1>2, <1>3, <1>5, <1>6

\* No step of a sign-in writes what only Users' steps do.
LEMMA LoginFrame ==
    ASSUME NEW l \in Logins, LoginStep(l)
    PROVE  /\ UNCHANGED <<password, config, boot, admin, recovery, starts,
                          stale>>
           /\ ops' = ops \/ (ops < MaxOps /\ ops' = ops + 1)
  BY DEF LoginStep, Complete, PendingByEmail, Eligible, ConsumePending, Link,
         SignUp, FillDisplayName, SaveIdentityState, AbortLogin, tables,
         others

LEMMA LoginRows ==
    ASSUME Inv, NEW l \in Logins, LoginStep(l)
    PROVE  Rows /\ Roles
<1>1. users \in [Ids -> User \cup {NoUser}]
  BY DEF Inv, TypeOK, UsersTypeOK
<1>2. \/ users' = users
      \/ \E name \in {"", "idp"} : SignUp(l, name) \/ FillDisplayName(l, name)
      \/ SaveIdentityState(l)
  BY DEF LoginStep, Complete, PendingByEmail, Eligible, ConsumePending, Link,
         AbortLogin, tables
<1> QED BY <1>1, <1>2, RowsSame, SignUpRows, FillRows, SaveRows

-----------------------------------------------------------------------------
(* What the rows keep.                                                     *)

LEMMA EmailsKept ==
    ASSUME users \in [Ids -> User \cup {NoUser}], EmailsUnique, Rows
    PROVE  EmailsUnique'
<1> SUFFICES ASSUME NEW i \in Ids, NEW j \in Ids,
                    users'[i] # NoUser, users'[j] # NoUser,
                    users'[i].email = users'[j].email,
                    users'[i].email # NoEmail
             PROVE  i = j
  BY DEF EmailsUnique
<1>1. NoUser \notin User
  BY UsersAssumption
<1>2. CASE users[i] \in User /\ users[j] \in User
  BY <1>1, <1>2 DEF EmailsUnique, Rows
<1>3. CASE users[i] = NoUser /\ users[j] = NoUser
  BY <1>1, <1>3 DEF Rows
<1>4. ASSUME NEW k \in Ids, NEW m \in Ids, users[k] = NoUser,
             users[m] \in User, users'[k] # NoUser,
             users'[k].email = users'[m].email, users'[k].email # NoEmail
      PROVE  FALSE
  <2>1. ~ Taken(users'[k].email)
    BY <1>1, <1>4 DEF Rows
  <2>2. users[m].email = users'[k].email
    BY <1>4 DEF Rows
  <2> QED BY <1>1, <1>4, <2>1, <2>2 DEF Taken, ByEmail
<1> QED BY <1>2, <1>3, <1>4

LEMMA ExistsKept ==
    ASSUME Rows, NEW i, Exists(i)
    PROVE  Exists(i)' /\ users'[i].email = users[i].email
  BY DEF Rows, Exists

\* Nobody is demoted or blocked: whoever had an administrator still has.
LEMMA AdminsKept ==
    ASSUME users \in [Ids -> User \cup {NoUser}], Rows, Roles
    PROVE  /\ \A i \in Ids : HasRole(i) => HasRole(i)'
           /\ \A i \in Ids : IsAdmin(i) => IsAdmin(i)'
           /\ ((\E i \in Ids : HasRole(i)) => \E i \in Ids : IsAdmin(i))
              => ((\E i \in Ids : HasRole(i)') => \E i \in Ids : IsAdmin(i)')
<1>1. NoUser \notin User
  BY UsersAssumption
<1>2. \A i \in Ids : HasRole(i) => HasRole(i)'
  BY <1>1 DEF HasRole, Rows, Roles
<1>3. \A i \in Ids : IsAdmin(i) => IsAdmin(i)'
  BY <1>1 DEF IsAdmin, CanSignIn, Rows, Roles
<1>4. \A i \in Ids : HasRole(i)' => HasRole(i) \/ IsAdmin(i)'
  BY <1>1 DEF HasRole, IsAdmin, CanSignIn, Rows, Roles
<1> QED BY <1>2, <1>3, <1>4
-----------------------------------------------------------------------------
(* The parts of the invariant about Users, over its steps.                 *)

LEMMA AdminOpKept ==
    ASSUME Rows, NEW p \in Procs, AdminOpOK(p),
           admin'[p] = admin[p] \/ admin'[p].pc = "idle"
    PROVE  AdminOpOK(p)'
  BY ExistsKept DEF AdminOpOK

LEMMA AdminOKNext ==
    ASSUME Inv, UsersNext
    PROVE  AdminOK'
<1>1. Rows /\ AdminOK
  BY UsersRows DEF Inv
<1>2. DOMAIN admin = Procs
  BY DEF Inv, TypeOK, UsersTypeOK
<1>3. ASSUME NEW p \in Procs,
             \A q \in Procs \ {p} : admin'[q] = admin[q],
             admin'[p].pc = "idle" \/ AdminOpOK(p)'
      PROVE  AdminOK'
  BY <1>1, <1>3, AdminOpKept DEF AdminOK
<1>4. ASSUME NEW p \in Procs, Done(p)
      PROVE  AdminOK'
  BY <1>2, <1>3, <1>4 DEF Done, IdleAdmin
<1>5. ASSUME NEW p \in Procs, NEW a \in Ids, NEW t \in Ids, NEW ch \in Changes,
             BeginUpdate(p, a, t, ch)
      PROVE  AdminOK'
  <2>1. /\ ~ LocksOutSelf(a, t, ch) /\ users' = users
        /\ users[t] \in User
    BY <1>5, RowIs DEF BeginUpdate, Begin, Inv, TypeOK, UsersTypeOK
  <2>2. admin' = [admin EXCEPT ![p] = [pc |-> "update", actor |-> a,
                     target |-> t, change |-> ch, new |-> NoId]]
    BY <1>5 DEF BeginUpdate, Begin
  <2>3. AdminOpOK(p)'
    BY <1>2, <2>1, <2>2 DEF AdminOpOK, Exists
  <2> QED BY <1>2, <1>3, <2>2, <2>3
<1>6. ASSUME NEW p \in Procs, NEW a \in Ids, NEW t \in Ids,
             BeginInvite(p, a, t)
      PROVE  AdminOK'
  <2>1. users' = users /\ users[t] \in User /\ users[t].email # NoEmail
    BY <1>6, RowIs DEF BeginInvite, Begin, Inv, TypeOK, UsersTypeOK
  <2>2. admin' = [admin EXCEPT ![p] = [pc |-> "invite", actor |-> a,
                     target |-> t, change |-> NoId, new |-> NoId]]
    BY <1>6 DEF BeginInvite, Begin
  <2>3. AdminOpOK(p)'
    BY <1>2, <2>1, <2>2 DEF AdminOpOK, Exists
  <2> QED BY <1>2, <1>3, <2>2, <2>3
<1>7. ASSUME NEW p \in Procs, NEW a \in Ids, NEW t \in Ids,
             BeginReset(p, a, t)
      PROVE  AdminOK'
  <2>1. users' = users /\ users[t] \in User
    BY <1>7, RowIs DEF BeginReset, Begin, Inv, TypeOK, UsersTypeOK
  <2>2. admin' = [admin EXCEPT ![p] = [pc |-> "flag", actor |-> a,
                     target |-> t, change |-> NoId, new |-> NoId]]
    BY <1>7 DEF BeginReset, Begin
  <2>3. AdminOpOK(p)'
    BY <1>2, <2>1, <2>2 DEF AdminOpOK, Exists
  <2> QED BY <1>2, <1>3, <2>2, <2>3
<1>8. ASSUME NEW p \in Procs, NEW a \in Ids, NEW new \in NewUsers,
             BeginCreate(p, a, new)
      PROVE  AdminOK'
  <2>1. /\ new.kind = "service" => new.email = NoEmail /\ new.role = "user"
        /\ new.kind = "human" => new.email # NoEmail
    BY <1>8 DEF BeginCreate
  <2>2. admin' = [admin EXCEPT ![p] = [pc |-> "create", actor |-> a,
                     target |-> NoId, change |-> NoId, new |-> new]]
    BY <1>8 DEF BeginCreate, Begin
  <2>3. AdminOpOK(p)'
    BY <1>2, <2>1, <2>2 DEF AdminOpOK
  <2> QED BY <1>2, <1>3, <2>2, <2>3
<1>9. ASSUME NEW p \in Procs, ResetFlag(p)
      PROVE  AdminOK'
  <2>1. admin' = [admin EXCEPT ![p].pc = "reset"] /\ admin[p].pc = "flag"
    BY <1>9 DEF ResetFlag
  <2>2. admin'[p].pc = "reset" /\ admin'[p].target = admin[p].target
    BY <1>2, <2>1 DEF Inv, TypeOK, UsersTypeOK
  <2>3. Exists(admin[p].target)
    BY <1>1, <2>1 DEF AdminOK, AdminOpOK
  <2>4. AdminOpOK(p)'
    BY <1>1, <2>2, <2>3, ExistsKept DEF AdminOpOK
  <2> QED BY <1>2, <1>3, <2>1, <2>4
<1>10. CASE admin' = admin
  BY <1>1, <1>10, AdminOpKept DEF AdminOK
<1>11. ASSUME NEW p \in Procs, AdminRest(p)
       PROVE  AdminOK'
  BY <1>4, <1>5, <1>6, <1>7, <1>8, <1>9, <1>11
     DEF AdminRest, Invite, ResetPassword, Abort
<1>12. ASSUME NEW p \in Procs, CreateAccount(p) \/ UpdateAdminState(p)
       PROVE  AdminOK'
  BY <1>4, <1>12 DEF CreateAccount, UpdateAdminState
<1>13. ASSUME \/ \/ \E c \in Configs : Start(c)
                 \/ AdminExists \/ CreateAdministrator \/ ResumeBootstrap
                 \/ IssueBootstrapPassword
              \/ ShellStep
              \/ \E i \in Ids : ChangePassword(i) \/ Lapse(i)
       PROVE  admin' = admin
  BY <1>13 DEF Start, AdminExists, CreateAdministrator, ResumeBootstrap,
         IssueBootstrapPassword, ShellStep, Recover, RecoverList, Unblock,
         RecoverFlag, RecoverReset, RecoverAbort, ChangePassword, Lapse
<1> QED BY <1>10, <1>11, <1>12, <1>13, UsersCases

LEMMA RecoveryOKNext ==
    ASSUME Inv, UsersNext
    PROVE  RecoveryOK'
<1>1. Rows /\ RecoveryOK
  BY UsersRows DEF Inv
<1>2. CASE recovery' = recovery
  BY <1>1, <1>2, ExistsKept DEF RecoveryOK
<1>3. CASE recovery' = IdleRecovery
  BY <1>3 DEF RecoveryOK, IdleRecovery
<1>4. ASSUME NEW e \in Emails, NEW unblock \in BOOLEAN, Recover(e, unblock)
      PROVE  RecoveryOK'
  <2>1. PICK i \in ByEmail(e) : recovery'.id = i
    BY <1>4 DEF Recover
  <2>2. Exists(i)
    BY <2>1, RowIs DEF ByEmail, Exists, Inv, TypeOK, UsersTypeOK
  <2> QED BY <1>1, <2>1, <2>2, ExistsKept DEF RecoveryOK
<1>5. CASE recovery.pc # "idle" /\ recovery'.id = recovery.id
  BY <1>1, <1>5, ExistsKept DEF RecoveryOK
<1>6. CASE RecoverList \/ Unblock \/ RecoverFlag
  <2>1. recovery \in [pc : {"idle", "list", "unblock", "flag", "reset"},
                      id : Ids \cup {NoId}]
    BY DEF Inv, TypeOK, UsersTypeOK
  <2> QED BY <1>3, <1>5, <1>6, <2>1 DEF RecoverList, Unblock, RecoverFlag
<1>7. CASE ShellStep
  BY <1>3, <1>4, <1>6, <1>7 DEF ShellStep, RecoverReset, RecoverAbort
<1>8. ASSUME NEW p \in Procs, AdminRest(p)
      PROVE  recovery' = recovery
  BY <1>8 DEF AdminRest, BeginUpdate, BeginInvite, BeginReset, BeginCreate,
              Begin, Invite, ResetFlag, ResetPassword, Abort
<1> QED BY <1>2, <1>7, <1>8, UsersCases
        DEF Start, AdminExists, CreateAdministrator, ResumeBootstrap,
            IssueBootstrapPassword, CreateAccount, UpdateAdminState,
            ChangePassword, Lapse
LEMMA BootOKNext ==
    ASSUME Inv, UsersNext
    PROVE  BootOK'
<1>1. Rows /\ BootOK /\ AdminOK
  BY UsersRows DEF Inv
<1>2. boot \in [pc : {"down", "exists", "create", "resume", "password", "up"},
                id : Ids \cup {NoId}]
  BY DEF Inv, TypeOK, UsersTypeOK
<1>3. ASSUME boot.pc # "up", admin' = admin, boot'.pc # "password"
      PROVE  BootOK'
  BY <1>1, <1>3 DEF BootOK, Up
<1>4. ASSUME NEW c \in Configs, Start(c)
      PROVE  BootOK'
  BY <1>3, <1>4 DEF Start, BootIdle
<1>5. CASE AdminExists
  BY <1>2, <1>3, <1>5 DEF AdminExists
<1>6. CASE CreateAdministrator
  <2>1. CASE boot' = BootIdle
    BY <1>3, <1>6, <2>1 DEF CreateAdministrator, BootIdle
  <2>2. CASE boot' # BootIdle
    <3>1. PICK i \in AdminIds :
             /\ users' = [users EXCEPT ![i] = Administrator(config.email)]
             /\ boot' = [pc |-> "password", id |-> i]
      BY <1>6, <2>2 DEF CreateAdministrator
    <3>2. users'[i] = Administrator(config.email) /\ i \in Ids
      BY <3>1 DEF Inv, TypeOK, UsersTypeOK, Ids
    <3>3. /\ Administrator(config.email) \in User
          /\ Administrator(config.email).email = config.email
      <4>1. config.email \in Addresses
        BY DEF Inv, TypeOK, UsersTypeOK, Config
      <4> QED BY <4>1, AdministratorTyped DEF Administrator
    <3>4. boot'.id = i /\ boot.pc # "up" /\ config' = config /\ admin' = admin
      BY <1>6, <3>1 DEF CreateAdministrator
    <3> QED BY <1>1, <3>2, <3>3, <3>4 DEF BootOK, Exists, Up
  <2> QED BY <2>1, <2>2
<1>7. CASE ResumeBootstrap
  <2>1. CASE BootstrapUnfinished
    <3>1. PICK i \in ByEmail(config.email) : boot' = [pc |-> "password",
                                                     id |-> i]
      BY <1>7, <2>1 DEF ResumeBootstrap, BootstrapUnfinished
    <3>2. i \in Ids /\ users[i] \in User /\ users[i].email = config.email
      BY <3>1, RowIs DEF ByEmail, Inv, TypeOK, UsersTypeOK
    <3>3. /\ boot'.id = i /\ boot.pc # "up"
          /\ config' = config /\ admin' = admin /\ users' = users
      BY <1>7, <3>1 DEF ResumeBootstrap
    <3> QED BY <1>1, <3>2, <3>3 DEF BootOK, Exists, Up
  <2>2. CASE ~ BootstrapUnfinished
    BY <1>3, <1>7, <2>2 DEF ResumeBootstrap, BootIdle
  <2> QED BY <2>1, <2>2
<1>8. CASE IssueBootstrapPassword
  BY <1>3, <1>8 DEF IssueBootstrapPassword, BootIdle
<1>9. ASSUME boot' = boot, config' = config, Up \/ admin' = admin
      PROVE  BootOK'
  BY <1>1, <1>9, ExistsKept DEF BootOK, Up
<1>10. ASSUME NEW p \in Procs, Up \/ admin[p].pc # "idle"
       PROVE  Up
  BY <1>1, <1>10 DEF BootOK
<1>11. ASSUME NEW p \in Procs,
              CreateAccount(p) \/ UpdateAdminState(p) \/ AdminRest(p)
       PROVE  boot' = boot /\ config' = config /\ Up
  BY <1>10, <1>11
     DEF CreateAccount, UpdateAdminState, AdminRest, BeginUpdate, BeginInvite,
         BeginReset, BeginCreate, Begin, Authenticated, Invite, ResetFlag,
         ResetPassword, Abort
<1>12. ASSUME ShellStep \/ \E i \in Ids : ChangePassword(i) \/ Lapse(i)
       PROVE  boot' = boot /\ config' = config /\ admin' = admin
  BY <1>12 DEF ShellStep, Recover, RecoverList, Unblock, RecoverFlag,
               RecoverReset, RecoverAbort, ChangePassword, Lapse
<1> QED BY <1>4, <1>5, <1>6, <1>7, <1>8, <1>9, <1>11, <1>12, UsersCases
\* The edit of an administrator who is one leaves that administrator one.
LEMMA EditorRemains ==
    ASSUME Inv, NEW p \in Procs, admin[p].pc = "update",
           NEW a, a = admin[p].actor, IsAdmin(a),
           users' = [users EXCEPT ![admin[p].target] =
                        Edited(@, admin[p].change)]
    PROVE  a \in Ids /\ IsAdmin(a)'
<1>1. PICK t, ch : t = admin[p].target /\ ch = admin[p].change
  OBVIOUS
<1>2. /\ a \in Ids /\ ch \in Change /\ ~ LocksOutSelf(a, t, ch)
      /\ t \in Ids /\ users[t] \in User
  BY <1>1, UsersAssumption DEF Inv, AdminOK, AdminOpOK, Exists
<1>3. users \in [Ids -> User \cup {NoUser}] /\ NoUser \notin User
  BY UsersAssumption DEF Inv, TypeOK, UsersTypeOK
<1>4. users'[a] = IF a = t THEN Edited(users[a], ch) ELSE users[a]
  BY <1>1, <1>2, <1>3
<1>5. CASE a # t
  BY <1>2, <1>4, <1>5 DEF IsAdmin
<1>6. CASE a = t
  <2>1. ch.status # "blocked" /\ ch.role # "user"
    BY <1>2, <1>6 DEF LocksOutSelf
  <2>2. ch.status \in {"keep", "active"} /\ ch.role \in {"keep", "admin"}
    BY <1>2, <2>1 DEF Change
  <2>3. users[a].kind = "human" /\ users[a].status = "active"
        /\ users[a].role = "admin"
    BY DEF IsAdmin, CanSignIn
  <2>4. /\ users'[a] \in User /\ users'[a].kind = "human"
        /\ users'[a].status = "active" /\ users'[a].role = "admin"
    BY <1>2, <1>4, <1>6, <2>2, <2>3, EditedTyped
  <2> QED BY <1>2, <1>3, <2>4 DEF IsAdmin, CanSignIn
<1> QED BY <1>5, <1>6

LEMMA AdminsOKNext ==
    ASSUME Inv, UsersNext
    PROVE  AdminsOK'
<1>1. Rows /\ AdminsOK /\ users \in [Ids -> User \cup {NoUser}]
  BY UsersRows DEF Inv, TypeOK, UsersTypeOK
<1>2. ASSUME NEW p \in Procs, UpdateAdminState(p)
      PROVE  AdminsOK'
  <2>1. boot' = boot /\ config' = config /\ admin[p].pc = "update"
    BY <1>2 DEF UpdateAdminState
  <2>2. CASE UNCHANGED <<users, stale>>
    BY <1>1, <2>1, <2>2 DEF AdminsOK, HasRole, IsAdmin, Up
  <2>3. CASE ~ UNCHANGED <<users, stale>> /\ ~ stale'
    <3>1. PICK a : a = admin[p].actor
      OBVIOUS
    <3>2. /\ users' = [users EXCEPT ![admin[p].target] =
                          Edited(@, admin[p].change)]
          /\ IsAdmin(a)
      BY <1>2, <2>3, <3>1, UpdateRows DEF Outlived
    <3>3. a \in Ids /\ IsAdmin(a)'
      BY <2>1, <3>1, <3>2, EditorRemains
    <3>4. HasRole(a)'
      BY <3>3 DEF IsAdmin, CanSignIn, HasRole
    <3> QED BY <3>3, <3>4 DEF AdminsOK
  <2>4. CASE stale'
    BY <2>4 DEF AdminsOK
  <2> QED BY <2>2, <2>3, <2>4
<1>3. ASSUME ~ \E p \in Procs : UpdateAdminState(p)
      PROVE  AdminsOK'
  <2>1. Roles
    BY <1>3, UsersRows
  <2>2. ASSUME NEW p \in Procs, AdminRest(p) \/ CreateAccount(p)
        PROVE  stale' = stale /\ boot' = boot /\ config' = config
    BY <2>2 DEF CreateAccount, AdminRest, BeginUpdate, BeginInvite,
           BeginReset, BeginCreate, Begin, Invite, ResetFlag, ResetPassword,
           Abort
  <2>3. ASSUME ShellStep \/ \E i \in Ids : ChangePassword(i) \/ Lapse(i)
        PROVE  stale' = stale /\ boot' = boot /\ config' = config
    BY <2>3 DEF ShellStep, Recover, RecoverList, Unblock, RecoverFlag,
                RecoverReset, RecoverAbort, ChangePassword, Lapse
  <2>4. ASSUME \/ \E c \in Configs : Start(c)
               \/ AdminExists \/ CreateAdministrator \/ ResumeBootstrap
               \/ IssueBootstrapPassword
        PROVE  stale' = stale
    BY <2>4 DEF Start, AdminExists, CreateAdministrator, ResumeBootstrap,
                IssueBootstrapPassword
  <2>5. stale' = stale
    BY <1>3, <2>2, <2>3, <2>4, UsersCases
  <2>6. ASSUME \/ boot'.pc \in {"resume", "password"}
               \/ Up' /\ config'.email # NoEmail,
               ~ stale
        PROVE  \E i \in Ids : HasRole(i)'
    <3>1. CASE \/ boot.pc \in {"resume", "password"}
               \/ Up /\ config.email # NoEmail
      BY <1>1, <2>1, <2>6, <3>1, AdminsKept DEF AdminsOK
    <3>2. CASE AdminExists
      <4>1. boot \in [pc : {"down", "exists", "create", "resume", "password",
                            "up"}, id : Ids \cup {NoId}]
        BY DEF Inv, TypeOK, UsersTypeOK
      <4>2. \E i \in Ids : HasRole(i)
        BY <2>6, <3>2, <4>1 DEF AdminExists, HasRole, Up
      <4> QED BY <1>1, <2>1, <4>2, AdminsKept
    <3>3. CASE CreateAdministrator
      <4>1. PICK i \in AdminIds :
               users' = [users EXCEPT ![i] = Administrator(config.email)]
        BY <2>6, <3>3 DEF CreateAdministrator, BootIdle, Up
      <4>2. /\ i \in Ids /\ users'[i] = Administrator(config.email)
            /\ config.email \in Addresses
        BY <1>1, <4>1 DEF Ids, Inv, TypeOK, UsersTypeOK, Config
      <4>3. users'[i] \in User /\ users'[i].role = "admin"
        BY <4>2, AdministratorTyped DEF Administrator
      <4> QED BY <4>2, <4>3, UsersAssumption DEF HasRole
    <3>4. ASSUME NEW c \in Configs, Start(c)
          PROVE  FALSE
      BY <2>6, <3>4 DEF Start, BootIdle, Up
    <3>5. CASE ResumeBootstrap \/ IssueBootstrapPassword
      BY <3>1, <3>5 DEF ResumeBootstrap, IssueBootstrapPassword
    <3>6. CASE boot' = boot /\ config' = config
      BY <2>6, <3>1, <3>6 DEF Up
    <3> QED BY <1>3, <2>2, <2>3, <3>2, <3>3, <3>4, <3>5, <3>6, UsersCases
  <2> QED BY <1>1, <2>1, <2>5, <2>6, AdminsKept DEF AdminsOK
<1> QED BY <1>2, <1>3
\* The types of what only Users' steps write.
AdminOps ==
    [pc : {"idle", "update", "create", "invite", "flag", "reset"},
     actor : Ids \cup {NoId}, target : Ids \cup {NoId},
     change : Changes \cup {NoId}, new : NewUsers \cup {NoId}]

RestTyped ==
    /\ password \in [Ids -> BOOLEAN]
    /\ invitation \in [Ids -> {"none", "live", "lapsed", "spent"}]
    /\ config \in Config
    /\ boot \in [pc : {"down", "exists", "create", "resume", "password",
                       "up"}, id : Ids \cup {NoId}]
    /\ admin \in [Procs -> AdminOps]
    /\ recovery \in [pc : {"idle", "list", "unblock", "flag", "reset"},
                     id : Ids \cup {NoId}]
    /\ ops \in 0 .. MaxOps
    /\ starts \in 0 .. MaxStarts
    /\ stale \in BOOLEAN

LEMMA InvitedTyped ==
    ASSUME invitation \in [Ids -> {"none", "live", "lapsed", "spent"}],
           NEW i, NEW e
    PROVE  Invited(i, e) \in [Ids -> {"none", "live", "lapsed", "spent"}]
  BY DEF Invited

LEMMA BootTyped ==
    ASSUME Inv, RestTyped,
           \/ \E c \in Configs : Start(c)
           \/ AdminExists \/ CreateAdministrator \/ ResumeBootstrap
           \/ IssueBootstrapPassword
    PROVE  RestTyped'
<1> USE DEF RestTyped
<1>1. ASSUME NEW c \in Configs, Start(c)
      PROVE  RestTyped'
  <2>1. c \in Config /\ MaxStarts \in Nat
    BY UsersAssumption
  <2>2. starts' \in 0 .. MaxStarts
    BY <1>1, <2>1 DEF Start
  <2>3. boot' \in [pc : {"down", "exists", "create", "resume", "password",
                         "up"}, id : Ids \cup {NoId}]
    BY <1>1 DEF Start, BootIdle
  <2> QED BY <1>1, <2>1, <2>2, <2>3 DEF Start
<1>2. CASE AdminExists
  BY <1>2 DEF AdminExists
<1>3. CASE CreateAdministrator
  <2>1. boot' = BootIdle \/ \E i \in Ids : boot' = [pc |-> "password",
                                                   id |-> i]
    BY <1>3 DEF CreateAdministrator, Ids
  <2>2. boot' \in [pc : {"down", "exists", "create", "resume", "password",
                         "up"}, id : Ids \cup {NoId}]
    BY <2>1 DEF BootIdle
  <2> QED BY <1>3, <2>2 DEF CreateAdministrator
<1>4. CASE ResumeBootstrap
  <2>1. \/ boot' = [BootIdle EXCEPT !.pc = "up"]
        \/ \E i \in Ids : boot' = [pc |-> "password", id |-> i]
    <3>1. CASE BootstrapUnfinished
      <4>1. PICK i \in ByEmail(config.email) : boot' = [pc |-> "password",
                                                        id |-> i]
        BY <1>4, <3>1 DEF ResumeBootstrap, BootstrapUnfinished
      <4> QED BY <4>1 DEF ByEmail
    <3>2. CASE ~ BootstrapUnfinished
      BY <1>4, <3>2 DEF ResumeBootstrap
    <3> QED BY <3>1, <3>2
  <2>2. boot' \in [pc : {"down", "exists", "create", "resume", "password",
                         "up"}, id : Ids \cup {NoId}]
    BY <2>1 DEF BootIdle
  <2> QED BY <1>4, <2>2 DEF ResumeBootstrap
<1>5. CASE IssueBootstrapPassword
  <2>1. boot' \in [pc : {"down", "exists", "create", "resume", "password",
                         "up"}, id : Ids \cup {NoId}]
    BY <1>5 DEF IssueBootstrapPassword, BootIdle
  <2>2. password' \in [Ids -> BOOLEAN]
    BY <1>5 DEF IssueBootstrapPassword
  <2> QED BY <1>5, <2>1, <2>2 DEF IssueBootstrapPassword
<1> QED BY <1>1, <1>2, <1>3, <1>4, <1>5

LEMMA AdminTyped ==
    ASSUME Inv, RestTyped, NEW p \in Procs,
           CreateAccount(p) \/ UpdateAdminState(p) \/ AdminRest(p)
    PROVE  RestTyped'
<1>1. IdleAdmin \in AdminOps
  BY DEF IdleAdmin, AdminOps
<1>2. Done(p) => admin' \in [Procs -> AdminOps]
  BY <1>1 DEF Done, RestTyped
<1>3. CASE CreateAccount(p)
  <2>1. CASE UNCHANGED <<users, password, invitation>>
    BY <1>2, <1>3, <2>1 DEF CreateAccount, RestTyped
  <2>2. CASE ~ UNCHANGED <<users, password, invitation>>
    <3>1. PICK i \in Ids, b \in BOOLEAN :
             /\ password' = [password EXCEPT ![i] = b]
             /\ \/ \E e : invitation' = Invited(i, e)
                \/ invitation' = invitation
      <4> DEFINE new == admin[p].new
                 oidc == new.kind = "human" /\ new.signIn = "oidc"
      <4>1. PICK i \in AdminIds :
               /\ password' = [password EXCEPT
                                 ![i] = (new.kind = "human" /\ ~ oidc)]
               /\ invitation' = IF oidc THEN Invited(i, new.email)
                                ELSE invitation
        BY <1>3, <2>2 DEF CreateAccount
      <4>2. (new.kind = "human" /\ ~ oidc) \in BOOLEAN /\ i \in Ids
        BY DEF Ids
      <4> HIDE DEF new, oidc
      <4> QED BY <4>1, <4>2
    <3>2. /\ password' \in [Ids -> BOOLEAN]
          /\ invitation' \in [Ids -> {"none", "live", "lapsed", "spent"}]
      BY <3>1, InvitedTyped DEF RestTyped
    <3> QED BY <1>2, <1>3, <3>2 DEF CreateAccount, RestTyped
  <2> QED BY <2>1, <2>2
<1>4. CASE UpdateAdminState(p)
  <2>1. stale' \in BOOLEAN
    BY <1>4 DEF UpdateAdminState, Outlived, RestTyped
  <2> QED BY <1>2, <1>4, <2>1 DEF UpdateAdminState, RestTyped
<1>5. ASSUME NEW a \in Ids, NEW t \in Ids \cup {NoId},
             NEW pc \in {"update", "create", "invite", "flag"},
             NEW ch \in Changes \cup {NoId}, NEW new \in NewUsers \cup {NoId},
             Begin(p, a, t, pc, ch, new)
      PROVE  RestTyped'
  <2>1. [pc |-> pc, actor |-> a, target |-> t, change |-> ch, new |-> new]
           \in AdminOps
    BY DEF AdminOps
  <2>2. admin' \in [Procs -> AdminOps]
    BY <1>5, <2>1 DEF Begin, RestTyped
  <2>3. ops' \in 0 .. MaxOps
    BY <1>5, UsersAssumption DEF Begin, RestTyped
  <2> QED BY <1>5, <2>2, <2>3 DEF Begin, RestTyped
<1>6. CASE Invite(p)
  <2>1. invitation' \in [Ids -> {"none", "live", "lapsed", "spent"}]
    BY <1>6, InvitedTyped DEF Invite, RestTyped
  <2> QED BY <1>2, <1>6, <2>1 DEF Invite, RestTyped
<1>7. CASE ResetFlag(p)
  <2>1. admin' \in [Procs -> AdminOps]
    BY <1>7 DEF ResetFlag, RestTyped, AdminOps
  <2> QED BY <1>7, <2>1 DEF ResetFlag, RestTyped
<1>8. CASE ResetPassword(p)
  <2>1. password' \in [Ids -> BOOLEAN]
    BY <1>8 DEF ResetPassword, RestTyped
  <2> QED BY <1>2, <1>8, <2>1 DEF ResetPassword, RestTyped
<1>9. CASE Abort(p)
  BY <1>2, <1>9 DEF Abort, RestTyped
<1>10. CASE AdminRest(p)
  BY <1>5, <1>6, <1>7, <1>8, <1>9, <1>10
     DEF AdminRest, BeginUpdate, BeginInvite, BeginReset, BeginCreate
<1> QED BY <1>3, <1>4, <1>10

LEMMA ShellTyped ==
    ASSUME Inv, RestTyped, ShellStep
    PROVE  RestTyped'
<1> DEFINE T == [pc : {"idle", "list", "unblock", "flag", "reset"},
                 id : Ids \cup {NoId}]
<1>1. recovery' \in T
  <2>1. recovery \in T /\ IdleRecovery \in T
    BY DEF RestTyped, IdleRecovery
  <2>2. ASSUME NEW e \in Emails, NEW unblock \in BOOLEAN, Recover(e, unblock)
        PROVE  recovery' \in T
    <3>1. PICK i \in Ids, pc \in {"flag", "list"} :
             recovery' = [pc |-> pc, id |-> i]
      BY <2>2 DEF Recover, ByEmail
    <3> QED BY <3>1
  <2> QED BY <2>1, <2>2 DEF ShellStep, RecoverList, Unblock, RecoverFlag,
                            RecoverReset, RecoverAbort
<1>2. ops' \in 0 .. MaxOps
  BY UsersAssumption DEF RestTyped, ShellStep, Recover, RecoverList, Unblock,
         RecoverFlag, RecoverReset, RecoverAbort
<1>3. password' \in [Ids -> BOOLEAN]
  BY DEF RestTyped, ShellStep, Recover, RecoverList, Unblock,
         RecoverFlag, RecoverReset, RecoverAbort
<1>4. UNCHANGED <<invitation, config, boot, admin, starts, stale>>
  BY DEF ShellStep, Recover, RecoverList, Unblock, RecoverFlag, RecoverReset,
         RecoverAbort
<1> QED BY <1>1, <1>2, <1>3, <1>4 DEF RestTyped

LEMMA UsersTyped ==
    ASSUME Inv, UsersNext
    PROVE  UsersTypeOK'
<1>1. RestTyped
  BY DEF Inv, TypeOK, UsersTypeOK, RestTyped, AdminOps
<1>2. ASSUME NEW i \in Ids, ChangePassword(i) \/ Lapse(i)
      PROVE  RestTyped'
  BY <1>1, <1>2 DEF ChangePassword, Lapse, RestTyped
<1>3. RestTyped'
  BY <1>1, <1>2, UsersCases, BootTyped, AdminTyped, ShellTyped
<1>4. /\ users' \in [Ids -> User \cup {NoUser}]
      /\ links' \in [Subjects -> Ids \cup {NoId}]
  BY UsersRows DEF Rows, Inv, TypeOK, UsersTypeOK
<1> QED BY <1>3, <1>4 DEF RestTyped, UsersTypeOK, AdminOps
-----------------------------------------------------------------------------
(* The parts about the sign-ins, where they stand still.                   *)

Login ==
    [pc : {"idle", "linked", "pending", "invited", "consume", "create", "own",
           "link", "fill", "save"},
     subject : Subjects \cup {NoId}, id : Ids \cup {NoId},
     email : Addresses, policy : Policies \cup {NoId}]

\* What a step of the sign-in `l' does to `login'.
Moves(l) ==
    /\ login' \in [Logins -> Login]
    /\ \A k \in Logins \ {l} : login'[k] = login[k]

LEMMA StepMoves ==
    ASSUME Inv, NEW l \in Logins, NEW r \in Login,
           login' = [login EXCEPT ![l] = r]
    PROVE  Moves(l) /\ login'[l] = r
  BY DEF Inv, TypeOK, Moves, Login

LEMMA PcMoves ==
    ASSUME Inv, NEW l \in Logins,
           NEW pc \in {"idle", "linked", "pending", "invited", "consume",
                       "create", "own", "link", "fill", "save"},
           Step(l, pc)
    PROVE  /\ Moves(l)
           /\ login'[l] = [login[l] EXCEPT !.pc = pc]
           /\ login'[l].pc = pc /\ login'[l].subject = login[l].subject
           /\ login'[l].id = login[l].id /\ login'[l].email = login[l].email
           /\ login'[l].policy = login[l].policy
<1>1. login \in [Logins -> Login] /\ login[l] \in Login
  BY DEF Inv, TypeOK, Login
<1> DEFINE r == [login[l] EXCEPT !.pc = pc]
<1>2. /\ r \in Login /\ r.pc = pc /\ r.subject = login[l].subject
      /\ r.id = login[l].id /\ r.email = login[l].email
      /\ r.policy = login[l].policy
  BY <1>1 DEF Login
<1>3. login' = [login EXCEPT ![l] = r]
  BY DEF Step
<1> HIDE DEF r
<1>4. Moves(l) /\ login'[l] = r
  BY <1>2, <1>3, StepMoves
<1> QED BY <1>2, <1>4 DEF r

LEMMA EndMoves ==
    ASSUME Inv, NEW l \in Logins, End(l)
    PROVE  Moves(l) /\ login'[l].pc = "idle"
<1>1. IdleLogin \in Login /\ IdleLogin.pc = "idle"
  BY DEF IdleLogin, Login, Addresses
<1> QED BY <1>1, StepMoves DEF End

\* A sign-in that stands still keeps what it knows.
LEMMA SignInKept ==
    ASSUME Rows, NEW k \in Logins, SignInOK(k), login'[k] = login[k],
           \A i \in Ids : invitation[i] # "none" => invitation'[i] # "none"
    PROVE  SignInOK(k)'
<1>1. PICK r : r = login[k]
  OBVIOUS
<1>2. login'[k] = r
  BY <1>1
<1>3. Exists(r.id) => /\ Exists(r.id)'
                      /\ users'[r.id].email = users[r.id].email
                      /\ invitation[r.id] # "none" =>
                            invitation'[r.id] # "none"
  BY ExistsKept DEF Exists
<1> QED BY <1>1, <1>2, <1>3 DEF SignInOK

\* What an idle sign-in knows is nothing.
LEMMA SignInIdle ==
    ASSUME NEW l \in Logins, login'[l].pc = "idle"
    PROVE  SignInOK(l)'
  BY DEF SignInOK

\* Where only the sign-in `l' moved, and to where it knows enough.
LEMMA LoginOKKept ==
    ASSUME Inv, Rows, NEW l \in Logins, Moves(l), SignInOK(l)',
           \A i \in Ids : invitation[i] # "none" => invitation'[i] # "none"
    PROVE  LoginOK'
  BY SignInKept DEF Inv, LoginOK, Moves

\* Links that stand still.
LEMMA LinksKept ==
    ASSUME Inv, Rows, links' = links,
           \A i \in Ids : invitation[i] # "none" => invitation'[i] # "none"
    PROVE  LinksOK' /\ SubjectOwnsAccount'
<1>1. LinksOK /\ SubjectOwnsAccount
  BY DEF Inv
<1>2. LinksOK'
  BY <1>1, ExistsKept DEF LinksOK
<1>3. SubjectOwnsAccount'
  <2> SUFFICES ASSUME NEW s \in Subjects, links'[s] \in Ids \ {s}
               PROVE  /\ users'[links'[s]].email \in EmailsOf[s]
                      /\ invitation'[links'[s]] # "none"
    BY DEF SubjectOwnsAccount
  <2>1. PICK i : i = links[s]
    OBVIOUS
  <2>2. i \in Ids \ {s} /\ links'[s] = i
    BY <2>1
  <2>3. Exists(i)
    BY <1>1, <2>1, <2>2, UsersAssumption DEF LinksOK
  <2>4. users[i].email \in EmailsOf[s] /\ invitation[i] # "none"
    BY <1>1, <2>1, <2>2 DEF SubjectOwnsAccount
  <2> QED BY <2>2, <2>3, <2>4, ExistsKept
<1> QED BY <1>2, <1>3

\* A step that starts no redemption and writes neither link nor invitation.
LEMMA RedeemKept ==
    ASSUME Inv, NEW l \in Logins, Moves(l), raced' = raced, links' = links,
           invitation' = invitation,
           \A i \in Ids : Busy(l, i)' =>
              /\ Busy(l, i)
              /\ login'[l].pc = "link" => login[l].pc = "link"
    PROVE  RedeemOK'
<1>1. \A k \in Logins, i \in Ids : Busy(k, i)' =>
         /\ Busy(k, i)
         /\ login'[k].pc = "link" => login[k].pc = "link"
  BY DEF Busy, Moves
<1>2. \A i \in Ids : By(i)' = By(i)
  BY DEF By
<1> QED BY <1>1, <1>2 DEF Inv, RedeemOK, RedeemedOK
-----------------------------------------------------------------------------
(* The parts about the sign-ins, over the steps of Users.                  *)

LEMMA UsersStepLogins ==
    ASSUME Inv, UsersStep
    PROVE  LoginOK' /\ LinksOK' /\ SubjectOwnsAccount'
<1>1. Rows /\ Invitations /\ links' = links /\ login' = login
  BY UsersRows DEF UsersStep
<1>2. LoginOK'
  BY <1>1, SignInKept DEF Inv, LoginOK, Invitations
<1>3. LinksOK' /\ SubjectOwnsAccount'
  BY <1>1, LinksKept DEF Invitations
<1> QED BY <1>2, <1>3

\* A fresh invitation for an account that a sign-in is about to link marks
\* the account; one for a linked account is never written.
LEMMA UsersStepRedeem ==
    ASSUME Inv, UsersStep
    PROVE  RedeemOK'
<1>1. /\ Invitations /\ links' = links /\ login' = login /\ RedeemOK
  BY UsersRows DEF Inv, UsersStep
<1>2. SUFFICES ASSUME NEW i \in Ids \ raced'
               PROVE  RedeemedOK(i)'
  BY DEF RedeemOK
<1>3. i \in Ids \ raced
  BY DEF UsersStep
<1>4. By(i)' = By(i) /\ \A l \in Logins : Busy(l, i)' <=> Busy(l, i)
  BY <1>1 DEF By, Busy
<1>5. ASSUME invitation'[i] = "live"
      PROVE  /\ By(i) = {}
             /\ \A l \in Logins : ~ (Busy(l, i) /\ login[l].pc = "link")
  <2>1. CASE invitation[i] = "live"
    BY <1>1, <1>3, <2>1 DEF RedeemOK, RedeemedOK
  <2>2. CASE invitation[i] # "live"
    <3>1. ~ Linked(i)
      BY <1>1, <1>3, <1>5, <2>2 DEF Invitations
    <3>2. ~ Linking(i)
      BY <1>5, <2>2 DEF UsersStep
    <3> QED BY <3>1, <3>2 DEF Linked, Linking, By, Busy
  <2> QED BY <2>1, <2>2
<1> QED BY <1>1, <1>3, <1>4, <1>5 DEF RedeemOK, RedeemedOK

LEMMA UsersStepInv ==
    ASSUME Inv, UsersStep
    PROVE  Inv'
<1>1. UsersNext
  BY DEF UsersStep
<1>2. TypeOK'
  BY <1>1, UsersTyped DEF UsersStep, TypeOK, Inv
<1>3. EmailsUnique'
  BY <1>1, UsersRows, EmailsKept DEF Inv, TypeOK, UsersTypeOK
<1> QED BY <1>1, <1>2, <1>3, AdminOKNext, RecoveryOKNext, BootOKNext,
           AdminsOKNext, UsersStepLogins, UsersStepRedeem DEF Inv

\* The process ends: nothing of what it held is left to be wrong.
LEMMA CrashInv ==
    ASSUME Inv, CrashAll
    PROVE  Inv'
<1>1. /\ UNCHANGED <<users, password, invitation, links, config, recovery,
                     ops, starts, stale, raced>>
      /\ boot' = BootIdle
      /\ admin' = [p \in Procs |-> IdleAdmin]
      /\ login' = [l \in Logins |-> IdleLogin]
  BY DEF CrashAll, Crash
<1>2. TypeOK'
  <2>1. /\ boot' \in [pc : {"down", "exists", "create", "resume", "password",
                            "up"}, id : Ids \cup {NoId}]
        /\ admin' \in [Procs -> AdminOps]
    BY <1>1 DEF BootIdle, IdleAdmin, AdminOps
  <2>2. login' \in [Logins -> [pc : {"idle", "linked", "pending", "invited",
                                     "consume", "create", "own", "link",
                                     "fill", "save"},
                               subject : Subjects \cup {NoId},
                               id : Ids \cup {NoId},
                               email : Addresses,
                               policy : Policies \cup {NoId}]]
    BY <1>1 DEF IdleLogin, Addresses
  <2> QED BY <1>1, <2>1, <2>2
          DEF Inv, TypeOK, UsersTypeOK, AdminOps
<1>3. (\A p \in Procs : admin'[p].pc = "idle")
      /\ (\A l \in Logins : login'[l].pc = "idle")
  BY <1>1 DEF IdleAdmin, IdleLogin
<1>4. AdminOK' /\ BootOK'
  BY <1>1, <1>3 DEF AdminOK, AdminOpOK, BootOK, BootIdle
<1>5. RecoveryOK' /\ EmailsUnique' /\ LinksOK' /\ SubjectOwnsAccount'
  BY <1>1 DEF Inv, RecoveryOK, EmailsUnique, LinksOK, SubjectOwnsAccount,
              Exists
<1>6. AdminsOK'
  BY <1>1 DEF Inv, AdminsOK, HasRole, IsAdmin, Up, BootIdle
<1>7. LoginOK'
  BY <1>3 DEF LoginOK, SignInOK
<1>8. RedeemOK'
  <2>1. \A l \in Logins : \A i \in Ids : ~ Busy(l, i)'
    BY <1>3 DEF Busy
  <2>2. \A i \in Ids : By(i)' = By(i)
    BY <1>1 DEF By
  <2> QED BY <1>1, <2>1, <2>2 DEF Inv, RedeemOK, RedeemedOK
<1> QED BY <1>2, <1>4, <1>5, <1>6, <1>7, <1>8 DEF Inv
-----------------------------------------------------------------------------
(* The parts about the sign-ins, over their own steps.                     *)

SignInInv ==
    /\ login \in [Logins -> Login]
    /\ links \in [Subjects -> Ids \cup {NoId}]
    /\ invitation \in [Ids -> {"none", "live", "lapsed", "spent"}]
    /\ raced \subseteq Ids
    /\ LoginOK
    /\ LinksOK
    /\ SubjectOwnsAccount
    /\ RedeemOK

LEMMA SignInInvHolds ==
    ASSUME Inv
    PROVE  SignInInv
  BY DEF Inv, TypeOK, UsersTypeOK, SignInInv, Login

\* A step that writes no link, no invitation and starts no redemption.
LEMMA QuietStep ==
    ASSUME Inv, Rows, NEW l \in Logins, Moves(l), SignInOK(l)',
           UNCHANGED <<links, invitation, raced>>,
           \A i \in Ids : Busy(l, i)' =>
              /\ Busy(l, i)
              /\ login'[l].pc = "link" => login[l].pc = "link"
    PROVE  SignInInv'
<1>1. LoginOK'
  BY LoginOKKept
<1>2. LinksOK' /\ SubjectOwnsAccount'
  BY LinksKept
<1>3. RedeemOK'
  BY RedeemKept
<1> QED BY <1>1, <1>2, <1>3, SignInInvHolds DEF SignInInv, Moves

\* A sign-in that ends.
LEMMA EndStep ==
    ASSUME Inv, Rows, NEW l \in Logins, End(l),
           UNCHANGED <<links, invitation, raced>>
    PROVE  SignInInv'
<1>1. Moves(l) /\ login'[l].pc = "idle"
  BY EndMoves
<1> QED BY <1>1, SignInIdle, QuietStep DEF Busy

LEMMA CompleteStep ==
    ASSUME Inv, NEW l \in Logins, NEW s \in Subjects, NEW g \in Grants,
           NEW e \in EmailsOf[s] \cup {NoEmail}, Complete(l, s, e, g)
    PROVE  SignInInv'
<1> DEFINE pc == IF links[s] # NoId THEN "linked" ELSE "pending"
           r == [pc |-> pc, subject |-> s, id |-> links[s], email |-> e,
                 policy |-> g]
<1>1. links[s] \in Ids \cup {NoId} /\ (links[s] # NoId => Exists(links[s]))
  BY SignInInvHolds DEF SignInInv, LinksOK
<1>2. e \in Addresses /\ g \in Policies
  BY UsersAssumption, FederatedAssumption DEF Addresses
<1>3. r \in Login
  BY <1>1, <1>2 DEF Login
<1>4. login' = [login EXCEPT ![l] = r]
  BY DEF Complete
<1>5. Moves(l) /\ login'[l] = r
  <2> HIDE DEF r
  <2> QED BY <1>3, <1>4, StepMoves
<1>6. Rows /\ UNCHANGED <<links, invitation, raced>> /\ users' = users
  BY RowsSame DEF Complete, tables, Inv, TypeOK, UsersTypeOK
<1>7. SignInOK(l)'
  BY <1>1, <1>2, <1>5, <1>6 DEF SignInOK, Exists
<1>8. \A i \in Ids : ~ Busy(l, i)'
  BY <1>5 DEF Busy
<1> QED BY <1>5, <1>6, <1>7, <1>8, QuietStep

LEMMA EligibleStep ==
    ASSUME Inv, NEW l \in Logins, Eligible(l)
    PROVE  SignInInv'
<1>1. /\ Rows /\ UNCHANGED <<links, invitation, raced>> /\ users' = users
      /\ users \in [Ids -> User \cup {NoUser}]
  BY RowsSame DEF Eligible, tables, Inv, TypeOK, UsersTypeOK
<1>2. CASE End(l)
  BY <1>1, <1>2, EndStep
<1>3. CASE ~ End(l)
  <2>1. /\ CanSignIn(users[login[l].id])
        /\ \/ login[l].pc = "linked" /\ Step(l, "fill")
           \/ login[l].pc = "invited" /\ Step(l, "consume")
           \/ login[l].pc = "own" /\ Step(l, "link")
    BY <1>3 DEF Eligible, AfterEligible
  <2>2. /\ Moves(l)
        /\ login'[l].subject = login[l].subject /\ login'[l].id = login[l].id
        /\ login'[l].email = login[l].email
        /\ login'[l].policy = login[l].policy
        /\ \/ login[l].pc = "linked" /\ login'[l].pc = "fill"
           \/ login[l].pc = "invited" /\ login'[l].pc = "consume"
           \/ login[l].pc = "own" /\ login'[l].pc = "link"
    BY <2>1, PcMoves
  <2>3. SignInOK(l)
    BY DEF Inv, LoginOK
  <2>4. Exists(login[l].id)
    BY <1>1, <2>1, <2>3 DEF SignInOK, Exists, Ids, CanSignIn
  <2>5. SignInOK(l)'
    BY <1>1, <2>2, <2>3, <2>4 DEF SignInOK, Exists
  <2>6. \A i \in Ids : Busy(l, i)' =>
              /\ Busy(l, i)
              /\ login'[l].pc = "link" => login[l].pc = "link"
    BY <2>2, <2>3 DEF SignInOK, Busy
  <2> QED BY <1>1, <2>2, <2>5, <2>6, QuietStep
<1> QED BY <1>2, <1>3

LEMMA SignUpStep ==
    ASSUME Inv, NEW l \in Logins, NEW name \in {"", "idp"}, SignUp(l, name)
    PROVE  SignInInv'
<1>1. Rows /\ UNCHANGED <<links, invitation, raced>>
  BY SignUpRows DEF SignUp
<1>2. SignInOK(l) /\ login[l].pc = "create"
  BY DEF Inv, LoginOK, SignUp
<1>3. login[l].id \in Ids /\ login[l].id = login[l].subject
  BY <1>2 DEF SignInOK, Ids
<1>4. \/ Step(l, "own")
      \/ /\ Step(l, "link")
         /\ users' = [users EXCEPT ![login[l].id] = SignedUp(l, name)]
  BY DEF SignUp
<1>5. /\ Moves(l)
      /\ login'[l].subject = login[l].subject /\ login'[l].id = login[l].id
      /\ login'[l].email = login[l].email
      /\ login'[l].policy = login[l].policy
      /\ \/ login'[l].pc = "own"
         \/ /\ login'[l].pc = "link"
            /\ users' = [users EXCEPT ![login[l].id] = SignedUp(l, name)]
  BY <1>4, PcMoves
<1>6. login'[l].pc = "link" => Exists(login[l].id)'
  <2> SUFFICES ASSUME login'[l].pc = "link"
               PROVE  users'[login[l].id] \in User
    BY <1>3, <1>5 DEF Exists
  <2>1. users'[login[l].id] = SignedUp(l, name)
    BY <1>3, <1>5 DEF Inv, TypeOK, UsersTypeOK
  <2>2. users'[login[l].id] # NoUser
    <3>1. SignedUp(l, name).kind = "human"
      BY DEF SignedUp
    <3>2. login[l].policy \in Policies /\ login[l].email \in Addresses
      BY <1>2 DEF SignInOK, Inv, TypeOK
    <3>3. SignedUp(l, name) \in User
      BY <3>2, UsersAssumption DEF SignedUp, User
    <3> QED BY <2>1, <3>3, UsersAssumption
  <2> QED BY <1>1, <1>3, <2>2 DEF Rows
<1>7. SignInOK(l)'
  BY <1>2, <1>3, <1>5, <1>6 DEF SignInOK
<1>8. \A i \in Ids : ~ Busy(l, i)'
  BY <1>3, <1>5 DEF Busy
<1> QED BY <1>1, <1>5, <1>7, <1>8, QuietStep

LEMMA ProfileStep ==
    ASSUME Inv, NEW l \in Logins,
           \/ \E name \in {"", "idp"} : FillDisplayName(l, name)
           \/ SaveIdentityState(l) \/ AbortLogin(l)
    PROVE  SignInInv'
<1>1. Rows /\ UNCHANGED <<links, invitation, raced>>
  BY FillRows, SaveRows, RowsSame
     DEF FillDisplayName, SaveIdentityState, AbortLogin, tables, Inv, TypeOK,
         UsersTypeOK
<1>2. CASE End(l)
  BY <1>1, <1>2, EndStep
<1>3. CASE ~ End(l)
  <2>1. login[l].pc = "fill" /\ Step(l, "save")
    BY <1>3 DEF FillDisplayName, SaveIdentityState, AbortLogin
  <2>2. /\ Moves(l) /\ login'[l].pc = "save"
        /\ login'[l].subject = login[l].subject /\ login'[l].id = login[l].id
        /\ login'[l].email = login[l].email
        /\ login'[l].policy = login[l].policy
    BY <2>1, PcMoves
  <2>3. SignInOK(l)
    BY DEF Inv, LoginOK
  <2>4. Exists(login[l].id)'
    BY <1>1, <2>1, <2>2, <2>3 DEF SignInOK, Exists, Rows
  <2>5. SignInOK(l)'
    BY <2>1, <2>2, <2>3, <2>4 DEF SignInOK, Exists
  <2> QED BY <1>1, <2>2, <2>5, QuietStep DEF Busy
<1> QED BY <1>2, <1>3
\* PendingByEmail: whoever finds an invitation somebody else is redeeming
\* marks its account, and a live one has nobody linked or about to be.
LEMMA PendingStep ==
    ASSUME Inv, NEW l \in Logins, PendingByEmail(l)
    PROVE  SignInInv'
<1>1. /\ Rows /\ UNCHANGED <<links, invitation>> /\ users' = users
      /\ users \in [Ids -> User \cup {NoUser}]
  BY RowsSame DEF PendingByEmail, tables, Inv, TypeOK, UsersTypeOK
<1>2. SignInOK(l) /\ login[l].pc = "pending" /\ login[l] \in Login
  BY SignInInvHolds DEF SignInInv, LoginOK, PendingByEmail
<1>3. login \in [Logins -> Login]
  BY SignInInvHolds DEF SignInInv
<1>4. CASE raced' = raced /\ login' = SignUpOr(l, login[l].subject)
  <2>1. CASE ~ config.signUp
    BY <1>1, <1>4, <2>1, EndStep DEF SignUpOr, End
  <2>2. CASE config.signUp
    <3> DEFINE s == login[l].subject
               r == [login[l] EXCEPT !.pc = "create", !.id = s]
    <3>1. s \in Subjects /\ s \in Ids
      BY <1>2 DEF SignInOK, Ids
    <3>2. login' = [login EXCEPT ![l] = r]
      BY <1>3, <1>4, <2>2 DEF SignUpOr
    <3>3. /\ r \in Login /\ r.pc = "create" /\ r.id = s /\ r.subject = s
          /\ r.email = login[l].email /\ r.policy = login[l].policy
      BY <1>2, <3>1 DEF Login
    <3> HIDE DEF r, s
    <3>4. Moves(l) /\ login'[l] = r
      BY <3>2, <3>3, StepMoves
    <3>5. SignInOK(l)'
      BY <1>2, <3>3, <3>4 DEF SignInOK, s
    <3>6. \A i \in Ids : ~ Busy(l, i)'
      BY <3>3, <3>4 DEF Busy
    <3> QED BY <1>1, <1>4, <3>4, <3>5, <3>6, QuietStep
  <2> QED BY <2>1, <2>2
<1>5. ASSUME NEW i \in InvitedAt(login[l].email), login[l].email # NoEmail,
             login' = [login EXCEPT ![l].pc = "invited", ![l].id = i],
             raced' = IF Redeeming(i) THEN raced \cup {i} ELSE raced
      PROVE  SignInInv'
  <2> DEFINE r == [login[l] EXCEPT !.pc = "invited", !.id = i]
  <2>1. /\ i \in Ids /\ users[i] \in User /\ invitation[i] = "live"
        /\ users[i].email = login[l].email
    BY <1>1, RowIs DEF InvitedAt, ByEmail
  <2>2. login' = [login EXCEPT ![l] = r]
    BY <1>3, <1>5
  <2>3. /\ r \in Login /\ r.pc = "invited" /\ r.id = i
        /\ r.subject = login[l].subject
        /\ r.email = login[l].email /\ r.policy = login[l].policy
    BY <1>2, <2>1 DEF Login
  <2> HIDE DEF r
  <2>4. Moves(l) /\ login'[l] = r
    BY <2>2, <2>3, StepMoves
  <2>5. SignInOK(l)'
    BY <1>1, <1>2, <1>5, <2>1, <2>3, <2>4 DEF SignInOK, Exists
  <2>6. LoginOK' /\ LinksOK' /\ SubjectOwnsAccount'
    BY <1>1, <2>4, <2>5, LoginOKKept, LinksKept
  <2>7. RedeemOK'
    <3> SUFFICES ASSUME NEW j \in Ids \ raced'
                 PROVE  RedeemedOK(j)'
      BY DEF RedeemOK
    <3>1. j \in Ids \ raced /\ RedeemedOK(j)
      BY <1>5 DEF Inv, RedeemOK
    <3>2. By(j)' = By(j)
      BY <1>1 DEF By
    <3>3. \A k \in Logins \ {l} : Busy(k, j)' <=> Busy(k, j)
      BY <2>4 DEF Moves, Busy
    <3>4. CASE j # i
      <4>1. ~ Busy(l, j)'
        BY <2>3, <2>4, <3>4 DEF Busy
      <4> QED BY <1>1, <2>4, <3>1, <3>2, <3>3, <4>1 DEF RedeemedOK, Moves
    <3>5. CASE j = i
      <4>1. ~ Redeeming(i)
        BY <1>5, <3>5
      <4>2. \A k \in Logins : ~ Busy(k, i)
        BY <2>1, <3>1, <3>5, <4>1 DEF RedeemedOK, Busy, Redeeming
      <4>3. By(i) = {}
        BY <2>1, <3>1, <3>5 DEF RedeemedOK
      <4>4. \A k \in Logins : Busy(k, i)' => k = l
        BY <3>3, <3>5, <4>2
      <4>5. login'[l].pc # "link"
        BY <2>3, <2>4
      <4> QED BY <3>2, <3>5, <4>3, <4>4, <4>5 DEF RedeemedOK
    <3> QED BY <3>4, <3>5
  <2>8. raced' \subseteq Ids
    BY <1>5, <2>1, SignInInvHolds DEF SignInInv
  <2> QED BY <1>1, <2>4, <2>6, <2>7, <2>8, SignInInvHolds
          DEF SignInInv, Moves
<1> QED BY <1>4, <1>5 DEF PendingByEmail

\* ConsumePending: the invitation goes before the link it pays for.
LEMMA ConsumeStep ==
    ASSUME Inv, NEW l \in Logins, ConsumePending(l)
    PROVE  SignInInv'
<1>1. /\ Rows /\ UNCHANGED <<links, raced>> /\ users' = users
  BY RowsSame DEF ConsumePending, Inv, TypeOK, UsersTypeOK
<1>2. SignInOK(l) /\ login[l].pc = "consume"
  BY DEF Inv, LoginOK, ConsumePending
<1>3. PICK i : i = login[l].id
  OBVIOUS
<1>4. Exists(i) /\ i \in Ids
  BY <1>2, <1>3 DEF SignInOK, Exists
<1>5. invitation' = [invitation EXCEPT ![i] = "spent"]
  BY <1>3 DEF ConsumePending
<1>6. \A j \in Ids : invitation'[j] = IF j = i THEN "spent" ELSE invitation[j]
  BY <1>4, <1>5, SignInInvHolds DEF SignInInv
<1>7. /\ Moves(l) /\ login'[l].pc = "link"
      /\ login'[l].subject = login[l].subject /\ login'[l].id = i
      /\ login'[l].email = login[l].email
      /\ login'[l].policy = login[l].policy
  BY <1>3, PcMoves DEF ConsumePending
<1>8. SignInOK(l)'
  BY <1>1, <1>2, <1>3, <1>4, <1>6, <1>7 DEF SignInOK, Exists
<1>9. LoginOK' /\ LinksOK' /\ SubjectOwnsAccount'
  BY <1>1, <1>6, <1>7, <1>8, LoginOKKept, LinksKept
<1>10. RedeemOK'
  <2> SUFFICES ASSUME NEW j \in Ids \ raced
               PROVE  RedeemedOK(j)'
    BY <1>1 DEF RedeemOK
  <2>1. RedeemedOK(j)
    BY DEF Inv, RedeemOK
  <2>2. By(j)' = By(j)
    BY <1>1 DEF By
  <2>3. \A k \in Logins : Busy(k, j)' => Busy(k, j)
    BY <1>2, <1>3, <1>7 DEF Moves, Busy
  <2>4. \A k \in Logins \ {l} : login'[k].pc = login[k].pc
    BY <1>7 DEF Moves
  <2>5. CASE j = i
    BY <1>6, <2>1, <2>2, <2>3, <2>5 DEF RedeemedOK
  <2>6. CASE j # i
    <3>1. ~ Busy(l, j)'
      BY <1>7, <2>6 DEF Busy
    <3> QED BY <1>6, <2>1, <2>2, <2>3, <2>4, <2>6, <3>1 DEF RedeemedOK
  <2> QED BY <2>5, <2>6
<1>11. invitation' \in [Ids -> {"none", "live", "lapsed", "spent"}]
  BY <1>4, <1>5, SignInInvHolds DEF SignInInv
<1> QED BY <1>1, <1>7, <1>9, <1>10, <1>11, SignInInvHolds
        DEF SignInInv, Moves

\* Link: the one redemption left at the account pays for the one link.
LEMMA LinkStep ==
    ASSUME Inv, NEW l \in Logins, Link(l)
    PROVE  SignInInv'
<1>1. /\ Rows /\ UNCHANGED <<invitation, raced>> /\ users' = users
  BY RowsSame DEF Link, Inv, TypeOK, UsersTypeOK
<1>2. SignInOK(l) /\ login[l].pc = "link"
  BY DEF Inv, LoginOK, Link
<1>3. PICK i, s : i = login[l].id /\ s = login[l].subject
  OBVIOUS
<1>4. Exists(i) /\ i \in Ids /\ s \in Subjects
  BY <1>2, <1>3 DEF SignInOK, Exists
<1>5. CASE links[s] # NoId
  BY <1>1, <1>3, <1>5, EndStep DEF Link
<1>6. CASE links[s] = NoId
  <2>1. links' = [links EXCEPT ![s] = i] /\ Step(l, "fill")
    BY <1>3, <1>6 DEF Link
  <2>2. /\ \A t \in Subjects : links'[t] = IF t = s THEN i ELSE links[t]
        /\ links' \in [Subjects -> Ids \cup {NoId}]
    BY <1>4, <2>1, SignInInvHolds DEF SignInInv
  <2>3. /\ Moves(l) /\ login'[l].pc = "fill"
        /\ login'[l].subject = s /\ login'[l].id = i
        /\ login'[l].email = login[l].email
        /\ login'[l].policy = login[l].policy
    BY <1>3, <2>1, PcMoves
  <2>4. SignInOK(l)'
    BY <1>1, <1>2, <1>3, <1>4, <2>3 DEF SignInOK, Exists
  <2>5. LoginOK'
    BY <1>1, <2>3, <2>4, LoginOKKept
  <2>6. LinksOK'
    BY <1>1, <1>4, <2>2 DEF Inv, LinksOK, Exists
  <2>7. SubjectOwnsAccount'
    <3>1. i # s => users[i].email \in EmailsOf[s] /\ invitation[i] # "none"
      BY <1>2, <1>3 DEF SignInOK
    <3> QED BY <1>1, <2>2, <3>1 DEF Inv, SubjectOwnsAccount
  <2>8. RedeemOK'
    <3> SUFFICES ASSUME NEW j \in Ids \ raced
                 PROVE  RedeemedOK(j)'
      BY <1>1 DEF RedeemOK
    <3>1. RedeemedOK(j)
      BY DEF Inv, RedeemOK
    <3>2. \A k \in Logins : Busy(k, j)' => k # l /\ Busy(k, j)
                                           /\ login'[k].pc = login[k].pc
      BY <2>3 DEF Moves, Busy
    <3>3. CASE j # i \/ s = i
      <4>1. By(j)' = By(j)
        BY <1>4, <1>6, <2>2, <3>3, UsersAssumption DEF By, Ids
      <4> QED BY <1>1, <3>1, <3>2, <4>1 DEF RedeemedOK
    <3>4. CASE j = i /\ s # i
      <4>1. Busy(l, i)
        BY <1>2, <1>3, <3>4 DEF Busy
      <4>2. By(i) = {} /\ invitation[i] # "live"
        BY <1>2, <3>1, <3>4, <4>1 DEF RedeemedOK
      <4>3. \A k \in Logins : ~ Busy(k, i)'
        BY <3>1, <3>2, <3>4, <4>1 DEF RedeemedOK
      <4>4. \A t \in By(i)' : t = s
        BY <2>2, <4>2 DEF By
      <4> QED BY <1>1, <3>4, <4>2, <4>3, <4>4 DEF RedeemedOK
    <3> QED BY <3>3, <3>4
  <2> QED BY <1>1, <2>2, <2>3, <2>5, <2>6, <2>7, <2>8, SignInInvHolds
          DEF SignInInv, Moves
<1> QED BY <1>5, <1>6

LEMMA LoginStepSignIns ==
    ASSUME Inv, NEW l \in Logins, LoginStep(l)
    PROVE  SignInInv'
  BY CompleteStep, PendingStep, EligibleStep, ConsumeStep, LinkStep,
     SignUpStep, ProfileStep DEF LoginStep

LEMMA LoginStepInv ==
    ASSUME Inv, NEW l \in Logins, LoginStep(l)
    PROVE  Inv'
<1>1. /\ Rows /\ Roles
      /\ UNCHANGED <<password, config, boot, admin, recovery, starts, stale>>
      /\ ops' = ops \/ (ops < MaxOps /\ ops' = ops + 1)
  BY LoginRows, LoginFrame
<1>2. SignInInv'
  BY LoginStepSignIns
<1>3. TypeOK'
  <2>1. ops' \in 0 .. MaxOps
    BY <1>1, UsersAssumption DEF Inv, TypeOK, UsersTypeOK
  <2>2. users' \in [Ids -> User \cup {NoUser}]
    BY <1>1 DEF Rows
  <2> QED BY <1>1, <1>2, <2>1, <2>2
          DEF SignInInv, Login, Inv, TypeOK, UsersTypeOK
<1>4. AdminOK'
  BY <1>1, AdminOpKept DEF Inv, AdminOK
<1>5. RecoveryOK' /\ BootOK'
  BY <1>1, ExistsKept DEF Inv, RecoveryOK, BootOK, Up
<1>6. EmailsUnique'
  BY <1>1, EmailsKept DEF Inv, TypeOK, UsersTypeOK
<1>7. AdminsOK'
  BY <1>1, AdminsKept DEF Inv, TypeOK, UsersTypeOK, AdminsOK, Up
<1> QED BY <1>2, <1>3, <1>4, <1>5, <1>6, <1>7 DEF SignInInv, Inv
-----------------------------------------------------------------------------
(* The theorems.                                                           *)

LEMMA InitInv ==
    ASSUME Init
    PROVE  Inv
<1> USE DEF Init, UsersInit
<1>1. UsersTypeOK
  <2>1. config \in Config
    BY UsersAssumption
  <2>2. /\ boot \in [pc : {"down", "exists", "create", "resume", "password",
                           "up"}, id : Ids \cup {NoId}]
        /\ recovery \in [pc : {"idle", "list", "unblock", "flag", "reset"},
                         id : Ids \cup {NoId}]
    BY DEF BootIdle, IdleRecovery
  <2>3. admin \in [Procs -> AdminOps]
    BY DEF IdleAdmin, AdminOps
  <2>4. 0 \in 0 .. MaxOps /\ 0 \in 0 .. MaxStarts
    BY UsersAssumption
  <2> QED BY <2>1, <2>2, <2>3, <2>4 DEF UsersTypeOK, AdminOps
<1>2. login \in [Logins -> Login]
  BY DEF IdleLogin, Login, Addresses
<1>3. TypeOK
  BY <1>1, <1>2 DEF TypeOK, Login
<1>4. AdminOK /\ RecoveryOK /\ BootOK
  BY DEF AdminOK, AdminOpOK, IdleAdmin, RecoveryOK, IdleRecovery, BootOK,
         BootIdle
<1>5. EmailsUnique /\ AdminsOK
  BY DEF EmailsUnique, AdminsOK, HasRole, BootIdle, Up
<1>6. LoginOK /\ LinksOK
  BY DEF LoginOK, SignInOK, IdleLogin, LinksOK
<1>7. SubjectOwnsAccount
  BY UsersAssumption DEF SubjectOwnsAccount
<1>8. RedeemOK
  <2>1. \A l \in Logins, i \in Ids : ~ Busy(l, i)
    BY DEF Busy, IdleLogin
  <2>2. \A i \in Ids : By(i) = {}
    BY UsersAssumption DEF By
  <2> QED BY <2>1, <2>2 DEF RedeemOK, RedeemedOK
<1> QED BY <1>3, <1>4, <1>5, <1>6, <1>7, <1>8 DEF Inv

LEMMA StutterInv ==
    ASSUME Inv, UNCHANGED vars
    PROVE  Inv'
<1> USE DEF vars, usersVars
<1>1. TypeOK'
  BY DEF Inv, TypeOK, UsersTypeOK
<1>2. AdminOK' /\ RecoveryOK' /\ BootOK'
  BY DEF Inv, AdminOK, AdminOpOK, RecoveryOK, BootOK, Exists, Up
<1>3. EmailsUnique' /\ AdminsOK'
  BY DEF Inv, EmailsUnique, AdminsOK, HasRole, IsAdmin, Up
<1>4. LoginOK' /\ LinksOK' /\ SubjectOwnsAccount'
  BY DEF Inv, LoginOK, SignInOK, LinksOK, SubjectOwnsAccount, Exists
<1>5. RedeemOK'
  BY DEF Inv, RedeemOK, RedeemedOK, Busy, By
<1> QED BY <1>1, <1>2, <1>3, <1>4, <1>5 DEF Inv

\* The invariant is inductive, and holds in every reachable state.
THEOREM AccountsInvariant == Spec => []Inv
<1>1. Init => Inv
  BY InitInv
<1>2. Inv /\ [Next]_vars => Inv'
  BY UsersStepInv, CrashInv, LoginStepInv, StutterInv DEF Next
<1> QED BY <1>1, <1>2, PTL DEF Spec

(***************************************************************************)
(* Every account, operation and sign-in in progress stays what its column  *)
(* or its Go type allows, whoever writes it in whatever order.             *)
(***************************************************************************)
THEOREM AccountsTyped == Spec => []TypeOK
<1>1. Inv => TypeOK
  BY DEF Inv
<1> QED BY <1>1, AccountsInvariant, PTL

(***************************************************************************)
(* A process that is up with a bootstrap address has an administrator who  *)
(* can sign in, until an administrator's edit lands after its author       *)
(* stopped being one (adminusers.go UpdateUser, bootstrap.go Bootstrap).   *)
(***************************************************************************)
THEOREM AdministratorsRemain == Spec => []AdminRemainsUnlessStale
<1>1. Inv => AdminRemainsUnlessStale
  BY DEF Inv, AdminsOK, AdminRemainsUnlessStale
<1> QED BY <1>1, AccountsInvariant, PTL

(***************************************************************************)
(* A start that comes up with a bootstrap address leaves no administrator  *)
(* at it without the password an earlier start failed to write             *)
(* (bootstrap.go resumeBootstrap).  The address has one account, so the    *)
(* one that got the password is the one.                                   *)
(***************************************************************************)
THEOREM BootstrapFinishes == Spec => BootstrapFinished
<1>1. ASSUME Inv, Next, ~ Up, Up', config'.email # NoEmail
      PROVE  ~ BootstrapUnfinished'
  <2>1. ASSUME boot' = boot PROVE FALSE
    BY <1>1, <2>1 DEF Up
  <2>2. ~ CrashAll
    BY <1>1 DEF CrashAll, Crash, BootIdle, Up
  <2>3. ASSUME NEW l \in Logins, LoginStep(l) PROVE FALSE
    BY <2>1, <2>3, LoginFrame
  <2>4. UsersNext
    BY <1>1, <2>2, <2>3 DEF Next, UsersStep
  <2>5. boot \in [pc : {"down", "exists", "create", "resume", "password",
                        "up"}, id : Ids \cup {NoId}]
    BY <1>1 DEF Inv, TypeOK, UsersTypeOK
  <2>6. CASE ResumeBootstrap
    <3>1. ~ BootstrapUnfinished
      BY <1>1, <2>6 DEF ResumeBootstrap, Up
    <3> QED BY <2>6, <3>1
            DEF ResumeBootstrap, BootstrapUnfinished, ByEmail, Unfinished
  <2>7. CASE IssueBootstrapPassword
    <3>1. PICK b : b = boot.id
      OBVIOUS
    <3>2. /\ b \in Ids /\ users[b] \in User /\ users[b].email = config.email
      BY <1>1, <2>7, <3>1 DEF Inv, BootOK, Exists, IssueBootstrapPassword
    <3>3. /\ password' = [password EXCEPT ![b] = TRUE]
          /\ users' = users /\ config' = config
      BY <2>7, <3>1 DEF IssueBootstrapPassword
    <3>4. password'[b]
      BY <1>1, <3>2, <3>3 DEF Inv, TypeOK, UsersTypeOK
    <3>5. \A i \in Ids : users[i] # NoUser /\ users[i].email = config.email
             => i = b
      BY <1>1, <3>2, <3>3, UsersAssumption DEF Inv, EmailsUnique
    <3> QED BY <3>3, <3>4, <3>5
            DEF BootstrapUnfinished, ByEmail, Unfinished
  <2>8. ASSUME \/ \E c \in Configs : Start(c)
               \/ AdminExists \/ CreateAdministrator
        PROVE  FALSE
    BY <1>1, <2>5, <2>8 DEF Start, AdminExists, CreateAdministrator, BootIdle,
                            Up
  <2>9. ASSUME \/ \E p \in Procs : CreateAccount(p) \/ UpdateAdminState(p)
               \/ ShellStep
               \/ \E i \in Ids : ChangePassword(i) \/ Lapse(i)
        PROVE  FALSE
    BY <2>1, <2>9
       DEF CreateAccount, UpdateAdminState, ShellStep, Recover, RecoverList,
           Unblock, RecoverFlag, RecoverReset, RecoverAbort, ChangePassword,
           Lapse
  <2>10. ASSUME NEW p \in Procs, AdminRest(p) PROVE FALSE
    BY <2>1, <2>10
       DEF AdminRest, BeginUpdate, BeginInvite, BeginReset, BeginCreate,
           Begin, Invite, ResetFlag, ResetPassword, Abort
  <2> QED BY <2>4, <2>6, <2>7, <2>8, <2>9, <2>10, UsersCases
<1>2. Inv /\ [Next]_vars =>
         [~ Up /\ Up' /\ config'.email # NoEmail =>
             ~ BootstrapUnfinished']_usersVars
  BY <1>1 DEF vars
<1> QED BY <1>2, AccountsInvariant, PTL DEF Spec, BootstrapFinished

(***************************************************************************)
(* Whatever sign-ins, invitations and edits run at the same time, a        *)
(* subject is linked only to its own sign-up's account or to one invited   *)
(* at an address the provider vouched for (oidc.go signUp, redeem).        *)
(***************************************************************************)
THEOREM SubjectsOwnTheirAccounts == Spec => []SubjectOwnsAccount
<1>1. Inv => SubjectOwnsAccount
  BY DEF Inv
<1> QED BY <1>1, AccountsInvariant, PTL

(***************************************************************************)
(* An invitation pays for one link, at whatever step a redemption dies,    *)
(* wherever no two redemptions and no renewal met one under way (oidc.go   *)
(* redeem).                                                                *)
(***************************************************************************)
THEOREM InvitationsRedeemedOnce == Spec => []RedeemedOnce
<1>1. ASSUME Inv, NEW i \in Ids \ raced
      PROVE  /\ Cardinality(By(i)) <= 1
             /\ By(i) # {} => invitation[i] # "live"
  <2>1. RedeemedOK(i)
    BY <1>1 DEF Inv, RedeemOK
  <2>2. By(i) = {} \/ \E s : By(i) = {s}
    BY <2>1 DEF RedeemedOK
  <2>3. Cardinality(By(i)) \in {0, 1}
    <3>1. By(i) = {} => Cardinality(By(i)) = 0
      BY FS_EmptySet
    <3>2. (\E s : By(i) = {s}) => Cardinality(By(i)) = 1
      BY FS_Singleton, Zenon
    <3> QED BY <2>2, <3>1, <3>2
  <2> QED BY <2>1, <2>3 DEF RedeemedOK
<1>2. Inv => RedeemedOnce
  BY <1>1 DEF RedeemedOnce, By
<1> QED BY <1>2, AccountsInvariant, PTL
\* One row's columns, over one step.
Columns(i) ==
    users[i] # NoUser /\ users'[i] # users[i] =>
        IF login' # login
        THEN /\ users'[i].role = users[i].role
             /\ users'[i].status = users[i].status
             /\ users[i].name # "" => users'[i].name = users[i].name
        ELSE IDPOwns(i) => /\ users'[i].policy = users[i].policy
                           /\ users'[i].source = "idp"

\* Outside the sign-ins only an administrator's edit changes a policy.
LEMMA UsersKeepPolicies ==
    ASSUME Inv, UsersNext, NEW i \in Ids, users[i] # NoUser
    PROVE  \/ /\ users'[i].policy = users[i].policy
              /\ users'[i].source = users[i].source
           \/ \E p \in Procs : UpdateAdminState(p)
<1>1. users \in [Ids -> User \cup {NoUser}] /\ users[i] \in User
  BY RowIs DEF Inv, TypeOK, UsersTypeOK
<1>2. ASSUME NEW t \in Ids, NEW b \in BOOLEAN,
             users' = [users EXCEPT ![t].must = b]
      PROVE  /\ users'[i].policy = users[i].policy
             /\ users'[i].source = users[i].source
  <2>1. users'[i] = IF i = t THEN [users[i] EXCEPT !.must = b] ELSE users[i]
    BY <1>1, <1>2
  <2> QED BY <1>1, <2>1, MustTyped
<1>3. ASSUME NEW t \in Ids, NEW v, users[t] = NoUser,
             users' = [users EXCEPT ![t] = v]
      PROVE  users'[i] = users[i]
  BY <1>1, <1>3, UsersAssumption
<1>4. ASSUME CreateAdministrator \/ \E p \in Procs : CreateAccount(p)
      PROVE  users'[i] = users[i]
  BY <1>3, <1>4 DEF CreateAdministrator, CreateAccount, Ids
<1>5. CASE RecoverFlag
  BY <1>2, <1>5 DEF RecoverFlag, Inv, RecoveryOK, Exists
<1>6. ASSUME NEW p \in Procs, ResetFlag(p)
      PROVE  /\ users'[i].policy = users[i].policy
             /\ users'[i].source = users[i].source
  BY <1>2, <1>6 DEF ResetFlag, Inv, AdminOK, AdminOpOK, Exists
<1>7. ASSUME NEW j \in Ids, ChangePassword(j)
      PROVE  /\ users'[i].policy = users[i].policy
             /\ users'[i].source = users[i].source
  BY <1>2, <1>7 DEF ChangePassword
<1>8. CASE Unblock
  <2>1. users'[i] = IF i = recovery.id
                    THEN [users[i] EXCEPT !.status = "active"] ELSE users[i]
    BY <1>1, <1>8 DEF Unblock
  <2> QED BY <1>1, <2>1 DEF User
<1>9. ASSUME \/ \E c \in Configs : Start(c)
             \/ AdminExists \/ ResumeBootstrap \/ IssueBootstrapPassword
             \/ \E e \in Emails, unblock \in BOOLEAN : Recover(e, unblock)
             \/ RecoverList \/ RecoverReset \/ RecoverAbort
             \/ \E j \in Ids : Lapse(j)
      PROVE  users' = users
  BY <1>9 DEF Start, AdminExists, ResumeBootstrap, IssueBootstrapPassword,
              Recover, RecoverList, RecoverReset, RecoverAbort, Lapse
<1>10. ASSUME NEW p \in Procs, AdminRest(p), ~ ResetFlag(p)
       PROVE  users' = users
  BY <1>10 DEF AdminRest, BeginUpdate, BeginInvite, BeginReset, BeginCreate,
               Begin, Invite, ResetPassword, Abort
<1> QED BY <1>4, <1>5, <1>6, <1>7, <1>8, <1>9, <1>10, UsersCases
        DEF ShellStep

LEMMA UpdateKeepsColumns ==
    ASSUME Inv, NEW p \in Procs, UpdateAdminState(p),
           NEW i \in Ids, users[i] # NoUser, IDPOwns(i)
    PROVE  /\ users'[i].policy = users[i].policy
           /\ users'[i].source = users[i].source
<1>1. users \in [Ids -> User \cup {NoUser}] /\ users[i] \in User
  BY RowIs DEF Inv, TypeOK, UsersTypeOK
<1>2. PICK t, ch : t = admin[p].target /\ ch = admin[p].change
  OBVIOUS
<1>3. ch \in Change
  BY <1>2, UsersAssumption
     DEF Inv, AdminOK, AdminOpOK, UpdateAdminState
<1>4. CASE users' = users
  BY <1>4
<1>5. CASE /\ users' = [users EXCEPT ![t] = Edited(users[t], ch)]
           /\ ~ (ch.policy # "keep" /\ IDPOwns(t))
  <2>1. users'[i] = IF i = t THEN Edited(users[i], ch) ELSE users[i]
    BY <1>1, <1>5
  <2>2. i = t => ch.policy = "keep"
    BY <1>5
  <2> QED BY <1>1, <1>3, <2>1, <2>2, EditedTyped
<1> QED BY <1>2, <1>4, <1>5, UpdateRows

\* A sign-in that writes a row also moves on.
LEMMA LoginKeepsColumns ==
    ASSUME Inv, NEW l \in Logins, LoginStep(l), NEW i \in Ids,
           users[i] # NoUser, users'[i] # users[i]
    PROVE  /\ login' # login
           /\ users'[i].role = users[i].role
           /\ users'[i].status = users[i].status
           /\ users[i].name # "" => users'[i].name = users[i].name
<1>1. users \in [Ids -> User \cup {NoUser}] /\ users[i] \in User
  BY RowIs DEF Inv, TypeOK, UsersTypeOK
<1>2. users'[i].role = users[i].role
  BY <1>1, LoginRows DEF Roles
<1>3. ASSUME NEW name \in {"", "idp"}, SignUp(l, name)
      PROVE  FALSE
  <2>1. users' # users
    OBVIOUS
  <2>2. /\ users[login[l].id] = NoUser
        /\ users' = [users EXCEPT ![login[l].id] = SignedUp(l, name)]
    BY <1>3, <2>1 DEF SignUp
  <2> QED BY <1>1, <2>2
<1>4. ASSUME NEW name \in {"", "idp"}, FillDisplayName(l, name)
      PROVE  /\ login' # login
             /\ users'[i].status = users[i].status
             /\ users[i].name # "" => users'[i].name = users[i].name
  <2>1. Step(l, "save") \/ End(l)
    BY <1>4 DEF FillDisplayName
  <2>2. login'[l].pc \in {"save", "idle"} /\ login[l].pc = "fill"
    BY <1>4, <2>1, PcMoves, EndMoves DEF FillDisplayName
  <2> QED BY <1>1, <1>4, <2>2, FillRows
<1>5. CASE SaveIdentityState(l)
  <2>1. login'[l].pc = "idle" /\ login[l].pc = "save"
    BY <1>5, EndMoves DEF SaveIdentityState
  <2> QED BY <1>1, <1>2, <1>5, <2>1, SaveRows
<1>6. \/ users' = users
      \/ \E name \in {"", "idp"} : SignUp(l, name) \/ FillDisplayName(l, name)
      \/ SaveIdentityState(l)
  BY DEF LoginStep, Complete, PendingByEmail, Eligible, ConsumePending, Link,
         AbortLogin, tables
<1> QED BY <1>2, <1>3, <1>4, <1>5, <1>6

(***************************************************************************)
(* Whatever an operation read before it wrote, with a group mapping only a *)
(* sign-in changes a policy the provider owns, and a sign-in changes       *)
(* neither role, status nor a name that is set (users.go UpdateAdminState, *)
(* SaveIdentityState, FillDisplayName).                                    *)
(***************************************************************************)
THEOREM ColumnsKept == Spec => ColumnsKeepTheirOwner
<1>1. ASSUME Inv, Next, NEW i \in Ids
      PROVE  Columns(i)
  <2> SUFFICES ASSUME users[i] # NoUser, users'[i] # users[i]
               PROVE  Columns(i)
    BY DEF Columns
  <2>1. CASE UsersStep
    <3>1. login' = login /\ UsersNext
      BY <2>1 DEF UsersStep
    <3>2. IDPOwns(i) => /\ users'[i].policy = users[i].policy
                        /\ users'[i].source = users[i].source
      BY <1>1, <3>1, UsersKeepPolicies, UpdateKeepsColumns
    <3> QED BY <3>1, <3>2 DEF Columns, IDPOwns
  <2>2. CASE CrashAll
    BY <2>2 DEF CrashAll, Crash
  <2>3. ASSUME NEW l \in Logins, LoginStep(l)
        PROVE  Columns(i)
    BY <1>1, <2>3, LoginKeepsColumns DEF Columns
  <2> QED BY <1>1, <2>1, <2>2, <2>3 DEF Next
<1>2. Inv /\ [Next]_vars => [\A i \in Ids : Columns(i)]_vars
  BY <1>1
<1> QED BY <1>2, AccountsInvariant, PTL
        DEF Spec, ColumnsKeepTheirOwner, Columns

=============================================================================
