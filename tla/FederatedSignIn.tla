-------------------------- MODULE FederatedSignIn --------------------------
(***************************************************************************)
(* Sign-in through the OpenID Connect provider (internal/app/auth/oidc.go) *)
(* beside everything Users has: the subject's link, else an invitation for *)
(* its verified address, else a sign-up under an id derived from the       *)
(* subject; then the name and, with a group mapping, the policy the        *)
(* provider owns.  Every step is a statement of its own, so two sign-ins   *)
(* interleave with each other and with the administrators, and a sign-in   *)
(* may end after any of them.  The session it opens is Sessions'.          *)
(***************************************************************************)
EXTENDS Users

CONSTANTS
    Logins,     \* callbacks in progress at a time
    EmailsOf    \* the addresses the provider may assert for a subject

ASSUME FederatedAssumption ==
    EmailsOf \in [Subjects -> SUBSET Emails]

VARIABLES
    login,     \* the callbacks in progress
    raced      \* accounts two redemptions, or a redemption and a renewal,
               \* were working on at the same time

vars == <<usersVars, login, raced>>

IdleLogin == [pc |-> "idle", subject |-> NoId, id |-> NoId,
              email |-> NoEmail, policy |-> NoId]

TypeOK ==
    /\ UsersTypeOK
    /\ login \in [Logins -> [pc : {"idle", "linked", "pending", "invited",
                                   "consume", "create", "own", "link",
                                   "fill", "save"},
                             subject : Subjects \cup {NoId},
                             id : Ids \cup {NoId},
                             email : Addresses,
                             policy : Policies \cup {NoId}]]
    /\ raced \subseteq Ids

Init ==
    /\ UsersInit
    /\ login = [l \in Logins |-> IdleLogin]
    /\ raced = {}

tables == <<users, password, invitation, links>>
others == <<config, boot, admin, recovery, ops, starts, stale>>

End(l) == login' = [login EXCEPT ![l] = IdleLogin]
Step(l, pc) == login' = [login EXCEPT ![l].pc = pc]

\* Without a link and without an invitation, the sign-up policy decides.
\* signUpID derives the account's id from the subject.
SignUpOr(l, s) ==
    IF config.signUp
    THEN [login EXCEPT ![l].pc = "create", ![l].id = s]
    ELSE [login EXCEPT ![l] = IdleLogin]

\* Complete, from a callback whose challenge and required group are in
\* order: resolve reads the subject's link.  `e' is the address, NoEmail if
\* the provider does not vouch for it, and `g' what the groups grant.
Complete(l, s, e, g) ==
    /\ Up
    /\ login[l] = IdleLogin
    /\ ops < MaxOps
    /\ ops' = ops + 1
    /\ login' = [login EXCEPT ![l] =
          [pc |-> IF links[s] # NoId THEN "linked" ELSE "pending",
           subject |-> s, id |-> links[s], email |-> e, policy |-> g]]
    /\ UNCHANGED <<tables, config, boot, admin, recovery, starts, stale,
                   raced>>

\* PendingByEmail: a live invitation for a verified address.
InvitedAt(e) == {i \in ByEmail(e) : invitation[i] = "live"}

Redeeming(i) == \E k \in Logins : login[k].pc \in {"invited", "consume"}
                                    /\ login[k].id = i

PendingByEmail(l) ==
    /\ login[l].pc = "pending"
    /\ LET found == IF login[l].email = NoEmail THEN {}
                    ELSE InvitedAt(login[l].email)
       IN  \/ /\ found = {}
              /\ login' = SignUpOr(l, login[l].subject)
              /\ UNCHANGED raced
           \/ \E i \in found :
                /\ login' = [login EXCEPT ![l].pc = "invited", ![l].id = i]
                /\ raced' = IF Redeeming(i) THEN raced \cup {i} ELSE raced
    /\ UNCHANGED <<tables, others>>

\* eligible: the account must exist and be allowed to sign in, whichever
\* way it was found.
AfterEligible == [linked |-> "fill", invited |-> "consume", own |-> "link"]

Eligible(l) ==
    /\ login[l].pc \in DOMAIN AfterEligible
    /\ IF CanSignIn(users[login[l].id])
       THEN Step(l, AfterEligible[login[l].pc])
       ELSE End(l)
    /\ UNCHANGED <<tables, others, raced>>

\* A variant of ConsumePending that runs after the link it pays for.
LinkThenConsume(l) ==
    /\ login[l].pc = "consume"
    /\ links[login[l].subject] = NoId
    /\ links' = [links EXCEPT ![login[l].subject] = login[l].id]
    /\ UNCHANGED <<users, password, invitation>>
    /\ Step(l, "link")
    /\ UNCHANGED <<others, raced>>

\* redeem spends the invitation; a row already gone is no error ...
ConsumePending(l) ==
    /\ login[l].pc = "consume"
    /\ invitation' = [invitation EXCEPT ![login[l].id] = "spent"]
    /\ Step(l, "link")
    /\ UNCHANGED <<users, password, links, others, raced>>

\* ... and then links the subject, as the end of a sign-up does: a subject
\* linked meanwhile is a conflict.
Link(l) ==
    /\ login[l].pc = "link"
    /\ LET s == login[l].subject
       IN  IF links[s] = NoId
           THEN links' = [links EXCEPT ![s] = login[l].id] /\ Step(l, "fill")
           ELSE UNCHANGED links /\ End(l)
    /\ UNCHANGED <<users, password, invitation, others, raced>>

SignedUp(l, name) ==
    [kind |-> "human", role |-> "user", status |-> "active",
     email |-> login[l].email, name |-> name,
     policy |-> IF config.mapping THEN login[l].policy
                ELSE CHOOSE p \in Policies : TRUE,
     source |-> IF config.mapping THEN "idp" ELSE "local", must |-> FALSE]

\* A variant of SignUp that continues with whoever holds the address.
SignUpByAddress(l, name) ==
    /\ login[l].pc = "create"
    /\ IF users[login[l].id] # NoUser \/ Taken(login[l].email)
       THEN /\ login' = [login EXCEPT ![l].pc = "own",
                ![l].id = IF Taken(login[l].email)
                          THEN CHOOSE i \in ByEmail(login[l].email) : TRUE
                          ELSE @]
            /\ UNCHANGED users
       ELSE /\ users' = [users EXCEPT ![login[l].id] = SignedUp(l, name)]
            /\ Step(l, "link")
    /\ UNCHANGED <<password, invitation, links, others, raced>>

\* signUp: a conflict is this subject's own account from an attempt that
\* died, or somebody else's address; only the derived id tells them apart.
SignUp(l, name) ==
    /\ login[l].pc = "create"
    /\ IF users[login[l].id] # NoUser \/ Taken(login[l].email)
       THEN Step(l, "own") /\ UNCHANGED users
       ELSE /\ users' = [users EXCEPT ![login[l].id] = SignedUp(l, name)]
            /\ Step(l, "link")
    /\ UNCHANGED <<password, invitation, links, others, raced>>

\* FillDisplayName: the test for no name is part of the statement.
FillDisplayName(l, name) ==
    /\ login[l].pc = "fill"
    /\ users' = [users EXCEPT ![login[l].id].name =
                    IF @ = "" THEN name ELSE @]
    /\ IF config.mapping THEN Step(l, "save") ELSE End(l)
    /\ UNCHANGED <<password, invitation, links, others, raced>>

\* A variant of SaveIdentityState that also writes back the status.
SaveIdentityStateAll(l) ==
    /\ login[l].pc = "save"
    /\ users' = [users EXCEPT ![login[l].id].policy = login[l].policy,
                              ![login[l].id].source = "idp",
                              ![login[l].id].status = "active"]
    /\ End(l)
    /\ UNCHANGED <<password, invitation, links, others, raced>>

\* SaveIdentityState: the policy and its source; the address it writes back
\* is the one that was read, and nothing changes an address.
SaveIdentityState(l) ==
    /\ login[l].pc = "save"
    /\ users' = [users EXCEPT ![login[l].id].policy = login[l].policy,
                              ![login[l].id].source = "idp"]
    /\ End(l)
    /\ UNCHANGED <<password, invitation, links, others, raced>>

AbortLogin(l) ==
    /\ login[l].pc \in {"link", "fill", "save"}
    /\ End(l)
    /\ UNCHANGED <<tables, others, raced>>

-----------------------------------------------------------------------------
\* Sign-ins that have spent the invitation and are about to link `i'.
Linking(i) == \E k \in Logins : login[k].pc = "link" /\ login[k].id = i

UsersStep ==
    /\ UsersNext
    /\ raced' = raced \cup {i \in Ids : invitation[i] # "live"
                               /\ invitation'[i] = "live" /\ Linking(i)}
    /\ UNCHANGED login

CrashAll ==
    /\ Crash
    /\ login' = [l \in Logins |-> IdleLogin]
    /\ UNCHANGED raced

LoginStep(l) ==
    \/ \E s \in Subjects, g \in Grants :
          \E e \in EmailsOf[s] \cup {NoEmail} : Complete(l, s, e, g)
    \/ PendingByEmail(l)
    \/ Eligible(l)
    \/ ConsumePending(l)
    \/ Link(l)
    \/ \E name \in {"", "idp"} : SignUp(l, name) \/ FillDisplayName(l, name)
    \/ SaveIdentityState(l)
    \/ AbortLogin(l)

Next == UsersStep \/ CrashAll \/ \E l \in Logins : LoginStep(l)

Spec == Init /\ [][Next]_vars

-----------------------------------------------------------------------------
(***************************************************************************)
(* A subject is linked only to the account its own sign-up created or to   *)
(* one that was invited at an address the provider vouched for: a sign-up  *)
(* that collides with somebody else's account, even at the subject's own   *)
(* address, never continues with it (oidc.go signUp).                      *)
(***************************************************************************)
SubjectOwnsAccount ==
    \A s \in Subjects :
        links[s] \in Ids \ {s} =>
            /\ users[links[s]].email \in EmailsOf[s]
            /\ invitation[links[s]] # "none"

(***************************************************************************)
(* An invitation is redeemed once: besides the subject an account was      *)
(* created for, at most one subject is linked to it, and none while an     *)
(* invitation for it is still live, whatever step a redemption died at --  *)
(* unless two redemptions, or a redemption and a renewal, ran at the same  *)
(* time (oidc.go redeem, identities.go WriteInvitation).                   *)
(***************************************************************************)
RedeemedOnce ==
    \A i \in Ids \ raced :
        LET by == {s \in Subjects \ {i} : links[s] = i}
        IN  /\ Cardinality(by) <= 1
            /\ by # {} => invitation[i] # "live"

(***************************************************************************)
(* Each column keeps its owner, whatever an operation read before it       *)
(* wrote: with a group mapping only a sign-in changes a policy the         *)
(* provider owns, and a sign-in changes neither role, status nor a name    *)
(* that is set (users.go UpdateAdminState, SaveIdentityState,              *)
(* FillDisplayName).                                                       *)
(***************************************************************************)
ColumnsKeepTheirOwner ==
    [][\A i \in Ids :
          users[i] # NoUser /\ users'[i] # users[i] =>
              IF login' # login
              THEN /\ users'[i].role = users[i].role
                   /\ users'[i].status = users[i].status
                   /\ users[i].name # "" => users'[i].name = users[i].name
              ELSE IDPOwns(i) => /\ users'[i].policy = users[i].policy
                                 /\ users'[i].source = "idp"]_vars

=============================================================================
