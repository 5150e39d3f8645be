------------------------------ MODULE Sessions ------------------------------
(***************************************************************************)
(* One person's password and browser sessions: SignIn, ChangePassword and  *)
(* SignOut (internal/app/auth/auth.go), the reset of a password            *)
(* (internal/app/temporary_password.go) and blocking the account           *)
(* (internal/app/adminusers/adminusers.go).                                *)
(*                                                                         *)
(* Each of them is a sequence of statements against the store with nothing *)
(* around it, so any two of them interleave statement by statement, and    *)
(* each statement may fail and end its operation there.  A password is its *)
(* number; the throttle is a module of its own (Throttle).                 *)
(***************************************************************************)
EXTENDS Integers, FiniteSets

CONSTANTS
    SignIns,        \* sign-ins in progress at a time
    Changers,       \* password changes in progress at a time
    Admins,         \* resets and blocks in progress at a time
    MaxPasswords,   \* bound: how many passwords the account goes through
    MaxSessions     \* bound: how many sessions are opened

ASSUME SessionsAssumption ==
    /\ MaxPasswords \in Nat \ {0}
    /\ MaxSessions \in Nat

VARIABLES
    account,     \* users: status and must_change_password
    password,    \* the account's password row
    passwords,   \* how many passwords there have been
    sessions,    \* the sessions table
    opened,      \* how many sessions have been opened
    signIn, change, admin,   \* the operations in progress
    unended,     \* a password was replaced, or the account blocked, but its
                 \* sessions were not ended: the operation failed there
    crossed      \* resets under way whose flag a password change cleared

sessionsVars == <<account, password, passwords, sessions, opened, signIn,
                  change, admin, unended, crossed>>

(***************************************************************************)
(* A session remembers, for the properties only, the password it was       *)
(* opened with, whether that was no longer the account's (`stale') and     *)
(* whether the account was blocked (`late') when it was opened, and        *)
(* whether the audit log has it, or an error said it was left open.  A     *)
(* password remembers whether the reset that stored it was `crossed' by a  *)
(* change that had stored its own and cleared the flag, or had yet to.     *)
(***************************************************************************)
SessionIds == 1 .. MaxSessions
Passwords == 1 .. MaxPasswords
Session == [id : SessionIds, with : Passwords, stale : BOOLEAN,
            late : BOOLEAN, recorded : {"no", "yes", "left"}]

IdleSignIn == [pc |-> "idle", hash |-> 0, id |-> 0]
IdleChange == [pc |-> "idle", keep |-> 0, waived |-> FALSE]

SessionsTypeOK ==
    /\ account \in [blocked : BOOLEAN, must : BOOLEAN]
    /\ password \in [id : Passwords, temporary : BOOLEAN, expired : BOOLEAN,
                     crossed : BOOLEAN]
    /\ passwords \in Passwords
    /\ sessions \subseteq Session
    /\ \A s, t \in sessions : s.id = t.id => s = t
    /\ opened \in 0 .. MaxSessions
    /\ signIn \in [SignIns -> [pc : {"idle", "password", "verify", "open",
                                     "record", "undo"},
                               hash : 0 .. MaxPasswords,
                               id : 0 .. MaxSessions]]
    /\ change \in [Changers -> [pc : {"idle", "current", "set", "unflag",
                                      "end"},
                                keep : 0 .. MaxSessions, waived : BOOLEAN]]
    /\ admin \in [Admins -> {"idle", "flag", "reset", "end"}]
    /\ unended \in BOOLEAN
    /\ crossed \subseteq Admins

SessionsInit ==
    /\ account = [blocked |-> FALSE, must |-> FALSE]
    /\ password = [id |-> 1, temporary |-> FALSE, expired |-> FALSE,
                   crossed |-> FALSE]
    /\ passwords = 1
    /\ sessions = {} /\ opened = 0
    /\ signIn = [s \in SignIns |-> IdleSignIn]
    /\ change = [c \in Changers |-> IdleChange]
    /\ admin = [a \in Admins |-> "idle"]
    /\ unended = FALSE /\ crossed = {}

rows == <<account, password, passwords, sessions, opened, unended,
          crossed>>

-----------------------------------------------------------------------------
(* SignIn.                                                                 *)

\* resolve reads the account: one that cannot sign in is refused, after a
\* derivation that changes nothing.
ResolveAccount(s) ==
    /\ signIn[s].pc = "idle"
    /\ ~ account.blocked
    /\ signIn' = [signIn EXCEPT ![s].pc = "password"]
    /\ UNCHANGED <<rows, change, admin>>

\* resolve reads the password, unless it has expired.
ResolvePassword(s) ==
    /\ signIn[s].pc = "password"
    /\ ~ password.expired
    /\ signIn' = [signIn EXCEPT ![s].pc = "verify", ![s].hash = password.id]
    /\ UNCHANGED <<rows, change, admin>>

\* verify: the derivation, against the password read above.
Verify(s, presented) ==
    /\ signIn[s].pc = "verify"
    /\ presented = signIn[s].hash
    /\ signIn' = [signIn EXCEPT ![s].pc = "open"]
    /\ UNCHANGED <<rows, change, admin>>

\* open creates the session ...
OpenSession(s) ==
    /\ signIn[s].pc = "open"
    /\ opened < MaxSessions
    /\ opened' = opened + 1
    /\ sessions' = sessions \cup
           {[id |-> opened + 1, with |-> signIn[s].hash,
             stale |-> signIn[s].hash # password.id,
             late |-> account.blocked, recorded |-> "no"]}
    /\ signIn' = [signIn EXCEPT ![s].pc = "record", ![s].id = opened + 1]
    /\ UNCHANGED <<account, password, passwords, change, admin, unended,
                   crossed>>

Marked(id, mark) ==
    {IF x.id = id THEN [x EXCEPT !.recorded = mark] ELSE x : x \in sessions}

\* ... and records it, or drops it again if that fails.
RecordSession(s) ==
    /\ signIn[s].pc = "record"
    /\ \/ /\ sessions' = Marked(signIn[s].id, "yes")
          /\ signIn' = [signIn EXCEPT ![s] = IdleSignIn]
       \/ /\ signIn' = [signIn EXCEPT ![s].pc = "undo"]
          /\ UNCHANGED sessions
    /\ UNCHANGED <<account, password, passwords, opened, change, admin,
                   unended, crossed>>

\* A variant of DropSession that runs under the request's context, already
\* cancelled.
DropSessionCancelled(s) ==
    /\ signIn[s].pc = "undo"
    /\ signIn' = [signIn EXCEPT ![s] = IdleSignIn]
    /\ UNCHANGED <<rows, change, admin>>

\* The compensating delete, on a context of its own; if it fails too, the
\* error says so.
DropSession(s) ==
    /\ signIn[s].pc = "undo"
    /\ \/ sessions' = {x \in sessions : x.id # signIn[s].id}
       \/ sessions' = Marked(signIn[s].id, "left")
    /\ signIn' = [signIn EXCEPT ![s] = IdleSignIn]
    /\ UNCHANGED <<account, password, passwords, opened, change, admin,
                   unended, crossed>>

\* A wrong password, a lookup or a write that fails, a client that left.
SignInFails(s) ==
    /\ signIn[s].pc \in {"password", "verify", "open"}
    /\ signIn' = [signIn EXCEPT ![s] = IdleSignIn]
    /\ UNCHANGED <<rows, change, admin>>

SignOut(x) ==
    /\ x \in sessions
    /\ sessions' = sessions \ {x}
    /\ UNCHANGED <<account, password, passwords, opened, signIn, change, admin,
                   unended, crossed>>

-----------------------------------------------------------------------------
(* ChangePassword.                                                         *)

\* Under a session that resolves; the account says whether the current
\* password must be shown.
ChangePassword(c, x) ==
    /\ change[c].pc = "idle"
    /\ x \in sessions
    /\ ~ account.blocked
    /\ change' = [change EXCEPT ![c] = [pc |-> "current", keep |-> x.id,
                                        waived |-> account.must]]
    /\ UNCHANGED <<rows, signIn, admin>>

\* A variant of ShowCurrent that clears the flag there, before the password it
\* describes is gone.
ShowCurrentUnflags(c) ==
    /\ change[c].pc = "current"
    /\ ~ password.expired
    /\ account' = [account EXCEPT !.must = FALSE]
    /\ crossed' = crossed \cup {a \in Admins : admin[a] = "reset"}
    /\ change' = [change EXCEPT ![c].pc = "set"]
    /\ UNCHANGED <<password, passwords, sessions, opened, unended, signIn,
                   admin>>

\* The current password is read, must not have expired, and is shown unless
\* waived.
ShowCurrent(c) ==
    /\ change[c].pc = "current"
    /\ ~ password.expired
    /\ change' = [change EXCEPT ![c].pc = "set"]
    /\ UNCHANGED <<rows, signIn, admin>>

\* The new one is hashed and stored, without an expiry.
SetPassword(c) ==
    /\ change[c].pc = "set"
    /\ passwords < MaxPasswords
    /\ passwords' = passwords + 1
    /\ password' = [id |-> passwords + 1, temporary |-> FALSE,
                    expired |-> FALSE, crossed |-> FALSE]
    /\ change' = [change EXCEPT ![c].pc = "unflag"]
    /\ UNCHANGED <<account, sessions, opened, signIn, admin, unended,
                   crossed>>

\* The flag goes, whatever password the account has by now.
ClearMustChange(c) ==
    /\ change[c].pc = "unflag"
    /\ account' = [account EXCEPT !.must = FALSE]
    /\ crossed' = crossed \cup {a \in Admins : admin[a] = "reset"}
    /\ change' = [change EXCEPT ![c].pc = "end"]
    /\ UNCHANGED <<password, passwords, sessions, opened, signIn, admin,
                   unended>>

\* A variant of EndOthers that ends none.
EndOthersSkipped(c) ==
    /\ change[c].pc = "end"
    /\ change' = [change EXCEPT ![c] = IdleChange]
    /\ UNCHANGED <<rows, signIn, admin>>

\* Every other session of the person ends; the audit row changes nothing.
EndOthers(c) ==
    /\ change[c].pc = "end"
    /\ sessions' = {x \in sessions : x.id = change[c].keep}
    /\ change' = [change EXCEPT ![c] = IdleChange]
    /\ UNCHANGED <<account, password, passwords, opened, signIn, admin,
                   unended, crossed>>

ChangeFails(c) ==
    /\ change[c].pc # "idle"
    /\ change' = [change EXCEPT ![c] = IdleChange]
    /\ unended' = (unended \/ change[c].pc \in {"unflag", "end"})
    /\ UNCHANGED <<account, password, passwords, sessions, opened, signIn,
                   admin, crossed>>

-----------------------------------------------------------------------------
(* Administrators.                                                         *)

\* ResetPassword draws and hashes a temporary password, then flags the
\* account ...
ResetPassword(a) ==
    /\ admin[a] = "idle"
    /\ admin' = [admin EXCEPT ![a] = "flag"]
    /\ UNCHANGED <<rows, signIn, change>>

SetMustChange(a) ==
    /\ admin[a] = "flag"
    /\ account' = [account EXCEPT !.must = TRUE]
    /\ admin' = [admin EXCEPT ![a] = "reset"]
    /\ UNCHANGED <<password, passwords, sessions, opened, signIn, change,
                   unended, crossed>>

\* ... and only then stores the password.
SetTemporary(a) ==
    /\ admin[a] = "reset"
    /\ passwords < MaxPasswords
    /\ passwords' = passwords + 1
    /\ password' = [id |-> passwords + 1, temporary |-> TRUE,
                    expired |-> FALSE,
                    crossed |-> \/ a \in crossed
                                \/ \E c \in Changers : change[c].pc = "unflag"]
    /\ crossed' = crossed \ {a}
    /\ admin' = [admin EXCEPT ![a] = "end"]
    /\ UNCHANGED <<account, sessions, opened, signIn, change, unended>>

\* A temporary password's window closes.
TemporaryExpires ==
    /\ password.temporary /\ ~ password.expired
    /\ password' = [password EXCEPT !.expired = TRUE]
    /\ UNCHANGED <<account, passwords, sessions, opened, signIn, change, admin,
                   unended, crossed>>

\* UpdateUser: the status is written, then a blocked account's sessions end.
Block(a) ==
    /\ admin[a] = "idle"
    /\ account' = [account EXCEPT !.blocked = TRUE]
    /\ admin' = [admin EXCEPT ![a] = "end"]
    /\ UNCHANGED <<password, passwords, sessions, opened, signIn, change,
                   unended, crossed>>

\* DeleteByUser, the last write of a reset and of a block.
EndAll(a) ==
    /\ admin[a] = "end"
    /\ sessions' = {}
    /\ admin' = [admin EXCEPT ![a] = "idle"]
    /\ UNCHANGED <<account, password, passwords, opened, signIn, change,
                   unended, crossed>>

AdminFails(a) ==
    /\ admin[a] # "idle"
    /\ admin' = [admin EXCEPT ![a] = "idle"]
    /\ unended' = (unended \/ admin[a] = "end")
    /\ crossed' = crossed \ {a}
    /\ UNCHANGED <<account, password, passwords, sessions, opened, signIn,
                   change>>

\* UpdateUser to active, or the operator's Unblock.
Unblock ==
    /\ account.blocked
    /\ account' = [account EXCEPT !.blocked = FALSE]
    /\ UNCHANGED <<password, passwords, sessions, opened, signIn, change,
                   admin, unended, crossed>>

SessionsNext ==
    \/ \E s \in SignIns :
          \/ ResolveAccount(s) \/ ResolvePassword(s)
          \/ \E p \in 1 .. passwords : Verify(s, p)
          \/ OpenSession(s) \/ RecordSession(s) \/ DropSession(s)
          \/ SignInFails(s)
    \/ \E x \in sessions : SignOut(x)
    \/ \E c \in Changers :
          \/ \E x \in sessions : ChangePassword(c, x)
          \/ ShowCurrent(c) \/ SetPassword(c) \/ ClearMustChange(c)
          \/ EndOthers(c) \/ ChangeFails(c)
    \/ \E a \in Admins :
          \/ ResetPassword(a) \/ SetMustChange(a) \/ SetTemporary(a)
          \/ Block(a) \/ EndAll(a) \/ AdminFails(a)
    \/ TemporaryExpires
    \/ Unblock

SessionsSpec == SessionsInit /\ [][SessionsNext]_sessionsVars

-----------------------------------------------------------------------------
(* Properties.                                                             *)

Replacing ==
    \/ \E c \in Changers : change[c].pc \in {"unflag", "end"}
    \/ \E a \in Admins : admin[a] = "end"

\* Replacing a password, once it is through, leaves no session that was
\* opened while an earlier password was the account's, but for the one the
\* password was changed under: the sessions end after the password is
\* replaced, so a sign-in between the two writes does not slip through.
ReplacedPasswordSignsOut ==
    ~ Replacing /\ ~ unended =>
        Cardinality({x \in sessions : x.with # password.id /\ ~ x.stale}) <= 1

\* A block that is through leaves no session opened before it, and so none
\* that unblocking the account would bring back.
BlockSignsOut ==
    (account.blocked /\ ~ Replacing /\ ~ unended) =>
        \A x \in sessions : x.late

\* Whatever takes an account's access away ends the sessions it had.
RevocationSignsOut == ReplacedPasswordSignsOut /\ BlockSignsOut

\* Every session somebody can use is in the audit log, is being recorded or
\* dropped, or was reported as left open: no failure, and no revocation or
\* sign-out in between, makes one that nobody knows of.
EverySessionRecorded ==
    \A x \in sessions :
        x.recorded # "no" \/ \E s \in SignIns : signIn[s].id = x.id

\* A temporary password is restricted, whatever statement of a reset, a change
\* or another reset fails: the flag is set before the password it is for, and
\* cleared only after that password is gone.  The one exception is a reset
\* crossed by a change that had stored its own password and not yet cleared
\* the flag when the reset set it or stored over it.
RestrictedUnlessCrossed ==
    password.temporary => account.must \/ password.crossed

=============================================================================
