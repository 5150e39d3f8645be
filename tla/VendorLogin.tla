----------------------------- MODULE VendorLogin ----------------------------
(***************************************************************************)
(* Vendor sign-ins for an administrator who is not at the console          *)
(* (internal/infra/gateway/login/login.go).  StartLogin reserves a slot    *)
(* and asks upstream for an authorisation URL; upstream leaves a waiter    *)
(* behind.  CompleteLogin claims the session, hands the pasted code to the *)
(* waiter, waits for the record its exchange delivers through a hook, and  *)
(* adds the account.  A timer expires a session nobody claimed.  All of    *)
(* these run at the same time and meet only under `mu' and in upstream's   *)
(* session registry.                                                       *)
(***************************************************************************)
EXTENDS Integers, FiniteSets

CONSTANTS
    Ids,               \* session ids, each drawn once
    Completers,        \* CompleteLogin calls in progress at a time
    MaxPendingLogins,
    NoId

ASSUME VendorLoginAssumption ==
    /\ NoId \notin Ids
    /\ MaxPendingLogins \in Nat \ {0}

VARIABLES
    sessions,   \* Service.sessions: the logins in progress
    claimed,    \* pendingLogin.claimed
    start,      \* how far StartLogin is
    late,       \* expiresAt has passed
    timer,      \* pendingLogin.timer: off, armed, fired (its function waits
                \* for mu), ending and expired (it took the session), done
    result,     \* pendingLogin.result: the record, if it was delivered
    file,       \* the callback file is there
    registry,   \* upstream's session: none, pending, failed, or completed
    waiter,     \* upstream's goroutine for the session
    complete,   \* the CompleteLogin calls
    added,      \* how often AddAccount stored the session's account
    inTime      \* history: sessions claimed at a clock reading in time

loginVars == <<sessions, claimed, start, late, timer, result, file, registry,
               waiter, complete, added, inTime>>

IdleComplete == [pc |-> "idle", id |-> NoId]

LoginTypeOK ==
    /\ sessions \subseteq Ids
    /\ claimed \in [Ids -> BOOLEAN]
    /\ start \in [Ids -> {"new", "request", "arm", "failed", "done"}]
    /\ late \in [Ids -> BOOLEAN]
    /\ timer \in [Ids -> {"off", "armed", "fired", "ending", "expired",
                          "done"}]
    /\ result \in [Ids -> BOOLEAN]
    /\ file \in [Ids -> BOOLEAN]
    /\ registry \in [Ids -> {"none", "pending", "failed", "completed"}]
    /\ waiter \in [Ids -> {"none", "polling", "exchanging", "hook",
                           "marking", "stopped"}]
    /\ complete \in [Completers ->
          [pc : {"idle", "claiming", "hand", "await", "recheck", "add",
                 "refused", "gaveup", "ending"}, id : Ids \cup {NoId}]]
    /\ added \in [Ids -> Nat]
    /\ inTime \subseteq Ids

LoginInit ==
    /\ sessions = {}
    /\ claimed = [i \in Ids |-> FALSE]
    /\ start = [i \in Ids |-> "new"]
    /\ late = [i \in Ids |-> FALSE]
    /\ timer = [i \in Ids |-> "off"]
    /\ result = [i \in Ids |-> FALSE]
    /\ file = [i \in Ids |-> FALSE]
    /\ registry = [i \in Ids |-> "none"]
    /\ waiter = [i \in Ids |-> "none"]
    /\ complete = [c \in Completers |-> IdleComplete]
    /\ added = [i \in Ids |-> 0]
    /\ inTime = {}

\* mu is free: no CompleteLogin is between its checks and its claim.  The
\* other sections under mu are one step each.
MuFree == \A c \in Completers : complete[c].pc # "claiming"

-----------------------------------------------------------------------------
(* StartLogin.                                                             *)

\* The slot is reserved, and the session published, under mu.
StartLogin(i) ==
    /\ MuFree
    /\ start[i] = "new"
    /\ Cardinality(sessions) < MaxPendingLogins
    /\ sessions' = sessions \cup {i}
    /\ start' = [start EXCEPT ![i] = "request"]
    /\ UNCHANGED <<claimed, late, timer, result, file, registry, waiter,
                   complete, added, inTime>>

\* requestLogin: upstream registers the state and leaves its waiter, or
\* refuses; a state it registered before refusing is completed.
RequestLogin(i) ==
    /\ start[i] = "request"
    /\ \/ /\ start' = [start EXCEPT ![i] = "arm"]
          /\ registry' = [registry EXCEPT ![i] = "pending"]
          /\ waiter' = [waiter EXCEPT ![i] = "polling"]
       \/ /\ start' = [start EXCEPT ![i] = "failed"]
          /\ \/ UNCHANGED <<registry, waiter>>
             \/ /\ registry' = [registry EXCEPT ![i] = "completed"]
                /\ waiter' = [waiter EXCEPT ![i] = "polling"]
    /\ UNCHANGED <<sessions, claimed, late, timer, result, file, complete,
                   added, inTime>>

\* A variant of StartFailed that returns without finish.
StartFailedKeepsSlot(i) ==
    /\ start[i] = "failed"
    /\ start' = [start EXCEPT ![i] = "done"]
    /\ UNCHANGED <<sessions, claimed, late, timer, result, file, registry,
                   waiter, complete, added, inTime>>

StartFailed(i) ==
    /\ MuFree
    /\ start[i] = "failed"
    /\ start' = [start EXCEPT ![i] = "done"]
    /\ sessions' = sessions \ {i}
    /\ UNCHANGED <<claimed, late, timer, result, file, registry, waiter,
                   complete, added, inTime>>

\* The state and the timer are set under mu; until then nobody can claim.
Arm(i) ==
    /\ MuFree
    /\ start[i] = "arm"
    /\ start' = [start EXCEPT ![i] = "done"]
    /\ timer' = [timer EXCEPT ![i] = "armed"]
    /\ UNCHANGED <<sessions, claimed, late, result, file, registry, waiter,
                   complete, added, inTime>>

-----------------------------------------------------------------------------
(* The expiry.                                                             *)

TimeUp(i) ==
    /\ i \in sessions
    /\ ~ late[i]
    /\ late' = [late EXCEPT ![i] = TRUE]
    /\ UNCHANGED <<sessions, claimed, start, timer, result, file, registry,
                   waiter, complete, added, inTime>>

\* The timer's function is on its way: stopping the timer is too late now.
Fire(i) ==
    /\ timer[i] = "armed"
    /\ late[i]
    /\ timer' = [timer EXCEPT ![i] = "fired"]
    /\ UNCHANGED <<sessions, claimed, start, late, result, file, registry,
                   waiter, complete, added, inTime>>

\* A variant of Expire that withdraws a session a call has claimed.
ExpireClaimed(i) ==
    /\ MuFree
    /\ timer[i] = "fired"
    /\ \/ /\ i \in sessions
          /\ claimed' = [claimed EXCEPT ![i] = TRUE]
          /\ sessions' = sessions \ {i}
          /\ timer' = [timer EXCEPT ![i] = "ending"]
       \/ /\ i \notin sessions
          /\ timer' = [timer EXCEPT ![i] = "done"]
          /\ UNCHANGED <<claimed, sessions>>
    /\ UNCHANGED <<start, late, result, file, registry, waiter, complete,
                   added, inTime>>

\* expire claims and withdraws under one lock, unless it is claimed ...
Expire(i) ==
    /\ MuFree
    /\ timer[i] = "fired"
    /\ \/ /\ i \in sessions /\ ~ claimed[i]
          /\ claimed' = [claimed EXCEPT ![i] = TRUE]
          /\ sessions' = sessions \ {i}
          /\ timer' = [timer EXCEPT ![i] = "ending"]
       \/ /\ ~ (i \in sessions /\ ~ claimed[i])
          /\ timer' = [timer EXCEPT ![i] = "done"]
          /\ UNCHANGED <<claimed, sessions>>
    /\ UNCHANGED <<start, late, result, file, registry, waiter, complete,
                   added, inTime>>

Completed(i) ==
    registry' = [registry EXCEPT ![i] = IF @ = "none" THEN @ ELSE "completed"]

\* ... and completes upstream's session with the lock released.
ExpireUpstream(i) ==
    /\ timer[i] = "ending"
    /\ timer' = [timer EXCEPT ![i] = "expired"]
    /\ Completed(i)
    /\ UNCHANGED <<sessions, claimed, start, late, result, file, waiter,
                   complete, added, inTime>>

-----------------------------------------------------------------------------
(* CompleteLogin.                                                          *)

At(c, pc) == complete[c].pc = pc
Go(c, pc) == complete' = [complete EXCEPT ![c].pc = pc]

\* Under mu a call finds the session in progress, unclaimed and, by the
\* clock, in time.  One that finds it otherwise, or whose URL carries another
\* state, leaves it as it was.
LockLogin(c, i) ==
    /\ At(c, "idle")
    /\ MuFree
    /\ i \in sessions
    /\ ~ claimed[i]
    /\ timer[i] # "off"
    /\ ~ late[i]
    /\ inTime' = IF late[i] THEN inTime ELSE inTime \cup {i}
    /\ complete' = [complete EXCEPT ![c] = [pc |-> "claiming", id |-> i]]
    /\ UNCHANGED <<sessions, claimed, start, late, timer, result, file,
                   registry, waiter, added>>

\* Still under mu it claims the session and stops the timer, which may have
\* fired since: its function then waits for mu.  The vendor's refusal in the
\* URL ends the login at once.
Claim(c, refused) ==
    /\ At(c, "claiming")
    /\ LET i == complete[c].id
       IN  /\ claimed' = [claimed EXCEPT ![i] = TRUE]
           /\ timer' = [timer EXCEPT ![i] = IF @ = "armed" THEN "done"
                                            ELSE @]
    /\ Go(c, IF refused THEN "gaveup" ELSE "hand")
    /\ UNCHANGED <<sessions, start, late, result, file, registry, waiter,
                   added, inTime>>

\* The callback file is written for a session upstream holds pending, or
\* that write fails.
HandOver(c) ==
    /\ At(c, "hand")
    /\ LET i == complete[c].id
       IN  \/ /\ registry[i] = "pending"
              /\ file' = [file EXCEPT ![i] = TRUE]
              /\ Go(c, "await")
           \/ Go(c, "gaveup") /\ UNCHANGED file
    /\ UNCHANGED <<sessions, claimed, start, late, timer, result, registry,
                   waiter, added, inTime>>

Take(c, i) == result' = [result EXCEPT ![i] = FALSE] /\ Go(c, "add")

\* await: the record ...
AwaitRecord(c) ==
    /\ At(c, "await")
    /\ result[complete[c].id]
    /\ Take(c, complete[c].id)
    /\ UNCHANGED <<sessions, claimed, start, late, timer, file, registry,
                   waiter, added, inTime>>

\* ... or upstream's session no longer pending ...
AwaitStatus(c) ==
    /\ At(c, "await")
    /\ registry[complete[c].id] # "pending"
    /\ Go(c, "recheck")
    /\ UNCHANGED <<sessions, claimed, start, late, timer, result, file,
                   registry, waiter, added, inTime>>

\* ... with the record looked for once more: it comes before the status ...
Recheck(c) ==
    /\ At(c, "recheck")
    /\ IF result[complete[c].id] THEN Take(c, complete[c].id)
       ELSE Go(c, "refused") /\ UNCHANGED result
    /\ UNCHANGED <<sessions, claimed, start, late, timer, file, registry,
                   waiter, added, inTime>>

\* ... or the deadline, or the request's end.
GiveUp(c) ==
    /\ At(c, "await")
    /\ Go(c, "gaveup")
    /\ UNCHANGED <<sessions, claimed, start, late, timer, result, file,
                   registry, waiter, added, inTime>>

\* AddAccount, which may fail.
Add(c) ==
    /\ At(c, "add")
    /\ \/ added' = [added EXCEPT ![complete[c].id] = @ + 1]
       \/ UNCHANGED added
    /\ Go(c, "gaveup")
    /\ UNCHANGED <<sessions, claimed, start, late, timer, result, file,
                   registry, waiter, inTime>>

\* finish: the slot frees under mu ...
Finish(c) ==
    /\ MuFree
    /\ complete[c].pc \in {"refused", "gaveup"}
    /\ LET i == complete[c].id
       IN  /\ sessions' = sessions \ {i}
           /\ timer' = [timer EXCEPT ![i] = IF @ = "armed" THEN "done"
                                            ELSE @]
    /\ Go(c, "ending")
    /\ UNCHANGED <<claimed, start, late, result, file, registry, waiter,
                   added, inTime>>

\* ... and upstream's session is completed.
FinishUpstream(c) ==
    /\ At(c, "ending")
    /\ Completed(complete[c].id)
    /\ complete' = [complete EXCEPT ![c] = IdleComplete]
    /\ UNCHANGED <<sessions, claimed, start, late, timer, result, file,
                   waiter, added, inTime>>

-----------------------------------------------------------------------------
(* Upstream's waiter.                                                      *)

Stopped(i) == waiter' = [waiter EXCEPT ![i] = "stopped"]
Failed(i) ==
    registry' = [registry EXCEPT ![i] = IF @ = "pending" THEN "failed" ELSE @]

\* A poll finds the session no longer pending, or the file, or its own time
\* over, which is after the gateway's.
Poll(i) ==
    /\ waiter[i] = "polling"
    /\ \/ registry[i] # "pending" /\ Stopped(i) /\ UNCHANGED <<registry, file>>
       \/ /\ registry[i] = "pending" /\ file[i]
          /\ waiter' = [waiter EXCEPT ![i] = "exchanging"]
          /\ file' = [file EXCEPT ![i] = FALSE]
          /\ UNCHANGED registry
       \/ late[i] /\ Stopped(i) /\ Failed(i) /\ UNCHANGED file
    /\ UNCHANGED <<sessions, claimed, start, late, timer, result, complete,
                   added, inTime>>

\* The vendor refuses the code, or the guard lets the record through only
\* while the session is pending.
Exchange(i) ==
    /\ waiter[i] = "exchanging"
    /\ \/ Stopped(i) /\ Failed(i)
       \/ /\ waiter' = [waiter EXCEPT ![i] = IF registry[i] = "pending"
                                            THEN "hook" ELSE "stopped"]
          /\ UNCHANGED registry
    /\ UNCHANGED <<sessions, claimed, start, late, timer, result, file,
                   complete, added, inTime>>

\* deliver, the post-auth hook: the record goes to its session if that is
\* still in progress, and upstream saves nothing either way.
Deliver(i) ==
    /\ MuFree
    /\ waiter[i] = "hook"
    /\ result' = [result EXCEPT ![i] = @ \/ i \in sessions]
    /\ waiter' = [waiter EXCEPT ![i] = "marking"]
    /\ UNCHANGED <<sessions, claimed, start, late, timer, file, registry,
                   complete, added, inTime>>

\* Upstream takes the hook's error for a failed save.
MarkFailed(i) ==
    /\ waiter[i] = "marking"
    /\ Stopped(i) /\ Failed(i)
    /\ UNCHANGED <<sessions, claimed, start, late, timer, result, file,
                   complete, added, inTime>>

-----------------------------------------------------------------------------
CompleteStep(c) ==
    \/ \E refused \in BOOLEAN : Claim(c, refused)
    \/ HandOver(c)
    \/ AwaitRecord(c)
    \/ AwaitStatus(c)
    \/ Recheck(c)
    \/ GiveUp(c)
    \/ Add(c)
    \/ Finish(c)
    \/ FinishUpstream(c)

StartStep(i) == RequestLogin(i) \/ StartFailed(i) \/ Arm(i)
TimerStep(i) == Fire(i) \/ Expire(i) \/ ExpireUpstream(i)
WaiterStep(i) == Poll(i) \/ Exchange(i) \/ Deliver(i) \/ MarkFailed(i)

LoginNext ==
    \/ \E i \in Ids : \/ StartLogin(i)
                      \/ StartStep(i)
                      \/ TimeUp(i)
                      \/ TimerStep(i)
                      \/ WaiterStep(i)
    \/ \E c \in Completers :
          \/ \E i \in Ids : LockLogin(c, i)
          \/ CompleteStep(c)

(***************************************************************************)
(* Time passes, timers fire, upstream's start handler answers, its waiter  *)
(* polls and its exchange ends, and every wait of CompleteLogin is bounded *)
(* by loginFinishWait.  Nothing makes an administrator start or complete a *)
(* login.                                                                  *)
(***************************************************************************)
Fairness ==
    /\ \A i \in Ids : /\ WF_loginVars(StartStep(i))
                      /\ WF_loginVars(TimeUp(i))
                      /\ WF_loginVars(TimerStep(i))
                      /\ WF_loginVars(WaiterStep(i))
    /\ \A c \in Completers : WF_loginVars(CompleteStep(c))

LoginSpec == LoginInit /\ [][LoginNext]_loginVars /\ Fairness

-----------------------------------------------------------------------------
(***************************************************************************)
(* A session has one owner: a single CompleteLogin, or the expiry, never   *)
(* two of them, though the timer may fire between a call's check of the    *)
(* time and its stop of the timer (login.go CompleteLogin, expire).        *)
(***************************************************************************)
OneOwner ==
    \A i \in Ids :
        LET owners == {c \in Completers :
                          complete[c].id = i /\ ~ At(c, "claiming")}
        IN  /\ Cardinality(owners) <= 1
            /\ timer[i] = "ending" => owners = {}
            /\ owners # {} => claimed[i]
            /\ i \in sessions /\ claimed[i] => owners # {}

(***************************************************************************)
(* A session yields an account once at most, and only if it was claimed in *)
(* time and the expiry did not take it (login.go CompleteLogin, expire).   *)
(***************************************************************************)
AddedInTime ==
    \A i \in Ids : added[i] > 0 =>
        /\ added[i] = 1
        /\ i \in inTime
        /\ timer[i] \notin {"ending", "expired"}

(***************************************************************************)
(* A CompleteLogin that reports upstream's end as a refusal leaves no      *)
(* record behind: upstream marks its session failed because of the very    *)
(* hook that delivered the record (login.go await, deliver).               *)
(***************************************************************************)
NoRecordDropped ==
    \A c \in Completers : At(c, "refused") => ~ result[complete[c].id]

\* Together: a login is settled by one owner, who adds its account once, in
\* time, and loses no record of it (login.go CompleteLogin, expire, deliver).
SettledOnce == OneOwner /\ AddedInTime /\ NoRecordDropped

(***************************************************************************)
(* Every login ends: its slot frees and upstream's waiter stops, whether   *)
(* it failed to start, expired, was refused, given up or completed         *)
(* (login.go finish, expire).                                              *)
(***************************************************************************)
EveryLoginEnds ==
    \A i \in Ids :
        /\ i \in sessions ~> i \notin sessions
        /\ waiter[i] = "polling" ~> waiter[i] = "stopped"

=============================================================================
