----------------------------- MODULE SpendLimits -----------------------------
(***************************************************************************)
(* Spend limits end to end: the policy gate's spend step, the spendlimits  *)
(* service with its in-memory defaults, the limit_windows table, and the   *)
(* usage ledger's charge.                                                  *)
(*                                                                         *)
(* Requests, administrators and the ledger's worker run concurrently.  A   *)
(* transaction of the store is one step; everything else a handler does    *)
(* between two store accesses, or between a store access and a read of the *)
(* in-memory defaults, is a step of its own, so what a handler read may be *)
(* stale when it writes.  A failing store call writes nothing, or it has   *)
(* written and only its answer is lost: for SetDefaults' own write that is *)
(* StoreDefaultsUnacknowledged; for every other write it is the write      *)
(* followed by a failure of the next call, which the model has already.    *)
(***************************************************************************)
EXTENDS Limits

CONSTANTS
    Users,      \* accounts
    Slots,      \* requests admitted, or being admitted, and not yet charged
    Admins,     \* administrators, each making one call at a time
    RuleSets,   \* the valid sets administrators choose from
    Costs,      \* what one request may cost
    StoreMayFail, \* whether store and audit calls may fail
    NoAdmin,    \* mu is free
    NoUser,     \* an administrator's call about no account
    MaxTime,    \* bound: the clock stops here
    MaxLedger   \* bound: an account that spent this much sends nothing more

ASSUME SpendAssumption ==
    /\ \A set \in RuleSets : IsRuleSet(set)
    /\ NoRules \in RuleSets
    /\ Inherit \notin RuleSets
    /\ Costs \subseteq Nat
    /\ \E c \in Costs : \A d \in Costs : d <= c
    /\ IsFiniteSet(Slots)
    /\ StoreMayFail \in BOOLEAN
    /\ NoAdmin \notin Admins
    /\ NoUser \notin Users
    /\ MaxTime \in Nat
    /\ MaxLedger \in Nat

VARIABLES
    now,        \* the clock
    stored,     \* settings key spend_limits
    adrift,     \* history: stored was written by a call told it failed, and
                \* neither SetDefaults nor a restart has set the memory since
    memory,     \* Service.defaults
    custom,     \* users.spend_limits: Inherit is NULL
    windows,    \* limit_windows, by account and length
    ledger,     \* usage_events: what each account's rows add up to
    mu,         \* Service.mu: who holds it
    req,        \* the requests in the gate
    op          \* the administrators' calls

vars == <<now, stored, adrift, memory, custom, windows, ledger, mu, req, op>>
store == <<stored, adrift, custom, windows, ledger>>

(***************************************************************************)
(* A request is, in turn: "body" (authenticated, its owner's grant read,   *)
(* its body arriving), "rules" (the set in force taken), "rows" (the       *)
(* account's windows read), "open" (admitted, its windows to be written),  *)
(* "served" (forwarded, its usage not yet in the ledger).                  *)
(***************************************************************************)
ReqPC == {"idle", "body", "rules", "rows", "open", "served"}

OpPC == {"idle",
         "store", "swap", "audit", "drop",                 \* SetDefaults
         "auditUser", "readUser", "decideUser", "dropUser", \* SetUser
         "reset"}                                           \* Reset

Custom == RuleSets \cup {Inherit}

Request == [pc : ReqPC, user : Users \cup {NoUser}, grant : Custom,
            set : RuleSets, rows : Rows, at : Nat]

Op == [pc : OpPC, user : Users \cup {NoUser}, set : Custom,
       lengths : SUBSET Lengths]

IdleReq == [pc |-> "idle", user |-> NoUser, grant |-> Inherit,
            set |-> NoRules, rows |-> NoRows, at |-> 0]

IdleOp == [pc |-> "idle", user |-> NoUser, set |-> Inherit, lengths |-> {}]

TypeOK ==
    /\ now \in 0 .. MaxTime
    /\ stored \in RuleSets
    /\ adrift \in BOOLEAN
    /\ memory \in RuleSets
    /\ custom \in [Users -> Custom]
    /\ windows \in [Users -> Rows]
    /\ ledger \in [Users -> Nat]
    /\ mu \in Admins \cup {NoAdmin}
    /\ req \in [Slots -> Request]
    /\ op \in [Admins -> Op]

Init ==
    /\ now = 0
    /\ stored \in RuleSets
    /\ adrift = FALSE
    /\ memory = stored
    /\ custom \in [Users -> RuleSets \cup {Inherit}]
    /\ windows = [u \in Users |-> NoRows]
    /\ ledger = [u \in Users |-> 0]
    /\ mu = NoAdmin
    /\ req = [r \in Slots |-> IdleReq]
    /\ op = [a \in Admins |-> IdleOp]

-----------------------------------------------------------------------------
(* limitwindows.Repo and usage.Repo: what one transaction does to the rows *)
(* of an account.                                                          *)

\* Open without the WHERE of its ON CONFLICT clause: a stored window restarts
\* even while it is live.
OpenedAlways(rows, open, drop, at) ==
    [l \in Lengths |->
        IF l \in drop THEN NoRow
        ELSE IF l \in open THEN [started |-> at, spent |-> 0]
        ELSE rows[l]]

\* Open: insert the missing windows, restart those that had ended by at,
\* leave the others, then delete drop.
Opened(rows, open, drop, at) ==
    [l \in Lengths |->
        IF l \in drop THEN NoRow
        ELSE IF l \in open /\ (l \in Stored(rows) => ~ LiveAt(rows, l, at))
        THEN [started |-> at, spent |-> 0]
        ELSE rows[l]]

\* A charge that skips the windows that have ended.
ChargedLive(rows, cost) ==
    [l \in Lengths |->
        IF l \in Stored(rows) /\ LiveAt(rows, l, now)
        THEN [rows[l] EXCEPT !.spent = @ + cost] ELSE rows[l]]

\* chargeWindows: the cost goes to every row of the owner, ended ones too.
Charged(rows, cost) ==
    [l \in Lengths |->
        IF l \in Stored(rows)
        THEN [rows[l] EXCEPT !.spent = @ + cost] ELSE rows[l]]

Without(rows, lengths) ==
    [l \in Lengths |-> IF l \in lengths THEN NoRow ELSE rows[l]]

-----------------------------------------------------------------------------
(* The gate.                                                               *)

\* authenticate resolves the token and with it the owner's grant, before the
\* body is received.
Authenticate(r, u) ==
    /\ req[r].pc = "idle"
    /\ ledger[u] < MaxLedger
    /\ req' = [req EXCEPT ![r] = [IdleReq EXCEPT !.pc = "body", !.user = u,
                                                 !.grant = custom[u]]]
    /\ UNCHANGED <<now, store, memory, mu, op>>

\* The body, its model or the policy is refused (400, 403, 408, 413, ...).
RefuseBody(r) ==
    /\ req[r].pc = "body"
    /\ req' = [req EXCEPT ![r] = IdleReq]
    /\ UNCHANGED <<now, store, memory, mu, op>>

\* admitSpend takes the set in force: the grant's own, or the defaults in
\* memory now.  An empty one admits without looking at any window.
TakeRules(r) ==
    /\ req[r].pc = "body"
    /\ LET set == Effective(req[r].grant, memory)
       IN  req' = [req EXCEPT ![r].pc = IF DOMAIN set = {} THEN "served"
                                                          ELSE "rules",
                              ![r].set = set,
                              ![r].grant = Inherit]
    /\ UNCHANGED <<now, store, memory, mu, op>>

\* The model has no price on some provider serving it (403).
RefuseUnpriced(r) ==
    /\ req[r].pc = "rules"
    /\ req' = [req EXCEPT ![r] = IdleReq]
    /\ UNCHANGED <<now, store, memory, mu, op>>

\* Admit reads the account's windows.
ReadWindows(r) ==
    /\ req[r].pc = "rules"
    /\ req' = [req EXCEPT ![r].pc = "rows", ![r].rows = windows[req[r].user]]
    /\ UNCHANGED <<now, store, memory, mu, op>>

\* A variant of Decide that admits whenever some window is due, without
\* looking at the others.
DecideOnOpenOnly(r) ==
    LET set == req[r].set
        rows == req[r].rows
    IN  /\ req[r].pc = "rows"
        /\ \/ /\ Blocked(set, rows, now)
              /\ Due(set, rows, now) = {}
              /\ req' = [req EXCEPT ![r] = IdleReq]
           \/ /\ ~ Blocked(set, rows, now)
              /\ Due(set, rows, now) \cup Orphans(set, rows) = {}
              /\ req' = [req EXCEPT ![r].pc = "served", ![r].at = now,
                                    ![r].rows = NoRows]
           \/ /\ Due(set, rows, now) \cup Orphans(set, rows) # {}
              /\ req' = [req EXCEPT ![r].pc = "open", ![r].at = now]
        /\ UNCHANGED <<now, store, memory, mu, op>>

\* Admit decides at the clock's now: refused (429) when a live window is
\* exhausted, admitted at once when nothing is to be written.
Decide(r) ==
    LET set == req[r].set
        rows == req[r].rows
    IN  /\ req[r].pc = "rows"
        /\ \/ /\ Blocked(set, rows, now)
              /\ req' = [req EXCEPT ![r] = IdleReq]
           \/ /\ ~ Blocked(set, rows, now)
              /\ Due(set, rows, now) \cup Orphans(set, rows) = {}
              /\ req' = [req EXCEPT ![r].pc = "served", ![r].at = now,
                                    ![r].rows = NoRows]
           \/ /\ ~ Blocked(set, rows, now)
              /\ Due(set, rows, now) \cup Orphans(set, rows) # {}
              /\ req' = [req EXCEPT ![r].pc = "open", ![r].at = now]
        /\ UNCHANGED <<now, store, memory, mu, op>>

\* Admit's write: one transaction opens what was due and drops the orphans,
\* both as decided from the rows it read.
OpenWindows(r) ==
    LET q == req[r]
    IN  /\ q.pc = "open"
        /\ windows' = [windows EXCEPT ![q.user] =
                          Opened(@, Due(q.set, q.rows, q.at),
                                 Orphans(q.set, q.rows), q.at)]
        /\ req' = [req EXCEPT ![r].pc = "served", ![r].rows = NoRows]
        /\ UNCHANGED <<now, stored, adrift, custom, ledger, memory, mu, op>>

\* Either store call of Admit fails: the request is answered 500.
AdmitFails(r) ==
    /\ StoreMayFail
    /\ req[r].pc \in {"rules", "open"}
    /\ req' = [req EXCEPT ![r] = IdleReq]
    /\ UNCHANGED <<now, store, memory, mu, op>>

\* AppendBatch: the ledger row and the charge of the owner's windows commit
\* together.  A batch of several rows is several such steps.
Charge(r, cost) ==
    LET u == req[r].user
    IN  /\ req[r].pc = "served"
        /\ ledger' = [ledger EXCEPT ![u] = @ + cost]
        /\ windows' = [windows EXCEPT ![u] = Charged(@, cost)]
        /\ req' = [req EXCEPT ![r] = IdleReq]
        /\ UNCHANGED <<now, stored, adrift, custom, memory, mu, op>>

\* The usage record is dropped by a full queue, or its batch fails.
LoseCharge(r) ==
    /\ req[r].pc = "served"
    /\ req' = [req EXCEPT ![r] = IdleReq]
    /\ UNCHANGED <<now, store, memory, mu, op>>

-----------------------------------------------------------------------------
(* SetDefaults.                                                            *)

\* A variant of LockDefaults that does not take the mutex.
LockDefaultsFree(a, set) ==
    /\ op[a].pc = "idle"
    /\ op' = [op EXCEPT ![a] = [IdleOp EXCEPT !.pc = "store", !.set = set]]
    /\ UNCHANGED <<now, store, memory, mu, req>>

LockDefaults(a, set) ==
    /\ op[a].pc = "idle"
    /\ mu = NoAdmin
    /\ mu' = a
    /\ op' = [op EXCEPT ![a] = [IdleOp EXCEPT !.pc = "store", !.set = set]]
    /\ UNCHANGED <<now, store, memory, req>>

StoreDefaults(a) ==
    /\ op[a].pc = "store"
    /\ stored' = op[a].set
    /\ op' = [op EXCEPT ![a].pc = "swap"]
    /\ UNCHANGED <<now, adrift, custom, windows, ledger, memory, mu, req>>

\* The write commits, but the call is told it failed (a commit whose answer
\* is lost): the call returns its error before the swap.
StoreDefaultsUnacknowledged(a) ==
    /\ StoreMayFail
    /\ op[a].pc = "store"
    /\ stored' = op[a].set
    /\ adrift' = TRUE
    /\ op' = [op EXCEPT ![a] = IdleOp]
    /\ mu' = NoAdmin
    /\ UNCHANGED <<now, custom, windows, ledger, memory, req>>

SwapDefaults(a) ==
    /\ op[a].pc = "swap"
    /\ memory' = op[a].set
    /\ adrift' = FALSE
    /\ op' = [op EXCEPT ![a].pc = "audit"]
    /\ UNCHANGED <<now, stored, custom, windows, ledger, mu, req>>

AuditDefaults(a) ==
    /\ op[a].pc = "audit"
    /\ op' = [op EXCEPT ![a].pc = "drop"]
    /\ UNCHANGED <<now, store, memory, mu, req>>

\* A variant of DropInherited that forgets to spare the accounts with a set
\* of their own.
DropEveryone(a) ==
    /\ op[a].pc = "drop"
    /\ windows' = [u \in Users |->
                      Without(windows[u], Lengths \ DOMAIN op[a].set)]
    /\ op' = [op EXCEPT ![a] = IdleOp]
    /\ mu' = NoAdmin
    /\ UNCHANGED <<now, stored, adrift, custom, ledger, memory, req>>

\* DropInherited: in every account inheriting the defaults, the windows of
\* lengths the new set has no rule for are deleted; the call returns.
DropInherited(a) ==
    /\ op[a].pc = "drop"
    /\ windows' = [u \in Users |->
                      IF custom[u] = Inherit
                      THEN Without(windows[u], Lengths \ DOMAIN op[a].set)
                      ELSE windows[u]]
    /\ op' = [op EXCEPT ![a] = IdleOp]
    /\ mu' = NoAdmin
    /\ UNCHANGED <<now, stored, adrift, custom, ledger, memory, req>>

\* The store, the audit log or the drop fails: what was done stays done and
\* the call returns its error.
SetDefaultsFails(a) ==
    /\ StoreMayFail
    /\ op[a].pc \in {"store", "audit", "drop"}
    /\ op' = [op EXCEPT ![a] = IdleOp]
    /\ mu' = NoAdmin
    /\ UNCHANGED <<now, store, memory, req>>

-----------------------------------------------------------------------------
(* SetUser and Reset.                                                      *)

UpdateSpendLimits(a, u, set) ==
    /\ op[a].pc = "idle"
    /\ custom' = [custom EXCEPT ![u] = set]
    /\ op' = [op EXCEPT ![a] = [IdleOp EXCEPT !.pc = "auditUser", !.user = u,
                                              !.set = set]]
    /\ UNCHANGED <<now, stored, adrift, windows, ledger, memory, mu, req>>

AuditUser(a) ==
    /\ op[a].pc = "auditUser"
    /\ op' = [op EXCEPT ![a].pc = "readUser"]
    /\ UNCHANGED <<now, store, memory, mu, req>>

ReadUserWindows(a) ==
    /\ op[a].pc = "readUser"
    /\ op' = [op EXCEPT ![a].pc = "decideUser",
                        ![a].lengths = Stored(windows[op[a].user])]
    /\ UNCHANGED <<now, store, memory, mu, req>>

\* The orphans are those of the account's new set, or of the defaults in
\* memory now; without any the call returns.
DecideOrphans(a) ==
    LET orphans == op[a].lengths \ DOMAIN Effective(op[a].set, memory)
    IN  /\ op[a].pc = "decideUser"
        /\ op' = [op EXCEPT ![a] = IF orphans = {} THEN IdleOp
                                   ELSE [@ EXCEPT !.pc = "dropUser",
                                                  !.lengths = orphans]]
        /\ UNCHANGED <<now, store, memory, mu, req>>

DropOrphans(a) ==
    /\ op[a].pc = "dropUser"
    /\ windows' = [windows EXCEPT ![op[a].user] = Without(@, op[a].lengths)]
    /\ op' = [op EXCEPT ![a] = IdleOp]
    /\ UNCHANGED <<now, stored, adrift, custom, ledger, memory, mu, req>>

\* Reset of one window the account has a rule for, or of all of them.
BeginReset(a, u, lengths) ==
    /\ op[a].pc = "idle"
    /\ \/ lengths = Lengths
       \/ \E l \in DOMAIN Effective(custom[u], memory) : lengths = {l}
    /\ op' = [op EXCEPT ![a] = [IdleOp EXCEPT !.pc = "reset", !.user = u,
                                              !.lengths = lengths]]
    /\ UNCHANGED <<now, store, memory, mu, req>>

ResetWindows(a) ==
    /\ op[a].pc = "reset"
    /\ windows' = [windows EXCEPT ![op[a].user] = Without(@, op[a].lengths)]
    /\ op' = [op EXCEPT ![a] = IdleOp]
    /\ UNCHANGED <<now, stored, adrift, custom, ledger, memory, mu, req>>

\* A store call or the audit log fails: the call returns its error.
UserCallFails(a) ==
    /\ StoreMayFail
    /\ op[a].pc \in {"auditUser", "readUser", "dropUser", "reset"}
    /\ op' = [op EXCEPT ![a] = IdleOp]
    /\ UNCHANGED <<now, store, memory, mu, req>>

-----------------------------------------------------------------------------

Tick ==
    /\ now < MaxTime
    /\ now' = now + 1
    /\ UNCHANGED <<store, memory, mu, req, op>>

\* The process stops anywhere, losing every call in flight, and starts again:
\* boot calls Load before it serves.
Restart ==
    /\ memory' = stored
    /\ adrift' = FALSE
    /\ mu' = NoAdmin
    /\ req' = [r \in Slots |-> IdleReq]
    /\ op' = [a \in Admins |-> IdleOp]
    /\ UNCHANGED <<now, stored, custom, windows, ledger>>

RequestStep(r) ==
    \/ \E u \in Users : Authenticate(r, u)
    \/ RefuseBody(r)
    \/ TakeRules(r)
    \/ RefuseUnpriced(r)
    \/ ReadWindows(r)
    \/ Decide(r)
    \/ OpenWindows(r)
    \/ AdmitFails(r)
    \/ \E c \in Costs : Charge(r, c)
    \/ LoseCharge(r)

AdminStep(a) ==
    \/ \E set \in RuleSets : LockDefaults(a, set)
    \/ StoreDefaults(a)
    \/ StoreDefaultsUnacknowledged(a)
    \/ SwapDefaults(a)
    \/ AuditDefaults(a)
    \/ DropInherited(a)
    \/ SetDefaultsFails(a)
    \/ \E u \in Users, set \in RuleSets \cup {Inherit} :
           UpdateSpendLimits(a, u, set)
    \/ AuditUser(a)
    \/ ReadUserWindows(a)
    \/ DecideOrphans(a)
    \/ DropOrphans(a)
    \/ UserCallFails(a)
    \/ \E u \in Users, lengths \in SUBSET Lengths : BeginReset(a, u, lengths)
    \/ ResetWindows(a)

Next ==
    \/ \E r \in Slots : RequestStep(r)
    \/ \E a \in Admins : AdminStep(a)
    \/ Tick
    \/ Restart

Spec == Init /\ [][Next]_vars

-----------------------------------------------------------------------------
(* Properties.                                                             *)

InForce(u) == Effective(custom[u], stored)

MaxCost == CHOOSE c \in Costs : \A d \in Costs : d <= c

KeptOrEnded(rows, rows2) ==
    \A l \in Stored(rows) \cap Stored(rows2) :
        \/ /\ rows2[l].started = rows[l].started
           /\ rows2[l].spent >= rows[l].spent
        \/ /\ EndsAt(rows, l) <= rows2[l].started
           /\ rows2[l].spent = 0

\* A window counts for its whole length: a stored window keeps its start and
\* never loses spend, unless it had ended by its new start.  Requests opening
\* the same window at once (limitwindows' openWindows) must not restart it
\* between them.
LiveWindowKept ==
    [][\A u \in Users : KeptOrEnded(windows[u], windows'[u])]_vars

GrewBy(rows, rows2, cost) ==
    \A l \in Stored(rows) \cap Stored(rows2) :
        rows2[l].started = rows[l].started =>
            rows2[l].spent - rows[l].spent = cost

\* A window's spend is the ledger's: a window that a step neither opens nor
\* deletes grows by exactly what the owner's ledger rows grow by, because
\* AppendBatch charges in the transaction that writes them.
ChargeFollowsLedger ==
    [][\A u \in Users :
          GrewBy(windows[u], windows'[u], ledger'[u] - ledger[u])]_vars

\* The defaults requests are limited by are the stored ones whenever no
\* SetDefaults is between its two writes: mu keeps two calls apart, a write
\* that failed leaves the two equal, and a restart loads them.  Only a write
\* that committed and was reported failed sets them apart with no call under
\* way, and only until the next SetDefaults swaps or the process restarts.
MemoryMatchesStore ==
    memory # stored =>
        \/ \E a \in Admins : mu = a /\ op[a].pc = "swap"
        \/ adrift

\* While the rules stand, a request is forwarded only with a window open for
\* every rule it was admitted under, one that had not ended when it was: no
\* request is served unmetered, however openers interleave.
AdmittedIsMetered ==
    \A r \in Slots : req[r].pc = "served" =>
        \A l \in DOMAIN req[r].set :
            /\ l \in Stored(windows[req[r].user])
            /\ req[r].at < EndsAt(windows[req[r].user], l)

\* While the rules stand, a window's spend passes its amount by no more than
\* what the requests admitted and not yet charged may cost: the gate decides
\* on what the ledger holds, so a limit is soft by exactly that much.
OverspendBounded ==
    \A u \in Users : \A l \in DOMAIN InForce(u) \cap Stored(windows[u]) :
        windows[u][l].spent < InForce(u)[l] + Cardinality(Slots) * MaxCost

\* Retry-After is exact: with the windows as they are, every retry before the
\* named reset is refused again and a retry at it is not.
RetryAfterExact ==
    \A u \in Users :
        LET set == InForce(u)
            rows == windows[u]
        IN  Blocked(set, rows, now) =>
                /\ ~ Blocked(set, rows, ResetsAt(set, rows, now))
                /\ \A t \in now .. ResetsAt(set, rows, now) - 1 :
                       Blocked(set, rows, t)

\* The cabinet agrees with the gate: some rule is shown spent to 100 percent
\* exactly when the gate would refuse the account's next request.
ViewAgreesWithGate ==
    \A u \in Users :
        LET set == InForce(u)
            rows == windows[u]
        IN  Blocked(set, rows, now) <=>
                \E l \in DOMAIN set :
                    SpentPercent(set, State(set, rows, now, l), l) = 100

\* What an account is told of its limits is exact, at every instant and at the
\* very end of a window: by the gate's refusal and by the cabinet's view.
AnswersExact == RetryAfterExact /\ ViewAgreesWithGate

\* A live window whose rule is in force before and after a step is deleted
\* only by Reset, by SetUser's own cleanup, or by a request that took its set
\* before the rule existed.  DropInherited in particular leaves alone the
\* accounts with a set of their own, and drops by the set it stored.
OnlyStaleDrops ==
    [][\A u \in Users : \A l \in Stored(windows[u]) \ Stored(windows'[u]) :
          \/ l \notin DOMAIN InForce(u) \cap DOMAIN InForce(u)'
          \/ ~ LiveAt(windows[u], l, now)
          \/ \E a \in Admins : op[a].pc \in {"reset", "dropUser"}
                              /\ op[a].user = u /\ l \in op[a].lengths
          \/ \E r \in Slots : /\ req[r].pc = "open" /\ req[r].user = u
                              /\ l \notin DOMAIN req[r].set]_vars

=============================================================================
