------------------------------ MODULE Throttle ------------------------------
(***************************************************************************)
(* The sign-in throttle of one address (internal/app/auth/throttle.go) and *)
(* its row (internal/infra/postgres/loginattempts): every attempt is       *)
(* charged before its password is looked at, only a success clears the     *)
(* count, and the address is locked for LockFor once the limit is reached. *)
(*                                                                         *)
(* The clock is read before the charging statement runs, so statements of  *)
(* concurrent attempts may run in another order than their clock readings; *)
(* Skew bounds how long one waits.                                         *)
(***************************************************************************)
EXTENDS Integers

CONSTANTS
    Attempts,      \* attempts in progress at a time
    MaxFailures,   \* Throttle.maxFailures
    LockFor,       \* Throttle.lockFor
    Skew,          \* bound: ticks from a clock reading to its statement
    MaxNow,        \* bound: the end of the clock
    NoRow, NoTime

ASSUME ThrottleAssumption ==
    /\ MaxFailures \in Nat \ {0}
    /\ LockFor \in Nat \ {0}
    /\ Skew \in Nat /\ 2 * Skew < LockFor
    /\ MaxNow \in Nat
    /\ NoTime \notin Nat
    /\ NoRow \notin [failures : Nat, until : Nat \cup {NoTime}, last : Nat]

VARIABLES
    now,
    row,        \* the address's row of login_attempts
    attempt,    \* where each attempt is, and the clock it read
    admitted    \* how many attempts with each clock reading reached the
                \* password since the last success

vars == <<now, row, attempt, admitted>>

Times == 0 .. MaxNow
Row == [failures : Nat \ {0}, until : Nat \cup {NoTime}, last : Times]
Idle == [pc |-> "idle", at |-> 0]

TypeOK ==
    /\ now \in Times
    /\ row \in Row \cup {NoRow}
    /\ attempt \in [Attempts -> [pc : {"idle", "checked", "charge", "verify",
                                       "reset"},
                                 at : Times]]
    /\ admitted \in [Times -> Nat]

Init ==
    /\ now = 0
    /\ row = NoRow
    /\ attempt = [a \in Attempts |-> Idle]
    /\ admitted = [t \in Times |-> 0]

-----------------------------------------------------------------------------
(* The charging statement.                                                 *)

OpenLock(r, at) == r # NoRow /\ r.until # NoTime /\ r.until > at

\* The lock has lapsed, or the last attempt is a window old.
Lapsed(r, at) ==
    \/ r.until # NoTime /\ r.until <= at
    \/ r.last <= at - LockFor

\* A variant of Failures that starts over from no attempt.
FailuresFromZero(r, at) ==
    CASE r = NoRow       -> 0
      [] OpenLock(r, at) -> r.failures + 1
      [] OTHER           -> IF Lapsed(r, at) THEN 0 ELSE r.failures + 1

\* The two assignments of the statement decide by the row as it was, each with
\* cases of its own: the count ...
Failures(r, at) ==
    CASE r = NoRow       -> 1
      [] OpenLock(r, at) -> r.failures + 1
      [] OTHER           -> IF Lapsed(r, at) THEN 1 ELSE r.failures + 1

\* A variant of LockedUntil in which every attempt over the limit renews the
\* lock.
LockedUntilRenewed(r, at) ==
    IF r = NoRow \/ (~ OpenLock(r, at) /\ Lapsed(r, at))
    THEN IF MaxFailures <= 1 THEN at + LockFor ELSE NoTime
    ELSE IF r.failures + 1 >= MaxFailures THEN at + LockFor ELSE NoTime

\* A variant of LockedUntil that decides by the row's count alone, so that one
\* that starts over is locked by its first attempt.
LockedUntilByCount(r, at) ==
    CASE r = NoRow       -> IF MaxFailures <= 1 THEN at + LockFor ELSE NoTime
      [] OpenLock(r, at) -> r.until
      [] OTHER           -> IF r.failures + 1 >= MaxFailures THEN at + LockFor
                            ELSE NoTime

\* ... and the lock.
LockedUntil(r, at) ==
    CASE r = NoRow       -> IF MaxFailures <= 1 THEN at + LockFor ELSE NoTime
      [] OpenLock(r, at) -> r.until
      [] OTHER           ->
            IF Lapsed(r, at)
            THEN IF MaxFailures <= 1 THEN at + LockFor ELSE NoTime
            ELSE IF r.failures + 1 >= MaxFailures THEN at + LockFor ELSE NoTime

Charged(r, at) ==
    [failures |-> Failures(r, at), until |-> LockedUntil(r, at), last |-> at]

-----------------------------------------------------------------------------
(* An attempt.                                                             *)

\* Check: an open lock refuses the attempt, uncharged.
Check(a) ==
    /\ attempt[a].pc = "idle"
    /\ IF OpenLock(row, now)
       THEN UNCHANGED attempt
       ELSE attempt' = [attempt EXCEPT ![a].pc = "checked"]
    /\ UNCHANGED <<now, row, admitted>>

\* Charge reads the clock ...
ReadClock(a) ==
    /\ attempt[a].pc = "checked"
    /\ attempt' = [attempt EXCEPT ![a] = [pc |-> "charge", at |-> now]]
    /\ UNCHANGED <<now, row, admitted>>

\* ... and runs the statement.  An attempt over the limit is refused.
Charge(a) ==
    LET at == attempt[a].at
        charged == Charged(row, at)
    IN  /\ attempt[a].pc = "charge"
        /\ row' = charged
        /\ IF charged.failures <= MaxFailures
           THEN /\ attempt' = [attempt EXCEPT ![a] = [pc |-> "verify",
                                                      at |-> 0]]
                /\ admitted' = [admitted EXCEPT ![at] = @ + 1]
           ELSE /\ attempt' = [attempt EXCEPT ![a] = Idle]
                /\ UNCHANGED admitted
        /\ UNCHANGED now

\* The password is right: Reset clears the row.
VerifySucceeds(a) ==
    /\ attempt[a].pc = "verify"
    /\ attempt' = [attempt EXCEPT ![a].pc = "reset"]
    /\ UNCHANGED <<now, row, admitted>>

Reset(a) ==
    /\ attempt[a].pc = "reset"
    /\ row' = NoRow
    /\ admitted' = [t \in Times |-> 0]
    /\ attempt' = [attempt EXCEPT ![a] = Idle]
    /\ UNCHANGED now

\* A wrong password, or a statement that fails.
AttemptFails(a) ==
    /\ attempt[a].pc # "idle"
    /\ attempt' = [attempt EXCEPT ![a] = Idle]
    /\ UNCHANGED <<now, row, admitted>>

Tick ==
    /\ now < MaxNow
    /\ \A a \in Attempts :
           attempt[a].pc = "charge" => now - attempt[a].at < Skew
    /\ now' = now + 1
    /\ UNCHANGED <<row, attempt, admitted>>

Next ==
    \/ \E a \in Attempts :
          \/ Check(a) \/ ReadClock(a) \/ Charge(a)
          \/ VerifySucceeds(a) \/ Reset(a) \/ AttemptFails(a)
    \/ Tick

Spec == Init /\ [][Next]_vars

-----------------------------------------------------------------------------
(* Properties.                                                             *)

\* The sums of f[0], ..., f[t - 1].
Upto(f) ==
    LET sum[t \in 0 .. MaxNow + 1] ==
            IF t = 0 THEN 0 ELSE sum[t - 1] + f[t - 1]
    IN  sum

\* However many attempts run in parallel, at most MaxFailures of any window of
\* LockFor reach the password, unless one succeeds.  The window is shorter by
\* the Skew of the clock readings on either side: one that locked the row may
\* be as much too early, and one that finds the lock lapsed too late for those
\* charged after it.
GuessesBounded ==
    LET guesses == Upto(admitted)
    IN  \A start, end \in 0 .. MaxNow + 1 :
            start <= end /\ end <= start + LockFor - 2 * Skew =>
                guesses[end] - guesses[start] <= MaxFailures

\* A lock is earned: MaxFailures attempts since the last success reached the
\* password for it, each less than LockFor after the one charged before it.
\* Mistakes of an earlier day, those under a lock that has lapsed and those a
\* success forgave never add up to a lock-out, whatever order the charges of
\* parallel attempts ran in.
LockEarned ==
    (row # NoRow /\ row.until # NoTime) =>
        LET guesses == Upto(admitted)
            from == row.until - LockFor - (MaxFailures - 1) * (LockFor - 1)
        IN  guesses[MaxNow + 1] - guesses[IF from < 0 THEN 0 ELSE from]
                >= MaxFailures

\* Attempts under an open lock do not move its end: a stream of wrong guesses
\* cannot keep the owner of an address out for longer than LockFor.
LockNotRenewed ==
    [][OpenLock(row, now) =>
          row' = NoRow \/ row'.until = row.until]_vars

=============================================================================
