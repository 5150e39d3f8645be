----------------------------- MODULE BodyBudget -----------------------------
(***************************************************************************)
(* The gate's body budget (internal/infra/gateway/body_budget.go): what    *)
(* the bodies held in memory are charged to the process-wide weighted      *)
(* semaphore, and each owner's share of it.                                *)
(*                                                                         *)
(* A request charges its buffer step by step as it doubles, an encoded     *)
(* body another MaxJSON while it is decoded, and gives everything back     *)
(* when its handler returns, whatever happened.  A charge takes two steps  *)
(* (the owner's share, then the semaphore) and so does giving it back (the *)
(* semaphore, then the share).  Bytes are counted in units of a size that  *)
(* makes the limits small numbers.                                         *)
(***************************************************************************)
EXTENDS Integers, Sequences, FiniteSets, FiniteSetsExt, SequencesExt

CONSTANTS
    Owners,
    Requests,       \* requests in the gate at a time
    Budget,         \* maxBodiesInFlight
    InitialBuffer,  \* initialBodyBuffer
    MaxJSON,        \* maxJSONBody
    BodyLimits,     \* the limits of the model routes, JSON and multipart
    Lengths,        \* the declared lengths of bodies (0: no body)
    NoOwner

ASSUME BudgetAssumption ==
    /\ Budget \in Nat \ {0}
    /\ InitialBuffer \in Nat \ {0}
    /\ MaxJSON \in Nat \ {0}
    /\ BodyLimits \subseteq Nat \ {0}
    /\ \A limit \in BodyLimits : limit <= Budget
    /\ 2 * MaxJSON <= Budget
    /\ Lengths \subseteq Nat
    /\ NoOwner \notin Owners
    /\ IsFiniteSet(Requests)

VARIABLES
    held,   \* bodyShares.held, a map
    sem,    \* bodyBudget: what is taken, and who waits for how much
    req     \* the requests and their bodyCharge

vars == <<held, sem, req>>

(***************************************************************************)
(* pc: "grow" is about to charge ask; "acquire" has it from the owner's    *)
(* share and is about to ask the semaphore; "wait" waits in its line, or   *)
(* was granted there; "unask" gives it back to the share after the wait    *)
(* failed; "read" is receiving the body into a buffer of n units; "decode" *)
(* is decoding; "serve" has handed the body on; "failed" is answering an   *)
(* error; "unshare" has given `back` to the semaphore but not yet to the   *)
(* share, and goes on to `then`.                                           *)
(***************************************************************************)
PC == {"idle", "grow", "acquire", "wait", "unask", "read", "decode",
       "serve", "failed", "unshare"}

IdleReq == [pc |-> "idle", owner |-> NoOwner, share |-> 0, n |-> 0,
            size |-> 0, exact |-> FALSE, encoded |-> FALSE, ask |-> 0,
            back |-> 0, then |-> "idle"]

TypeOK ==
    /\ DOMAIN held \subseteq Owners
    /\ held \in [DOMAIN held -> Nat]
    /\ sem \in [cur : 0 .. Budget, waiters : Seq(Requests)]
    /\ req \in [Requests ->
                  [pc : PC, owner : Owners \cup {NoOwner}, share : Nat,
                   n : Nat, size : Nat, exact : BOOLEAN, encoded : BOOLEAN,
                   ask : Nat, back : Nat, then : {"idle", "read", "decode",
                                                  "serve"}]]

Init ==
    /\ held = [o \in {} |-> 0]
    /\ sem = [cur |-> 0, waiters |-> <<>>]
    /\ req = [r \in Requests |-> IdleReq]

Larger(a, b) == IF a > b THEN a ELSE b
Smaller(a, b) == IF a < b THEN a ELSE b

-----------------------------------------------------------------------------
(* semaphore.Weighted: first come, first served.  A large request at the   *)
(* head of the line holds the ones behind it.                              *)

\* What the first k in line ask for together.
Asked(waiters, k) ==
    SumFunctionOnSet([i \in DOMAIN waiters |-> req[waiters[i]].ask], 1 .. k)

\* Grant as long a prefix of the line as fits.
Notify(cur, waiters) ==
    LET fits == {k \in 0 .. Len(waiters) : cur + Asked(waiters, k) <= Budget}
        k == Max(fits)
    IN  [cur |-> cur + Asked(waiters, k),
         waiters |-> SubSeq(waiters, k + 1, Len(waiters))]

Acquirable(n) == sem.waiters = <<>> /\ sem.cur + n <= Budget

Waiting(r) == r \in ToSet(sem.waiters)

\* The line without r, who waits in it.
LineWithout(r) ==
    RemoveAt(sem.waiters, CHOOSE i \in DOMAIN sem.waiters : sem.waiters[i] = r)

SemRelease(n) == Notify(sem.cur - n, sem.waiters)

-----------------------------------------------------------------------------
(* bodyCharge.                                                             *)

HeldBy(o) == IF o \in DOMAIN held THEN held[o] ELSE 0

\* grow: the owner's charges with n more, the entry made if need be.
MoreHeld(o, n) ==
    [p \in DOMAIN held \cup {o} |-> IF p = o THEN HeldBy(o) + n ELSE held[p]]

\* unshare: what remains of the owner's charges; an owner left with nothing
\* has no entry.
LessHeld(o, n) ==
    IF HeldBy(o) - n > 0
    THEN [held EXCEPT ![o] = @ - n]
    ELSE [p \in DOMAIN held \ {o} |-> held[p]]

\* newBodyCharge: a quarter of the budget, or the request's own maximum.
Share(limit, encoded) ==
    Larger(Budget \div 4, IF encoded THEN limit + MaxJSON ELSE limit)

\* grow: the owner's share first, under its mutex.
GrowShare(r) ==
    LET q == req[r]
    IN  /\ q.pc = "grow"
        /\ IF HeldBy(q.owner) + q.ask > q.share
           THEN /\ req' = [req EXCEPT ![r].pc = "failed", ![r].ask = 0]
                /\ UNCHANGED <<held, sem>>
           ELSE /\ held' = MoreHeld(q.owner, q.ask)
                /\ req' = [req EXCEPT ![r].pc = "acquire"]
                /\ UNCHANGED sem

Booked(r) ==
    [req EXCEPT ![r].pc = req[r].then, ![r].n = @ + req[r].ask, ![r].ask = 0]

\* grow: Acquire takes what is free, joins the line, or finds the request's
\* context already done.
Acquire(r) ==
    /\ req[r].pc = "acquire"
    /\ \/ /\ Acquirable(req[r].ask)
          /\ sem' = [sem EXCEPT !.cur = @ + req[r].ask]
          /\ req' = Booked(r)
       \/ /\ ~ Acquirable(req[r].ask)
          /\ sem' = [sem EXCEPT !.waiters = Append(@, r)]
          /\ req' = [req EXCEPT ![r].pc = "wait"]
       \/ /\ req' = [req EXCEPT ![r].pc = "unask"]
          /\ UNCHANGED sem
    /\ UNCHANGED held

\* grow: the line came to it.
AcquireGranted(r) ==
    /\ req[r].pc = "wait"
    /\ ~ Waiting(r)
    /\ req' = Booked(r)
    /\ UNCHANGED <<held, sem>>

\* A variant of AcquireEnds that keeps the tokens granted at that moment.
AcquireEndsKeeping(r) ==
    /\ req[r].pc = "wait"
    /\ sem' = IF Waiting(r)
              THEN Notify(sem.cur, LineWithout(r))
              ELSE sem
    /\ req' = [req EXCEPT ![r].pc = "unask"]
    /\ UNCHANGED held

\* A variant of AcquireEnds that asks again.
AcquireEndsRetrying(r) ==
    /\ req[r].pc = "wait"
    /\ sem' = IF Waiting(r)
              THEN Notify(sem.cur, LineWithout(r))
              ELSE SemRelease(req[r].ask)
    /\ req' = [req EXCEPT ![r].pc = "acquire"]
    /\ UNCHANGED held

\* grow: bodyWait or the request's context ended first.  A waiter leaves the
\* line, and the ones behind it may fit; tokens granted at that very moment
\* are put back.
AcquireEnds(r) ==
    /\ req[r].pc = "wait"
    /\ sem' = IF Waiting(r)
              THEN Notify(sem.cur, LineWithout(r))
              ELSE SemRelease(req[r].ask)
    /\ req' = [req EXCEPT ![r].pc = "unask"]
    /\ UNCHANGED held

\* grow: unshare, and errBodyBusy.
GrowUndone(r) ==
    LET q == req[r]
    IN  /\ q.pc = "unask"
        /\ held' = LessHeld(q.owner, q.ask)
        /\ req' = [req EXCEPT ![r].pc = "failed", ![r].ask = 0]
        /\ UNCHANGED sem

\* shrinkTo: to the semaphore first ...
Shrink(r, keep, then) ==
    LET q == req[r]
    IN  /\ q.n > keep
        /\ sem' = SemRelease(q.n - keep)
        /\ req' = [req EXCEPT ![r].pc = "unshare", ![r].back = q.n - keep,
                              ![r].n = keep, ![r].then = then]
        /\ UNCHANGED held

\* ... then to the owner's share.
Unshare(r) ==
    LET q == req[r]
    IN  /\ q.pc = "unshare"
        /\ held' = LessHeld(q.owner, q.back)
        /\ req' = [req EXCEPT ![r] = IF q.then = "idle" THEN IdleReq
                                     ELSE [@ EXCEPT !.pc = q.then,
                                                    !.back = 0]]
        /\ UNCHANGED sem

-----------------------------------------------------------------------------
(* The gate.                                                               *)

\* A model request: of a declared length within the limit (0: no body), or
\* chunked and then read up to the limit.  Only a JSON body may be encoded.
Receive(r, o, limit, size, exact, encoded) ==
    /\ req[r].pc = "idle"
    /\ IF exact THEN size \in Lengths ELSE size = limit
    /\ encoded => limit = MaxJSON
    /\ req' = [req EXCEPT ![r] =
                  [IdleReq EXCEPT !.pc = "grow", !.owner = o,
                                  !.share = Share(limit, encoded),
                                  !.size = size, !.exact = exact,
                                  !.encoded = encoded,
                                  !.ask = Smaller(InitialBuffer, size),
                                  !.then = "read"]]
    /\ UNCHANGED <<held, sem>>

\* bufferBody: the buffer is full and the body goes on.
GrowBuffer(r) ==
    LET q == req[r]
    IN  /\ q.pc = "read"
        /\ q.n < q.size
        /\ req' = [req EXCEPT ![r].pc = "grow",
                              ![r].ask = Smaller(2 * q.n, q.size) - q.n]
        /\ UNCHANGED <<held, sem>>

\* bufferBody: the body is whole, one of declared length only once its
\* buffer has that length.  An encoded one is then decoded under a further
\* charge.
BodyRead(r) ==
    LET q == req[r]
    IN  /\ q.pc = "read"
        /\ q.exact => q.n = q.size
        /\ req' = [req EXCEPT ![r] =
                      IF q.encoded
                      THEN [@ EXCEPT !.pc = "grow", !.ask = MaxJSON,
                                     !.then = "decode"]
                      ELSE [@ EXCEPT !.pc = "serve"]]
        /\ UNCHANGED <<held, sem>>

\* decodeRequestBody: the charge becomes the decoded buffer's capacity, if
\* that is less.  The buffer was grown as it filled, so its capacity may
\* exceed the limit on its length.
Decoded(r, keep) ==
    /\ req[r].pc = "decode"
    /\ \/ Shrink(r, keep, "serve")
       \/ /\ req[r].n <= keep
          /\ req' = [req EXCEPT ![r].pc = "serve"]
          /\ UNCHANGED <<held, sem>>

\* Reading or decoding fails: a late, short, long or unreadable body.
BodyFails(r) ==
    /\ req[r].pc \in {"read", "decode"}
    /\ req' = [req EXCEPT ![r].pc = "failed"]
    /\ UNCHANGED <<held, sem>>

\* The handler chain returns or panics: the deferred release.
Return(r) ==
    /\ req[r].pc \in {"serve", "failed"}
    /\ \/ Shrink(r, 0, "idle")
       \/ /\ req[r].n = 0
          /\ req' = [req EXCEPT ![r] = IdleReq]
          /\ UNCHANGED <<held, sem>>

\* What a request does in the gate by itself.
GateStep(r) ==
    \/ GrowShare(r) \/ Acquire(r) \/ AcquireGranted(r) \/ AcquireEnds(r)
    \/ GrowUndone(r) \/ Unshare(r) \/ GrowBuffer(r) \/ BodyRead(r)
    \/ \E keep \in 0 .. 2 * MaxJSON : Decoded(r, keep)
    \/ BodyFails(r)

Next ==
    \E r \in Requests :
        \/ \E o \in Owners, limit \in BodyLimits, exact, encoded \in BOOLEAN :
              \E size \in 0 .. limit :
                 Receive(r, o, limit, size, exact, encoded)
        \/ GateStep(r)
        \/ Return(r)

Spec == Init /\ [][Next]_vars

(* A request in the gate goes on: the wait for the budget is bounded by     *)
(* bodyWait and the body's arrival by bodyReadTimeout.  Nothing is assumed  *)
(* of the handler, which may hold its body for ever.                        *)
FairSpec == Spec /\ \A r \in Requests : WF_vars(GateStep(r))

-----------------------------------------------------------------------------
(* Properties.                                                             *)

\* What request r has of the semaphore: its charge, and a step of it granted
\* but not yet booked.
Taken(r) ==
    req[r].n + IF req[r].pc = "wait" /\ ~ Waiting(r) THEN req[r].ask ELSE 0

\* What request r has of its owner's share: its charge, a step being
\* acquired or undone, and what it has not yet given back.
Shared(r) ==
    req[r].n + req[r].back
      + IF req[r].pc \in {"acquire", "wait", "unask"} THEN req[r].ask ELSE 0

Of(o) == {r \in Requests : req[r].owner = o}

\* The semaphore holds exactly what the requests hold, so nothing leaks
\* through a timeout racing a grant, and the bodies in memory together never
\* pass the budget.
BudgetAccounted ==
    /\ sem.cur = SumFunction([r \in Requests |-> Taken(r)])
    /\ sem.cur <= Budget

\* An owner's share is exactly what the owner's requests hold: no error path
\* leaves a charge behind that would lock the owner out, or takes off more
\* than was charged.
SharesAccounted ==
    \A o \in Owners : HeldBy(o) = SumFunction([r \in Of(o) |-> Shared(r)])

\* At every level, the requests whose own allowance is at most that level
\* hold no more than it together: a large upload does not widen what its
\* owner's other requests may hold.
ShareRespected ==
    \A o \in Owners : \A r \in Of(o) :
        LET level == req[r].share
            below == {s \in Of(o) : req[s].share <= level}
        IN  SumFunction([s \in below |-> Shared(s)]) <= level

\* The accounts of the budget agree with what the requests hold, in all and
\* by owner, and keep their limits.
ChargesExact == BudgetAccounted /\ SharesAccounted /\ ShareRespected

\* A request whose body is being received is answered or handed on, whoever
\* holds the budget: bodies that each hold a part of it and wait for more do
\* not wait for each other for ever.
GateAnswers ==
    \A r \in Requests : req[r].pc = "grow" ~> req[r].pc \in {"serve", "failed"}

=============================================================================
