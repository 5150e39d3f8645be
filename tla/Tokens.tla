------------------------------- MODULE Tokens -------------------------------
(***************************************************************************)
(* API tokens (internal/app/tokens, internal/infra/postgres/tokens):       *)
(* issuing a key and revoking it.  An issue stores the row in one          *)
(* transaction, then records the event, then returns the secret; there is  *)
(* no transaction around the three, so an issue that cannot be recorded is *)
(* retracted.  Calls run at the same time and meet only in the database.   *)
(* A token stands for its id, its secret and its hash, which are drawn     *)
(* together and name each other.                                           *)
(***************************************************************************)
EXTENDS Integers, FiniteSets

CONSTANTS
    Owners,         \* accounts that may hold keys
    Admin,          \* an administrator, who holds none here
    TokenIds,       \* the keys that Generate may draw, each once
    Calls,          \* Issue and Revoke calls in progress at a time
    MaxLiveTokensPerOwner,
    MaxEvents,      \* bound: statements that fail (not the record of an issue,
                    \* of which there are no more than keys), ends of the
                    \* process, and changes that others make (Gate)
    None

ASSUME TokensAssumption ==
    /\ Admin \notin Owners
    /\ None \notin Owners \cup TokenIds \cup Calls
    /\ MaxLiveTokensPerOwner \in Nat \ {0}
    /\ MaxEvents \in Nat

VARIABLES
    row,        \* api_tokens: a token's owner and whether revoked_at is set
    ownerLock,  \* who holds the row lock of each owner's users row
    call,       \* the calls in progress
    audit,      \* the audit log: <<action, token>>
    warned,     \* failures the log told the operator of: <<action, token>>
    returned,   \* tokens whose secret an Issue returned
    severed,    \* (ghost) <<action, token>> of calls that a lost commit or
                \* the end of the process left half done
    events      \* failures and changes so far

tokenVars == <<row, ownerLock, call, audit, warned, returned, severed, events>>

NoRow == [owner |-> None, revoked |-> FALSE]
IdleCall == [step |-> "idle", owner |-> None, token |-> None]

TokensTypeOK ==
    /\ row \in [TokenIds -> [owner : Owners \cup {None}, revoked : BOOLEAN]]
    /\ ownerLock \in [Owners -> Calls \cup {None}]
    /\ call \in [Calls ->
          [step : {"idle", "lock", "count", "insert", "issued", "retract",
                   "revoke", "revoked"},
           owner : Owners \cup {None}, token : TokenIds \cup {None}]]
    /\ audit \subseteq {"issue", "revoke"} \X TokenIds
    /\ warned \subseteq {"issue", "revoke"} \X TokenIds
    /\ returned \subseteq TokenIds
    /\ severed \subseteq {"issue", "revoke"} \X TokenIds
    /\ events \in 0..MaxEvents

TokensInit ==
    /\ row = [t \in TokenIds |-> NoRow]
    /\ ownerLock = [o \in Owners |-> None]
    /\ call = [c \in Calls |-> IdleCall]
    /\ audit = {}
    /\ warned = {}
    /\ returned = {}
    /\ severed = {}
    /\ events = 0

-----------------------------------------------------------------------------
Exists(t) == row[t].owner # None

Active(t) == Exists(t) /\ ~row[t].revoked

Live(o) == {t \in TokenIds : row[t].owner = o /\ Active(t)}

\* manages: a person's own keys, and an administrator anyone's.
Manages(actor, o) == actor \in {o, Admin}

Go(c, step) == call' = [call EXCEPT ![c].step = step]

Done(c) == call' = [call EXCEPT ![c] = IdleCall]

Event == /\ events < MaxEvents
         /\ events' = events + 1

-----------------------------------------------------------------------------
(* Issue.                                                                  *)

\* The owner is known (accounts are never deleted) and a fresh key drawn.
Issue(c, actor, o, t) ==
    /\ call[c].step = "idle"
    /\ Manages(actor, o)
    /\ ~Exists(t)
    /\ \A d \in Calls : call[d].token # t
    /\ call' = [call EXCEPT ![c] = [step |-> "lock", owner |-> o, token |-> t]]
    /\ UNCHANGED <<row, ownerLock, audit, warned, returned, severed, events>>

\* A variant of LockOwner that reads the owner's row without locking it.
ReadOwnerUnlocked(c) ==
    /\ call[c].step = "lock"
    /\ Go(c, "count")
    /\ UNCHANGED <<row, ownerLock, audit, warned, returned, severed, events>>

\* The transaction of Create begins: SELECT ... FOR NO KEY UPDATE.
LockOwner(c) ==
    /\ call[c].step = "lock"
    /\ ownerLock[call[c].owner] = None
    /\ ownerLock' = [ownerLock EXCEPT ![call[c].owner] = c]
    /\ Go(c, "count")
    /\ UNCHANGED <<row, audit, warned, returned, severed, events>>

\* The locks c holds, given back at the end of its transaction.
Unlocked(c) == [o \in Owners |-> IF ownerLock[o] = c THEN None ELSE ownerLock[o]]

\* SELECT count(*): ErrTokenLimit at the limit, and the transaction ends.
CountLive(c) ==
    /\ call[c].step = "count"
    /\ IF Cardinality(Live(call[c].owner)) >= MaxLiveTokensPerOwner
          THEN Done(c) /\ ownerLock' = Unlocked(c)
          ELSE Go(c, "insert") /\ UNCHANGED ownerLock
    /\ UNCHANGED <<row, audit, warned, returned, severed, events>>

Inserted(c) ==
    [row EXCEPT ![call[c].token] = [owner |-> call[c].owner, revoked |-> FALSE]]

\* INSERT and commit.
InsertToken(c) ==
    /\ call[c].step = "insert"
    /\ row' = Inserted(c)
    /\ ownerLock' = Unlocked(c)
    /\ Go(c, "issued")
    /\ UNCHANGED <<audit, warned, returned, severed, events>>

\* A statement of Create fails and rolls back; or its commit is done and only
\* the answer is lost, and Issue reports an error for a row that stands.
CreateFails(c) ==
    /\ call[c].step \in {"lock", "count", "insert"}
    /\ Event
    /\ ownerLock' = Unlocked(c)
    /\ Done(c)
    /\ \/ UNCHANGED <<row, severed>>
       \/ /\ call[c].step = "insert"
          /\ row' = Inserted(c)
          /\ severed' = severed \cup {<<"issue", call[c].token>>}
    /\ UNCHANGED <<audit, warned, returned>>

\* audit.Record lands, and only then is the secret returned.
RecordIssue(c) ==
    /\ call[c].step = "issued"
    /\ audit' = audit \cup {<<"issue", call[c].token>>}
    /\ returned' = returned \cup {call[c].token}
    /\ Done(c)
    /\ UNCHANGED <<row, ownerLock, warned, severed, events>>

\* audit.Record fails, whether or not its row was written.
RecordIssueFails(c) ==
    /\ call[c].step = "issued"
    /\ Go(c, "retract")
    /\ \/ UNCHANGED audit
       \/ audit' = audit \cup {<<"issue", call[c].token>>}
    /\ UNCHANGED <<row, ownerLock, warned, returned, severed, events>>

Revoked(c) == [row EXCEPT ![call[c].token].revoked = TRUE]

\* retract: Save the issue's own copy, revoked.  Its Revoke cannot refuse:
\* the copy was drawn by this call and never revoked.
Retract(c) ==
    /\ call[c].step = "retract"
    /\ row' = Revoked(c)
    /\ Done(c)
    /\ UNCHANGED <<ownerLock, audit, warned, returned, severed, events>>

\* A variant of RetractFails that tells nobody.
RetractFailsSilently(c) ==
    /\ call[c].step = "retract"
    /\ Event
    /\ row' \in {row, Revoked(c)}
    /\ Done(c)
    /\ UNCHANGED <<ownerLock, audit, warned, returned, severed>>

\* The compensating Save fails, done or not: stranded tells the operator.
RetractFails(c) ==
    /\ call[c].step = "retract"
    /\ Event
    /\ row' \in {row, Revoked(c)}
    /\ warned' = warned \cup {<<"issue", call[c].token>>}
    /\ Done(c)
    /\ UNCHANGED <<ownerLock, audit, returned, severed>>

-----------------------------------------------------------------------------
(* Revoke.                                                                 *)

\* ByID, manages and Token.Revoke on the record as it was read.
Revoke(c, actor, t) ==
    /\ call[c].step = "idle"
    /\ Active(t)
    /\ Manages(actor, row[t].owner)
    /\ call' = [call EXCEPT ![c] =
                  [step |-> "revoke", owner |-> row[t].owner, token |-> t]]
    /\ UNCHANGED <<row, ownerLock, audit, warned, returned, severed, events>>

SaveRevoked(c) ==
    /\ call[c].step = "revoke"
    /\ row' = Revoked(c)
    /\ Go(c, "revoked")
    /\ UNCHANGED <<ownerLock, audit, warned, returned, severed, events>>

\* The save fails: nothing was written, or the answer was lost.
SaveRevokedFails(c) ==
    /\ call[c].step = "revoke"
    /\ Event
    /\ Done(c)
    /\ \/ UNCHANGED <<row, severed>>
       \/ /\ row' = Revoked(c)
          /\ severed' = severed \cup {<<"revoke", call[c].token>>}
    /\ UNCHANGED <<ownerLock, audit, warned, returned>>

RecordRevoke(c) ==
    /\ call[c].step = "revoked"
    /\ audit' = audit \cup {<<"revoke", call[c].token>>}
    /\ Done(c)
    /\ UNCHANGED <<row, ownerLock, warned, returned, severed, events>>

\* The key is dead either way, so a failed audit write is only logged.
RecordRevokeFails(c) ==
    /\ call[c].step = "revoked"
    /\ Event
    /\ warned' = warned \cup {<<"revoke", call[c].token>>}
    /\ Done(c)
    /\ UNCHANGED <<row, ownerLock, audit, returned, severed>>

-----------------------------------------------------------------------------
\* The process ends: calls vanish and open transactions roll back.
EndCalls ==
    /\ \E c \in Calls : call[c].step # "idle"
    /\ Event
    /\ severed' = severed
         \cup {<<"issue", call[c].token>> :
                  c \in {d \in Calls : call[d].step \in {"issued", "retract"}}}
         \cup {<<"revoke", call[c].token>> :
                  c \in {d \in Calls : call[d].step = "revoked"}}
    /\ call' = [c \in Calls |-> IdleCall]
    /\ ownerLock' = [o \in Owners |-> None]
    /\ UNCHANGED <<row, audit, warned, returned>>

-----------------------------------------------------------------------------
\* No owner ever holds more live keys than MaxLiveTokensPerOwner, however
\* many Issue calls count them at the same time (Repo.Create).
TokenLimitKept ==
    \A o \in Owners : Cardinality(Live(o)) <= MaxLiveTokensPerOwner

\* "An unrecorded security event is not allowed to stand" (Service.Issue): a
\* live key, and a revoked one, is in the audit log, or its call is not over
\* yet, or the operator was told, or the call was cut in two from outside.
\* A key that can be presented is always in the log.
IssuedIsRecorded ==
    \A t \in TokenIds :
        /\ t \in returned => <<"issue", t>> \in audit
        /\ Active(t) /\ <<"issue", t>> \notin audit =>
              \/ <<"issue", t>> \in warned \cup severed
              \/ \E c \in Calls : /\ call[c].token = t
                                  /\ call[c].step \in {"issued", "retract"}
        /\ row[t].revoked /\ t \in returned /\ <<"revoke", t>> \notin audit =>
              \/ <<"revoke", t>> \in warned \cup severed
              \/ \E c \in Calls : call[c] = [step |-> "revoked", token |-> t,
                                             owner |-> row[t].owner]
=============================================================================
