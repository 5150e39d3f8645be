----------------------------- MODULE GateProofs -----------------------------
(***************************************************************************)
(* Proofs about Gate and the keys it authenticates (Tokens): the limit on  *)
(* an owner's live keys, the record of every key, what a request was       *)
(* authenticated as, and what it is served.                                *)
(***************************************************************************)
EXTENDS Gate, FiniteSetTheorems, SequenceTheorems, TLAPS

-----------------------------------------------------------------------------
(* The calls of Issue and Revoke.                                          *)

Creating == {"lock", "count", "insert"}
Unrecorded == {"issued", "retract"}
Revoking == {"revoke", "revoked"}
CallSteps == {"idle"} \cup Creating \cup Unrecorded \cup Revoking

CallRec == [step : CallSteps, owner : Owners \cup {None},
            token : TokenIds \cup {None}]

RowRec == [owner : Owners \cup {None}, revoked : BOOLEAN]

(***************************************************************************)
(* What each call knows: the key it issues is its own and not stored until *)
(* its insert, the key it has stored or revokes is stored under its owner, *)
(* no key it has not recorded was returned, and between its count and its  *)
(* commit it holds the lock of the owner's row.                            *)
(***************************************************************************)
CallOK(c) ==
    /\ call[c].step # "idle" =>
          call[c].owner \in Owners /\ call[c].token \in TokenIds
    /\ call[c].step \in Creating => row[call[c].token].owner = None
    /\ call[c].step \in Unrecorded \cup Revoking =>
          row[call[c].token].owner = call[c].owner
    /\ call[c].step \in Creating \cup Unrecorded =>
          /\ call[c].token \notin returned
          /\ \A d \in Calls \ {c} :
                call[d].step \in Creating \cup Unrecorded =>
                    call[d].token # call[c].token
    /\ call[c].step \in {"count", "insert"} => ownerLock[call[c].owner] = c

CallInv == \A c \in Calls : CallOK(c)

\* The live keys of an owner among the rows of a table.
LiveIn(rows, o) ==
    {t \in TokenIds : /\ rows[t].owner = o /\ rows[t].owner # None
                      /\ ~ rows[t].revoked}

\* Nobody is over the limit, and whoever is about to insert is below it.
LimitInv ==
    /\ \A o \in Owners :
          /\ IsFiniteSet(LiveIn(row, o))
          /\ Cardinality(LiveIn(row, o)) <= MaxLiveTokensPerOwner
    /\ \A c \in Calls : call[c].step = "insert" =>
          Cardinality(LiveIn(row, call[c].owner)) < MaxLiveTokensPerOwner

IssueAccounted(t) ==
    \/ <<"issue", t>> \in warned \cup severed
    \/ \E c \in Calls : call[c].token = t /\ call[c].step \in Unrecorded

RevokeAccounted(t) ==
    \/ <<"revoke", t>> \in warned \cup severed
    \/ \E c \in Calls : call[c] = [step |-> "revoked", token |-> t,
                                   owner |-> row[t].owner]

\* IssuedIsRecorded, with the keys whose issue may still return them: a key
\* revoked before it was returned is accounted for as well.
RecordOK(t) ==
    /\ t \in returned => <<"issue", t>> \in audit /\ row[t].owner # None
    /\ /\ row[t].owner # None /\ ~ row[t].revoked
       /\ <<"issue", t>> \notin audit
       => IssueAccounted(t)
    /\ row[t].revoked => row[t].owner # None
    /\ /\ row[t].revoked
       /\ <<"revoke", t>> \notin audit
       /\ \/ t \in returned
          \/ \E c \in Calls : call[c].token = t /\ call[c].step = "issued"
       => RevokeAccounted(t)

RecordInv == \A t \in TokenIds : RecordOK(t)

LEMMA TokensTypes ==
    ASSUME TokensTypeOK
    PROVE  /\ row \in [TokenIds -> RowRec] /\ call \in [Calls -> CallRec]
           /\ \A c \in Calls : /\ call[c].step \in CallSteps
                               /\ call[c].owner \in Owners \cup {None}
                               /\ call[c].token \in TokenIds \cup {None}
           /\ \A t \in TokenIds : /\ row[t].owner \in Owners \cup {None}
                                  /\ row[t].revoked \in BOOLEAN
BY DEF TokensTypeOK, RowRec, CallRec, CallSteps, Creating, Unrecorded, Revoking

LEMMA IdleCallTyped == IdleCall \in CallRec /\ IdleCall.step = "idle"
BY DEF IdleCall, CallRec, CallSteps

\* The call that takes a step is the only one that changes.
LEMMA GoSets ==
    ASSUME TokensTypeOK, NEW c \in Calls, NEW step \in CallSteps, Go(c, step)
    PROVE  /\ call' \in [Calls -> CallRec]
           /\ call'[c].step = step /\ call'[c].owner = call[c].owner
           /\ call'[c].token = call[c].token
           /\ \A d \in Calls \ {c} : call'[d] = call[d]
<1>1. call \in [Calls -> CallRec]
  BY TokensTypes
<1> QED BY <1>1 DEF Go, CallRec

LEMMA DoneSets ==
    ASSUME TokensTypeOK, NEW c \in Calls, Done(c)
    PROVE  /\ call' \in [Calls -> CallRec]
           /\ call'[c].step = "idle"
           /\ \A d \in Calls \ {c} : call'[d] = call[d]
<1>1. call \in [Calls -> CallRec]
  BY TokensTypes
<1> QED BY <1>1, IdleCallTyped DEF Done

\* The two changes of a row.
LEMMA InsertedSets ==
    ASSUME TokensTypeOK, NEW c \in Calls, row' = Inserted(c),
           call[c].owner \in Owners, call[c].token \in TokenIds
    PROVE  /\ row' \in [TokenIds -> RowRec]
           /\ row'[call[c].token].owner = call[c].owner
           /\ row'[call[c].token].revoked = FALSE
           /\ \A t \in TokenIds \ {call[c].token} : row'[t] = row[t]
<1>1. row \in [TokenIds -> RowRec]
  BY TokensTypes
<1> QED BY <1>1 DEF Inserted, RowRec

LEMMA RevokedSets ==
    ASSUME TokensTypeOK, NEW c \in Calls, row' = Revoked(c),
           call[c].token \in TokenIds
    PROVE  /\ row' \in [TokenIds -> RowRec]
           /\ row'[call[c].token].owner = row[call[c].token].owner
           /\ row'[call[c].token].revoked = TRUE
           /\ \A t \in TokenIds \ {call[c].token} : row'[t] = row[t]
<1>1. row \in [TokenIds -> RowRec]
  BY TokensTypes
<1> QED BY <1>1 DEF Revoked, RowRec

LEMMA UnlockedSets ==
    ASSUME TokensTypeOK, NEW c \in Calls
    PROVE  /\ Unlocked(c) \in [Owners -> Calls \cup {None}]
           /\ \A o \in Owners, d \in Calls \ {c} :
                 ownerLock[o] = d => Unlocked(c)[o] = d
BY DEF TokensTypeOK, Unlocked

-----------------------------------------------------------------------------
(* The limit.                                                              *)

LEMMA LimitMeansKept == LimitInv => TokenLimitKept
<1>1. \A o : Live(o) = LiveIn(row, o)
  BY DEF Live, LiveIn, Active, Exists
<1> QED BY <1>1 DEF LimitInv, TokenLimitKept

\* Fewer live keys, and no call that newly is about to insert.
LEMMA LimitShrinks ==
    ASSUME LimitInv,
           \A o \in Owners : LiveIn(row', o) \subseteq LiveIn(row, o),
           \A c \in Calls : call'[c].step = "insert" =>
               /\ call[c].step = "insert" /\ call'[c].owner = call[c].owner
               /\ call[c].owner \in Owners
    PROVE  LimitInv'
<1>1. ASSUME NEW o \in Owners
      PROVE  /\ IsFiniteSet(LiveIn(row', o))
             /\ Cardinality(LiveIn(row', o)) \in Nat
             /\ Cardinality(LiveIn(row', o)) <= Cardinality(LiveIn(row, o))
             /\ Cardinality(LiveIn(row, o)) \in Nat
  <2>1. IsFiniteSet(LiveIn(row, o)) /\ LiveIn(row', o) \subseteq LiveIn(row, o)
    BY DEF LimitInv
  <2> QED BY <2>1, FS_Subset, FS_CardinalityType
<1>2. MaxLiveTokensPerOwner \in Nat
  BY TokensAssumption
<1>3. ASSUME NEW o \in Owners
      PROVE  /\ IsFiniteSet(LiveIn(row', o))
             /\ Cardinality(LiveIn(row', o)) <= MaxLiveTokensPerOwner
  BY <1>1, <1>2 DEF LimitInv
<1>4. ASSUME NEW c \in Calls, call'[c].step = "insert"
      PROVE  Cardinality(LiveIn(row', call'[c].owner)) < MaxLiveTokensPerOwner
  <2>1. /\ call'[c].owner = call[c].owner /\ call[c].owner \in Owners
        /\ Cardinality(LiveIn(row, call[c].owner)) < MaxLiveTokensPerOwner
    BY <1>4 DEF LimitInv
  <2> QED BY <1>1, <1>2, <2>1
<1> QED BY <1>3, <1>4 DEF LimitInv

\* A row inserted by the holder of the owner's lock, below the limit.
LEMMA LimitInserts ==
    ASSUME TokensTypeOK, CallInv, LimitInv, NEW c \in Calls,
           call[c].step = "insert", row' = Inserted(c),
           call'[c].step # "insert",
           \A d \in Calls \ {c} : call'[d] = call[d]
    PROVE  LimitInv'
<1> DEFINE o == call[c].owner
           t == call[c].token
           n == MaxLiveTokensPerOwner
<1>1. o \in Owners /\ t \in TokenIds /\ n \in Nat
  BY TokensAssumption DEF CallInv, CallOK
<1>2. /\ row'[t].owner = o /\ row'[t].revoked = FALSE
      /\ \A u \in TokenIds \ {t} : row'[u] = row[u]
  BY <1>1, InsertedSets
<1>3. LiveIn(row', o) \subseteq LiveIn(row, o) \cup {t}
  BY <1>2 DEF LiveIn
<1>4. ASSUME NEW p \in Owners \ {o}
      PROVE  LiveIn(row', p) \subseteq LiveIn(row, p)
  BY <1>2 DEF LiveIn
<1>5. IsFiniteSet(LiveIn(row, o)) /\ Cardinality(LiveIn(row, o)) < n
  BY <1>1 DEF LimitInv
<1> HIDE DEF o, t, n
<1>6. IsFiniteSet(LiveIn(row', o)) /\ Cardinality(LiveIn(row', o)) <= n
  <2>1. /\ IsFiniteSet(LiveIn(row, o) \cup {t})
        /\ Cardinality(LiveIn(row, o) \cup {t}) \in Nat
        /\ Cardinality(LiveIn(row, o) \cup {t}) <= Cardinality(LiveIn(row, o)) + 1
        /\ Cardinality(LiveIn(row, o)) \in Nat
    <3>1. /\ IsFiniteSet(LiveIn(row, o) \cup {t})
          /\ Cardinality(LiveIn(row, o) \cup {t})
             = IF t \in LiveIn(row, o) THEN Cardinality(LiveIn(row, o))
               ELSE Cardinality(LiveIn(row, o)) + 1
      BY <1>5, FS_AddElement
    <3>2. Cardinality(LiveIn(row, o)) \in Nat
      BY <1>5, FS_CardinalityType
    <3> QED BY <3>1, <3>2
  <2>2. /\ IsFiniteSet(LiveIn(row', o)) /\ Cardinality(LiveIn(row', o)) \in Nat
        /\ Cardinality(LiveIn(row', o)) <= Cardinality(LiveIn(row, o) \cup {t})
    BY <1>3, <2>1, FS_Subset, FS_CardinalityType
  <2> QED BY <1>1, <1>5, <2>1, <2>2
<1>7. ASSUME NEW p \in Owners \ {o}
      PROVE  /\ IsFiniteSet(LiveIn(row', p)) /\ Cardinality(LiveIn(row', p)) \in Nat
             /\ Cardinality(LiveIn(row', p)) <= Cardinality(LiveIn(row, p))
             /\ Cardinality(LiveIn(row, p)) \in Nat
  <2>1. IsFiniteSet(LiveIn(row, p))
    BY DEF LimitInv
  <2> QED BY <1>4, <2>1, FS_Subset, FS_CardinalityType
<1>8. ASSUME NEW p \in Owners
      PROVE  IsFiniteSet(LiveIn(row', p)) /\ Cardinality(LiveIn(row', p)) <= n
  BY <1>1, <1>6, <1>7 DEF LimitInv, n
<1>9. ASSUME NEW d \in Calls, call'[d].step = "insert"
      PROVE  Cardinality(LiveIn(row', call'[d].owner)) < n
  <2>1. d # c /\ call'[d] = call[d] /\ call[d].step = "insert"
    BY <1>9
  <2>2. call[d].owner \in Owners /\ call[d].owner # o
    BY <2>1 DEF CallInv, CallOK, o
  <2>3. Cardinality(LiveIn(row, call[d].owner)) < n
    BY <2>1 DEF LimitInv, n
  <2> QED BY <1>1, <1>7, <2>1, <2>2, <2>3
<1> QED BY <1>8, <1>9 DEF LimitInv, n

-----------------------------------------------------------------------------
(* What the calls know, and what is recorded.                              *)

LEMMA RecordMeansRecorded == RecordInv => IssuedIsRecorded
BY DEF RecordInv, RecordOK, IssuedIsRecorded, IssueAccounted, RevokeAccounted,
       Active, Exists, Unrecorded

\* The other calls keep what they know.
LEMMA OtherCalls ==
    ASSUME CallInv, NEW c \in Calls,
           \A d \in Calls \ {c} : call'[d] = call[d],
           \A d \in Calls \ {c} : call[d].step # "idle" =>
               row'[call[d].token].owner = row[call[d].token].owner,
           \A d \in Calls \ {c} : call[d].step \in Creating \cup Unrecorded =>
               call[d].token \notin returned',
           \A o \in Owners, d \in Calls \ {c} :
               ownerLock[o] = d => ownerLock'[o] = d,
           CallOK(c)'
    PROVE  CallInv'
<1> SUFFICES ASSUME NEW d \in Calls \ {c} PROVE CallOK(d)'
  BY DEF CallInv
<1>1. CallOK(d) /\ call'[d] = call[d]
  BY DEF CallInv
<1>2. call[d].step \in Creating \cup Unrecorded =>
         \A e \in Calls \ {d} :
            call'[e].step \in Creating \cup Unrecorded =>
                call'[e].token # call[d].token
  <2> SUFFICES ASSUME call[d].step \in Creating \cup Unrecorded,
                      NEW e \in Calls \ {d},
                      call'[e].step \in Creating \cup Unrecorded
               PROVE  call'[e].token # call[d].token
    OBVIOUS
  <2>1. CASE e = c
    BY <1>1, <2>1 DEF CallOK
  <2>2. CASE e # c
    BY <1>1, <2>2 DEF CallOK
  <2> QED BY <2>1, <2>2
<1>3. call[d].step # "idle" => row'[call[d].token].owner = row[call[d].token].owner
  OBVIOUS
<1>4. call[d].step \in {"count", "insert"} =>
         call[d].owner \in Owners /\ ownerLock'[call[d].owner] = d
  BY <1>1 DEF CallOK
<1> QED BY <1>1, <1>2, <1>3, <1>4 DEF CallOK, Creating, Unrecorded, Revoking

\* What is recorded of a key that a step does not touch.
LEMMA OtherKeys ==
    ASSUME NEW t \in TokenIds, RecordOK(t), row'[t] = row[t],
           \A a \in {"issue", "revoke"} : <<a, t>> \in audit <=> <<a, t>> \in audit',
           warned \subseteq warned', severed \subseteq severed',
           t \in returned <=> t \in returned',
           \A d \in Calls : call[d].token = t /\ call[d].step # "idle" =>
               call'[d] = call[d],
           \A d \in Calls : call'[d].token = t /\ call'[d].step # "idle" =>
               call'[d] = call[d]
    PROVE  RecordOK(t)'
<1>1. IssueAccounted(t) => IssueAccounted(t)'
  BY DEF IssueAccounted, Unrecorded
<1>2. RevokeAccounted(t) => RevokeAccounted(t)'
  <2> SUFFICES ASSUME NEW c \in Calls,
                      call[c] = [step |-> "revoked", token |-> t,
                                 owner |-> row[t].owner]
               PROVE  call'[c] = [step |-> "revoked", token |-> t,
                                  owner |-> row'[t].owner]
    BY DEF RevokeAccounted
  <2>1. call[c].token = t /\ call[c].step # "idle"
    OBVIOUS
  <2> QED BY <2>1
<1>3. ASSUME NEW c \in Calls, call'[c].token = t, call'[c].step = "issued"
      PROVE  call[c].token = t /\ call[c].step = "issued"
  BY <1>3
<1> QED BY <1>1, <1>2, <1>3 DEF RecordOK

-----------------------------------------------------------------------------
(* The steps of a call.                                                   *)

TokensInv == TokensTypeOK /\ CallInv /\ LimitInv /\ RecordInv

\* A stored key keeps its owner, and a revoked one stays revoked.
RowsKept ==
    \A t \in TokenIds : row[t].owner # None =>
        /\ row'[t].owner = row[t].owner
        /\ row[t].revoked => row'[t].revoked

LEMMA LiveShrinks ==
    ASSUME \A t \in TokenIds :
               row'[t] = row[t] \/ row'[t].revoked = TRUE
    PROVE  \A o \in Owners : LiveIn(row', o) \subseteq LiveIn(row, o)
BY DEF LiveIn

\* A call begins: a fresh key is drawn, or a stored one is to be revoked.
LEMMA CallBegins ==
    ASSUME TokensInv, NEW c \in Calls, NEW o \in Owners, NEW t \in TokenIds,
           NEW step \in {"lock", "revoke"}, call[c].step = "idle",
           call' = [call EXCEPT ![c] = [step |-> step, owner |-> o, token |-> t]],
           step = "lock" => /\ row[t].owner = None
                            /\ \A d \in Calls : call[d].token # t,
           step = "revoke" => row[t].owner = o,
           UNCHANGED <<row, ownerLock, audit, warned, returned, severed, events>>
    PROVE  TokensInv' /\ RowsKept
<1>0. TokensTypeOK /\ CallInv /\ LimitInv /\ RecordInv
  BY DEF TokensInv
<1>1. /\ call' \in [Calls -> CallRec]
      /\ call'[c].step = step /\ call'[c].owner = o /\ call'[c].token = t
      /\ \A d \in Calls \ {c} : call'[d] = call[d]
  <2>1. call \in [Calls -> CallRec]
    BY <1>0, TokensTypes
  <2>2. [step |-> step, owner |-> o, token |-> t] \in CallRec
    BY DEF CallRec, CallSteps, Creating, Revoking
  <2> QED BY <2>1, <2>2
<1>2. TokensTypeOK'
  BY <1>0, <1>1
     DEF TokensTypeOK, CallRec, CallSteps, Creating, Unrecorded, Revoking
<1>3. t \in returned => row[t].owner # None
  BY <1>0 DEF RecordInv, RecordOK
<1>4. CallInv'
  <2>1. CallOK(c)'
    BY <1>0, <1>1, <1>3 DEF CallOK, Creating, Unrecorded, Revoking
  <2>2. \A d \in Calls \ {c} : call[d].step \in Creating \cup Unrecorded =>
           call[d].token \notin returned'
    BY <1>0 DEF CallInv, CallOK
  <2> QED BY <1>0, <1>1, <2>1, <2>2, OtherCalls
<1>5. LimitInv'
  <2>1. \A d \in Calls : call'[d].step = "insert" =>
           /\ call[d].step = "insert" /\ call'[d].owner = call[d].owner
           /\ call[d].owner \in Owners
    BY <1>0, <1>1 DEF CallInv, CallOK
  <2>2. \A p \in Owners : LiveIn(row', p) \subseteq LiveIn(row, p)
    OBVIOUS
  <2> QED BY <1>0, <2>1, <2>2, LimitShrinks
<1>6. ASSUME NEW u \in TokenIds PROVE RecordOK(u)'
  <2>0. RecordOK(u)
    BY <1>0 DEF RecordInv
  <2>1. IssueAccounted(u) => IssueAccounted(u)'
    BY <1>1 DEF IssueAccounted, Unrecorded
  <2>2. RevokeAccounted(u) => RevokeAccounted(u)'
    <3> SUFFICES ASSUME NEW d \in Calls,
                        call[d] = [step |-> "revoked", token |-> u,
                                   owner |-> row[u].owner]
                 PROVE  call'[d] = call[d]
      BY DEF RevokeAccounted
    <3>1. call[d].step # "idle"
      OBVIOUS
    <3> QED BY <1>1, <3>1
  <2>3. ASSUME NEW d \in Calls, call'[d].token = u, call'[d].step = "issued"
        PROVE  call[d].token = u /\ call[d].step = "issued"
    BY <1>1, <2>3
  <2> QED BY <2>0, <2>1, <2>2, <2>3 DEF RecordOK
<1> QED BY <1>2, <1>4, <1>5, <1>6 DEF RecordInv, TokensInv, RowsKept

\* What a step of a call that is under way may touch: its own record, the
\* row and the entries of its own key, and the locks it holds.
Touches(c, t) ==
    /\ call' \in [Calls -> CallRec]
    /\ \A d \in Calls \ {c} : call'[d] = call[d]
    /\ call'[c].step # "idle" => call'[c].token = t
    /\ row' \in [TokenIds -> RowRec]
    /\ \A u \in TokenIds \ {t} : row'[u] = row[u]
    /\ row[t].owner # None => /\ row'[t].owner = row[t].owner
                              /\ row[t].revoked => row'[t].revoked
    /\ row[t].owner = None => row'[t] = row[t] \/ call[c].step = "insert"
    /\ ownerLock' \in [Owners -> Calls \cup {None}]
    /\ \A o \in Owners, d \in Calls \ {c} : ownerLock[o] = d => ownerLock'[o] = d
    /\ audit \subseteq audit'
    /\ audit' \subseteq audit \cup ({"issue", "revoke"} \X {t})
    /\ warned \subseteq warned'
    /\ warned' \subseteq warned \cup ({"issue", "revoke"} \X {t})
    /\ severed \subseteq severed'
    /\ severed' \subseteq severed \cup ({"issue", "revoke"} \X {t})
    /\ returned' = returned \/ (returned' = returned \cup {t} /\ call[c].step = "issued")
    /\ events' \in 0..MaxEvents

\* Such a step keeps the invariant when it keeps it for its call and its key.
LEMMA CallMoves ==
    ASSUME TokensInv, NEW c \in Calls, NEW t \in TokenIds,
           call[c].token = t, call[c].step # "idle",
           Touches(c, t), CallOK(c)', LimitInv', RecordOK(t)'
    PROVE  TokensInv' /\ RowsKept
<1>0. TokensTypeOK /\ CallInv /\ LimitInv /\ RecordInv
  BY DEF TokensInv
<1>1. TokensTypeOK'
  BY <1>0 DEF TokensTypeOK, Touches, CallRec, CallSteps, Creating, Unrecorded,
              Revoking, RowRec
<1>2. ASSUME NEW d \in Calls \ {c}, call[d].step # "idle"
      PROVE  /\ row'[call[d].token].owner = row[call[d].token].owner
             /\ call[d].step \in Creating \cup Unrecorded =>
                   call[d].token \notin returned'
  <2>1. CallOK(c) /\ CallOK(d) /\ call[d].step \in CallSteps
    BY <1>0, TokensTypes DEF CallInv
  <2>2. CASE call[d].token # t
    BY <1>2, <2>1, <2>2 DEF CallOK, Touches
  <2>3. CASE call[d].token = t
    <3>1. call[c].step # "insert" \/ call[d].step \in Revoking \cup Unrecorded
      BY <1>2, <2>1, <2>3 DEF CallOK, CallSteps, Creating
    <3>2. row'[t].owner = row[t].owner
      <4>1. CASE row[t].owner = None
        <5>1. call[d].step \notin Revoking \cup Unrecorded
          BY <1>2, <2>1, <2>3, <4>1, TokensAssumption DEF CallOK
        <5> QED BY <3>1, <4>1, <5>1 DEF Touches
      <4> QED BY <4>1 DEF Touches
    <3>3. call[d].step \in Creating \cup Unrecorded => returned' = returned
      BY <2>1, <2>3 DEF CallOK, Touches, Unrecorded
    <3> QED BY <2>1, <2>3, <3>2, <3>3 DEF CallOK
  <2> QED BY <2>2, <2>3
<1>3. CallInv'
  <2>1. \A d \in Calls \ {c} : call[d].step \in Creating \cup Unrecorded =>
           call[d].step # "idle"
    BY DEF Creating, Unrecorded
  <2> QED BY <1>0, <1>2, <2>1, OtherCalls DEF Touches
<1>4. ASSUME NEW u \in TokenIds \ {t} PROVE RecordOK(u)'
  <2>1. RecordOK(u) /\ row'[u] = row[u]
    BY <1>0 DEF RecordInv, Touches
  <2>2. \A a \in {"issue", "revoke"} : <<a, u>> \in audit <=> <<a, u>> \in audit'
    BY DEF Touches
  <2>3. /\ warned \subseteq warned' /\ severed \subseteq severed'
        /\ u \in returned <=> u \in returned'
    BY DEF Touches
  <2>4. \A d \in Calls : call[d].token = u /\ call[d].step # "idle" =>
           call'[d] = call[d]
    BY DEF Touches
  <2>5. \A d \in Calls : call'[d].token = u /\ call'[d].step # "idle" =>
           call'[d] = call[d]
    BY DEF Touches
  <2> QED BY <2>1, <2>2, <2>3, <2>4, <2>5, OtherKeys
<1>5. RowsKept
  BY DEF RowsKept, Touches
<1> QED BY <1>1, <1>3, <1>4, <1>5 DEF RecordInv, TokensInv

\* The limit, in a step that makes no key live and lets no call insert.
LEMMA LimitStays ==
    ASSUME TokensInv, NEW c \in Calls, NEW t \in TokenIds, Touches(c, t),
           row'[t] = row[t] \/ row'[t].revoked = TRUE,
           call'[c].step # "insert"
    PROVE  LimitInv'
<1>1. LimitInv /\ CallInv
  BY DEF TokensInv
<1>2. \A u \in TokenIds : row'[u] = row[u] \/ row'[u].revoked = TRUE
  BY DEF Touches
<1>3. \A d \in Calls : call'[d].step = "insert" =>
         /\ call[d].step = "insert" /\ call'[d].owner = call[d].owner
         /\ call[d].owner \in Owners
  BY <1>1 DEF Touches, CallInv, CallOK
<1> QED BY <1>1, <1>2, <1>3, LiveShrinks, LimitShrinks

\* What is accounted for by another call stays so.
LEMMA AccountStays ==
    ASSUME NEW c \in Calls, NEW t \in TokenIds, Touches(c, t),
           row'[t].owner = row[t].owner
    PROVE  /\ IssueAccounted(t) /\ call[c].step \notin Unrecorded
              => IssueAccounted(t)'
           /\ RevokeAccounted(t) /\ call[c].step # "revoked"
              => RevokeAccounted(t)'
<1>1. ASSUME IssueAccounted(t), call[c].step \notin Unrecorded
      PROVE  IssueAccounted(t)'
  BY <1>1 DEF IssueAccounted, Touches
<1>2. ASSUME RevokeAccounted(t), call[c].step # "revoked"
      PROVE  RevokeAccounted(t)'
  <2>1. CASE <<"revoke", t>> \in warned \cup severed
    BY <2>1 DEF RevokeAccounted, Touches
  <2>2. CASE \E d \in Calls : call[d] = [step |-> "revoked", token |-> t,
                                         owner |-> row[t].owner]
    <3>1. PICK d \in Calls : call[d] = [step |-> "revoked", token |-> t,
                                        owner |-> row[t].owner]
      BY <2>2
    <3>2. call[d].step = "revoked"
      BY <3>1
    <3>3. call'[d] = call[d]
      BY <1>2, <3>2 DEF Touches
    <3> QED BY <3>1, <3>3 DEF RevokeAccounted
  <2> QED BY <1>2, <2>1, <2>2 DEF RevokeAccounted
<1> QED BY <1>1, <1>2

\* What a call that is under way knows of its key.
LEMMA CallKnows ==
    ASSUME TokensInv, NEW c \in Calls, call[c].step # "idle"
    PROVE  /\ TokensTypeOK /\ CallInv /\ LimitInv /\ CallOK(c)
           /\ call[c].owner \in Owners /\ call[c].token \in TokenIds
           /\ RecordOK(call[c].token)
           /\ call[c].step \in CallSteps /\ None \notin Owners
           /\ ownerLock \in [Owners -> Calls \cup {None}]
           /\ events \in 0..MaxEvents /\ MaxEvents \in Nat
           /\ row \in [TokenIds -> RowRec]
BY TokensTypes, TokensAssumption
   DEF TokensInv, TokensTypeOK, CallInv, CallOK, RecordInv

-----------------------------------------------------------------------------
(* Issue, step by step.                                                    *)

\* A key that is not stored owes no record.
LEMMA UnstoredOwesNothing ==
    ASSUME NEW t \in TokenIds, row'[t].owner = None, row'[t].revoked = FALSE,
           t \notin returned'
    PROVE  RecordOK(t)'
BY DEF RecordOK

\* Create up to the insert: the row is as it was.
LEMMA CreateMoves ==
    ASSUME TokensInv, NEW c \in Calls, call[c].step \in Creating,
           UNCHANGED <<row, audit, warned, returned, severed>>,
           events' \in 0..MaxEvents,
           ownerLock' \in [Owners -> Calls \cup {None}],
           \A o \in Owners, d \in Calls \ {c} : ownerLock[o] = d => ownerLock'[o] = d,
           call' \in [Calls -> CallRec],
           \A d \in Calls \ {c} : call'[d] = call[d],
           call'[c].step \in {"idle", "count", "insert"},
           call'[c].step # "idle" =>
               /\ call'[c].owner = call[c].owner /\ call'[c].token = call[c].token
               /\ ownerLock'[call[c].owner] = c,
           call'[c].step = "insert" =>
               Cardinality(LiveIn(row, call[c].owner)) < MaxLiveTokensPerOwner
    PROVE  TokensInv' /\ RowsKept
<1>0. call[c].step # "idle"
  BY DEF Creating
<1>t. PICK t \in TokenIds : t = call[c].token
  BY <1>0, CallKnows
<1>1. /\ TokensTypeOK /\ CallInv /\ LimitInv /\ CallOK(c)
      /\ call[c].owner \in Owners /\ t \in TokenIds /\ RecordOK(t)
      /\ row \in [TokenIds -> RowRec]
  BY <1>t, <1>0, CallKnows
<1>2. row[t].owner = None /\ row[t].revoked = FALSE /\ t \notin returned
  BY <1>t, <1>1 DEF CallOK, RecordOK, RowRec
<1>3. RecordOK(t)'
  BY <1>t, <1>1, <1>2, UnstoredOwesNothing
<1>4. Touches(c, t)
  BY <1>t, <1>1, <1>2 DEF Touches
<1>5. CallOK(c)'
  BY <1>t, <1>1, <1>2 DEF CallOK, Creating, Unrecorded, Revoking
<1>6. LimitInv'
  <2>1. ASSUME NEW d \in Calls, call'[d].step = "insert"
        PROVE  Cardinality(LiveIn(row, call'[d].owner)) < MaxLiveTokensPerOwner
    BY <1>t, <1>1, <2>1 DEF LimitInv
  <2> QED BY <1>t, <1>1, <2>1 DEF LimitInv
<1> QED BY <1>t, <1>0, <1>1, <1>3, <1>4, <1>5, <1>6, CallMoves

LEMMA LockOwnerKeeps ==
    ASSUME TokensInv, NEW c \in Calls, LockOwner(c)
    PROVE  TokensInv' /\ RowsKept
<1>1. call[c].step = "lock" /\ call[c].step # "idle"
  BY DEF LockOwner
<1>2. /\ TokensTypeOK /\ call[c].owner \in Owners
      /\ ownerLock \in [Owners -> Calls \cup {None}] /\ events \in 0..MaxEvents
  BY <1>1, CallKnows
<1>3. /\ call' \in [Calls -> CallRec]
      /\ call'[c].step = "count" /\ call'[c].owner = call[c].owner
      /\ call'[c].token = call[c].token
      /\ \A d \in Calls \ {c} : call'[d] = call[d]
  <2>1. "count" \in CallSteps
    BY DEF CallSteps, Creating
  <2> QED BY <1>2, <2>1, GoSets DEF LockOwner
<1>4. /\ ownerLock' \in [Owners -> Calls \cup {None}]
      /\ ownerLock'[call[c].owner] = c
      /\ \A o \in Owners, d \in Calls \ {c} : ownerLock[o] = d => ownerLock'[o] = d
  BY <1>2, TokensAssumption DEF LockOwner
<1>5. UNCHANGED <<row, audit, warned, returned, severed>> /\ events' \in 0..MaxEvents
  BY <1>2 DEF LockOwner
<1>6. call[c].step \in Creating
  BY <1>1 DEF Creating
<1> QED BY <1>3, <1>4, <1>5, <1>6, CreateMoves

LEMMA CountLiveKeeps ==
    ASSUME TokensInv, NEW c \in Calls, CountLive(c)
    PROVE  TokensInv' /\ RowsKept
<1>1. call[c].step = "count" /\ call[c].step # "idle"
  BY DEF CountLive
<1>2. /\ TokensTypeOK /\ CallOK(c) /\ LimitInv /\ call[c].owner \in Owners
      /\ ownerLock \in [Owners -> Calls \cup {None}] /\ events \in 0..MaxEvents
  BY <1>1, CallKnows
<1>3. UNCHANGED <<row, audit, warned, returned, severed>> /\ events' \in 0..MaxEvents
  BY <1>2 DEF CountLive
<1>4. call[c].step \in Creating /\ ownerLock[call[c].owner] = c
  BY <1>1, <1>2 DEF Creating, CallOK
<1>5. CASE Cardinality(Live(call[c].owner)) >= MaxLiveTokensPerOwner
  <2>1. Done(c) /\ ownerLock' = Unlocked(c)
    BY <1>5 DEF CountLive
  <2>2. /\ call' \in [Calls -> CallRec] /\ call'[c].step = "idle"
        /\ \A d \in Calls \ {c} : call'[d] = call[d]
    BY <1>2, <2>1, DoneSets
  <2>3. /\ ownerLock' \in [Owners -> Calls \cup {None}]
        /\ \A o \in Owners, d \in Calls \ {c} : ownerLock[o] = d => ownerLock'[o] = d
    BY <1>2, <2>1, UnlockedSets
  <2> QED BY <1>3, <1>4, <2>2, <2>3, CreateMoves
<1>6. CASE ~(Cardinality(Live(call[c].owner)) >= MaxLiveTokensPerOwner)
  <2>1. Go(c, "insert") /\ UNCHANGED ownerLock
    BY <1>6 DEF CountLive
  <2>2. /\ call' \in [Calls -> CallRec]
        /\ call'[c].step = "insert" /\ call'[c].owner = call[c].owner
        /\ call'[c].token = call[c].token
        /\ \A d \in Calls \ {c} : call'[d] = call[d]
    <3>1. "insert" \in CallSteps
      BY DEF CallSteps, Creating
    <3> QED BY <1>2, <2>1, <3>1, GoSets
  <2>3. Cardinality(LiveIn(row, call[c].owner)) < MaxLiveTokensPerOwner
    <3>1. Live(call[c].owner) = LiveIn(row, call[c].owner)
      BY DEF Live, LiveIn, Active, Exists
    <3>2. Cardinality(LiveIn(row, call[c].owner)) \in Nat
      BY <1>2, FS_CardinalityType DEF LimitInv
    <3> QED BY <1>6, <3>1, <3>2, TokensAssumption
  <2> QED BY <1>2, <1>3, <1>4, <2>1, <2>2, <2>3, CreateMoves
<1> QED BY <1>5, <1>6

\* The row is inserted: the call goes on to record it, or is cut off.
LEMMA InsertMoves ==
    ASSUME TokensInv, NEW c \in Calls, call[c].step = "insert",
           row' = Inserted(c), ownerLock' = Unlocked(c),
           UNCHANGED <<audit, warned, returned>>, events' \in 0..MaxEvents,
           \/ Go(c, "issued") /\ severed' = severed
           \/ Done(c) /\ severed' = severed \cup {<<"issue", call[c].token>>}
    PROVE  TokensInv' /\ RowsKept
<1>0. call[c].step # "idle" /\ call[c].step \in Creating
  BY DEF Creating
<1>t. PICK t \in TokenIds : t = call[c].token
  BY <1>0, CallKnows
<1>1. /\ TokensTypeOK /\ CallInv /\ LimitInv /\ CallOK(c)
      /\ call[c].owner \in Owners /\ t \in TokenIds /\ RecordOK(t)
      /\ None \notin Owners
  BY <1>t, <1>0, CallKnows
<1>2. row[t].owner = None /\ t \notin returned
  BY <1>t, <1>0, <1>1 DEF CallOK
<1>3. /\ call' \in [Calls -> CallRec]
      /\ call'[c].step = "idle"
         \/ /\ call'[c].step = "issued"
            /\ call'[c].owner = call[c].owner /\ call'[c].token = t
      /\ \A d \in Calls \ {c} : call'[d] = call[d]
  <2>1. "issued" \in CallSteps
    BY DEF CallSteps, Unrecorded
  <2> QED BY <1>t, <1>1, <2>1, GoSets, DoneSets
<1>4. /\ row' \in [TokenIds -> RowRec]
      /\ row'[t].owner = call[c].owner /\ row'[t].revoked = FALSE
      /\ \A u \in TokenIds \ {t} : row'[u] = row[u]
  BY <1>t, <1>1, InsertedSets
<1>5. Touches(c, t)
  <2>1. severed \subseteq severed' /\ severed' \subseteq severed \cup ({"issue", "revoke"} \X {t})
    BY <1>t
  <2> QED BY <1>t, <1>1, <1>2, <1>3, <1>4, <2>1, UnlockedSets DEF Touches
<1>6. CallOK(c)'
  BY <1>t, <1>0, <1>1, <1>2, <1>3, <1>4 DEF CallOK, Creating, Unrecorded, Revoking
<1>7. LimitInv'
  BY <1>t, <1>1, <1>3, LimitInserts
<1>8. RecordOK(t)'
  <2>1. IssueAccounted(t)'
    <3>1. CASE Go(c, "issued")
      <4>1. "issued" \in CallSteps
        BY DEF CallSteps, Unrecorded
      <4>2. call'[c].step = "issued" /\ call'[c].token = t
        BY <1>t, <1>1, <3>1, <4>1, GoSets
      <4> QED BY <4>2 DEF IssueAccounted, Unrecorded
    <3>2. CASE severed' = severed \cup {<<"issue", call[c].token>>}
      BY <1>t, <3>2 DEF IssueAccounted
    <3> QED BY <3>1, <3>2
  <2> QED BY <1>t, <1>1, <1>2, <1>4, <2>1 DEF RecordOK
<1> QED BY <1>t, <1>0, <1>1, <1>5, <1>6, <1>7, <1>8, CallMoves

LEMMA InsertTokenKeeps ==
    ASSUME TokensInv, NEW c \in Calls, InsertToken(c)
    PROVE  TokensInv' /\ RowsKept
<1>1. events \in 0..MaxEvents
  BY DEF TokensInv, TokensTypeOK
<1> QED BY <1>1, InsertMoves DEF InsertToken

LEMMA EventTyped ==
    ASSUME TokensInv, Event
    PROVE  events' \in 0..MaxEvents
BY TokensAssumption DEF TokensInv, TokensTypeOK, Event

LEMMA CreateFailsKeeps ==
    ASSUME TokensInv, NEW c \in Calls, CreateFails(c)
    PROVE  TokensInv' /\ RowsKept
<1>1. call[c].step \in Creating /\ TokensTypeOK /\ events' \in 0..MaxEvents
  BY EventTyped DEF CreateFails, Creating, TokensInv
<1>2. CASE row' = row /\ severed' = severed
  <2>1. /\ call' \in [Calls -> CallRec] /\ call'[c].step = "idle"
        /\ \A d \in Calls \ {c} : call'[d] = call[d]
    BY <1>1, DoneSets DEF CreateFails
  <2>2. /\ ownerLock' \in [Owners -> Calls \cup {None}]
        /\ \A o \in Owners, d \in Calls \ {c} : ownerLock[o] = d => ownerLock'[o] = d
    BY <1>1, UnlockedSets DEF CreateFails
  <2>3. UNCHANGED <<row, audit, warned, returned, severed>>
    BY <1>2 DEF CreateFails
  <2> QED BY <1>1, <2>1, <2>2, <2>3, CreateMoves
<1>3. CASE /\ call[c].step = "insert" /\ row' = Inserted(c)
           /\ severed' = severed \cup {<<"issue", call[c].token>>}
  BY <1>1, <1>3, InsertMoves DEF CreateFails
<1> QED BY <1>2, <1>3 DEF CreateFails

\* A step of a call whose key is stored: the row is as it was, or revoked.
Written(c, t) ==
    /\ row' = row \/ row' = Revoked(c)
    /\ ownerLock' = ownerLock
    /\ \/ Done(c)
       \/ call[c].step = "issued" /\ Go(c, "retract")
       \/ call[c].step = "revoke" /\ Go(c, "revoked")
    /\ \/ returned' = returned
       \/ returned' = returned \cup {t} /\ call[c].step = "issued" /\ Done(c)
    /\ audit \subseteq audit'
    /\ audit' \subseteq audit \cup ({"issue", "revoke"} \X {t})
    /\ warned \subseteq warned'
    /\ warned' \subseteq warned \cup ({"issue", "revoke"} \X {t})
    /\ severed \subseteq severed'
    /\ severed' \subseteq severed \cup ({"issue", "revoke"} \X {t})
    /\ events' \in 0..MaxEvents

LEMMA WrittenTouches ==
    ASSUME TokensInv, NEW c \in Calls, NEW t \in TokenIds, t = call[c].token,
           call[c].step \in Unrecorded \cup Revoking, Written(c, t)
    PROVE  /\ Touches(c, t) /\ CallOK(c)' /\ LimitInv'
           /\ row'[t].owner = row[t].owner /\ row[t].owner = call[c].owner
           /\ row[t].owner # None
           /\ row' = Revoked(c) => row'[t].revoked = TRUE
           /\ Go(c, "revoked") => call'[c] = [step |-> "revoked", token |-> t,
                                              owner |-> row'[t].owner]
<1>0. call[c].step # "idle"
  BY DEF Unrecorded, Revoking
<1>1. /\ TokensTypeOK /\ CallInv /\ LimitInv /\ CallOK(c)
      /\ call[c].owner \in Owners /\ None \notin Owners
      /\ ownerLock \in [Owners -> Calls \cup {None}]
      /\ row \in [TokenIds -> RowRec]
  BY <1>0, CallKnows
<1>2. row[t].owner = call[c].owner /\ row[t].owner # None
  BY <1>1 DEF CallOK
<1>3. /\ row' \in [TokenIds -> RowRec]
      /\ row'[t].owner = row[t].owner
      /\ row'[t] = row[t] \/ row'[t].revoked = TRUE
      /\ row' = Revoked(c) => row'[t].revoked = TRUE
      /\ \A u \in TokenIds \ {t} : row'[u] = row[u]
  BY <1>1, RevokedSets DEF Written
<1>4. /\ call' \in [Calls -> CallRec]
      /\ \/ call'[c].step = "idle"
         \/ /\ \/ call[c].step = "issued" /\ call'[c].step = "retract"
               \/ call[c].step = "revoke" /\ call'[c].step = "revoked"
            /\ call'[c].owner = call[c].owner /\ call'[c].token = t
            /\ returned' = returned
      /\ \A d \in Calls \ {c} : call'[d] = call[d]
  <2>1. "retract" \in CallSteps /\ "revoked" \in CallSteps
    BY DEF CallSteps, Unrecorded, Revoking
  <2>2. CASE Done(c)
    BY <1>1, <2>2, DoneSets
  <2>3. CASE ~Done(c)
    BY <1>1, <2>1, <2>3, GoSets DEF Written
  <2> QED BY <2>2, <2>3
<1>5. Touches(c, t)
  BY <1>1, <1>2, <1>3, <1>4 DEF Touches, Written
<1>6. CallOK(c)'
  BY <1>1, <1>2, <1>3, <1>4 DEF CallOK, Creating, Unrecorded, Revoking
<1>7. LimitInv'
  BY <1>3, <1>4, <1>5, LimitStays
<1>8. ASSUME Go(c, "revoked")
      PROVE  call'[c] = [step |-> "revoked", token |-> t, owner |-> row'[t].owner]
  <2>1. "revoked" \in CallSteps
    BY DEF CallSteps, Revoking
  <2>2. /\ call'[c].step = "revoked" /\ call'[c].token = t
        /\ call'[c].owner = row'[t].owner /\ call'[c] \in CallRec
    BY <1>1, <1>2, <1>3, <1>8, <2>1, GoSets
  <2> QED BY <2>2 DEF CallRec
<1> QED BY <1>2, <1>3, <1>5, <1>6, <1>7, <1>8

LEMMA RecordIssueKeeps ==
    ASSUME TokensInv, NEW c \in Calls, RecordIssue(c)
    PROVE  TokensInv' /\ RowsKept
<1>0. call[c].step = "issued" /\ call[c].step # "idle"
  BY DEF RecordIssue
<1>1. PICK t \in TokenIds : t = call[c].token
  BY <1>0, CallKnows
<1>2. Written(c, t)
  BY <1>0, <1>1 DEF Written, RecordIssue, TokensInv, TokensTypeOK
<1>3. /\ Touches(c, t) /\ CallOK(c)' /\ LimitInv'
      /\ row'[t].owner = row[t].owner /\ row[t].owner # None
  BY <1>0, <1>1, <1>2, WrittenTouches DEF Unrecorded
<1>4. RecordOK(t)'
  <2>1. RecordOK(t)
    BY DEF TokensInv, RecordInv
  <2>2. <<"issue", t>> \in audit' /\ row' = row
    BY <1>1 DEF RecordIssue
  <2>3. \E d \in Calls : call[d].token = t /\ call[d].step = "issued"
    BY <1>0, <1>1
  <2>4. row[t].revoked /\ <<"revoke", t>> \notin audit => RevokeAccounted(t)'
    BY <1>0, <1>3, <2>1, <2>3, AccountStays DEF RecordOK
  <2>5. audit \subseteq audit'
    BY <1>2 DEF Written
  <2> QED BY <1>3, <2>1, <2>2, <2>4, <2>5 DEF RecordOK
<1> QED BY <1>0, <1>1, <1>3, <1>4, CallMoves

\* The key of an issue that is not to be returned owes no record of a revoke.
LEMMA UnreturnedOwesNone ==
    ASSUME TokensInv, NEW c \in Calls, NEW t \in TokenIds, t = call[c].token,
           call[c].step \in Unrecorded, Touches(c, t), call'[c].step # "issued",
           returned' = returned
    PROVE  /\ t \notin returned'
           /\ ~ \E d \in Calls : call'[d].token = t /\ call'[d].step = "issued"
BY DEF TokensInv, CallInv, CallOK, Touches, Unrecorded

LEMMA RecordIssueFailsKeeps ==
    ASSUME TokensInv, NEW c \in Calls, RecordIssueFails(c)
    PROVE  TokensInv' /\ RowsKept
<1>0. /\ call[c].step = "issued" /\ call[c].step # "idle"
      /\ call[c].step \in Unrecorded
  BY DEF RecordIssueFails, Unrecorded
<1>1. PICK t \in TokenIds : t = call[c].token
  BY <1>0, CallKnows
<1>e. events' \in 0..MaxEvents
  BY DEF RecordIssueFails, TokensInv, TokensTypeOK
<1>2. Written(c, t)
  BY <1>0, <1>1, <1>e DEF Written, RecordIssueFails
<1>3. /\ Touches(c, t) /\ CallOK(c)' /\ LimitInv'
      /\ row'[t].owner = row[t].owner /\ row[t].owner # None
  BY <1>0, <1>1, <1>2, WrittenTouches
<1>4. call'[c].step = "retract" /\ call'[c].token = t
  <2>1. "retract" \in CallSteps /\ TokensTypeOK
    BY DEF CallSteps, Unrecorded, TokensInv
  <2> QED BY <1>1, <2>1, GoSets DEF RecordIssueFails
<1>5. RecordOK(t)'
  <2>1. /\ t \notin returned'
        /\ ~ \E d \in Calls : call'[d].token = t /\ call'[d].step = "issued"
    BY <1>0, <1>1, <1>3, <1>4, UnreturnedOwesNone DEF RecordIssueFails
  <2>2. IssueAccounted(t)'
    BY <1>4 DEF IssueAccounted, Unrecorded
  <2> QED BY <1>3, <2>1, <2>2 DEF RecordOK
<1> QED BY <1>0, <1>1, <1>3, <1>5, CallMoves

LEMMA RetractKeeps ==
    ASSUME TokensInv, NEW c \in Calls, Retract(c) \/ RetractFails(c)
    PROVE  TokensInv' /\ RowsKept
<1>0. /\ call[c].step = "retract" /\ call[c].step # "idle"
      /\ call[c].step \in Unrecorded /\ Done(c) /\ returned' = returned
  BY DEF Retract, RetractFails, Unrecorded
<1>1. PICK t \in TokenIds : t = call[c].token
  BY <1>0, CallKnows
<1>e. events' \in 0..MaxEvents
  <2>1. CASE Retract(c)
    BY <2>1 DEF Retract, TokensInv, TokensTypeOK
  <2>2. CASE RetractFails(c)
    BY <2>2, EventTyped DEF RetractFails
  <2> QED BY <2>1, <2>2
<1>2. Written(c, t)
  <2>1. CASE Retract(c)
    BY <1>0, <1>1, <1>e, <2>1 DEF Written, Retract
  <2>2. CASE RetractFails(c)
    BY <1>0, <1>1, <1>e, <2>2 DEF Written, RetractFails
  <2> QED BY <2>1, <2>2
<1>3. /\ Touches(c, t) /\ CallOK(c)' /\ LimitInv'
      /\ row'[t].owner = row[t].owner /\ row[t].owner # None
      /\ row' = Revoked(c) => row'[t].revoked = TRUE
  BY <1>0, <1>1, <1>2, WrittenTouches
<1>4. call'[c].step = "idle"
  BY <1>0, DoneSets DEF TokensInv
<1>5. RecordOK(t)'
  <2>1. /\ t \notin returned'
        /\ ~ \E d \in Calls : call'[d].token = t /\ call'[d].step = "issued"
    BY <1>0, <1>1, <1>3, <1>4, UnreturnedOwesNone
  <2>2. row'[t].revoked = TRUE \/ <<"issue", t>> \in warned'
    BY <1>1, <1>3 DEF Retract, RetractFails
  <2>3. row'[t].revoked = TRUE \/ IssueAccounted(t)'
    BY <2>2 DEF IssueAccounted
  <2> QED BY <1>3, <2>1, <2>3 DEF RecordOK
<1> QED BY <1>0, <1>1, <1>3, <1>5, CallMoves

-----------------------------------------------------------------------------
(* Revoke, step by step.                                                   *)

\* The issue of a key that is revoked stays accounted for.
LEMMA RevokeOwes ==
    ASSUME TokensInv, NEW c \in Calls, NEW t \in TokenIds, t = call[c].token,
           call[c].step \in Revoking, Touches(c, t), returned' = returned,
           row[t].owner # None,
           row'[t].revoked = row[t].revoked \/ row'[t].revoked = TRUE,
           call'[c].step # "issued",
           \/ <<"revoke", t>> \in audit' \/ RevokeAccounted(t)'
           \/ row'[t] = row[t] /\ call[c].step = "revoke"
    PROVE  RecordOK(t)'
<1>1. RecordOK(t) /\ row'[t].owner = row[t].owner /\ audit \subseteq audit'
  BY DEF TokensInv, RecordInv, Touches
<1>2. IssueAccounted(t) => IssueAccounted(t)'
  BY <1>1, AccountStays DEF Revoking, Unrecorded
<1>3. \/ <<"revoke", t>> \in audit' \/ RevokeAccounted(t)'
      \/ row'[t] = row[t] /\ (RevokeAccounted(t) => RevokeAccounted(t)')
  BY <1>1, AccountStays
<1>4. ASSUME NEW d \in Calls, call'[d].token = t, call'[d].step = "issued"
      PROVE  call[d].token = t /\ call[d].step = "issued"
  BY <1>4 DEF Touches
<1> QED BY <1>1, <1>2, <1>3, <1>4 DEF RecordOK

LEMMA SaveRevokedKeeps ==
    ASSUME TokensInv, NEW c \in Calls, SaveRevoked(c) \/ SaveRevokedFails(c)
    PROVE  TokensInv' /\ RowsKept
<1>0. /\ call[c].step = "revoke" /\ call[c].step # "idle"
      /\ call[c].step \in Revoking /\ returned' = returned
  BY DEF SaveRevoked, SaveRevokedFails, Revoking
<1>1. PICK t \in TokenIds : t = call[c].token
  BY <1>0, CallKnows
<1>e. events' \in 0..MaxEvents
  <2>1. CASE SaveRevoked(c)
    BY <2>1 DEF SaveRevoked, TokensInv, TokensTypeOK
  <2>2. CASE SaveRevokedFails(c)
    BY <2>2, EventTyped DEF SaveRevokedFails
  <2> QED BY <2>1, <2>2
<1>2. Written(c, t)
  <2>1. CASE SaveRevoked(c)
    BY <1>0, <1>1, <1>e, <2>1 DEF Written, SaveRevoked
  <2>2. CASE SaveRevokedFails(c)
    BY <1>0, <1>1, <1>e, <2>2 DEF Written, SaveRevokedFails
  <2> QED BY <2>1, <2>2
<1>3. /\ Touches(c, t) /\ CallOK(c)' /\ LimitInv' /\ row[t].owner # None
      /\ row' = Revoked(c) => row'[t].revoked = TRUE
      /\ Go(c, "revoked") => call'[c] = [step |-> "revoked", token |-> t,
                                         owner |-> row'[t].owner]
  BY <1>0, <1>1, <1>2, WrittenTouches
<1>4. call'[c].step # "issued"
  BY <1>0, <1>3, DoneSets DEF SaveRevoked, SaveRevokedFails, TokensInv
<1>5. row'[t].revoked = row[t].revoked \/ row'[t].revoked = TRUE
  BY <1>3 DEF SaveRevoked, SaveRevokedFails
<1>6. RevokeAccounted(t)' \/ row'[t] = row[t]
  <2>1. CASE SaveRevoked(c)
    BY <1>3, <2>1 DEF SaveRevoked, RevokeAccounted
  <2>2. CASE SaveRevokedFails(c)
    BY <1>1, <2>2 DEF SaveRevokedFails, RevokeAccounted
  <2> QED BY <2>1, <2>2
<1>7. RecordOK(t)'
  BY <1>0, <1>1, <1>3, <1>4, <1>5, <1>6, RevokeOwes
<1> QED BY <1>0, <1>1, <1>3, <1>7, CallMoves

LEMMA RecordRevokeKeeps ==
    ASSUME TokensInv, NEW c \in Calls, RecordRevoke(c) \/ RecordRevokeFails(c)
    PROVE  TokensInv' /\ RowsKept
<1>0. /\ call[c].step = "revoked" /\ call[c].step # "idle"
      /\ call[c].step \in Revoking /\ returned' = returned /\ row' = row
      /\ Done(c)
  BY DEF RecordRevoke, RecordRevokeFails, Revoking
<1>1. PICK t \in TokenIds : t = call[c].token
  BY <1>0, CallKnows
<1>e. events' \in 0..MaxEvents
  <2>1. CASE RecordRevoke(c)
    BY <2>1 DEF RecordRevoke, TokensInv, TokensTypeOK
  <2>2. CASE RecordRevokeFails(c)
    BY <2>2, EventTyped DEF RecordRevokeFails
  <2> QED BY <2>1, <2>2
<1>2. Written(c, t)
  <2>1. CASE RecordRevoke(c)
    BY <1>0, <1>1, <1>e, <2>1 DEF Written, RecordRevoke
  <2>2. CASE RecordRevokeFails(c)
    BY <1>0, <1>1, <1>e, <2>2 DEF Written, RecordRevokeFails
  <2> QED BY <2>1, <2>2
<1>3. Touches(c, t) /\ CallOK(c)' /\ LimitInv' /\ row[t].owner # None
  BY <1>0, <1>1, <1>2, WrittenTouches
<1>4. call'[c].step # "issued"
  BY <1>0, DoneSets DEF TokensInv
<1>5. <<"revoke", t>> \in audit' \/ RevokeAccounted(t)'
  BY <1>1 DEF RecordRevoke, RecordRevokeFails, RevokeAccounted
<1>6. RecordOK(t)'
  BY <1>0, <1>1, <1>3, <1>4, <1>5, RevokeOwes
<1> QED BY <1>0, <1>1, <1>3, <1>6, CallMoves

-----------------------------------------------------------------------------
(* The keys, whatever the gate does.                                       *)

\* The process ends: an issue or a revoke that it cuts in two is severed.
LEMMA EndCallsKeeps ==
    ASSUME TokensInv, EndCalls
    PROVE  TokensInv' /\ RowsKept
<1>0. TokensTypeOK /\ CallInv /\ LimitInv /\ RecordInv /\ events' \in 0..MaxEvents
  BY EventTyped DEF TokensInv, EndCalls
<1>1. /\ call' \in [Calls -> CallRec]
      /\ \A c \in Calls : call'[c].step = "idle"
      /\ ownerLock' = [o \in Owners |-> None]
      /\ row' = row /\ audit' = audit /\ warned' = warned /\ returned' = returned
  BY IdleCallTyped DEF EndCalls
<1> DEFINE Cut(steps) == {d \in Calls : call[d].step \in steps}
           News == {<<"issue", call[c].token>> : c \in Cut(Unrecorded)}
                   \cup {<<"revoke", call[c].token>> : c \in Cut({"revoked"})}
<1>2. severed' = severed \cup News
  BY DEF EndCalls, Unrecorded
<1>3. News \subseteq {"issue", "revoke"} \X TokenIds
  BY <1>0 DEF CallInv, CallOK, Unrecorded
<1>4. TokensTypeOK'
  BY <1>0, <1>1, <1>2, <1>3
     DEF TokensTypeOK, CallRec, CallSteps, Creating, Unrecorded, Revoking
<1>5. CallInv'
  BY <1>1 DEF CallInv, CallOK, Creating, Unrecorded, Revoking
<1>6. LimitInv'
  BY <1>0, <1>1 DEF LimitInv
<1>7. ASSUME NEW t \in TokenIds PROVE RecordOK(t)'
  <2>1. RecordOK(t)
    BY <1>0 DEF RecordInv
  <2>2. IssueAccounted(t) => <<"issue", t>> \in warned' \cup severed'
    BY <1>1, <1>2 DEF IssueAccounted
  <2>3. RevokeAccounted(t) => <<"revoke", t>> \in warned' \cup severed'
    <3> SUFFICES ASSUME NEW c \in Calls,
                        call[c] = [step |-> "revoked", token |-> t,
                                   owner |-> row[t].owner]
                 PROVE  <<"revoke", t>> \in News
      BY <1>1, <1>2 DEF RevokeAccounted
    <3>1. call[c].step = "revoked" /\ call[c].token = t
      OBVIOUS
    <3> QED BY <3>1
  <2>4. /\ IssueAccounted(t) => IssueAccounted(t)'
        /\ RevokeAccounted(t) => RevokeAccounted(t)'
    BY <2>2, <2>3 DEF IssueAccounted, RevokeAccounted
  <2> QED BY <1>1, <2>1, <2>4 DEF RecordOK
<1>8. RowsKept
  BY <1>1 DEF RowsKept
<1> QED BY <1>4, <1>5, <1>6, <1>7, <1>8 DEF RecordInv, TokensInv

\* A step that leaves the keys and the calls alone.
LEMMA TokensQuiet ==
    ASSUME TokensInv, events' \in 0..MaxEvents,
           UNCHANGED <<row, ownerLock, call, audit, warned, returned, severed>>
    PROVE  TokensInv' /\ RowsKept
<1>1. TokensTypeOK' /\ RowsKept
  BY DEF TokensInv, TokensTypeOK, RowsKept
<1>2. CallInv' /\ LimitInv'
  BY DEF TokensInv, CallInv, CallOK, LimitInv
<1>3. RecordInv'
  BY DEF TokensInv, RecordInv, RecordOK, IssueAccounted, RevokeAccounted
<1> QED BY <1>1, <1>2, <1>3 DEF TokensInv

\* The steps of the calls.
TokensStep ==
    \/ \E c \in Calls, actor \in Owners \cup {Admin}, o \in Owners,
          t \in TokenIds : Issue(c, actor, o, t)
    \/ \E c \in Calls, actor \in Owners \cup {Admin}, t \in TokenIds :
          Revoke(c, actor, t)
    \/ \E c \in Calls :
          \/ LockOwner(c) \/ CountLive(c) \/ InsertToken(c) \/ CreateFails(c)
          \/ RecordIssue(c) \/ RecordIssueFails(c)
          \/ Retract(c) \/ RetractFails(c)
          \/ SaveRevoked(c) \/ SaveRevokedFails(c)
          \/ RecordRevoke(c) \/ RecordRevokeFails(c)

TokensChange == TokensStep /\ UNCHANGED gateVars

LEMMA TokensStepKeeps ==
    ASSUME TokensInv, TokensStep
    PROVE  TokensInv' /\ RowsKept
<1>0. TokensTypeOK
  BY DEF TokensInv
<1>1. ASSUME NEW c \in Calls, NEW actor \in Owners \cup {Admin},
             NEW o \in Owners, NEW t \in TokenIds, Issue(c, actor, o, t)
      PROVE  TokensInv' /\ RowsKept
  BY <1>1, CallBegins DEF Issue, Exists
<1>2. ASSUME NEW c \in Calls, NEW actor \in Owners \cup {Admin},
             NEW t \in TokenIds, Revoke(c, actor, t)
      PROVE  TokensInv' /\ RowsKept
  <2>1. row[t].owner \in Owners
    BY <1>0, <1>2, TokensTypes DEF Revoke, Active, Exists
  <2> QED BY <1>2, <2>1, CallBegins DEF Revoke
<1>3. ASSUME NEW c \in Calls,
             \/ LockOwner(c) \/ CountLive(c) \/ InsertToken(c) \/ CreateFails(c)
             \/ RecordIssue(c) \/ RecordIssueFails(c)
             \/ Retract(c) \/ RetractFails(c)
             \/ SaveRevoked(c) \/ SaveRevokedFails(c)
             \/ RecordRevoke(c) \/ RecordRevokeFails(c)
      PROVE  TokensInv' /\ RowsKept
  BY <1>3, LockOwnerKeeps, CountLiveKeeps, InsertTokenKeeps, CreateFailsKeeps,
     RecordIssueKeeps, RecordIssueFailsKeeps, RetractKeeps, SaveRevokedKeeps,
     RecordRevokeKeeps
<1> QED BY <1>1, <1>2, <1>3 DEF TokensStep

\* The steps of one request.
RequestStep(r) ==
    \/ \E route \in Routes, encoded \in BOOLEAN, cs \in Presented :
          Receive(r, route, encoded, cs)
    \/ ReadToken(r) \/ ReadOwner(r) \/ LookupFails(r)
    \/ \E body \in Bodies : ReceiveBody(r, body)
    \/ RefuseBody(r) \/ Decide(r) \/ AdmitSpend(r) \/ RefuseSpend(r)
    \/ UpstreamRoutes(r)
    \/ UpstreamLists(r) \/ ListingFails(r)
    \/ \E m \in Names, priced \in BOOLEAN : FilterEntry(r, m, priced)
    \/ SendListing(r) \/ Finish(r)

\* A request changes no key, no account and no registration.
LEMMA RequestOnlyReads ==
    ASSUME NEW r \in Requests, RequestStep(r)
    PROVE  UNCHANGED <<row, ownerLock, call, audit, warned, returned, severed,
                       events, active, policy, registry>>
BY DEF RequestStep, Receive, ReadToken, ReadOwner, LookupFails, ReceiveBody,
       RefuseBody, Decide, AdmitSpend, RefuseSpend, UpstreamRoutes,
       UpstreamLists, ListingFails, FilterEntry, SendListing, Finish, tokenVars

\* A step is one of a call, the end of the process, one of a request, or a
\* change from outside.
LEMMA StepOf ==
    ASSUME Next
    PROVE  \/ TokensChange \/ Crash
           \/ \E r \in Requests : RequestStep(r)
           \/ \E o \in Owners, on \in BOOLEAN, p \in Policies :
                 UpdateAdminState(o, on, p)
           \/ \E new \in Registries : Register(new)
<1>1. ASSUME NEW c \in Calls, NEW actor \in Owners \cup {Admin},
             \/ \E o \in Owners, t \in TokenIds :
                   Issue(c, actor, o, t) /\ UNCHANGED gateVars
             \/ \E t \in TokenIds : Revoke(c, actor, t) /\ UNCHANGED gateVars
      PROVE  TokensChange
  BY <1>1, Zenon DEF TokensChange, TokensStep
<1>2. ASSUME NEW c \in Calls,
             \/ LockOwner(c) /\ UNCHANGED gateVars
             \/ CountLive(c) /\ UNCHANGED gateVars
             \/ InsertToken(c) /\ UNCHANGED gateVars
             \/ CreateFails(c) /\ UNCHANGED gateVars
             \/ RecordIssue(c) /\ UNCHANGED gateVars
             \/ RecordIssueFails(c) /\ UNCHANGED gateVars
             \/ Retract(c) /\ UNCHANGED gateVars
             \/ RetractFails(c) /\ UNCHANGED gateVars
             \/ SaveRevoked(c) /\ UNCHANGED gateVars
             \/ SaveRevokedFails(c) /\ UNCHANGED gateVars
             \/ RecordRevoke(c) /\ UNCHANGED gateVars
             \/ RecordRevokeFails(c) /\ UNCHANGED gateVars
      PROVE  TokensChange
  BY <1>2, Zenon DEF TokensChange, TokensStep
<1>3. ASSUME NEW r \in Requests,
             \/ \E route \in Routes, encoded \in BOOLEAN, cs \in Presented :
                   Receive(r, route, encoded, cs)
             \/ ReadToken(r) \/ ReadOwner(r) \/ LookupFails(r)
             \/ \E body \in Bodies : ReceiveBody(r, body)
             \/ RefuseBody(r) \/ Decide(r) \/ AdmitSpend(r) \/ RefuseSpend(r)
             \/ UpstreamRoutes(r)
             \/ UpstreamLists(r) \/ ListingFails(r)
             \/ \E m \in Names, priced \in BOOLEAN : FilterEntry(r, m, priced)
             \/ SendListing(r) \/ Finish(r)
      PROVE  RequestStep(r)
  BY <1>3 DEF RequestStep
<1> QED BY <1>1, <1>2, <1>3 DEF Next

LEMMA TokensKept ==
    ASSUME TokensInv, [Next]_vars
    PROVE  TokensInv' /\ RowsKept
<1>0. events \in 0..MaxEvents
  BY DEF TokensInv, TokensTypeOK
<1>1. CASE TokensChange
  BY <1>1, TokensStepKeeps DEF TokensChange
<1>2. CASE Crash
  BY <1>2, EndCallsKeeps DEF Crash
<1>3. ASSUME NEW r \in Requests, RequestStep(r)
      PROVE  TokensInv' /\ RowsKept
  <2>1. UNCHANGED <<row, ownerLock, call, audit, warned, returned, severed, events>>
    BY <1>3, RequestOnlyReads
  <2> QED BY <1>0, <2>1, TokensQuiet
<1>4. ASSUME NEW o \in Owners, NEW on \in BOOLEAN, NEW p \in Policies,
             UpdateAdminState(o, on, p)
      PROVE  TokensInv' /\ RowsKept
  <2>1. events' \in 0..MaxEvents
    BY <1>4, EventTyped DEF UpdateAdminState
  <2> QED BY <1>4, <2>1, TokensQuiet DEF UpdateAdminState
<1>5. ASSUME NEW new \in Registries, Register(new)
      PROVE  TokensInv' /\ RowsKept
  <2>1. events' \in 0..MaxEvents
    BY <1>5, EventTyped DEF Register
  <2> QED BY <1>5, <2>1, TokensQuiet DEF Register
<1>6. CASE UNCHANGED vars
  BY <1>0, <1>6, TokensQuiet DEF vars, tokenVars
<1> QED BY <1>1, <1>2, <1>3, <1>4, <1>5, <1>6, StepOf

LEMMA TokensBegin == TokensInit => TokensInv
<1> SUFFICES ASSUME TokensInit PROVE TokensInv
  OBVIOUS
<1>1. /\ \A c \in Calls : call[c] = IdleCall /\ call[c].step = "idle"
      /\ \A t \in TokenIds : row[t] = NoRow /\ row[t].owner = None
                             /\ row[t].revoked = FALSE
  BY IdleCallTyped DEF TokensInit, NoRow
<1>2. TokensTypeOK
  <2>1. call \in [Calls -> CallRec] /\ row \in [TokenIds -> RowRec]
    BY IdleCallTyped DEF TokensInit, NoRow, RowRec
  <2> QED BY <2>1, TokensAssumption
          DEF TokensInit, TokensTypeOK, CallRec, CallSteps, Creating, Unrecorded,
              Revoking, RowRec
<1>3. CallInv
  BY <1>1 DEF CallInv, CallOK, Creating, Unrecorded, Revoking
<1>4. LimitInv
  <2>1. ASSUME NEW o \in Owners PROVE LiveIn(row, o) = {}
    BY <1>1 DEF LiveIn
  <2> QED BY <1>1, <2>1, FS_EmptySet, TokensAssumption DEF LimitInv
<1>5. RecordInv
  BY <1>1 DEF RecordInv, RecordOK, TokensInit
<1> QED BY <1>2, <1>3, <1>4, <1>5 DEF TokensInv

(***************************************************************************)
(* No owner ever holds more live keys than the limit (Repo.Create), for    *)
(* any number of owners, keys and calls at a time: the lock of the owner's *)
(* row is held from the count to the commit, so no other key of that owner *)
(* is inserted in between, and a key never becomes live again.             *)
(***************************************************************************)
THEOREM KeyLimit == Spec => []TokenLimitKept
<1>1. Init => TokensInv
  BY TokensBegin DEF Init
<1>2. TokensInv /\ [Next]_vars => TokensInv'
  BY TokensKept
<1>3. TokensInv => TokenLimitKept
  BY LimitMeansKept DEF TokensInv
<1> QED BY <1>1, <1>2, <1>3, PTL DEF Spec

(***************************************************************************)
(* No key stands unrecorded (Service.Issue, Service.Revoke): a returned    *)
(* key's issue is in the audit log, and so is a live key's and a revoked   *)
(* one's, unless its call is still at work, the operator was told, or the  *)
(* call was cut in two from outside.                                       *)
(***************************************************************************)
THEOREM KeysRecorded == Spec => []IssuedIsRecorded
<1>1. Init => TokensInv
  BY TokensBegin DEF Init
<1>2. TokensInv /\ [Next]_vars => TokensInv'
  BY TokensKept
<1>3. TokensInv => IssuedIsRecorded
  BY RecordMeansRecorded DEF TokensInv
<1> QED BY <1>1, <1>2, <1>3, PTL DEF Spec

-----------------------------------------------------------------------------
(* What a request holds.                                                   *)

Authenticating == {"token", "owner"}
InTime == {"body", "decide", "spend", "route", "served", "list", "filter",
           "listed"}

(***************************************************************************)
(* What request q knows of the instants i since it came: they include now; *)
(* a secret it presents is that of a stored key which, unless it was       *)
(* revoked by now, was live when the request came; the key it was resolved *)
(* to was; and its owner and its grant are of one of those instants.       *)
(***************************************************************************)
SinceHolds(q, i) ==
    /\ q.step # "idle" => /\ active \subseteq i.active
                          /\ \A o \in Owners : policy[o] \in i.policies[o]
    /\ q.step \in Authenticating =>
          /\ q.candidates # <<>>
          /\ \A n \in 1..Len(q.candidates) : q.candidates[n] \in TokenIds =>
                /\ row[q.candidates[n]].owner # None
                /\ row[q.candidates[n]].revoked \/ q.candidates[n] \in i.live
    /\ q.step \in InTime \cup {"owner"} =>
          /\ q.token \in TokenIds /\ q.token \in i.live
          /\ row[q.token].owner \in Owners
    /\ q.step \in InTime =>
          /\ row[q.token].owner \in i.active
          /\ q.grant \in i.policies[row[q.token].owner]

\* Nothing is noted before the decision, a body names one model at most, the
\* gate decides on the model of that body, the vendor serves the model that
\* was routed, and all that upstream could have chosen is allowed.
PolicyHolds(q) ==
    /\ q.step \in Authenticating \cup {"body", "decide", "list"} => q.could = {}
    /\ Len(q.body) <= 1
    /\ q.step = "decide" => /\ q.model = RequestedModel(q.route.source, q.body)
                            /\ q.model # None
    /\ q.step = "served" => q.served = q.routed
    /\ \A c \in q.could : Allows(q.grant, PolicyProvider[c[2]], c[1])

Holds(q, i) == SinceHolds(q, i) /\ PolicyHolds(q)

GateInv ==
    /\ TypeOK
    /\ TokensInv
    /\ \A r \in Requests : Holds(request[r], since[r])

LEMMA HoldsMeansInTime ==
    (\A r \in Requests : Holds(request[r], since[r])) => AuthenticatedInTime
BY DEF Holds, SinceHolds, AuthenticatedInTime, InTime

LEMMA HoldsMeansPolicy ==
    (\A r \in Requests : Holds(request[r], since[r])) => StaysInPolicy
BY DEF Holds, PolicyHolds, StaysInPolicy, At

LEMMA RequestTypes ==
    ASSUME GateInv, NEW r \in Requests
    PROVE  /\ request[r] \in Request /\ since[r] \in Instants
           /\ request \in [Requests -> Request]
           /\ since \in [Requests -> Instants]
           /\ Holds(request[r], since[r])
           /\ active \subseteq Owners /\ policy \in [Owners -> Policies]
           /\ registry \in [Names -> SUBSET Keys]
BY GateAssumption DEF GateInv, TypeOK

\* A step of one request that leaves everything else alone.
LEMMA RequestMoves ==
    ASSUME GateInv, NEW r \in Requests, NEW q \in Request, NEW i \in Instants,
           request' = [request EXCEPT ![r] = q],
           since' = [since EXCEPT ![r] = i],
           UNCHANGED <<tokenVars, active, policy, registry>>,
           Holds(q, i)
    PROVE  GateInv'
<1>1. TokensInv'
  <2>1. events \in 0..MaxEvents /\ TokensInv
    BY DEF GateInv, TokensInv, TokensTypeOK
  <2> QED BY <2>1, TokensQuiet DEF tokenVars
<1>2. /\ request' \in [Requests -> Request] /\ since' \in [Requests -> Instants]
      /\ request'[r] = q /\ since'[r] = i
      /\ \A s \in Requests \ {r} : request'[s] = request[s] /\ since'[s] = since[s]
  BY DEF GateInv, TypeOK
<1>3. TypeOK'
  BY <1>1, <1>2 DEF GateInv, TypeOK, TokensInv
<1>4. ASSUME NEW s \in Requests
      PROVE  Holds(request[s], since[s])'
  <2>1. Holds(request'[s], since'[s])
    BY <1>2 DEF GateInv
  <2>2. /\ active' = active /\ policy' = policy /\ row' = row
    BY DEF tokenVars
  <2> QED BY <2>1, <2>2 DEF Holds, SinceHolds, PolicyHolds, Allows
<1> QED BY <1>1, <1>3, <1>4 DEF GateInv

LEMMA IdleTyped ==
    /\ IdleRequest \in Request /\ NoInstant \in Instants
    /\ Holds(IdleRequest, NoInstant)
<1>1. IdleRequest \in Request
  <2>1. <<>> \in Seq(TokenIds \cup {None}) /\ <<>> \in Seq(Names)
    OBVIOUS
  <2> QED BY <2>1 DEF IdleRequest, Request
<1>2. NoInstant \in Instants
  BY DEF NoInstant, Instants
<1>3. /\ IdleRequest.step = "idle" /\ IdleRequest.body = <<>>
      /\ IdleRequest.could = {}
  BY DEF IdleRequest
<1> QED BY <1>1, <1>2, <1>3
        DEF Holds, SinceHolds, PolicyHolds, Authenticating, InTime

\* A request that is answered is gone.
LEMMA AnsweredKeeps ==
    ASSUME GateInv, NEW r \in Requests, Answered(r),
           UNCHANGED <<tokenVars, active, policy, registry>>
    PROVE  GateInv'
BY IdleTyped, RequestMoves DEF Answered

\* A step of a request that is not answered yet.
LEMMA RequestGoes ==
    ASSUME GateInv, NEW r \in Requests, NEW q \in Request,
           request' = [request EXCEPT ![r] = q],
           UNCHANGED <<tokenVars, active, policy, registry, since>>,
           Holds(q, since[r])
    PROVE  GateInv'
<1>1. since[r] \in Instants /\ since' = [since EXCEPT ![r] = since[r]]
  BY RequestTypes
<1>2. UNCHANGED <<tokenVars, active, policy, registry>>
  OBVIOUS
<1> QED BY <1>1, <1>2, RequestMoves

\* Only a stored key was ever returned.
LEMMA PresentedStored ==
    ASSUME GateInv, NEW cs \in Presented, NEW n \in 1..Len(cs)
    PROVE  cs[n] \in TokenIds => row[cs[n]].owner # None
<1>1. cs[n] \in returned \cup {None}
  <2>1. CASE cs = <<>>
    BY <2>1
  <2>2. ASSUME NEW s \in returned \cup {None}, cs = <<s>>
        PROVE  cs[n] \in returned \cup {None}
    <3>1. n = 1
      BY <2>2
    <3> QED BY <2>2, <3>1
  <2>3. CASE cs \in (returned \cup {None}) \X returned
    <3>1. PICK a \in returned \cup {None}, b \in returned : cs = <<a, b>>
      BY <2>3
    <3>2. n = 1 \/ n = 2
      BY <3>1
    <3> QED BY <3>1, <3>2
  <2> QED BY <2>1, <2>2, <2>3 DEF Presented
<1>2. None \notin TokenIds
  BY TokensAssumption
<1> QED BY <1>1, <1>2 DEF GateInv, TokensInv, RecordInv, RecordOK

LEMMA PresentedTyped ==
    ASSUME TokensTypeOK
    PROVE  Presented \subseteq Seq(TokenIds \cup {None})
<1>1. returned \subseteq TokenIds
  BY DEF TokensTypeOK
<1> SUFFICES ASSUME NEW cs \in Presented PROVE cs \in Seq(TokenIds \cup {None})
  OBVIOUS
<1>2. CASE cs = <<>>
  BY <1>2
<1>3. ASSUME NEW s \in returned \cup {None}, cs = <<s>>
      PROVE  cs \in Seq(TokenIds \cup {None})
  BY <1>1, <1>3
<1>4. CASE cs \in (returned \cup {None}) \X returned
  <2>1. PICK a \in returned \cup {None}, b \in returned : cs = <<a, b>>
    BY <1>4
  <2> QED BY <1>1, <2>1
<1> QED BY <1>2, <1>3, <1>4 DEF Presented

LEMMA ReceiveKeeps ==
    ASSUME GateInv, NEW r \in Requests, NEW route \in Routes,
           NEW encoded \in BOOLEAN, NEW cs \in Presented,
           Receive(r, route, encoded, cs)
    PROVE  GateInv'
<1> DEFINE q == [IdleRequest EXCEPT !.step = "token", !.route = route,
                                    !.candidates = cs]
           i == [live |-> {t \in TokenIds : t \in ToSet(cs) /\ Active(t)},
                 active |-> active,
                 policies |-> [o \in Owners |-> {policy[o]}]]
<1>1. active \subseteq Owners /\ policy \in [Owners -> Policies] /\ TokensTypeOK
  BY DEF GateInv, TypeOK
<1>2. q \in Request /\ q.step = "token" /\ q.candidates = cs /\ q.could = {}
      /\ q.body = <<>>
  <2>1. cs \in Seq(TokenIds \cup {None})
    BY <1>1, PresentedTyped
  <2>2. IdleRequest \in Request
    BY IdleTyped
  <2>3. q \in Request
    BY <2>1, <2>2 DEF Request
  <2>4. q.step = "token" /\ q.candidates = cs /\ q.could = {} /\ q.body = <<>>
    BY DEF IdleRequest
  <2> QED BY <2>3, <2>4
<1>3. i \in Instants
  BY <1>1 DEF Instants
<1>4. Holds(q, i)
  <2>1. ASSUME NEW n \in 1..Len(cs), cs[n] \in TokenIds
        PROVE  row[cs[n]].owner # None /\ (row[cs[n]].revoked \/ cs[n] \in i.live)
    <3>1. row[cs[n]].owner # None
      BY <2>1, PresentedStored
    <3>2. cs[n] \in ToSet(cs)
      <4>1. cs \in Seq(TokenIds \cup {None})
        BY <1>1, PresentedTyped
      <4> QED BY <4>1 DEF ToSet
    <3> QED BY <2>1, <3>1, <3>2 DEF Active, Exists
  <2>2. cs # <<>>
    BY DEF Receive, Accepted
  <2>3. active \subseteq i.active /\ \A o \in Owners : policy[o] \in i.policies[o]
    BY <1>1
  <2>4. SinceHolds(q, i)
    BY <1>2, <2>1, <2>2, <2>3 DEF SinceHolds, Authenticating, InTime
  <2>5. PolicyHolds(q)
    BY <1>2 DEF PolicyHolds, Authenticating
  <2> QED BY <2>4, <2>5 DEF Holds
<1>5. /\ request' = [request EXCEPT ![r] = q] /\ since' = [since EXCEPT ![r] = i]
      /\ UNCHANGED <<tokenVars, active, policy, registry>>
  BY DEF Receive
<1> HIDE DEF q, i
<1> QED BY <1>2, <1>3, <1>4, <1>5, RequestMoves

\* What is left of a sequence that is longer than one.
LEMMA TailFacts ==
    ASSUME NEW S, NEW u \in Seq(S), u # <<>>, Len(u) # 1
    PROVE  /\ Tail(u) \in Seq(S) /\ Tail(u) # <<>>
           /\ \A n \in 1..Len(Tail(u)) : /\ n + 1 \in 1..Len(u)
                                        /\ Tail(u)[n] = u[n + 1]
<1>1. Len(u) \in Nat /\ Len(u) # 0
  BY EmptySeq
<1>2. Tail(u) \in Seq(S) /\ Len(Tail(u)) = Len(u) - 1
  BY HeadTailProperties
<1>3. Tail(u) # <<>>
  <2>1. Len(Tail(u)) # 0 /\ Len(<<>>) = 0
    BY <1>1, <1>2, EmptySeq
  <2> QED BY <2>1
<1>4. ASSUME NEW n \in 1..Len(Tail(u))
      PROVE  n + 1 \in 1..Len(u) /\ Tail(u)[n] = u[n + 1]
  BY <1>1, <1>2
<1> QED BY <1>2, <1>3, <1>4

\* The candidates that are left are among those that were presented.
LEMMA NextCandidateKeeps ==
    ASSUME GateInv, NEW r \in Requests, request[r].step \in Authenticating,
           NextCandidate(r), UNCHANGED <<tokenVars, active, policy, registry>>
    PROVE  GateInv'
<1>1. CASE Len(request[r].candidates) = 1
  BY <1>1, AnsweredKeeps DEF NextCandidate
<1>2. CASE Len(request[r].candidates) # 1
  <2> DEFINE p == request[r]
             q == [p EXCEPT !.step = "token", !.token = None,
                            !.candidates = Tail(p.candidates)]
  <2>1. p \in Request /\ Holds(p, since[r]) /\ request \in [Requests -> Request]
    BY RequestTypes
  <2>2. p.candidates \in Seq(TokenIds \cup {None}) /\ p.candidates # <<>>
    BY <2>1 DEF Request, Holds, SinceHolds
  <2>3. /\ Tail(p.candidates) \in Seq(TokenIds \cup {None})
        /\ Tail(p.candidates) # <<>>
        /\ \A n \in 1..Len(Tail(p.candidates)) :
              /\ n + 1 \in 1..Len(p.candidates)
              /\ Tail(p.candidates)[n] = p.candidates[n + 1]
    BY <1>2, <2>2, TailFacts
  <2>4. q \in Request
    BY <2>1, <2>3 DEF Request
  <2>5. /\ q.step = "token" /\ q.candidates = Tail(p.candidates)
        /\ q.could = p.could /\ q.body = p.body
    BY <2>1 DEF Request
  <2>6. p.step # "idle"
    BY DEF Authenticating
  <2>7. SinceHolds(q, since[r])
    <3>1. ASSUME NEW n \in 1..Len(q.candidates), q.candidates[n] \in TokenIds
          PROVE  /\ row[q.candidates[n]].owner # None
                 /\ row[q.candidates[n]].revoked \/ q.candidates[n] \in since[r].live
      <4>1. n + 1 \in 1..Len(p.candidates) /\ q.candidates[n] = p.candidates[n + 1]
        BY <2>3, <2>5
      <4> HIDE DEF q
      <4> QED BY <2>1, <3>1, <4>1 DEF Holds, SinceHolds
    <3> HIDE DEF q
    <3> QED BY <2>1, <2>3, <2>5, <2>6, <3>1
            DEF Holds, SinceHolds, Authenticating, InTime
  <2>8. PolicyHolds(q)
    <3>1. p.could = {} /\ Len(p.body) <= 1
      BY <2>1 DEF Holds, PolicyHolds, Authenticating
    <3> HIDE DEF q
    <3> QED BY <2>5, <3>1 DEF PolicyHolds, Authenticating
  <2>9. request' = [request EXCEPT ![r] = q] /\ since' = since
    BY <1>2, <2>1 DEF NextCandidate
  <2> HIDE DEF q
  <2> QED BY <2>4, <2>7, <2>8, <2>9, RequestGoes DEF Holds
<1> QED BY <1>1, <1>2

\* The first read finds a live key: it was live when the request came.
LEMMA ReadTokenKeeps ==
    ASSUME GateInv, NEW r \in Requests, ReadToken(r)
    PROVE  GateInv'
<1> DEFINE p == request[r]
           t == Head(p.candidates)
<1>0. /\ p.step = "token" /\ p.step \in Authenticating
      /\ UNCHANGED <<tokenVars, active, policy, registry>>
  BY DEF ReadToken, At, Authenticating
<1>1. CASE t \in TokenIds /\ Active(t)
  <2> DEFINE q == [p EXCEPT !.step = "owner", !.token = t]
  <2>1. p \in Request /\ Holds(p, since[r]) /\ request \in [Requests -> Request]
    BY RequestTypes
  <2>2. q \in Request
    BY <1>1, <2>1 DEF Request
  <2>3. /\ q.step = "owner" /\ q.token = t /\ q.candidates = p.candidates
        /\ q.could = p.could /\ q.body = p.body
    BY <2>1 DEF Request
  <2>4. t \in since[r].live /\ row[t].owner \in Owners
    <3>1. p.candidates \in Seq(TokenIds \cup {None}) /\ p.candidates # <<>>
      BY <1>0, <2>1 DEF Request, Holds, SinceHolds
    <3>2. 1 \in 1..Len(p.candidates) /\ p.candidates[1] = t
      BY <3>1, EmptySeq
    <3>3. row[t].revoked \/ t \in since[r].live
      BY <1>0, <1>1, <2>1, <3>2 DEF Holds, SinceHolds
    <3>4. row[t].owner \in Owners \cup {None}
      BY <1>1, TokensTypes DEF GateInv, TokensInv
    <3> QED BY <1>1, <3>3, <3>4 DEF Active, Exists
  <2>5. request' = [request EXCEPT ![r] = q] /\ since' = since
    BY <1>1, <2>1 DEF ReadToken
  <2> HIDE DEF q, t
  <2>6. SinceHolds(q, since[r])
    BY <1>0, <1>1, <2>1, <2>3, <2>4 DEF Holds, SinceHolds, Authenticating, InTime
  <2>7. PolicyHolds(q)
    BY <1>0, <2>1, <2>3 DEF Holds, PolicyHolds, Authenticating
  <2> QED BY <1>0, <2>2, <2>5, <2>6, <2>7, RequestGoes DEF Holds
<1>2. CASE ~(t \in TokenIds /\ Active(t))
  BY <1>0, <1>2, NextCandidateKeeps DEF ReadToken
<1> QED BY <1>1, <1>2

\* The second read: the owner is active now, and the grant is that of now.
LEMMA ReadOwnerKeeps ==
    ASSUME GateInv, NEW r \in Requests, ReadOwner(r)
    PROVE  GateInv'
<1> DEFINE p == request[r]
           o == row[p.token].owner
<1>0. /\ p.step = "owner" /\ p.step \in Authenticating
      /\ UNCHANGED <<tokenVars, active, policy, registry>>
  BY DEF ReadOwner, At, Authenticating
<1>1. CASE o \in active
  <2> DEFINE next == IF p.route.kind = "listing" THEN "list" ELSE "body"
             q == [p EXCEPT !.step = next, !.candidates = <<>>, !.grant = policy[o]]
  <2>1. /\ p \in Request /\ Holds(p, since[r]) /\ request \in [Requests -> Request]
        /\ policy \in [Owners -> Policies]
    BY RequestTypes
  <2>2. p.token \in TokenIds /\ p.token \in since[r].live /\ o \in Owners
    BY <1>0, <2>1 DEF Holds, SinceHolds
  <2>3. next \in {"list", "body"} /\ policy[o] \in Policies
    BY <2>1, <2>2
  <2>4. request' = [request EXCEPT ![r] = q] /\ since' = since
    BY <1>1, <2>1 DEF ReadOwner, Authenticated
  <2> HIDE DEF next, o
  <2>5. q \in Request
    <3>1. <<>> \in Seq(TokenIds \cup {None})
      OBVIOUS
    <3> QED BY <2>1, <2>3, <3>1 DEF Request
  <2>6. /\ q.step = next /\ q.token = p.token /\ q.grant = policy[o]
        /\ q.could = p.could /\ q.body = p.body
    BY <2>1 DEF Request
  <2> HIDE DEF q
  <2>7. /\ active \subseteq since[r].active
        /\ \A u \in Owners : policy[u] \in since[r].policies[u]
    BY <1>0, <2>1 DEF Holds, SinceHolds
  <2>8. SinceHolds(q, since[r])
    BY <1>1, <2>2, <2>3, <2>6, <2>7 DEF SinceHolds, Authenticating, InTime, o
  <2>9. PolicyHolds(q)
    BY <1>0, <2>1, <2>3, <2>6 DEF Holds, PolicyHolds, Authenticating
  <2> QED BY <1>0, <2>4, <2>5, <2>8, <2>9, RequestGoes DEF Holds
<1>2. CASE o \notin active
  BY <1>0, <1>2, NextCandidateKeeps DEF ReadOwner
<1> QED BY <1>1, <1>2

\* A request that is authenticated keeps its key and its grant.
LEMMA StaysInTime ==
    ASSUME NEW p, NEW q, NEW i, SinceHolds(p, i), p.step \in InTime,
           q.step \in InTime, q.token = p.token, q.grant = p.grant
    PROVE  SinceHolds(q, i)
BY DEF SinceHolds, Authenticating, InTime

LEMMA RequestedModelTyped ==
    ASSUME NEW source, NEW body \in Bodies
    PROVE  /\ RequestedModel(source, body) \in Names \cup {None}
           /\ RequestedModel(source, body) # None => Len(body) <= 1
<1>1. body \in Seq(Names) /\ Len(body) \in Nat
  BY GateAssumption
<1>2. body # <<>> => Head(body) \in Names
  BY <1>1
<1> QED BY <1>1, <1>2, GateAssumption DEF RequestedModel

LEMMA ReceiveBodyKeeps ==
    ASSUME GateInv, NEW r \in Requests, NEW body \in Bodies, ReceiveBody(r, body)
    PROVE  GateInv'
<1> DEFINE p == request[r]
           model == RequestedModel(p.route.source, body)
<1>0. /\ p.step = "body" /\ p.step \in InTime
      /\ UNCHANGED <<tokenVars, active, policy, registry>>
  BY DEF ReceiveBody, At, InTime
<1>1. CASE model = None
  BY <1>0, <1>1, AnsweredKeeps DEF ReceiveBody
<1>2. CASE model # None
  <2> DEFINE q == [p EXCEPT !.step = "decide", !.body = body, !.model = model]
  <2>1. p \in Request /\ Holds(p, since[r]) /\ request \in [Requests -> Request]
    BY RequestTypes
  <2>2. model \in Names /\ Len(body) <= 1 /\ body \in Seq(Names)
    BY <1>2, RequestedModelTyped, GateAssumption
  <2>3. request' = [request EXCEPT ![r] = q] /\ since' = since
    BY <1>2, <2>1 DEF ReceiveBody
  <2> HIDE DEF model
  <2>4. q \in Request
    BY <2>1, <2>2 DEF Request
  <2>5. /\ q.step = "decide" /\ q.token = p.token /\ q.grant = p.grant
        /\ q.could = p.could /\ q.body = body /\ q.model = model
        /\ q.route = p.route
    BY <2>1 DEF Request
  <2> HIDE DEF q
  <2>6. SinceHolds(q, since[r])
    <3>1. q.step \in InTime
      BY <2>5 DEF InTime
    <3> QED BY <1>0, <2>1, <2>5, <3>1, StaysInTime DEF Holds
  <2>7. PolicyHolds(q)
    <3>1. p.could = {}
      BY <1>0, <2>1 DEF Holds, PolicyHolds, Authenticating
    <3>2. q.model = RequestedModel(q.route.source, q.body) /\ q.model # None
      BY <1>2, <2>5 DEF model
    <3> QED BY <2>2, <2>5, <3>1, <3>2 DEF PolicyHolds, Authenticating
  <2> QED BY <1>0, <2>3, <2>4, <2>6, <2>7, RequestGoes DEF Holds
<1> QED BY <1>1, <1>2

-----------------------------------------------------------------------------
(* The gate and upstream, each reading the same request.                   *)

LEMMA UpstreamNameTyped ==
    ASSUME NEW source, NEW body \in Seq(Names)
    PROVE  UpstreamName(source, body) \in Names
<1>1. body # <<>> => body[1] \in Names
  BY EmptySeq
<1> QED BY <1>1, GateAssumption DEF UpstreamName

\* Whatever upstream chooses is a name and a provider's key.
LEMMA UpstreamChoicesTyped ==
    ASSUME NEW source, NEW body \in Seq(Names)
    PROVE  UpstreamChoices(source, body) \subseteq Names \X Keys
<1> DEFINE name == UpstreamName(source, body)
<1>1. name \in Names /\ Base[name] \in Names
  BY UpstreamNameTyped, GateAssumption
<1> HIDE DEF name
<1> QED BY <1>1 DEF UpstreamChoices, name

\* The name a request that names one model is decided on is the one upstream
\* routes by.
LEMMA NameAgrees ==
    ASSUME NEW source, NEW body \in Seq(Names), RequestedModel(source, body) # None
    PROVE  RequestedModel(source, body) = UpstreamName(source, body)
<1>1. body # <<>> => Head(body) = body[1]
  OBVIOUS
<1> QED BY <1>1 DEF RequestedModel, UpstreamName

LEMMA ListedAgrees ==
    ASSUME NEW source, NEW m \in Names
    PROVE  <<m>> \in Seq(Names) /\ ListedModel(source, m) = UpstreamName(source, <<m>>)
<1>1. <<m>> \in Seq(Names) /\ <<m>> # <<>> /\ <<m>>[1] = m
  OBVIOUS
<1> QED BY <1>1 DEF ListedModel, UpstreamName

\* An admitted name is allowed whatever upstream makes of it: both drop the
\* suffix first, both fall back to the full name and to lower case, and the
\* policy covers every provider that is left.
LEMMA AdmittedAllowed ==
    ASSUME NEW g, NEW source, NEW body \in Seq(Names),
           Admits(g, UpstreamName(source, body)),
           NEW c \in UpstreamChoices(source, body)
    PROVE  Allows(g, PolicyProvider[c[2]], c[1])
<1> DEFINE name == UpstreamName(source, body)
           base == Base[name]
           d == Routed(name)
<1>1. /\ d # None /\ \A provider \in ProvidersFor(d) : Allows(g, provider, d)
  BY DEF Admits, Covers
<1>2. \A m : UpstreamKeys(m) = ProviderKeys(m)
  BY DEF UpstreamKeys, ProviderKeys
<1>3. /\ name # AutoName /\ base # AutoName
      /\ d = IF ProviderKeys(base) # {} THEN base ELSE name
  BY <1>1 DEF Routed
<1>4. /\ c[1] \in {base, name}
      /\ c[1] = base \/ UpstreamKeys(base) = {}
      /\ c[2] \in UpstreamKeys(c[1])
  BY <1>3 DEF UpstreamChoices
<1>5. c[1] = d
  BY <1>2, <1>3, <1>4
<1> HIDE DEF name, base, d
<1>6. PolicyProvider[c[2]] \in ProvidersFor(d)
  BY <1>2, <1>4, <1>5 DEF ProvidersFor
<1> QED BY <1>1, <1>5, <1>6

LEMMA DecideKeeps ==
    ASSUME GateInv, NEW r \in Requests, Decide(r)
    PROVE  GateInv'
<1> DEFINE p == request[r]
<1>0. /\ p.step = "decide" /\ p.step \in InTime
      /\ UNCHANGED <<tokenVars, active, policy, registry>>
  BY DEF Decide, At, InTime
<1>1. CASE Admits(p.grant, p.model)
  <2> DEFINE new == UpstreamChoices(p.route.source, p.body)
             q == [p EXCEPT !.step = "spend", !.could = new]
  <2>1. /\ p \in Request /\ Holds(p, since[r]) /\ request \in [Requests -> Request]
        /\ registry \in [Names -> SUBSET Keys]
    BY RequestTypes
  <2>2. /\ p.model = UpstreamName(p.route.source, p.body)
        /\ p.body \in Seq(Names) /\ Len(p.body) <= 1
    BY <1>0, <2>1, NameAgrees DEF Holds, PolicyHolds, Request
  <2>3. /\ new \subseteq Names \X Keys
        /\ \A c \in new : Allows(p.grant, PolicyProvider[c[2]], c[1])
    BY <1>1, <2>2, UpstreamChoicesTyped, AdmittedAllowed
  <2>4. request' = [request EXCEPT ![r] = q] /\ since' = since
    BY <1>1, <2>1 DEF Decide
  <2> HIDE DEF new
  <2>5. q \in Request
    BY <2>1, <2>3 DEF Request
  <2>6. /\ q.step = "spend" /\ q.token = p.token /\ q.grant = p.grant
        /\ q.could = new /\ q.body = p.body
    BY <2>1 DEF Request
  <2> HIDE DEF q
  <2>7. SinceHolds(q, since[r])
    <3>1. q.step \in InTime
      BY <2>6 DEF InTime
    <3> QED BY <1>0, <2>1, <2>6, <3>1, StaysInTime DEF Holds
  <2>8. PolicyHolds(q)
    BY <2>2, <2>3, <2>6 DEF PolicyHolds, Authenticating
  <2> QED BY <1>0, <2>4, <2>5, <2>7, <2>8, RequestGoes DEF Holds
<1>2. CASE ~Admits(p.grant, p.model)
  BY <1>0, <1>2, AnsweredKeeps DEF Decide
<1> QED BY <1>1, <1>2

\* A step that only moves the request on.
LEMMA ToKeeps ==
    ASSUME GateInv, NEW r \in Requests, NEW step \in {"route", "listed"},
           step = "route" => request[r].step = "spend",
           step = "listed" => request[r].step = "filter",
           To(r, step), UNCHANGED <<tokenVars, active, policy, registry, since>>
    PROVE  GateInv'
<1> DEFINE p == request[r]
           q == [p EXCEPT !.step = step]
<1>1. p \in Request /\ Holds(p, since[r]) /\ request \in [Requests -> Request]
  BY RequestTypes
<1>2. request' = [request EXCEPT ![r] = q]
  BY <1>1 DEF To
<1>3. q \in Request
  BY <1>1 DEF Request
<1>4. /\ q.step = step /\ q.token = p.token /\ q.grant = p.grant
      /\ q.could = p.could /\ q.body = p.body
  BY <1>1 DEF Request
<1> HIDE DEF q
<1>5. SinceHolds(q, since[r])
  <2>1. p.step \in InTime /\ q.step \in InTime
    BY <1>4 DEF InTime
  <2> QED BY <1>1, <1>4, <2>1, StaysInTime DEF Holds
<1>6. PolicyHolds(q)
  BY <1>1, <1>4 DEF Holds, PolicyHolds, Authenticating
<1> QED BY <1>2, <1>3, <1>5, <1>6, RequestGoes DEF Holds

\* A body with one model leaves the vendor nothing but what upstream routed.
LEMMA UpstreamRoutesKeeps ==
    ASSUME GateInv, NEW r \in Requests, UpstreamRoutes(r)
    PROVE  GateInv'
<1> DEFINE p == request[r]
           choices == UpstreamChoices(p.route.source, p.body)
           model(c) == IF Len(p.body) > 1 THEN Last(p.body) ELSE c[1]
<1>0. /\ p.step = "route" /\ p.step \in InTime
      /\ UNCHANGED <<tokenVars, active, policy, registry>>
  BY DEF UpstreamRoutes, At, InTime
<1>1. CASE Answered(r)
  BY <1>0, <1>1, AnsweredKeeps
<1>2. ASSUME NEW c \in choices,
             request' = [request EXCEPT ![r].step = "served",
                            ![r].route = None, ![r].routed = c[1],
                            ![r].key = c[2], ![r].served = model(c)],
             UNCHANGED since
      PROVE  GateInv'
  <2> DEFINE q == [p EXCEPT !.step = "served", !.route = None, !.routed = c[1],
                            !.key = c[2], !.served = c[1]]
  <2>1. /\ p \in Request /\ Holds(p, since[r]) /\ request \in [Requests -> Request]
    BY RequestTypes
  <2>2. p.body \in Seq(Names) /\ Len(p.body) <= 1 /\ Len(p.body) \in Nat
    BY <2>1 DEF Holds, PolicyHolds, Request
  <2>3. c[1] \in Names /\ c[2] \in Keys
    <3>1. c \in Names \X Keys
      BY <2>2, UpstreamChoicesTyped
    <3> QED BY <3>1
  <2>4. model(c) = c[1]
    BY <2>2
  <2> HIDE DEF choices, model
  <2>5. request' = [request EXCEPT ![r] = q]
    BY <1>2, <2>1, <2>4
  <2>6. q \in Request
    BY <2>1, <2>3 DEF Request
  <2>7. /\ q.step = "served" /\ q.token = p.token /\ q.grant = p.grant
        /\ q.could = p.could /\ q.body = p.body
        /\ q.served = c[1] /\ q.routed = c[1]
    BY <2>1 DEF Request
  <2> HIDE DEF q
  <2>8. SinceHolds(q, since[r])
    <3>1. q.step \in InTime
      BY <2>7 DEF InTime
    <3> QED BY <1>0, <2>1, <2>7, <3>1, StaysInTime DEF Holds
  <2>9. PolicyHolds(q)
    BY <2>1, <2>2, <2>7 DEF Holds, PolicyHolds, Authenticating
  <2> QED BY <1>0, <1>2, <2>5, <2>6, <2>8, <2>9, RequestGoes DEF Holds
<1> QED BY <1>1, <1>2 DEF UpstreamRoutes

LEMMA UpstreamListsKeeps ==
    ASSUME GateInv, NEW r \in Requests, UpstreamLists(r)
    PROVE  GateInv'
<1> DEFINE p == request[r]
           listed(m) == ListedModel(p.route.source, m)
           names == {m \in Names : /\ registry[listed(m)] # {}
                                   /\ \A n \in Names \ {m} : listed(n) # m}
           q == [p EXCEPT !.step = "filter", !.list = names]
<1>0. p.step = "list" /\ p.step \in InTime
  BY DEF UpstreamLists, At, InTime
<1>1. p \in Request /\ Holds(p, since[r]) /\ request \in [Requests -> Request]
  BY RequestTypes
<1>2. /\ request' = [request EXCEPT ![r] = q]
      /\ UNCHANGED <<tokenVars, active, policy, registry, since>>
  BY <1>1 DEF UpstreamLists
<1>3. names \subseteq Names
  OBVIOUS
<1> HIDE DEF names
<1>4. q \in Request
  BY <1>1, <1>3 DEF Request
<1>5. /\ q.step = "filter" /\ q.token = p.token /\ q.grant = p.grant
      /\ q.could = p.could /\ q.body = p.body
  BY <1>1 DEF Request
<1> HIDE DEF q
<1>6. SinceHolds(q, since[r])
  <2>1. q.step \in InTime
    BY <1>5 DEF InTime
  <2> QED BY <1>0, <1>1, <1>5, <2>1, StaysInTime DEF Holds
<1>7. PolicyHolds(q)
  BY <1>1, <1>5 DEF Holds, PolicyHolds, Authenticating
<1> QED BY <1>2, <1>4, <1>6, <1>7, RequestGoes DEF Holds

LEMMA FilterEntryKeeps ==
    ASSUME GateInv, NEW r \in Requests, NEW m \in Names, NEW priced \in BOOLEAN,
           FilterEntry(r, m, priced)
    PROVE  GateInv'
<1> DEFINE p == request[r]
           source == p.route.source
           new == IF Admits(p.grant, ListedModel(source, m)) /\ priced
                     THEN p.could \cup UpstreamChoices(source, <<m>>) ELSE p.could
           rest == p.list \ {m}
           q == [p EXCEPT !.list = rest, !.could = new]
<1>0. p.step = "filter" /\ p.step \in InTime
  BY DEF FilterEntry, At, InTime
<1>1. /\ p \in Request /\ Holds(p, since[r]) /\ request \in [Requests -> Request]
      /\ registry \in [Names -> SUBSET Keys]
  BY RequestTypes
<1>2. /\ request' = [request EXCEPT ![r] = q]
      /\ UNCHANGED <<tokenVars, active, policy, registry, since>>
  BY <1>1 DEF FilterEntry
<1>3. rest \subseteq Names /\ p.could \subseteq Names \X Keys
  BY <1>1 DEF Request
<1>4. \A c \in p.could : Allows(p.grant, PolicyProvider[c[2]], c[1])
  BY <1>1 DEF Holds, PolicyHolds
<1>5. /\ new \subseteq Names \X Keys
      /\ \A c \in new : Allows(p.grant, PolicyProvider[c[2]], c[1])
  <2>1. CASE Admits(p.grant, ListedModel(source, m))
    <3> DEFINE choices == UpstreamChoices(source, <<m>>)
    <3>1. /\ <<m>> \in Seq(Names)
          /\ Admits(p.grant, UpstreamName(source, <<m>>))
      BY <2>1, ListedAgrees
    <3>2. choices \subseteq Names \X Keys
      BY <3>1, UpstreamChoicesTyped
    <3>3. \A c \in choices : Allows(p.grant, PolicyProvider[c[2]], c[1])
      BY <3>1, AdmittedAllowed
    <3>4. new \in {p.could, p.could \cup choices}
      OBVIOUS
    <3> HIDE DEF new, choices
    <3> QED BY <1>3, <1>4, <3>2, <3>3, <3>4
  <2>2. CASE ~Admits(p.grant, ListedModel(source, m))
    BY <1>3, <1>4, <2>2
  <2> QED BY <2>1, <2>2
<1> HIDE DEF new, rest
<1>6. q \in Request
  BY <1>1, <1>3, <1>5 DEF Request
<1>7. /\ q.step = p.step /\ q.token = p.token /\ q.grant = p.grant
      /\ q.could = new /\ q.body = p.body
  BY <1>1 DEF Request
<1> HIDE DEF q
<1>8. SinceHolds(q, since[r])
  BY <1>0, <1>1, <1>7, StaysInTime DEF Holds
<1>9. PolicyHolds(q)
  BY <1>0, <1>1, <1>5, <1>7 DEF Holds, PolicyHolds, Authenticating
<1> QED BY <1>2, <1>6, <1>8, <1>9, RequestGoes DEF Holds

-----------------------------------------------------------------------------
(* What changes under the requests.                                        *)

\* Keys come and go, accounts and registrations stay.
LEMMA KeysMove ==
    ASSUME GateInv, TokensInv', RowsKept, UNCHANGED <<active, policy, request, since>>,
           registry' \in Registries
    PROVE  GateInv'
<1>1. TypeOK'
  BY DEF GateInv, TypeOK, TokensInv
<1>2. ASSUME NEW r \in Requests PROVE Holds(request[r], since[r])'
  <2> DEFINE q == request[r]
             i == since[r]
  <2>1. Holds(q, i) /\ q \in Request
    BY RequestTypes
  <2>2. ASSUME NEW t \in TokenIds, row[t].owner # None
        PROVE  row'[t].owner = row[t].owner /\ (row[t].revoked => row'[t].revoked)
    BY <2>2 DEF RowsKept
  <2>3. request'[r] = q /\ since'[r] = i /\ active' = active /\ policy' = policy
    OBVIOUS
  <2>4. None \notin Owners
    BY TokensAssumption
  <2>5. q.step \in InTime \cup {"owner"} => row'[q.token].owner = row[q.token].owner
    BY <2>1, <2>2, <2>4 DEF Holds, SinceHolds
  <2>6. SinceHolds(request[r], since[r])'
    <3>1. ASSUME q.step \in Authenticating, NEW n \in 1..Len(q.candidates),
                 q.candidates[n] \in TokenIds
          PROVE  /\ row'[q.candidates[n]].owner # None
                 /\ row'[q.candidates[n]].revoked \/ q.candidates[n] \in i.live
      BY <2>1, <2>2, <3>1 DEF Holds, SinceHolds
    <3> QED BY <2>1, <2>3, <2>5, <3>1 DEF Holds, SinceHolds
  <2>7. PolicyHolds(request[r])'
    BY <2>1, <2>3 DEF Holds, PolicyHolds, Allows
  <2> QED BY <2>6, <2>7 DEF Holds
<1> QED BY <1>1, <1>2 DEF GateInv

\* An account changes, and every request in flight has seen both states.
LEMMA UpdateAdminStateKeeps ==
    ASSUME GateInv, NEW o \in Owners, NEW on \in BOOLEAN, NEW p \in Policies,
           UpdateAdminState(o, on, p)
    PROVE  GateInv'
<1>0. /\ TokensInv' /\ RowsKept
  BY TokensKept DEF GateInv, Next
<1>1. /\ active' \subseteq Owners /\ policy' = [policy EXCEPT ![o] = p]
      /\ policy \in [Owners -> Policies] /\ policy' \in [Owners -> Policies]
      /\ row' = row /\ request' = request /\ registry' = registry
  BY DEF UpdateAdminState, GateInv, TypeOK
<1>2. ASSUME NEW r \in Requests
      PROVE  /\ since'[r] \in Instants
             /\ request[r].step # "idle" =>
                   /\ since'[r].live = since[r].live
                   /\ since'[r].active = since[r].active \cup active'
                   /\ \A u \in Owners :
                         /\ since[r].policies[u] \subseteq since'[r].policies[u]
                         /\ policy'[u] \in {policy[u]} \cup since'[r].policies[u]
             /\ request[r].step = "idle" => since'[r] = since[r]
  <2>1. since[r] \in Instants
    BY RequestTypes
  <2>2. CASE request[r].step = "idle"
    BY <2>1, <2>2 DEF UpdateAdminState, At
  <2>3. CASE request[r].step # "idle"
    <3>1. since'[r] = [since[r] EXCEPT !.active = @ \cup active',
                                       !.policies[o] = @ \cup {p}]
      BY <2>3 DEF UpdateAdminState, At
    <3>2. /\ since'[r].live = since[r].live
          /\ since'[r].active = since[r].active \cup active'
          /\ since'[r].policies = [since[r].policies EXCEPT ![o] = @ \cup {p}]
      BY <2>1, <3>1 DEF Instants
    <3>3. since[r].policies \in [Owners -> SUBSET Policies]
      BY <2>1 DEF Instants
    <3>4. /\ since'[r].policies \in [Owners -> SUBSET Policies]
          /\ \A u \in Owners :
                /\ since[r].policies[u] \subseteq since'[r].policies[u]
                /\ policy'[u] \in {policy[u]} \cup since'[r].policies[u]
      BY <1>1, <3>2, <3>3
    <3>5. since'[r] \in Instants
      BY <1>1, <2>1, <3>1, <3>4, <3>2 DEF Instants
    <3> QED BY <2>3, <3>2, <3>4, <3>5
  <2> QED BY <2>2, <2>3
<1>3. TypeOK'
  <2>1. since' \in [Requests -> Instants]
    <3>1. since' = [r \in Requests |-> since'[r]]
      BY DEF UpdateAdminState
    <3> QED BY <1>2, <3>1
  <2> QED BY <1>0, <1>1, <2>1 DEF GateInv, TypeOK, TokensInv
<1>4. ASSUME NEW r \in Requests PROVE Holds(request[r], since[r])'
  <2> DEFINE q == request[r]
  <2>1. Holds(q, since[r])
    BY RequestTypes
  <2>2. PolicyHolds(q)'
    BY <1>1, <2>1 DEF Holds, PolicyHolds, Allows
  <2>3. SinceHolds(request[r], since[r])'
    <3>1. CASE q.step = "idle"
      BY <1>1, <3>1 DEF SinceHolds, Authenticating, InTime
    <3>2. CASE q.step # "idle"
      <4>1. active' \subseteq since'[r].active
        BY <1>2, <3>2
      <4>2. \A u \in Owners : policy'[u] \in since'[r].policies[u]
        BY <1>2, <2>1, <3>2 DEF Holds, SinceHolds
      <4>3. q.step \in InTime =>
               /\ row[q.token].owner \in since'[r].active
               /\ q.grant \in since'[r].policies[row[q.token].owner]
        BY <1>2, <2>1, <3>2 DEF Holds, SinceHolds
      <4> QED BY <1>1, <1>2, <2>1, <3>2, <4>1, <4>2, <4>3 DEF Holds, SinceHolds
    <3> QED BY <3>1, <3>2
  <2> QED BY <2>2, <2>3 DEF Holds
<1> QED BY <1>0, <1>3, <1>4 DEF GateInv

LEMMA CrashKeeps ==
    ASSUME GateInv, Crash
    PROVE  GateInv'
<1>1. TokensInv'
  BY EndCallsKeeps DEF Crash, GateInv
<1>2. /\ request' \in [Requests -> Request] /\ since' \in [Requests -> Instants]
      /\ \A r \in Requests : request'[r] = IdleRequest /\ since'[r] = NoInstant
      /\ active' = active /\ policy' = policy /\ registry' = registry /\ row' = row
  BY IdleTyped DEF Crash, EndCalls
<1>3. TypeOK'
  BY <1>1, <1>2 DEF GateInv, TypeOK, TokensInv
<1>4. ASSUME NEW r \in Requests PROVE Holds(request[r], since[r])'
  <2>1. Holds(request'[r], since'[r])
    BY <1>2, IdleTyped
  <2> QED BY <1>2, <2>1 DEF Holds, SinceHolds, PolicyHolds, Allows
<1> QED BY <1>1, <1>3, <1>4 DEF GateInv

LEMMA RequestStepKeeps ==
    ASSUME GateInv, NEW r \in Requests, RequestStep(r)
    PROVE  GateInv'
<1>1. CASE \E route \in Routes, encoded \in BOOLEAN, cs \in Presented :
              Receive(r, route, encoded, cs)
  BY <1>1, ReceiveKeeps
<1>2. CASE ReadToken(r) \/ ReadOwner(r)
  BY <1>2, ReadTokenKeeps, ReadOwnerKeeps
<1>3. CASE \E body \in Bodies : ReceiveBody(r, body)
  BY <1>3, ReceiveBodyKeeps
<1>4. CASE Decide(r) \/ UpstreamRoutes(r) \/ UpstreamLists(r)
  BY <1>4, DecideKeeps, UpstreamRoutesKeeps, UpstreamListsKeeps
<1>5. CASE AdmitSpend(r)
  BY <1>5, ToKeeps DEF AdmitSpend, At
<1>6. CASE SendListing(r)
  BY <1>6, ToKeeps DEF SendListing, At
<1>7. CASE \E m \in Names, priced \in BOOLEAN : FilterEntry(r, m, priced)
  BY <1>7, FilterEntryKeeps
<1>8. CASE \/ LookupFails(r) \/ RefuseBody(r) \/ RefuseSpend(r)
           \/ ListingFails(r) \/ Finish(r)
  BY <1>8, AnsweredKeeps
     DEF LookupFails, RefuseBody, RefuseSpend, ListingFails, Finish
<1> QED BY <1>1, <1>2, <1>3, <1>4, <1>5, <1>6, <1>7, <1>8 DEF RequestStep

LEMMA GateKept ==
    ASSUME GateInv, [Next]_vars
    PROVE  GateInv'
<1>0. TokensInv' /\ RowsKept /\ registry \in Registries
  BY TokensKept DEF GateInv, TypeOK
<1>1. CASE TokensChange
  BY <1>0, <1>1, KeysMove DEF TokensChange, gateVars
<1>2. CASE Crash
  BY <1>2, CrashKeeps
<1>3. ASSUME NEW r \in Requests, RequestStep(r) PROVE GateInv'
  BY <1>3, RequestStepKeeps
<1>4. ASSUME NEW o \in Owners, NEW on \in BOOLEAN, NEW p \in Policies,
             UpdateAdminState(o, on, p)
      PROVE  GateInv'
  BY <1>4, UpdateAdminStateKeeps
<1>5. ASSUME NEW new \in Registries, Register(new) PROVE GateInv'
  BY <1>0, <1>5, KeysMove DEF Register
<1>6. CASE UNCHANGED vars
  BY <1>0, <1>6, KeysMove DEF vars, gateVars
<1> QED BY <1>1, <1>2, <1>3, <1>4, <1>5, <1>6, StepOf

LEMMA GateBegins == Init => GateInv
<1> SUFFICES ASSUME Init PROVE GateInv
  OBVIOUS
<1>1. TokensInv
  BY TokensBegin DEF Init
<1>2. TypeOK
  BY <1>1, IdleTyped DEF Init, TypeOK, TokensInv
<1>3. \A r \in Requests : Holds(request[r], since[r])
  BY IdleTyped DEF Init
<1> QED BY <1>1, <1>2, <1>3 DEF GateInv

\* The state of the keys and of the requests is of its type (Gate, Tokens).
THEOREM GateTyped == Spec => []TypeOK
<1>1. GateInv /\ [Next]_vars => GateInv'
  BY GateKept
<1>2. GateInv => TypeOK
  BY DEF GateInv
<1> QED BY <1>1, <1>2, GateBegins, PTL DEF Spec

(***************************************************************************)
(* What a request acts on was true after it came (TokenResolver.Resolve),  *)
(* though its two reads are apart and keys, accounts and policies change   *)
(* between them: its key was live when it came, the key's owner was active *)
(* and held the grant at some instant since.                               *)
(***************************************************************************)
THEOREM RequestsInTime == Spec => []AuthenticatedInTime
<1>1. GateInv /\ [Next]_vars => GateInv'
  BY GateKept
<1>2. GateInv => AuthenticatedInTime
  BY HoldsMeansInTime DEF GateInv
<1> QED BY <1>1, <1>2, GateBegins, PTL DEF Spec

(***************************************************************************)
(* What is admitted, listed or served stays in the request's grant         *)
(* (policyGate, Routed, Policy.Covers), for any registry, any policies and *)
(* any folding of names: upstream, reading the request by itself, could    *)
(* choose nothing the grant does not allow, and what it does choose later  *)
(* is allowed unless the registry has moved in between.                    *)
(***************************************************************************)
THEOREM RequestsInPolicy == Spec => []StaysInPolicy
<1>1. GateInv /\ [Next]_vars => GateInv'
  BY GateKept
<1>2. GateInv => StaysInPolicy
  BY HoldsMeansPolicy DEF GateInv
<1> QED BY <1>1, <1>2, GateBegins, PTL DEF Spec

=============================================================================
