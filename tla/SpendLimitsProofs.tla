-------------------------- MODULE SpendLimitsProofs --------------------------
(***************************************************************************)
(* Proofs about SpendLimits, for every set of accounts, slots,             *)
(* administrators, rule sets and costs.                                    *)
(***************************************************************************)
EXTENDS SpendLimits, FiniteSetTheorems, WellFoundedInduction, TLAPS

USE LengthsAssumption, NoRowAssumption, SpendAssumption

-----------------------------------------------------------------------------
(* What a transaction makes of the rows of an account is again rows.       *)

LEMMA OpenedType ==
    ASSUME NEW rows \in Rows, NEW open, NEW drop, NEW at \in Nat
    PROVE  Opened(rows, open, drop, at) \in Rows
BY DEF Opened, Rows, Row

LEMMA ChargedType ==
    ASSUME NEW rows \in Rows, NEW cost \in Nat
    PROVE  Charged(rows, cost) \in Rows
BY DEF Charged, Rows, Row, Stored

LEMMA WithoutType ==
    ASSUME NEW rows \in Rows, NEW lengths
    PROVE  Without(rows, lengths) \in Rows
BY DEF Without, Rows, Row

LEMMA NoRowsType == NoRows \in Rows
BY DEF NoRows, Rows

LEMMA EffectiveType ==
    ASSUME NEW c \in Custom, NEW d \in RuleSets
    PROVE  Effective(c, d) \in RuleSets
BY DEF Effective, Custom

LEMMA IdleReqType == IdleReq \in Request
BY NoRowsType DEF IdleReq, Request, ReqPC, Custom

LEMMA IdleOpType == IdleOp \in Op
BY DEF IdleOp, Op, OpPC, Custom

-----------------------------------------------------------------------------

(***************************************************************************)
(* The inductive invariant.  Only the holder of mu is inside SetDefaults,  *)
(* with a valid set; from its first write on that set is the stored one,   *)
(* and except between its two writes, or after a write that was reported   *)
(* failed, memory and store agree.                                         *)
(***************************************************************************)
SetDefaultsPC == {"store", "swap", "audit", "drop"}

MutexInv ==
    \A a \in Admins : op[a].pc \in SetDefaultsPC =>
        /\ mu = a
        /\ op[a].set \in RuleSets
        /\ op[a].pc # "store" => op[a].set = stored

InUse ==
    /\ \A r \in Slots : req[r].pc # "idle" => req[r].user \in Users
    /\ \A a \in Admins :
          op[a].pc \notin SetDefaultsPC \cup {"idle"} => op[a].user \in Users

IInv == TypeOK /\ InUse /\ MutexInv /\ MemoryMatchesStore

LEMMA InitIInv == Init => IInv
<1>1. ASSUME Init PROVE TypeOK
  <2>1. windows \in [Users -> Rows] BY <1>1, NoRowsType DEF Init
  <2>2. req \in [Slots -> Request] BY <1>1, IdleReqType DEF Init
  <2>3. op \in [Admins -> Op] BY <1>1, IdleOpType DEF Init
  <2>4. adrift \in BOOLEAN BY <1>1 DEF Init
  <2>5. /\ now \in 0 .. MaxTime /\ stored \in RuleSets /\ memory \in RuleSets
        /\ mu \in Admins \cup {NoAdmin}
    BY <1>1 DEF Init
  <2>6. custom \in [Users -> Custom] /\ ledger \in [Users -> Nat]
    BY <1>1 DEF Init, Custom
  <2> QED BY <2>1, <2>2, <2>3, <2>4, <2>5, <2>6 DEF TypeOK
<1>2. ASSUME Init PROVE InUse /\ MutexInv /\ MemoryMatchesStore
  BY <1>2 DEF Init, InUse, MutexInv, MemoryMatchesStore, IdleOp, IdleReq,
              SetDefaultsPC
<1> QED BY <1>1, <1>2 DEF IInv

\* A step of the gate or of the ledger changes none of the defaults, and no
\* administrator's call.
LEMMA RequestStepIInv ==
    ASSUME IInv, NEW r \in Slots, RequestStep(r)
    PROVE  IInv'
<1> USE DEF IInv
<1>0. req[r] \in Request /\ IdleReq \in Request
  BY IdleReqType DEF TypeOK
<1>1. CASE \E u \in Users : Authenticate(r, u)
  <2>1. PICK u \in Users : Authenticate(r, u) BY <1>1
  <2>2. req' \in [Slots -> Request]
    BY <1>0, <2>1 DEF Authenticate, TypeOK, Request, ReqPC, IdleReq
  <2>3. InUse'
    BY <1>0, <2>1 DEF Authenticate, InUse, TypeOK, IdleReq
  <2> QED BY <2>1, <2>2, <2>3
          DEF Authenticate, TypeOK, MutexInv, MemoryMatchesStore, store
<1>2. CASE \/ RefuseBody(r) \/ RefuseUnpriced(r) \/ AdmitFails(r)
          \/ LoseCharge(r)
  <2>1. req' = [req EXCEPT ![r] = IdleReq]
        /\ UNCHANGED <<now, store, memory, mu, op>>
    BY <1>2 DEF RefuseBody, RefuseUnpriced, AdmitFails, LoseCharge
  <2>2. req' \in [Slots -> Request] BY <1>0, <2>1 DEF TypeOK
  <2>3. InUse' BY <1>0, <2>1 DEF InUse, TypeOK, IdleReq
  <2> QED BY <2>1, <2>2, <2>3
          DEF TypeOK, MutexInv, MemoryMatchesStore, store
<1>3. CASE TakeRules(r)
  <2>1. Effective(req[r].grant, memory) \in RuleSets
    BY <1>0, EffectiveType DEF TypeOK, Request
  <2>2. req' \in [Slots -> Request]
    BY <1>0, <1>3, <2>1 DEF TakeRules, TypeOK, Request, ReqPC, Custom
  <2>3. InUse'
    BY <1>0, <1>3 DEF TakeRules, InUse, TypeOK, Request
  <2> QED BY <1>3, <2>2, <2>3
          DEF TakeRules, TypeOK, MutexInv, MemoryMatchesStore, store
<1>4. CASE ReadWindows(r)
  <2>1. req[r].user \in Users BY <1>4 DEF ReadWindows, InUse
  <2>2. windows[req[r].user] \in Rows BY <2>1 DEF TypeOK
  <2>3. req' \in [Slots -> Request]
    BY <1>0, <1>4, <2>2 DEF ReadWindows, TypeOK, Request, ReqPC
  <2>4. InUse'
    BY <1>0, <1>4 DEF ReadWindows, InUse, TypeOK, Request
  <2> QED BY <1>4, <2>3, <2>4
          DEF ReadWindows, TypeOK, MutexInv, MemoryMatchesStore, store
<1>5. CASE Decide(r)
  <2>1. req[r].user \in Users BY <1>5 DEF Decide, InUse
  <2>2. now \in Nat BY DEF TypeOK
  <2>3. /\ req' \in [Slots -> Request]
        /\ \A s \in Slots : req'[s].pc # "idle" => req'[s].user \in Users
    <3>1. CASE req' = [req EXCEPT ![r] = IdleReq]
      BY <1>0, <3>1 DEF TypeOK, InUse, IdleReq
    <3>2. CASE req' = [req EXCEPT ![r].pc = "served", ![r].at = now,
                                  ![r].rows = NoRows]
      BY <1>0, <2>1, <2>2, <3>2, NoRowsType
      DEF TypeOK, InUse, Request, ReqPC
    <3>3. CASE req' = [req EXCEPT ![r].pc = "open", ![r].at = now]
      BY <1>0, <2>1, <2>2, <3>3 DEF TypeOK, InUse, Request, ReqPC
    <3> QED BY <1>5, <3>1, <3>2, <3>3 DEF Decide
  <2>4. UNCHANGED <<now, store, memory, mu, op>> BY <1>5 DEF Decide
  <2> QED BY <2>3, <2>4
          DEF InUse, TypeOK, MutexInv, MemoryMatchesStore, store
<1>6. CASE OpenWindows(r)
  <2>1. req[r].user \in Users /\ req[r].at \in Nat
    BY <1>0, <1>6 DEF OpenWindows, InUse, Request
  <2>2. windows' \in [Users -> Rows]
    BY <1>6, <2>1, OpenedType DEF OpenWindows, TypeOK
  <2>3. req' \in [Slots -> Request]
    BY <1>0, <1>6, NoRowsType DEF OpenWindows, TypeOK, Request, ReqPC
  <2>4. InUse'
    BY <1>0, <1>6 DEF OpenWindows, InUse, TypeOK, Request
  <2> QED BY <1>6, <2>2, <2>3, <2>4
          DEF OpenWindows, TypeOK, MutexInv, MemoryMatchesStore
<1>7. CASE \E c \in Costs : Charge(r, c)
  <2>1. PICK c \in Costs : Charge(r, c) BY <1>7
  <2>2. req[r].user \in Users /\ c \in Nat BY <2>1 DEF Charge, InUse
  <2>3. windows' \in [Users -> Rows]
    BY <2>1, <2>2, ChargedType DEF Charge, TypeOK
  <2>4. ledger' \in [Users -> Nat] BY <2>1, <2>2 DEF Charge, TypeOK
  <2>5. req' \in [Slots -> Request] BY <1>0, <2>1 DEF Charge, TypeOK
  <2>6. InUse' BY <1>0, <2>1 DEF Charge, InUse, TypeOK, IdleReq
  <2> QED BY <2>1, <2>3, <2>4, <2>5, <2>6
          DEF Charge, TypeOK, MutexInv, MemoryMatchesStore
<1> QED BY <1>1, <1>2, <1>3, <1>4, <1>5, <1>6, <1>7, RequestStep(r)
        DEF RequestStep

\* A step of an administrator's call changes no request.
LEMMA AdminStepIInv ==
    ASSUME IInv, NEW a \in Admins, AdminStep(a)
    PROVE  IInv'
<1> USE DEF IInv
<1>0. op[a] \in Op /\ IdleOp \in Op /\ a # NoAdmin
  BY IdleOpType DEF TypeOK
<1>1. CASE \E set \in RuleSets : LockDefaults(a, set)
  <2>1. PICK set \in RuleSets : LockDefaults(a, set) BY <1>1
  <2>2. op' \in [Admins -> Op]
    BY <1>0, <2>1 DEF LockDefaults, TypeOK, IdleOp, Op, OpPC, Custom
  <2>3. MutexInv'
    BY <1>0, <2>1 DEF LockDefaults, TypeOK, MutexInv, IdleOp, SetDefaultsPC,
                      store
  <2>4. MemoryMatchesStore'
    BY <1>0, <2>1 DEF LockDefaults, TypeOK, MemoryMatchesStore, store
  <2> QED BY <1>0, <2>1, <2>2, <2>3, <2>4
          DEF LockDefaults, TypeOK, InUse, IdleOp, SetDefaultsPC, store
<1>2. CASE StoreDefaults(a)
  <2>1. op' \in [Admins -> Op]
    BY <1>0, <1>2 DEF StoreDefaults, TypeOK, Op, OpPC
  <2>2. op[a].set \in RuleSets /\ mu = a
    BY <1>2 DEF StoreDefaults, MutexInv, SetDefaultsPC
  <2>3. MutexInv'
    BY <1>0, <1>2, <2>2 DEF StoreDefaults, TypeOK, MutexInv, SetDefaultsPC, Op
  <2>4. MemoryMatchesStore'
    BY <1>0, <1>2, <2>2 DEF StoreDefaults, TypeOK, MemoryMatchesStore, Op
  <2> QED BY <1>0, <1>2, <2>1, <2>2, <2>3, <2>4
          DEF StoreDefaults, TypeOK, InUse, SetDefaultsPC, Op
<1>3. CASE SwapDefaults(a)
  <2>1. op' \in [Admins -> Op]
    BY <1>0, <1>3 DEF SwapDefaults, TypeOK, Op, OpPC
  <2>2. op[a].set \in RuleSets /\ mu = a /\ op[a].set = stored
    BY <1>3 DEF SwapDefaults, MutexInv, SetDefaultsPC
  <2>3. MutexInv'
    BY <1>0, <1>3, <2>2 DEF SwapDefaults, TypeOK, MutexInv, SetDefaultsPC, Op,
                            store
  <2>4. MemoryMatchesStore'
    BY <1>3, <2>2 DEF SwapDefaults, MemoryMatchesStore, store
  <2> QED BY <1>0, <1>3, <2>1, <2>2, <2>3, <2>4
          DEF SwapDefaults, TypeOK, InUse, SetDefaultsPC, Op, store
<1>4. CASE AuditDefaults(a)
  <2>1. op' \in [Admins -> Op]
    BY <1>0, <1>4 DEF AuditDefaults, TypeOK, Op, OpPC
  <2>2. MutexInv'
    BY <1>0, <1>4 DEF AuditDefaults, TypeOK, MutexInv, SetDefaultsPC, Op,
                      store
  <2>3. MemoryMatchesStore'
    BY <1>0, <1>4 DEF AuditDefaults, TypeOK, MemoryMatchesStore, Op, store
  <2> QED BY <1>0, <1>4, <2>1, <2>2, <2>3
          DEF AuditDefaults, TypeOK, InUse, SetDefaultsPC, Op, store
<1>5. CASE DropInherited(a) \/ SetDefaultsFails(a)
  <2>1. /\ op[a].pc \in SetDefaultsPC \ {"swap"}
        /\ op' = [op EXCEPT ![a] = IdleOp]
        /\ mu' = NoAdmin
        /\ UNCHANGED <<now, stored, adrift, custom, ledger, memory, req>>
    BY <1>5 DEF DropInherited, SetDefaultsFails, SetDefaultsPC, store
  <2>2. windows' \in [Users -> Rows]
    BY <1>5, WithoutType DEF DropInherited, SetDefaultsFails, TypeOK, store
  <2>3. mu = a BY <2>1 DEF MutexInv
  <2>4. MutexInv'
    BY <1>0, <2>1, <2>3 DEF TypeOK, MutexInv, SetDefaultsPC, IdleOp
  <2>5. MemoryMatchesStore'
    BY <2>1, <2>3 DEF MemoryMatchesStore
  <2> QED BY <1>0, <2>1, <2>2, <2>4, <2>5
          DEF TypeOK, InUse, SetDefaultsPC, IdleOp
<1>11. CASE StoreDefaultsUnacknowledged(a)
  <2>1. op[a].set \in RuleSets /\ mu = a
    BY <1>11 DEF StoreDefaultsUnacknowledged, MutexInv, SetDefaultsPC
  <2>2. op' \in [Admins -> Op]
    BY <1>0, <1>11 DEF StoreDefaultsUnacknowledged, TypeOK
  <2>3. MutexInv'
    BY <1>0, <1>11, <2>1
    DEF StoreDefaultsUnacknowledged, TypeOK, MutexInv, SetDefaultsPC, IdleOp
  <2>4. MemoryMatchesStore'
    BY <1>11 DEF StoreDefaultsUnacknowledged, MemoryMatchesStore
  <2> QED BY <1>0, <1>11, <2>1, <2>2, <2>3, <2>4
          DEF StoreDefaultsUnacknowledged, TypeOK, InUse, SetDefaultsPC,
              IdleOp
<1>6. CASE \E u \in Users, set \in RuleSets \cup {Inherit} :
              UpdateSpendLimits(a, u, set)
  <2>1. PICK u \in Users, set \in Custom : UpdateSpendLimits(a, u, set)
    BY <1>6 DEF Custom
  <2>2. op' \in [Admins -> Op]
    BY <1>0, <2>1 DEF UpdateSpendLimits, TypeOK, IdleOp, Op, OpPC
  <2>3. MutexInv'
    BY <1>0, <2>1 DEF UpdateSpendLimits, TypeOK, MutexInv, IdleOp,
                      SetDefaultsPC
  <2>4. MemoryMatchesStore'
    BY <1>0, <2>1 DEF UpdateSpendLimits, TypeOK, MemoryMatchesStore
  <2> QED BY <1>0, <2>1, <2>2, <2>3, <2>4
          DEF UpdateSpendLimits, TypeOK, InUse, IdleOp, SetDefaultsPC
<1>7. CASE AuditUser(a) \/ ReadUserWindows(a)
  <2>1. PICK pc \in {"readUser", "decideUser"}, lengths \in SUBSET Lengths :
           /\ op[a].pc \in {"auditUser", "readUser"}
           /\ op' = [op EXCEPT ![a].pc = pc, ![a].lengths = lengths]
           /\ UNCHANGED <<now, store, memory, mu, req>>
    <3>1. CASE AuditUser(a)
      <4>1. op[a].lengths \in SUBSET Lengths BY <1>0 DEF Op
      <4>2. op' = [op EXCEPT ![a].pc = "readUser",
                             ![a].lengths = op[a].lengths]
        BY <1>0, <3>1 DEF AuditUser, TypeOK, Op
      <4> QED BY <3>1, <4>1, <4>2 DEF AuditUser
    <3>2. CASE ReadUserWindows(a)
      BY <3>2 DEF ReadUserWindows, Stored
    <3> QED BY <1>7, <3>1, <3>2
  <2>2. op' \in [Admins -> Op]
    BY <1>0, <2>1 DEF TypeOK, Op, OpPC
  <2>3. MutexInv'
    BY <1>0, <2>1 DEF TypeOK, MutexInv, SetDefaultsPC, Op, store
  <2>4. MemoryMatchesStore'
    BY <1>0, <2>1 DEF TypeOK, MemoryMatchesStore, Op, store
  <2> QED BY <1>0, <2>1, <2>2, <2>3, <2>4
          DEF TypeOK, InUse, SetDefaultsPC, Op, store
<1>8. CASE DecideOrphans(a)
  <2> DEFINE orphans == op[a].lengths \ DOMAIN Effective(op[a].set, memory)
             next == [op[a] EXCEPT !.pc = "dropUser", !.lengths = orphans]
  <2>1. op[a].user \in Users /\ op[a].pc = "decideUser"
    BY <1>8 DEF DecideOrphans, InUse, SetDefaultsPC
  <2>2. next \in Op /\ next.pc = "dropUser" /\ next.user \in Users
    BY <1>0, <2>1 DEF Op, OpPC
  <2> HIDE DEF next
  <2>3. PICK o \in {IdleOp, next} : op' = [op EXCEPT ![a] = o]
    BY <1>8 DEF DecideOrphans, next
  <2>4. UNCHANGED <<now, store, memory, mu, req>> BY <1>8 DEF DecideOrphans
  <2>5. /\ op' \in [Admins -> Op]
        /\ o.pc \in {"idle", "dropUser"}
        /\ o.pc # "idle" => o.user \in Users
    <3>1. IdleOp.pc = "idle"
      BY DEF IdleOp
    <3>2. o \in Op
      BY <1>0, <2>2
    <3>3. op' \in [Admins -> Op]
      BY <2>3, <3>2 DEF TypeOK
    <3>4. /\ o.pc \in {"idle", "dropUser"}
          /\ o.pc # "idle" => o.user \in Users
      BY <2>2, <3>1
    <3> QED BY <3>3, <3>4
  <2>6. MutexInv'
    BY <2>3, <2>4, <2>5 DEF TypeOK, MutexInv, SetDefaultsPC, store
  <2>7. MemoryMatchesStore'
    BY <2>1, <2>3, <2>4 DEF TypeOK, MemoryMatchesStore, store
  <2> QED BY <2>3, <2>4, <2>5, <2>6, <2>7
          DEF TypeOK, InUse, SetDefaultsPC, store
<1>9. CASE DropOrphans(a) \/ ResetWindows(a) \/ UserCallFails(a)
  <2>1. /\ op[a].pc \notin SetDefaultsPC \cup {"idle"}
        /\ op' = [op EXCEPT ![a] = IdleOp]
        /\ UNCHANGED <<now, stored, adrift, custom, ledger, memory, mu, req>>
    BY <1>9 DEF DropOrphans, ResetWindows, UserCallFails, SetDefaultsPC, store
  <2>2. op[a].user \in Users BY <2>1 DEF InUse
  <2>3. windows' \in [Users -> Rows]
    BY <1>9, <2>2, WithoutType
    DEF DropOrphans, ResetWindows, UserCallFails, TypeOK, store
  <2>4. MutexInv'
    BY <1>0, <2>1 DEF TypeOK, MutexInv, SetDefaultsPC, IdleOp
  <2>5. MemoryMatchesStore'
    BY <1>0, <2>1 DEF TypeOK, MemoryMatchesStore, SetDefaultsPC
  <2> QED BY <1>0, <2>1, <2>3, <2>4, <2>5
          DEF TypeOK, InUse, SetDefaultsPC, IdleOp
<1>10. CASE \E u \in Users, lengths \in SUBSET Lengths :
               BeginReset(a, u, lengths)
  <2>1. PICK u \in Users, lengths \in SUBSET Lengths :
           BeginReset(a, u, lengths)
    BY <1>10
  <2>2. op' \in [Admins -> Op]
    BY <1>0, <2>1 DEF BeginReset, TypeOK, IdleOp, Op, OpPC
  <2>3. MutexInv'
    BY <1>0, <2>1 DEF BeginReset, TypeOK, MutexInv, IdleOp, SetDefaultsPC,
                      store
  <2>4. MemoryMatchesStore'
    BY <1>0, <2>1 DEF BeginReset, TypeOK, MemoryMatchesStore, store
  <2> QED BY <1>0, <2>1, <2>2, <2>3, <2>4
          DEF BeginReset, TypeOK, InUse, IdleOp, SetDefaultsPC, store
<1> QED BY <1>1, <1>2, <1>3, <1>4, <1>5, <1>6, <1>7, <1>8, <1>9, <1>10,
           <1>11, AdminStep(a)
        DEF AdminStep

LEMMA NextIInv == IInv /\ [Next]_vars => IInv'
<1> SUFFICES ASSUME IInv, [Next]_vars PROVE IInv'
  OBVIOUS
<1>1. CASE \E r \in Slots : RequestStep(r)
  BY <1>1, RequestStepIInv
<1>2. CASE \E a \in Admins : AdminStep(a)
  BY <1>2, AdminStepIInv
<1>3. CASE Tick
  BY <1>3 DEF Tick, IInv, TypeOK, InUse, MutexInv, MemoryMatchesStore, store
<1>4. CASE Restart
  <2>1. req' \in [Slots -> Request] /\ op' \in [Admins -> Op]
    BY <1>4, IdleReqType, IdleOpType DEF Restart
  <2>2. InUse' /\ MutexInv'
    BY <1>4 DEF Restart, InUse, MutexInv, IdleReq, IdleOp, SetDefaultsPC
  <2> QED BY <1>4, <2>1, <2>2
          DEF Restart, IInv, TypeOK, MemoryMatchesStore, store
<1>5. CASE UNCHANGED vars
  BY <1>5 DEF vars, IInv, TypeOK, InUse, MutexInv, MemoryMatchesStore
<1> QED BY <1>1, <1>2, <1>3, <1>4, <1>5 DEF Next

LEMMA IInvHolds == Spec => []IInv
BY InitIInv, NextIInv, PTL DEF Spec

\* Every variable keeps its type, and the sets requests are limited by are
\* always ones Validate accepted.
THEOREM TypeCorrect == Spec => []TypeOK
BY IInvHolds, PTL DEF IInv

\* The in-memory defaults differ from the stored ones only inside the one
\* SetDefaults that holds mu, between its two writes, or after a write that
\* committed and was reported failed: whatever calls fail, interleave or are
\* cut off by a restart.
THEOREM DefaultsInStep == Spec => []MemoryMatchesStore
BY IInvHolds, PTL DEF IInv

-----------------------------------------------------------------------------
(* What a transaction does to a window that stays.                         *)

LEMMA StoredRow ==
    ASSUME NEW rows \in Rows, NEW l \in Stored(rows)
    PROVE  /\ l \in Lengths /\ l \in Nat /\ l > 0
           /\ rows[l] \in Row
           /\ rows[l].started \in Nat /\ rows[l].spent \in Nat
<1>1. l \in Lengths /\ rows[l] # NoRow BY DEF Stored
<1>2. l \in Nat /\ l > 0 BY <1>1
<1>3. rows[l] \in Row BY <1>1 DEF Rows
<1> QED BY <1>1, <1>2, <1>3 DEF Row

\* Open restarts a stored window only once it has ended.
LEMMA OpenedKeeps ==
    ASSUME NEW rows \in Rows, NEW open, NEW drop, NEW at \in Nat
    PROVE  /\ KeptOrEnded(rows, Opened(rows, open, drop, at))
           /\ GrewBy(rows, Opened(rows, open, drop, at), 0)
<1> DEFINE new == Opened(rows, open, drop, at)
<1>1. ASSUME NEW l \in Stored(rows), l \in Stored(new)
      PROVE  \/ new[l] = rows[l]
             \/ /\ EndsAt(rows, l) <= new[l].started
                /\ new[l].spent = 0
  <2>1. l \notin drop BY <1>1, StoredRow DEF Opened, Stored
  <2> QED BY <1>1, <2>1, StoredRow DEF Opened, EndsAt, LiveAt
<1> HIDE DEF new
<1>2. ASSUME NEW l \in Stored(rows)
      PROVE  /\ EndsAt(rows, l) > rows[l].started
             /\ EndsAt(rows, l) \in Nat
             /\ rows[l].spent \in Nat
  BY StoredRow DEF EndsAt
<1>3. KeptOrEnded(rows, new) BY <1>1, <1>2 DEF KeptOrEnded
<1>4. GrewBy(rows, new, 0)
  <2> SUFFICES ASSUME NEW l \in Stored(rows), l \in Stored(new),
                      new[l].started = rows[l].started
               PROVE  new[l].spent - rows[l].spent = 0
    BY DEF GrewBy
  <2>1. rows[l].started \in Nat BY StoredRow
  <2> QED BY <1>1, <1>2, <2>1
<1> QED BY <1>3, <1>4 DEF new

\* A charge adds its cost to every stored window.
LEMMA ChargedGrows ==
    ASSUME NEW rows \in Rows, NEW cost \in Nat
    PROVE  /\ KeptOrEnded(rows, Charged(rows, cost))
           /\ GrewBy(rows, Charged(rows, cost), cost)
<1> SUFFICES ASSUME NEW l \in Stored(rows)
             PROVE  LET new == Charged(rows, cost)[l]
                    IN  /\ new.started = rows[l].started
                        /\ new.spent = rows[l].spent + cost
                        /\ rows[l].spent \in Nat
  BY DEF KeptOrEnded, GrewBy
<1> QED BY StoredRow DEF Charged, Row

\* A deletion leaves the other windows as they were.
LEMMA WithoutKeeps ==
    ASSUME NEW rows \in Rows, NEW lengths
    PROVE  /\ KeptOrEnded(rows, Without(rows, lengths))
           /\ GrewBy(rows, Without(rows, lengths), 0)
<1> SUFFICES ASSUME NEW l \in Stored(rows),
                    l \in Stored(Without(rows, lengths))
             PROVE  Without(rows, lengths)[l] = rows[l]
  BY DEF KeptOrEnded, GrewBy, Rows, Row, Stored
<1> QED BY DEF Without, Stored

LEMMA SameKeeps ==
    ASSUME NEW rows \in Rows
    PROVE  KeptOrEnded(rows, rows) /\ GrewBy(rows, rows, 0)
BY DEF KeptOrEnded, GrewBy, Rows, Row, Stored

\* Who opens, and who deletes, windows of an account.
OpenedBy(r, u) ==
    /\ req[r].pc = "open" /\ req[r].user = u
    /\ windows'[u] = Opened(windows[u], Due(req[r].set, req[r].rows, req[r].at),
                            Orphans(req[r].set, req[r].rows), req[r].at)

DroppedBy(a, u) ==
    \/ /\ op[a].pc \in {"reset", "dropUser"} /\ op[a].user = u
       /\ windows'[u] = Without(windows[u], op[a].lengths)
    \/ /\ op[a].pc = "drop" /\ custom[u] = Inherit
       /\ UNCHANGED <<custom, stored>>
       /\ windows'[u] = Without(windows[u], Lengths \ DOMAIN op[a].set)

\* The ways a step changes the windows and the ledger of an account.
WindowChange(u) ==
    \/ /\ ledger'[u] = ledger[u]
       /\ \/ windows'[u] = windows[u]
          \/ \E r \in Slots : OpenedBy(r, u)
          \/ \E a \in Admins : DroppedBy(a, u)
    \/ \E c \in Costs : /\ ledger'[u] = ledger[u] + c
                        /\ windows'[u] = Charged(windows[u], c)

LEMMA WindowStep ==
    ASSUME IInv, [Next]_vars, NEW u \in Users
    PROVE  WindowChange(u)
<1> USE DEF IInv
<1>1. CASE UNCHANGED <<windows, ledger>>
  BY <1>1 DEF WindowChange
<1>2. ASSUME NEW r \in Slots, OpenWindows(r) PROVE WindowChange(u)
  <2>1. /\ req[r].pc = "open" /\ ledger' = ledger
        /\ windows' = [windows EXCEPT ![req[r].user] =
              Opened(windows[req[r].user],
                     Due(req[r].set, req[r].rows, req[r].at),
                     Orphans(req[r].set, req[r].rows), req[r].at)]
    BY <1>2 DEF OpenWindows
  <2>2. CASE u = req[r].user
    BY <2>1, <2>2 DEF TypeOK, WindowChange, OpenedBy
  <2>3. CASE u # req[r].user
    BY <2>1, <2>3 DEF TypeOK, WindowChange
  <2> QED BY <2>2, <2>3
<1>3. ASSUME NEW r \in Slots, NEW c \in Costs, Charge(r, c)
      PROVE  WindowChange(u)
  <2>1. CASE u = req[r].user
    <3>1. ledger'[u] = ledger[u] + c BY <1>3, <2>1 DEF Charge, TypeOK
    <3>2. windows'[u] = Charged(windows[u], c)
      BY <1>3, <2>1 DEF Charge, TypeOK
    <3> QED BY <3>1, <3>2 DEF WindowChange
  <2>2. CASE u # req[r].user
    BY <1>3, <2>2 DEF Charge, TypeOK, WindowChange
  <2> QED BY <2>1, <2>2
<1>4. ASSUME NEW a \in Admins, DropInherited(a) PROVE WindowChange(u)
  BY <1>4 DEF DropInherited, WindowChange, DroppedBy
<1>5. ASSUME NEW a \in Admins, DropOrphans(a) \/ ResetWindows(a)
      PROVE  WindowChange(u)
  <2>1. /\ windows' = [windows EXCEPT ![op[a].user] =
                          Without(windows[op[a].user], op[a].lengths)]
        /\ ledger' = ledger /\ op[a].pc \in {"reset", "dropUser"}
    BY <1>5 DEF DropOrphans, ResetWindows
  <2>2. CASE u = op[a].user
    BY <2>1, <2>2 DEF TypeOK, WindowChange, DroppedBy
  <2>3. CASE u # op[a].user
    BY <2>1, <2>3 DEF TypeOK, WindowChange
  <2> QED BY <2>2, <2>3
<1>6. CASE \E r \in Slots : RequestStep(r)
  <2>1. PICK r \in Slots : RequestStep(r) BY <1>6
  <2>2. CASE \/ \E v \in Users : Authenticate(r, v)
            \/ RefuseBody(r) \/ TakeRules(r) \/ RefuseUnpriced(r)
            \/ ReadWindows(r) \/ Decide(r) \/ AdmitFails(r) \/ LoseCharge(r)
    BY <1>1, <2>2 DEF Authenticate, RefuseBody, TakeRules, RefuseUnpriced,
                      ReadWindows, Decide, AdmitFails, LoseCharge, store
  <2> QED BY <1>2, <1>3, <2>1, <2>2 DEF RequestStep
<1>7. CASE \E a \in Admins : AdminStep(a)
  <2>1. PICK a \in Admins : AdminStep(a) BY <1>7
  <2>2. CASE \/ \E set \in RuleSets : LockDefaults(a, set)
            \/ StoreDefaults(a) \/ SwapDefaults(a) \/ AuditDefaults(a)
            \/ SetDefaultsFails(a) \/ StoreDefaultsUnacknowledged(a)
    BY <1>1, <2>2 DEF LockDefaults, StoreDefaults, SwapDefaults,
                      AuditDefaults, SetDefaultsFails,
                      StoreDefaultsUnacknowledged, store
  <2>3. CASE \/ \E v \in Users, set \in RuleSets \cup {Inherit} :
                   UpdateSpendLimits(a, v, set)
            \/ AuditUser(a) \/ ReadUserWindows(a) \/ DecideOrphans(a)
            \/ UserCallFails(a)
            \/ \E v \in Users, lengths \in SUBSET Lengths :
                   BeginReset(a, v, lengths)
    BY <1>1, <2>3 DEF UpdateSpendLimits, AuditUser, ReadUserWindows,
                      DecideOrphans, UserCallFails, BeginReset, store
  <2> QED BY <1>4, <1>5, <2>1, <2>2, <2>3 DEF AdminStep
<1>8. CASE Tick \/ Restart \/ UNCHANGED vars
  BY <1>1, <1>8 DEF Tick, Restart, vars, store
<1> QED BY <1>6, <1>7, <1>8 DEF Next

LEMMA WindowsStay ==
    ASSUME IInv, [Next]_vars, NEW u \in Users
    PROVE  /\ KeptOrEnded(windows[u], windows'[u])
           /\ \/ /\ ledger'[u] = ledger[u]
                 /\ GrewBy(windows[u], windows'[u], 0)
              \/ \E c \in Costs : /\ ledger'[u] = ledger[u] + c
                                  /\ GrewBy(windows[u], windows'[u], c)
<1>1. windows[u] \in Rows /\ \A r \in Slots : req[r].at \in Nat
  BY DEF IInv, TypeOK, Request
<1>2. WindowChange(u)
  BY WindowStep
<1>3. CASE windows'[u] = windows[u] /\ ledger'[u] = ledger[u]
  BY <1>1, <1>3, SameKeeps
<1>4. ASSUME NEW r \in Slots, OpenedBy(r, u), ledger'[u] = ledger[u]
      PROVE  /\ KeptOrEnded(windows[u], windows'[u])
             /\ GrewBy(windows[u], windows'[u], 0)
  BY <1>1, <1>4, OpenedKeeps DEF OpenedBy
<1>5. ASSUME NEW a \in Admins, DroppedBy(a, u), ledger'[u] = ledger[u]
      PROVE  /\ KeptOrEnded(windows[u], windows'[u])
             /\ GrewBy(windows[u], windows'[u], 0)
  BY <1>1, <1>5, WithoutKeeps DEF DroppedBy
<1>6. ASSUME NEW c \in Costs, windows'[u] = Charged(windows[u], c)
      PROVE  /\ KeptOrEnded(windows[u], windows'[u])
             /\ GrewBy(windows[u], windows'[u], c)
  BY <1>1, <1>6, ChargedGrows
<1> QED BY <1>2, <1>3, <1>4, <1>5, <1>6 DEF WindowChange

\* No step restarts a window that has not ended, or takes spend from it:
\* whatever requests open, charge, reset or drop windows at once.
THEOREM LiveWindowsKept == Spec => LiveWindowKept
<1>1. IInv /\ [Next]_vars =>
         [\A u \in Users : KeptOrEnded(windows[u], windows'[u])]_vars
  <2> SUFFICES ASSUME IInv, [Next]_vars, NEW u \in Users
               PROVE  KeptOrEnded(windows[u], windows'[u])
    OBVIOUS
  <2> QED BY WindowsStay
<1> QED BY <1>1, IInvHolds, PTL DEF Spec, LiveWindowKept

\* A window that stays grows by what the owner's ledger rows grow by, so its
\* spend is the cost recorded since it was opened.
THEOREM ChargesAreTheLedgers == Spec => ChargeFollowsLedger
<1>1. IInv /\ [Next]_vars =>
         [\A u \in Users :
             GrewBy(windows[u], windows'[u], ledger'[u] - ledger[u])]_vars
  <2> SUFFICES ASSUME IInv, [Next]_vars, NEW u \in Users
               PROVE  GrewBy(windows[u], windows'[u], ledger'[u] - ledger[u])
    OBVIOUS
  <2>1. windows[u] \in Rows /\ ledger[u] \in Nat BY DEF IInv, TypeOK
  <2>2. CASE /\ ledger'[u] = ledger[u]
             /\ GrewBy(windows[u], windows'[u], 0)
    BY <2>1, <2>2
  <2>3. CASE \E c \in Costs : /\ ledger'[u] = ledger[u] + c
                             /\ GrewBy(windows[u], windows'[u], c)
    <3>1. PICK c \in Costs : /\ ledger'[u] = ledger[u] + c
                             /\ GrewBy(windows[u], windows'[u], c)
      BY <2>3
    <3>2. c \in Nat /\ ledger'[u] - ledger[u] = c BY <2>1, <3>1
    <3> QED BY <3>1, <3>2
  <2> QED BY <2>2, <2>3, WindowsStay
<1> QED BY <1>1, IInvHolds, PTL DEF Spec, ChargeFollowsLedger

-----------------------------------------------------------------------------
(* Who may take a window away.                                             *)

\* Neither opening nor charging takes away a window that is not an orphan.
LEMMA OpenedStores ==
    ASSUME NEW rows \in Rows, NEW open, NEW drop, NEW at \in Nat,
           NEW l \in Stored(rows), l \notin drop
    PROVE  l \in Stored(Opened(rows, open, drop, at))
<1>1. l \in Lengths /\ rows[l] # NoRow
  BY DEF Stored
<1>2. [started |-> at, spent |-> 0] # NoRow
  BY DEF Row
<1> QED BY <1>1, <1>2 DEF Opened, Stored

LEMMA ChargedStores ==
    ASSUME NEW rows \in Rows, NEW cost \in Nat, NEW l \in Stored(rows)
    PROVE  l \in Stored(Charged(rows, cost))
<1>1. l \in Lengths /\ rows[l] \in Row /\ rows[l].spent \in Nat
  BY StoredRow
<1>2. [rows[l] EXCEPT !.spent = rows[l].spent + cost] \in Row
  BY <1>1 DEF Row
<1> QED BY <1>1, <1>2 DEF Charged, Stored

\* A live window whose rule stands is taken away only by a Reset, by SetUser's
\* own cleanup, or by a request that took its set before the rule existed;
\* whatever interleaves and fails, and whoever inherits.
THEOREM DropsAreStale == Spec => OnlyStaleDrops
<1>1. ASSUME IInv, [Next]_vars, NEW u \in Users,
             NEW l \in Stored(windows[u]) \ Stored(windows'[u])
      PROVE  \/ l \notin DOMAIN InForce(u) \cap DOMAIN InForce(u)'
             \/ \E a \in Admins : op[a].pc \in {"reset", "dropUser"}
                                 /\ op[a].user = u /\ l \in op[a].lengths
             \/ \E r \in Slots : /\ req[r].pc = "open" /\ req[r].user = u
                                 /\ l \notin DOMAIN req[r].set
  <2>1. windows[u] \in Rows /\ \A r \in Slots : req[r].at \in Nat
    BY <1>1 DEF IInv, TypeOK, Request
  <2>2. WindowChange(u)
    BY <1>1, WindowStep
  <2>3. ASSUME NEW r \in Slots, OpenedBy(r, u)
        PROVE  /\ req[r].pc = "open" /\ req[r].user = u
               /\ l \notin DOMAIN req[r].set
    <3>1. l \in Orphans(req[r].set, req[r].rows)
      BY <1>1, <2>1, <2>3, OpenedStores DEF OpenedBy
    <3> QED BY <2>3, <3>1 DEF OpenedBy, Orphans
  <2>4. ASSUME NEW a \in Admins, DroppedBy(a, u)
        PROVE  \/ l \notin DOMAIN InForce(u)
               \/ /\ op[a].pc \in {"reset", "dropUser"}
                  /\ op[a].user = u /\ l \in op[a].lengths
    <3>1. ASSUME NEW lengths, windows'[u] = Without(windows[u], lengths)
          PROVE  l \in lengths
      BY <1>1, <3>1 DEF Without, Stored
    <3>2. CASE op[a].pc = "drop" /\ custom[u] = Inherit
      <4>1. op[a].set = stored
        BY <1>1, <3>2 DEF IInv, MutexInv, SetDefaultsPC
      <4>2. InForce(u) = stored
        BY <3>2 DEF InForce, Effective
      <4> QED BY <2>4, <3>1, <3>2, <4>1, <4>2 DEF DroppedBy
    <3> QED BY <2>4, <3>1, <3>2 DEF DroppedBy
  <2>5. \A c \in Costs : windows'[u] # Charged(windows[u], c)
    BY <1>1, <2>1, ChargedStores
  <2> QED BY <1>1, <2>2, <2>3, <2>4, <2>5 DEF WindowChange
<1>2. IInv /\ [Next]_vars =>
        [\A u \in Users : \A l \in Stored(windows[u]) \ Stored(windows'[u]) :
          \/ l \notin DOMAIN InForce(u) \cap DOMAIN InForce(u)'
          \/ ~ LiveAt(windows[u], l, now)
          \/ \E a \in Admins : op[a].pc \in {"reset", "dropUser"}
                              /\ op[a].user = u /\ l \in op[a].lengths
          \/ \E r \in Slots : /\ req[r].pc = "open" /\ req[r].user = u
                              /\ l \notin DOMAIN req[r].set]_vars
  BY <1>1
<1> QED BY <1>2, IInvHolds, PTL DEF Spec, OnlyStaleDrops

-----------------------------------------------------------------------------
(* What an account is told.                                                *)

\* Nothing was decided, and no window opened, after now.
Past ==
    /\ \A r \in Slots : req[r].at <= now
    /\ \A u \in Users : \A l \in Stored(windows[u]) : windows[u][l].started <= now

LEMMA PastBegins == Init => Past
<1> SUFFICES ASSUME Init PROVE Past
  OBVIOUS
<1>1. \A r \in Slots : req[r].at <= now
  BY DEF Init, IdleReq
<1>2. \A u \in Users : Stored(windows[u]) = {}
  BY DEF Init, Stored, NoRows
<1> QED BY <1>1, <1>2 DEF Past

\* What a step makes of the moment a request was decided.
LEMMA DecidedWhen ==
    ASSUME IInv, [Next]_vars, NEW r \in Slots
    PROVE  req'[r].at \in {req[r].at, now, 0}
<1> USE DEF IInv
<1>0. req \in [Slots -> Request] /\ IdleReq.at = 0
  BY DEF TypeOK, IdleReq
<1>1. CASE req' = req
  BY <1>1
<1>2. ASSUME NEW q \in Slots, RequestStep(q)
      PROVE  req'[r].at \in {req[r].at, now, 0}
  <2>1. CASE req' = [req EXCEPT ![q] = IdleReq]
    BY <1>0, <2>1
  <2>2. ASSUME NEW u \in Users, Authenticate(q, u)
        PROVE  req'[r].at \in {req[r].at, now, 0}
    <3>1. [IdleReq EXCEPT !.pc = "body", !.user = u, !.grant = custom[u]].at = 0
      BY DEF IdleReq
    <3> QED BY <1>0, <2>2, <3>1 DEF Authenticate
  <2>3. CASE TakeRules(q) \/ ReadWindows(q) \/ OpenWindows(q)
    <3>1. req[q] \in Request
      BY <1>0
    <3>2. CASE TakeRules(q)
      BY <1>0, <3>1, <3>2 DEF TakeRules, Request
    <3>3. CASE ReadWindows(q)
      BY <1>0, <3>1, <3>3 DEF ReadWindows, Request
    <3>4. CASE OpenWindows(q)
      BY <1>0, <3>1, <3>4 DEF OpenWindows, Request
    <3> QED BY <2>3, <3>2, <3>3, <3>4
  <2>4. CASE Decide(q)
    BY <1>0, <2>1, <2>4 DEF Decide, Request
  <2> QED BY <1>2, <2>1, <2>2, <2>3, <2>4
          DEF RequestStep, RefuseBody, RefuseUnpriced, AdmitFails, Charge,
              LoseCharge
<1>3. ASSUME NEW a \in Admins, AdminStep(a) PROVE req' = req
  BY <1>3 DEF AdminStep, LockDefaults, StoreDefaults,
     StoreDefaultsUnacknowledged, SwapDefaults, AuditDefaults, DropInherited, SetDefaultsFails, UpdateSpendLimits,
     AuditUser, ReadUserWindows, DecideOrphans, DropOrphans, UserCallFails,
     BeginReset, ResetWindows
<1>4. CASE Restart
  BY <1>0, <1>4 DEF Restart
<1>5. CASE Tick \/ UNCHANGED vars
  BY <1>1, <1>5 DEF Tick, vars
<1> QED BY <1>1, <1>2, <1>3, <1>4, <1>5 DEF Next

LEMMA TimePasses ==
    ASSUME IInv, [Next]_vars
    PROVE  now' >= now /\ now \in Nat /\ now' \in Nat
<1>1. now \in Nat
  BY DEF IInv, TypeOK
<1>2. now' = now \/ now' = now + 1
  <2>1. ASSUME NEW r \in Slots, RequestStep(r) PROVE now' = now
    BY <2>1 DEF RequestStep, Authenticate, RefuseBody, TakeRules,
       RefuseUnpriced, ReadWindows, Decide, OpenWindows, AdmitFails, Charge,
       LoseCharge
  <2>2. ASSUME NEW a \in Admins, AdminStep(a) PROVE now' = now
    BY <2>2 DEF AdminStep, LockDefaults, StoreDefaults,
       StoreDefaultsUnacknowledged, SwapDefaults, AuditDefaults, DropInherited, SetDefaultsFails, UpdateSpendLimits,
       AuditUser, ReadUserWindows, DecideOrphans, DropOrphans, UserCallFails,
       BeginReset, ResetWindows
  <2> QED BY <2>1, <2>2 DEF Next, Tick, Restart, vars
<1> QED BY <1>1, <1>2

\* The start of a window after a step: its old one, or the moment a request
\* that opened it was decided.
LEMMA StartedWhen ==
    ASSUME IInv, [Next]_vars, NEW u \in Users, NEW l \in Stored(windows'[u])
    PROVE  \/ l \in Stored(windows[u]) /\ windows'[u][l].started = windows[u][l].started
           \/ \E r \in Slots : /\ OpenedBy(r, u)
                               /\ windows'[u][l].started = req[r].at
<1>0. windows[u] \in Rows /\ l \in Lengths /\ windows'[u][l] # NoRow
  BY DEF IInv, TypeOK, Stored
<1>1. WindowChange(u)
  BY WindowStep
<1>2. CASE windows'[u] = windows[u]
  BY <1>2
<1>3. ASSUME NEW r \in Slots, OpenedBy(r, u)
      PROVE  \/ l \in Stored(windows[u]) /\ windows'[u][l] = windows[u][l]
             \/ windows'[u][l].started = req[r].at
  BY <1>0, <1>3 DEF OpenedBy, Opened, Stored
<1>4. ASSUME NEW a \in Admins, DroppedBy(a, u)
      PROVE  l \in Stored(windows[u]) /\ windows'[u][l] = windows[u][l]
  BY <1>0, <1>4 DEF DroppedBy, Without, Stored
<1>5. ASSUME NEW c \in Costs, windows'[u] = Charged(windows[u], c)
      PROVE  /\ l \in Stored(windows[u])
             /\ windows'[u][l].started = windows[u][l].started
  <2>1. l \in Stored(windows[u])
    BY <1>0, <1>5 DEF Charged, Stored
  <2>2. windows[u][l] \in Row
    BY <1>0, <2>1, StoredRow
  <2> QED BY <1>0, <1>5, <2>1, <2>2 DEF Charged, Row
<1> QED BY <1>1, <1>2, <1>3, <1>4, <1>5 DEF WindowChange

LEMMA PastStays == IInv /\ Past /\ [Next]_vars => Past'
<1> SUFFICES ASSUME IInv, Past, [Next]_vars PROVE Past'
  OBVIOUS
<1>0. now' >= now /\ now \in Nat /\ now' \in Nat
  BY TimePasses
<1>1. ASSUME NEW r \in Slots
      PROVE  req'[r].at <= now' /\ req[r].at <= now /\ req[r].at \in Nat
  <2>1. req[r].at <= now /\ req[r].at \in Nat
    BY DEF Past, IInv, TypeOK, Request
  <2> QED BY <1>0, <2>1, DecidedWhen
<1>2. ASSUME NEW u \in Users, NEW l \in Stored(windows'[u])
      PROVE  windows'[u][l].started <= now'
  <2>1. CASE l \in Stored(windows[u]) /\ windows'[u][l].started = windows[u][l].started
    <3>1. windows[u][l].started \in Nat
      BY <2>1, StoredRow DEF IInv, TypeOK
    <3> QED BY <1>0, <2>1, <3>1 DEF Past
  <2>2. CASE \E r \in Slots : windows'[u][l].started = req[r].at
    BY <1>0, <1>1, <2>2
  <2> QED BY <2>1, <2>2, StartedWhen
<1> QED BY <1>1, <1>2 DEF Past

LEMMA PastHolds == Spec => []Past
BY IInvHolds, PastBegins, PastStays, PTL DEF Spec

\* The exhausted window that ends last: there is one, because there are
\* finitely many lengths and every window has been opened by now.
LEMMA LastEnds ==
    ASSUME NEW set, NEW rows \in Rows, NEW t \in Nat,
           \A l \in Stored(rows) : rows[l].started <= t,
           Blocked(set, rows, t)
    PROVE  /\ Blocking(set, rows, t) \in Exhausted(set, rows, t)
           /\ \A k \in Exhausted(set, rows, t) :
                 EndsAt(rows, k) <= EndsAt(rows, Blocking(set, rows, t))
<1> DEFINE E == Exhausted(set, rows, t)
           left(l) == (t + MaxWindow) - EndsAt(rows, l)
           below == {p \in Nat \X Nat : p[1] < p[2]}
<1>1. ASSUME NEW l \in E
      PROVE  EndsAt(rows, l) \in Nat /\ left(l) \in Nat
  <2>1. l \in Stored(rows) /\ l \in Nat /\ l <= MaxWindow /\ rows[l].started \in Nat
    BY StoredRow DEF Exhausted
  <2> QED BY <2>1 DEF EndsAt
<1>2. IsWellFoundedOn(below, Nat)
  BY NatLessThanWellFounded, Zenon DEF OpToRel
<1>3. E # {}
  BY DEF Blocked
<1>4. PICK n \in {left(l) : l \in E} :
         \A m \in {left(l) : l \in E} : ~(<<m, n>> \in below)
  <2> HIDE DEF below, left, E
  <2>1. {left(l) : l \in E} \subseteq Nat /\ {left(l) : l \in E} # {}
    BY <1>1, <1>3
  <2> QED BY <1>2, <2>1, WFMin
<1>5. PICK l \in E : left(l) = n
  BY <1>4
<1>6. ASSUME NEW k \in E PROVE EndsAt(rows, k) <= EndsAt(rows, l)
  <2>1. ~(<<left(k), left(l)>> \in below)
    BY <1>4, <1>5
  <2>2. left(k) \in Nat /\ left(l) \in Nat /\ EndsAt(rows, k) \in Nat
        /\ EndsAt(rows, l) \in Nat
    BY <1>1
  <2>3. ~(left(k) < left(l))
    <3> HIDE DEF left
    <3> QED BY <2>1, <2>2
  <2> QED BY <2>2, <2>3
<1> HIDE DEF E
<1>7. /\ (CHOOSE b \in E : \A k \in E : EndsAt(rows, k) <= EndsAt(rows, b)) \in E
      /\ \A k \in E : EndsAt(rows, k)
            <= EndsAt(rows, CHOOSE b \in E :
                               \A j \in E : EndsAt(rows, j) <= EndsAt(rows, b))
  BY <1>6
<1> QED BY <1>7 DEF Blocking, E

\* Retry-After: refused again before the reset it names, and not at it.
LEMMA ResetIsExact ==
    ASSUME NEW set, NEW rows \in Rows, NEW t \in Nat,
           \A l \in Stored(rows) : rows[l].started <= t,
           Blocked(set, rows, t)
    PROVE  /\ ~ Blocked(set, rows, ResetsAt(set, rows, t))
           /\ \A x \in t .. ResetsAt(set, rows, t) - 1 : Blocked(set, rows, x)
<1> DEFINE b == Blocking(set, rows, t)
           end == EndsAt(rows, b)
<1>1. /\ b \in Exhausted(set, rows, t)
      /\ \A k \in Exhausted(set, rows, t) : EndsAt(rows, k) <= end
  BY LastEnds
<1>2. \A l \in Stored(rows) : EndsAt(rows, l) \in Nat
  BY StoredRow DEF EndsAt
<1>3. end \in Nat /\ t < end
  BY <1>1, <1>2 DEF Exhausted, LiveAt
<1>4. ResetsAt(set, rows, t) = end
  BY DEF ResetsAt
<1> HIDE DEF end
<1>5. ASSUME NEW l \in Exhausted(set, rows, end) PROVE FALSE
  <2>1. /\ l \in DOMAIN set \cap Stored(rows)
        /\ end < EndsAt(rows, l) /\ rows[l].spent >= set[l]
    BY DEF Exhausted, LiveAt
  <2>2. EndsAt(rows, l) \in Nat /\ t < EndsAt(rows, l)
    BY <1>2, <1>3, <2>1
  <2>3. l \in Exhausted(set, rows, t)
    BY <2>1, <2>2 DEF Exhausted, LiveAt
  <2> QED BY <1>1, <1>3, <2>1, <2>2, <2>3
<1>6. ASSUME NEW x \in t .. end - 1 PROVE b \in Exhausted(set, rows, x)
  BY <1>1, <1>3 DEF Exhausted, LiveAt, end
<1> QED BY <1>4, <1>5, <1>6 DEF Blocked

\* The cabinet's 100 percent: of the rules the gate refuses by, and no other.
LEMMA FullIsBlocked ==
    ASSUME NEW set, IsRuleSet(set), NEW rows \in Rows, NEW t \in Nat
    PROVE  Blocked(set, rows, t) <=>
               \E l \in DOMAIN set :
                   SpentPercent(set, State(set, rows, t, l), l) = 100
<1>1. ASSUME NEW l \in DOMAIN set
      PROVE  SpentPercent(set, State(set, rows, t, l), l) = 100
             <=> State(set, rows, t, l).exhausted = TRUE
  <2> DEFINE state == State(set, rows, t, l)
             share == (state.spent * 100) \div set[l]
  <2>1. state.exhausted \in BOOLEAN
    <3> DEFINE full == rows[l].spent >= set[l]
    <3>1. CASE l \in Stored(rows) /\ LiveAt(rows, l, t)
      <4>1. full \in BOOLEAN
        <5>1. rows[l].spent \in Nat /\ set[l] \in Nat
          BY <3>1, StoredRow DEF IsRuleSet
        <5> QED BY <5>1
      <4>2. state.exhausted = full
        <5> HIDE DEF full
        <5>1. state = [started |-> rows[l].started, spent |-> rows[l].spent,
                       resets |-> EndsAt(rows, l), exhausted |-> full]
          BY <3>1 DEF State, full
        <5> HIDE DEF state
        <5> QED BY <5>1
      <4> QED BY <4>1, <4>2
    <3>2. CASE ~(l \in Stored(rows) /\ LiveAt(rows, l, t))
      BY <3>2 DEF State, NotLive
    <3> QED BY <3>1, <3>2
  <2>2. SpentPercent(set, state, l)
          = IF state.exhausted THEN 100 ELSE IF share > 99 THEN 99 ELSE share
    BY DEF SpentPercent
  <2> HIDE DEF share, state
  <2>3. CASE state.exhausted
    BY <2>2, <2>3 DEF state
  <2>4. CASE ~state.exhausted /\ share > 99
    BY <2>2, <2>4 DEF state
  <2>5. CASE ~state.exhausted /\ ~(share > 99)
    <3>1. share # 100
      BY <2>5
    <3> QED BY <2>2, <2>5, <3>1 DEF state
  <2> QED BY <2>1, <2>3, <2>4, <2>5
<1>2. ASSUME NEW l \in DOMAIN set
      PROVE  State(set, rows, t, l).exhausted = TRUE
             <=> l \in Exhausted(set, rows, t)
  BY DEF State, NotLive, Exhausted
<1>3. Exhausted(set, rows, t) \subseteq DOMAIN set
  BY DEF Exhausted
<1> QED BY <1>1, <1>2, <1>3 DEF Blocked

(***************************************************************************)
(* What an account is told of its limits is exact (limits.Set.Decide,      *)
(* States, SpentPercent): a retry before the reset a refusal names is      *)
(* refused again, one at it is not, and the cabinet shows 100 percent      *)
(* exactly when the gate would refuse.                                     *)
(***************************************************************************)
THEOREM AnswersAreExact == Spec => []AnswersExact
<1>1. ASSUME IInv, Past PROVE AnswersExact
  <2>1. ASSUME NEW u \in Users
        PROVE  /\ windows[u] \in Rows /\ now \in Nat
               /\ \A l \in Stored(windows[u]) : windows[u][l].started <= now
               /\ IsRuleSet(InForce(u))
    BY <1>1, EffectiveType DEF IInv, TypeOK, Past, InForce
  <2>2. RetryAfterExact
    BY <2>1, ResetIsExact DEF RetryAfterExact
  <2>3. ViewAgreesWithGate
    BY <2>1, FullIsBlocked DEF ViewAgreesWithGate
  <2> QED BY <2>2, <2>3 DEF AnswersExact
<1> QED BY <1>1, IInvHolds, PastHolds, PTL

-----------------------------------------------------------------------------
(* While the rules stand.                                                  *)

\* No administrator's call takes a step.
RulesStand == [][~ \E a \in Admins : AdminStep(a)]_vars

QuietNext ==
    \/ \E r \in Slots : RequestStep(r)
    \/ Tick \/ Restart \/ UNCHANGED vars

\* One reading of an account's windows and a later one: none is gone, and each
\* has the same start and no less spend, or was opened after the old one ended.
Grown(rows, rows2) ==
    \A l \in Stored(rows) :
        /\ l \in Stored(rows2)
        /\ \/ /\ rows2[l].started = rows[l].started
              /\ rows2[l].spent >= rows[l].spent
           \/ EndsAt(rows, l) <= rows2[l].started

(***************************************************************************)
(* What a request q knows while the rules stand: its set is the account's, *)
(* the windows it read have only grown since, and once it is forwarded     *)
(* every rule has a window that had not ended when it was decided.         *)
(***************************************************************************)
Metered(q) ==
    /\ q.pc = "body" => q.grant = custom[q.user]
    /\ q.pc \in {"rules", "rows", "open", "served"} => q.set = InForce(q.user)
    /\ q.pc \in {"rows", "open"} =>
          /\ Stored(q.rows) \subseteq DOMAIN q.set
          /\ Grown(q.rows, windows[q.user])
    /\ q.pc = "served" =>
          \A l \in DOMAIN q.set :
              /\ l \in Stored(windows[q.user])
              /\ q.at < EndsAt(windows[q.user], l)

MeterInv ==
    /\ memory = stored
    /\ \A u \in Users : Stored(windows[u]) \subseteq DOMAIN InForce(u)
    /\ \A r \in Slots : Metered(req[r])

LEMMA MeterBegins == Init => MeterInv
<1> SUFFICES ASSUME Init PROVE MeterInv
  OBVIOUS
<1>1. \A u \in Users : Stored(windows[u]) = {}
  BY DEF Init, Stored, NoRows
<1>2. \A r \in Slots : req[r].pc = "idle"
  BY DEF Init, IdleReq
<1> QED BY <1>1, <1>2 DEF Init, MeterInv, Metered

LEMMA QuietKeepsRules ==
    ASSUME QuietNext, MeterInv
    PROVE  /\ custom' = custom /\ stored' = stored /\ memory' = stored
           /\ \A u : InForce(u)' = InForce(u)
<1>1. custom' = custom /\ stored' = stored /\ memory' = stored
  <2>1. ASSUME NEW r \in Slots, RequestStep(r)
        PROVE  custom' = custom /\ stored' = stored /\ memory' = memory
    BY <2>1 DEF RequestStep, Authenticate, RefuseBody, TakeRules,
       RefuseUnpriced, ReadWindows, Decide, OpenWindows, AdmitFails, Charge,
       LoseCharge, store
  <2> QED BY <2>1 DEF QuietNext, MeterInv, Tick, Restart, vars, store
<1> QED BY <1>1 DEF InForce

LEMMA InForceType ==
    ASSUME IInv, NEW u \in Users
    PROVE  /\ InForce(u) \in RuleSets /\ DOMAIN InForce(u) \subseteq Lengths
           /\ \A l \in DOMAIN InForce(u) : InForce(u)[l] \in Nat \ {0}
<1>1. InForce(u) \in RuleSets
  BY EffectiveType DEF InForce, IInv, TypeOK
<1> QED BY <1>1 DEF IsRuleSet

\* Grown orders the readings of an account's windows.
LEMMA GrownFacts ==
    ASSUME NEW w \in Rows, NEW w2 \in Rows
    PROVE  /\ Grown(w, w)
           /\ Grown(w, w2) =>
                 /\ \A l \in Stored(w) : EndsAt(w, l) <= EndsAt(w2, l)
                 /\ \A rows \in Rows : Grown(rows, w) => Grown(rows, w2)
           /\ KeptOrEnded(w, w2) /\ Stored(w) \subseteq Stored(w2) => Grown(w, w2)
<1>0. ASSUME NEW rows \in Rows, NEW l \in Stored(rows)
      PROVE  /\ l \in Nat /\ rows[l].started \in Nat /\ rows[l].spent \in Nat
             /\ EndsAt(rows, l) \in Nat /\ EndsAt(rows, l) = rows[l].started + l
  BY StoredRow DEF EndsAt
<1>1. Grown(w, w)
  BY <1>0 DEF Grown
<1>2. ASSUME Grown(w, w2), NEW l \in Stored(w)
      PROVE  EndsAt(w, l) <= EndsAt(w2, l)
  <2>1. l \in Stored(w2)
    BY <1>2 DEF Grown
  <2> QED BY <1>0, <1>2, <2>1 DEF Grown
<1>3. ASSUME Grown(w, w2), NEW rows \in Rows, Grown(rows, w)
      PROVE  Grown(rows, w2)
  <2> SUFFICES ASSUME NEW l \in Stored(rows)
               PROVE  /\ l \in Stored(w2)
                      /\ \/ /\ w2[l].started = rows[l].started
                            /\ w2[l].spent >= rows[l].spent
                         \/ EndsAt(rows, l) <= w2[l].started
    BY DEF Grown
  <2>1. l \in Stored(w) /\ l \in Stored(w2)
    BY <1>3 DEF Grown
  <2> QED BY <1>0, <1>3, <2>1 DEF Grown
<1>4. KeptOrEnded(w, w2) /\ Stored(w) \subseteq Stored(w2) => Grown(w, w2)
  BY DEF KeptOrEnded, Grown
<1> QED BY <1>1, <1>2, <1>3, <1>4

\* While the rules stand the windows of an account only grow, and there is
\* none without a rule.
LEMMA QuietGrows ==
    ASSUME IInv, IInv', MeterInv, QuietNext, NEW u \in Users
    PROVE  /\ Grown(windows[u], windows'[u])
           /\ Stored(windows'[u]) \subseteq DOMAIN InForce(u)
<1>0. /\ windows[u] \in Rows /\ windows'[u] \in Rows
      /\ windows \in [Users -> Rows] /\ Stored(windows[u]) \subseteq DOMAIN InForce(u)
  BY DEF IInv, TypeOK, MeterInv
<1>1. CASE windows'[u] = windows[u]
  BY <1>0, <1>1, GrownFacts
<1>2. ASSUME NEW r \in Slots, OpenWindows(r), req[r].user = u
      PROVE  /\ Grown(windows[u], windows'[u])
             /\ Stored(windows'[u]) \subseteq DOMAIN InForce(u)
  <2> DEFINE q == req[r]
             open == Due(q.set, q.rows, q.at)
             drop == Orphans(q.set, q.rows)
  <2>1. q.at \in Nat /\ q.set = InForce(u) /\ Stored(q.rows) \subseteq DOMAIN q.set
    BY <1>2 DEF OpenWindows, IInv, TypeOK, Request, MeterInv, Metered
  <2>2. drop = {} /\ open \subseteq DOMAIN InForce(u)
    BY <2>1 DEF Orphans, Due
  <2>3. windows'[u] = Opened(windows[u], open, drop, q.at)
    BY <1>0, <1>2 DEF OpenWindows
  <2> HIDE DEF open, drop
  <2>4. KeptOrEnded(windows[u], windows'[u])
    BY <1>0, <2>1, <2>3, OpenedKeeps
  <2>5. Stored(windows[u]) \subseteq Stored(windows'[u])
    BY <1>0, <2>1, <2>2, <2>3, OpenedStores
  <2>6. Stored(windows'[u]) \subseteq Stored(windows[u]) \cup open
    BY <2>2, <2>3 DEF Opened, Stored
  <2> QED BY <1>0, <2>2, <2>4, <2>5, <2>6, GrownFacts
<1>3. ASSUME NEW r \in Slots, NEW c \in Costs, Charge(r, c), req[r].user = u
      PROVE  /\ Grown(windows[u], windows'[u])
             /\ Stored(windows'[u]) \subseteq DOMAIN InForce(u)
  <2>1. windows'[u] = Charged(windows[u], c)
    BY <1>0, <1>3 DEF Charge
  <2>2. KeptOrEnded(windows[u], windows'[u])
    BY <1>0, <2>1, ChargedGrows
  <2>3. Stored(windows[u]) \subseteq Stored(windows'[u])
    BY <1>0, <2>1, ChargedStores
  <2>4. Stored(windows'[u]) \subseteq Stored(windows[u])
    BY <2>1 DEF Charged, Stored
  <2> QED BY <1>0, <2>2, <2>3, <2>4, GrownFacts
<1>4. ASSUME NEW r \in Slots, RequestStep(r)
      PROVE  \/ windows'[u] = windows[u]
             \/ OpenWindows(r) /\ req[r].user = u
             \/ \E c \in Costs : Charge(r, c) /\ req[r].user = u
  BY <1>0, <1>4 DEF RequestStep, Authenticate, RefuseBody, TakeRules,
     RefuseUnpriced, ReadWindows, Decide, OpenWindows, AdmitFails, Charge,
     LoseCharge, store
<1> QED BY <1>1, <1>2, <1>3, <1>4 DEF QuietNext, Tick, Restart, vars, store

\* What a request knows, it knows after any such step.
LEMMA MeteredStays ==
    ASSUME IInv, IInv', MeterInv, QuietNext, NEW q \in Request,
           q.pc # "idle" => q.user \in Users, Metered(q)
    PROVE  Metered(q)'
<1>1. /\ custom' = custom /\ \A u : InForce(u)' = InForce(u)
  BY QuietKeepsRules
<1>2. CASE q.pc = "idle"
  BY <1>2 DEF Metered
<1>3. CASE q.pc # "idle"
  <2> DEFINE w == windows[q.user]
             w2 == windows'[q.user]
  <2>1. /\ q.user \in Users /\ w \in Rows /\ w2 \in Rows /\ q.rows \in Rows
        /\ q.at \in Nat
    BY <1>3 DEF IInv, TypeOK, Request
  <2>2. Grown(w, w2)
    BY <2>1, QuietGrows
  <2>3. /\ \A l \in Stored(w) : EndsAt(w, l) <= EndsAt(w2, l) /\ l \in Stored(w2)
        /\ Grown(q.rows, w) => Grown(q.rows, w2)
    BY <2>1, <2>2, GrownFacts DEF Grown
  <2>4. \A l \in Stored(w) : /\ EndsAt(w, l) \in Nat
                             /\ l \in Stored(w2) => EndsAt(w2, l) \in Nat
    BY <2>1, StoredRow DEF EndsAt
  <2> HIDE DEF w, w2
  <2>5. \A l \in Stored(w) : q.at < EndsAt(w, l) => q.at < EndsAt(w2, l)
    BY <2>1, <2>3, <2>4
  <2> QED BY <1>1, <2>3, <2>5 DEF Metered, w, w2
<1> QED BY <1>2, <1>3

LEMMA LengthPositive == \A l \in Lengths : l \in Nat /\ l > 0
OBVIOUS

\* A request's own step keeps what it knows: each of its readings is of the
\* present, and its write leaves a live window for every rule.
LEMMA MeteredMoves ==
    ASSUME IInv, IInv', MeterInv, QuietNext, NEW r \in Slots, RequestStep(r),
           NEW q2, q2 = req'[r]
    PROVE  Metered(q2)'
<1> DEFINE q == req[r]
<1>0. /\ q \in Request /\ q2 \in Request /\ Metered(q)
      /\ q.pc # "idle" => q.user \in Users
      /\ q2.pc # "idle" => q2.user \in Users
  BY DEF IInv, TypeOK, InUse, MeterInv
<1>1. ASSUME Metered(q2) PROVE Metered(q2)'
  BY <1>0, <1>1, MeteredStays
<1>2. CASE \/ RefuseBody(r) \/ RefuseUnpriced(r) \/ AdmitFails(r)
           \/ LoseCharge(r) \/ \E c \in Costs : Charge(r, c)
  <2>1. q2 = IdleReq
    BY <1>2 DEF RefuseBody, RefuseUnpriced, AdmitFails, LoseCharge, Charge,
                IInv, TypeOK
  <2> QED BY <2>1 DEF Metered, IdleReq
<1>3. CASE \E u \in Users : Authenticate(r, u)
  <2>1. PICK u \in Users : Authenticate(r, u)
    BY <1>3
  <2>2. q2.pc = "body" /\ q2.user = u /\ q2.grant = custom[u]
    BY <2>1 DEF Authenticate, IInv, TypeOK, IdleReq
  <2> QED BY <1>1, <2>2 DEF Metered
<1>4. CASE TakeRules(r)
  <2> DEFINE set == Effective(q.grant, memory)
  <2>1. q.pc = "body" /\ set = InForce(q.user) /\ q.user \in Users
    BY <1>0, <1>4 DEF TakeRules, Metered, MeterInv, InForce
  <2>2. /\ q2.pc = IF DOMAIN set = {} THEN "served" ELSE "rules"
        /\ q2.set = set /\ q2.user = q.user
    BY <1>0, <1>4 DEF TakeRules, IInv, TypeOK, Request
  <2> HIDE DEF set
  <2>3. q2.set = InForce(q2.user)
    BY <2>1, <2>2
  <2>4. q2.pc = "served" => DOMAIN q2.set = {}
    BY <2>2
  <2>5. q2.pc \in {"served", "rules"}
    BY <2>2
  <2> QED BY <1>1, <2>3, <2>4, <2>5 DEF Metered
<1>5. CASE ReadWindows(r)
  <2>1. /\ q2.pc = "rows" /\ q2.user = q.user /\ q2.set = q.set
        /\ q2.rows = windows[q.user] /\ q.pc = "rules" /\ q.user \in Users
    BY <1>0, <1>5 DEF ReadWindows, IInv, TypeOK, Request
  <2>2. q.set = InForce(q.user) /\ windows[q.user] \in Rows
    BY <1>0, <2>1 DEF Metered, IInv, TypeOK
  <2>3. /\ Stored(windows[q.user]) \subseteq DOMAIN InForce(q.user)
        /\ Grown(windows[q.user], windows[q.user])
    BY <2>1, <2>2, GrownFacts DEF MeterInv
  <2> QED BY <1>1, <2>1, <2>2, <2>3 DEF Metered
<1>6. CASE Decide(r)
  <2>0. /\ q.pc = "rows" /\ q.user \in Users /\ q.rows \in Rows
        /\ q.set = InForce(q.user) /\ Stored(q.rows) \subseteq DOMAIN q.set
        /\ Grown(q.rows, windows[q.user]) /\ windows[q.user] \in Rows
        /\ now \in Nat
    BY <1>0, <1>6 DEF Decide, Metered, IInv, TypeOK, Request
  <2>1. CASE q2 = IdleReq
    BY <1>1, <2>1 DEF Metered, IdleReq
  <2>2. CASE /\ Due(q.set, q.rows, now) = {}
             /\ q2.pc = "served" /\ q2.at = now /\ q2.set = q.set
             /\ q2.user = q.user
    <3>1. ASSUME NEW l \in DOMAIN q.set
          PROVE  /\ l \in Stored(windows[q.user])
                 /\ now < EndsAt(windows[q.user], l)
      <4>1. l \in Stored(q.rows) /\ now < EndsAt(q.rows, l)
        BY <2>2, <3>1 DEF Due, LiveAt
      <4>2. /\ l \in Stored(windows[q.user])
            /\ EndsAt(q.rows, l) <= EndsAt(windows[q.user], l)
        BY <2>0, <4>1, GrownFacts DEF Grown
      <4>3. EndsAt(q.rows, l) \in Nat /\ EndsAt(windows[q.user], l) \in Nat
        BY <2>0, <4>1, <4>2, StoredRow DEF EndsAt
      <4> QED BY <2>0, <4>1, <4>2, <4>3
    <3> QED BY <1>1, <2>0, <2>2, <3>1 DEF Metered
  <2>3. CASE /\ q2.pc = "open" /\ q2.at = now /\ q2.set = q.set
             /\ q2.user = q.user /\ q2.rows = q.rows
    BY <1>1, <2>0, <2>3 DEF Metered
  <2>4. \/ q2 = IdleReq
        \/ /\ Due(q.set, q.rows, now) = {}
           /\ q2.pc = "served" /\ q2.at = now /\ q2.set = q.set
           /\ q2.user = q.user
        \/ /\ q2.pc = "open" /\ q2.at = now /\ q2.set = q.set
           /\ q2.user = q.user /\ q2.rows = q.rows
    <3>1. q2 = IdleReq \/ Due(q.set, q.rows, now) = {}
          \/ req' = [req EXCEPT ![r].pc = "open", ![r].at = now]
      BY <1>6 DEF Decide, IInv, TypeOK
    <3>2. \/ q2 = IdleReq
          \/ req' = [req EXCEPT ![r].pc = "served", ![r].at = now,
                                ![r].rows = NoRows]
          \/ req' = [req EXCEPT ![r].pc = "open", ![r].at = now]
      BY <1>6 DEF Decide, IInv, TypeOK
    <3> QED BY <1>0, <3>1, <3>2 DEF IInv, TypeOK, Request
  <2> QED BY <2>1, <2>2, <2>3, <2>4
<1>7. CASE OpenWindows(r)
  <2> DEFINE w == windows[q.user]
             w2 == windows'[q.user]
             open == Due(q.set, q.rows, q.at)
             drop == Orphans(q.set, q.rows)
  <2>1. /\ q.pc = "open" /\ q.user \in Users /\ q.rows \in Rows
        /\ q.set = InForce(q.user) /\ Stored(q.rows) \subseteq DOMAIN q.set
        /\ Grown(q.rows, w) /\ w \in Rows /\ w2 \in Rows /\ q.at \in Nat
        /\ DOMAIN q.set \subseteq Lengths
    BY <1>0, <1>7, InForceType DEF OpenWindows, Metered, IInv, TypeOK, Request
  <2>2. /\ q2.pc = "served" /\ q2.user = q.user /\ q2.set = q.set
        /\ q2.at = q.at
    BY <1>0, <1>7 DEF OpenWindows, IInv, TypeOK, Request
  <2>3. w2 = Opened(w, open, drop, q.at) /\ drop = {}
    BY <1>7, <2>1 DEF OpenWindows, IInv, TypeOK, Orphans
  <2>4. ASSUME NEW l \in DOMAIN q.set
        PROVE  l \in Stored(w2) /\ q.at < EndsAt(w2, l)
    <3> HIDE DEF q
    <3>a. l \in Lengths
      BY <2>1, <2>4
    <3>0. l \in Lengths /\ l \in Nat /\ l > 0
      BY ONLY <3>a, LengthPositive
    <3>1. CASE l \in open /\ (l \in Stored(w) => ~ LiveAt(w, l, q.at))
      <4>1. w2[l] = [started |-> q.at, spent |-> 0]
        BY <2>3, <3>0, <3>1 DEF Opened
      <4>2. [started |-> q.at, spent |-> 0] \in Row
        BY <2>1 DEF Row
      <4> QED BY <2>1, <3>0, <4>1, <4>2 DEF Stored, EndsAt
    <3>2. CASE l \in open /\ l \in Stored(w) /\ LiveAt(w, l, q.at)
      <4>1. w2[l] = w[l]
        BY <2>3, <3>0, <3>2 DEF Opened
      <4> QED BY <3>0, <3>2, <4>1 DEF Stored, EndsAt, LiveAt
    <3>3. CASE l \notin open
      <4>1. l \in Stored(q.rows) /\ q.at < EndsAt(q.rows, l)
        BY <3>3 DEF Due, LiveAt
      <4>2. l \in Stored(w) /\ EndsAt(q.rows, l) <= EndsAt(w, l)
        BY <2>1, <4>1, GrownFacts DEF Grown
      <4>3. EndsAt(q.rows, l) \in Nat /\ EndsAt(w, l) \in Nat
        BY <2>1, <4>1, <4>2, StoredRow DEF EndsAt
      <4>4. w2[l] = w[l]
        BY <2>3, <3>0, <3>3 DEF Opened
      <4> HIDE DEF w, w2
      <4>5. l \in Stored(w2) /\ EndsAt(w2, l) = EndsAt(w, l)
        BY <4>2, <4>4 DEF Stored, EndsAt
      <4> QED BY <2>1, <4>1, <4>2, <4>3, <4>5
    <3> QED BY <3>1, <3>2, <3>3
  <2>5. custom' = custom /\ stored' = stored
    BY QuietKeepsRules
  <2> QED BY <2>1, <2>2, <2>4, <2>5 DEF Metered, InForce
<1> QED BY <1>2, <1>3, <1>4, <1>5, <1>6, <1>7 DEF RequestStep

LEMMA OthersStay ==
    ASSUME IInv, NEW r \in Slots, RequestStep(r), NEW s \in Slots, s # r
    PROVE  req'[s] = req[s]
BY DEF RequestStep, Authenticate, RefuseBody, TakeRules, RefuseUnpriced,
   ReadWindows, Decide, OpenWindows, AdmitFails, Charge, LoseCharge, IInv, TypeOK

LEMMA MeterStays == IInv /\ IInv' /\ MeterInv /\ QuietNext => MeterInv'
<1> SUFFICES ASSUME IInv, IInv', MeterInv, QuietNext PROVE MeterInv'
  OBVIOUS
<1>1. /\ memory' = stored' /\ \A u : InForce(u)' = InForce(u)
  BY QuietKeepsRules
<1>2. \A u \in Users : Stored(windows'[u]) \subseteq DOMAIN InForce(u)
  BY QuietGrows
<1>3. ASSUME NEW s \in Slots, NEW q2, q2 = req'[s]
      PROVE  Metered(q2)'
  <2>1. CASE q2 = req[s]
    <3>1. q2 \in Request /\ Metered(q2) /\ (q2.pc # "idle" => q2.user \in Users)
      BY <2>1 DEF IInv, TypeOK, InUse, MeterInv
    <3> QED BY <3>1, MeteredStays
  <2>2. CASE q2 = IdleReq
    BY <2>2 DEF Metered, IdleReq
  <2>3. ASSUME NEW r \in Slots, RequestStep(r)
        PROVE  Metered(q2)'
    BY <1>3, <2>1, <2>3, MeteredMoves, OthersStay
  <2> QED BY <1>3, <2>1, <2>2, <2>3 DEF QuietNext, Tick, Restart, vars
<1>4. ASSUME NEW s \in Slots PROVE Metered(req[s])'
  <2>1. PICK q2 : q2 = req'[s]
    OBVIOUS
  <2>2. Metered(q2)'
    BY <1>3, <2>1
  <2> QED BY <2>1, <2>2 DEF Metered
<1> QED BY <1>1, <1>2, <1>4 DEF MeterInv

LEMMA QuietSteps ==
    [Next]_vars /\ [~ \E a \in Admins : AdminStep(a)]_vars => QuietNext
BY DEF Next, QuietNext

LEMMA MeterHolds == Spec /\ RulesStand => [](IInv /\ MeterInv)
<1>1. IInv /\ MeterInv /\ [Next]_vars /\ [~ \E a \in Admins : AdminStep(a)]_vars
      => (IInv /\ MeterInv)'
  BY NextIInv, MeterStays, QuietSteps
<1> QED BY <1>1, InitIInv, MeterBegins, PTL DEF Spec, RulesStand

\* From any start, in which no window is open, and for as long as no
\* administrator's call takes a step: every forwarded request has, for every
\* rule it was admitted under, a window that had not ended when it was, even
\* when several requests open the windows at once and the process restarts
\* in between.
THEOREM ForwardedIsMetered == Spec /\ RulesStand => []AdmittedIsMetered
<1>1. IInv /\ MeterInv => AdmittedIsMetered
  BY DEF MeterInv, Metered, AdmittedIsMetered
<1> QED BY <1>1, MeterHolds, PTL

-----------------------------------------------------------------------------
(***************************************************************************)
(* How far a window overspends.  Of the window of length l of account u,   *)
(* opened at start with a rule of amount amt, request q waits when it may  *)
(* still be charged to it though the amount is spent: it is forwarded, or  *)
(* it was admitted while the window was live and is about to be, or it is  *)
(* about to decide on a reading that does not show this window as spent.   *)
(***************************************************************************)
Waits(q, u, l, start, amt) ==
    /\ q.user = u
    /\ \/ q.pc = "served"
       \/ q.pc = "open" /\ q.at < start + l
       \/ /\ q.pc = "rows"
          /\ ~ /\ l \in Stored(q.rows)
               /\ q.rows[l].spent >= amt
               /\ q.rows[l].started = start

Pending(u, l) ==
    {r \in Slots : Waits(req[r], u, l, windows[u][l].started, InForce(u)[l])}

\* A slot that no longer waits leaves room for one charge less.
Within(spent, amt, pending) ==
    \/ spent < amt
    \/ spent + MaxCost * Cardinality(pending)
          < amt + MaxCost * Cardinality(Slots)

OverInv ==
    \A u \in Users : \A l \in Stored(windows[u]) :
        Within(windows[u][l].spent, InForce(u)[l], Pending(u, l))

LEMMA MaxCostFacts == MaxCost \in Nat /\ \A c \in Costs : c \in Nat /\ c <= MaxCost
BY DEF MaxCost

LEMMA TimesGrows ==
    ASSUME NEW m \in Nat, NEW i \in Nat, NEW j \in Nat, i <= j
    PROVE  m * i \in Nat /\ m * j \in Nat /\ m * i <= m * j
<1>1. PICK d \in Nat : j = i + d
  <2>1. j - i \in Nat /\ j = i + (j - i)
    OBVIOUS
  <2> QED BY <2>1
<1>2. m * i \in Nat /\ m * d \in Nat /\ m * j = m * i + m * d
  BY <1>1
<1> QED BY <1>1, <1>2

LEMMA WithinShrinks ==
    ASSUME NEW spent \in Nat, NEW amt \in Nat, NEW P \in SUBSET Slots,
           NEW P2 \in SUBSET P, Within(spent, amt, P)
    PROVE  Within(spent, amt, P2)
<1> DEFINE p == Cardinality(P)
           p2 == Cardinality(P2)
           n == Cardinality(Slots)
<1>1. p \in Nat /\ p2 \in Nat /\ n \in Nat /\ p2 <= p
  BY FS_Subset, FS_CardinalityType
<1> HIDE DEF p, p2, n
<1>2. MaxCost * p2 <= MaxCost * p /\ MaxCost * p2 \in Nat /\ MaxCost * p \in Nat
  BY <1>1, MaxCostFacts, TimesGrows
<1>3. MaxCost * n \in Nat
  BY <1>1, MaxCostFacts, TimesGrows
<1>4. spent < amt \/ spent + MaxCost * p < amt + MaxCost * n
  BY DEF Within, p, n
<1>5. spent < amt \/ spent + MaxCost * p2 < amt + MaxCost * n
  BY <1>2, <1>3, <1>4
<1> QED BY <1>5 DEF Within, p2, n

LEMMA WithinCharges ==
    ASSUME NEW spent \in Nat, NEW amt \in Nat, NEW P \in SUBSET Slots,
           NEW r \in P, NEW P2 \in SUBSET (P \ {r}), NEW c \in Costs,
           Within(spent, amt, P)
    PROVE  Within(spent + c, amt, P2)
<1> DEFINE p == Cardinality(P)
           p2 == Cardinality(P2)
           n == Cardinality(Slots)
<1>1. /\ IsFiniteSet(P) /\ p \in Nat /\ n \in Nat /\ p <= n
  BY FS_Subset, FS_CardinalityType
<1>2. /\ IsFiniteSet(P \ {r}) /\ Cardinality(P \ {r}) = p - 1
  BY <1>1, FS_RemoveElement
<1>3. p2 \in Nat /\ p2 <= p - 1
  BY <1>2, FS_Subset, FS_CardinalityType
<1> HIDE DEF p, p2, n
<1>4. p2 + 1 \in Nat /\ p2 + 1 <= p
  BY <1>1, <1>3
<1>5. MaxCost * (p2 + 1) = MaxCost * p2 + MaxCost /\ MaxCost * p2 \in Nat
  BY <1>3, MaxCostFacts
<1>6. MaxCost * p2 + MaxCost <= MaxCost * p /\ MaxCost * p \in Nat
  BY <1>1, <1>4, <1>5, MaxCostFacts, TimesGrows
<1>7. MaxCost * p <= MaxCost * n /\ MaxCost * n \in Nat
  BY <1>1, MaxCostFacts, TimesGrows
<1>8. spent < amt \/ spent + MaxCost * p < amt + MaxCost * n
  BY DEF Within, p, n
<1>9. spent + c + MaxCost * p2 < amt + MaxCost * n
  <2>1. c \in Nat /\ c <= MaxCost /\ MaxCost \in Nat
    BY MaxCostFacts
  <2> QED BY <2>1, <1>5, <1>6, <1>7, <1>8
<1> QED BY <1>9 DEF Within, p2, n

LEMMA WithinBounds ==
    ASSUME NEW spent \in Nat, NEW amt \in Nat, NEW P \in SUBSET Slots,
           Within(spent, amt, P)
    PROVE  spent < amt + Cardinality(Slots) * MaxCost
<1> DEFINE p == Cardinality(P)
           n == Cardinality(Slots)
<1>1. p \in Nat /\ n \in Nat
  BY FS_Subset, FS_CardinalityType
<1>2. spent < amt \/ spent + MaxCost * p < amt + MaxCost * n
  BY DEF Within
<1> HIDE DEF p, n
<1>3. MaxCost * p \in Nat /\ MaxCost * n \in Nat /\ n * MaxCost = MaxCost * n
  BY <1>1, MaxCostFacts
<1>4. spent < amt + n * MaxCost
  BY <1>2, <1>3
<1> QED BY <1>4 DEF n

LEMMA OverBegins == Init => OverInv
BY DEF Init, OverInv, NoRows, Stored

\* While the rules stand, a window after a step is a fresh one, or the one
\* before it, charged or not.
LEMMA QuietWindow ==
    ASSUME IInv, IInv', MeterInv, QuietNext, NEW u \in Users,
           NEW l \in Stored(windows'[u])
    PROVE  \/ windows'[u][l].spent = 0
           \/ /\ l \in Stored(windows[u])
              /\ windows'[u][l].started = windows[u][l].started
              /\ \/ windows'[u][l].spent = windows[u][l].spent
                 \/ \E r \in Slots, c \in Costs :
                       /\ Charge(r, c) /\ req[r].user = u
                       /\ windows'[u][l].spent = windows[u][l].spent + c
<1>0. windows[u] \in Rows /\ windows'[u] \in Rows /\ windows \in [Users -> Rows]
  BY DEF IInv, TypeOK
<1>1. CASE windows'[u] = windows[u]
  BY <1>1
<1>2. ASSUME NEW r \in Slots, OpenWindows(r), req[r].user = u
      PROVE  windows'[u][l].spent = 0 \/ windows'[u][l] = windows[u][l]
  <2> DEFINE q == req[r]
             open == Due(q.set, q.rows, q.at)
             drop == Orphans(q.set, q.rows)
  <2>1. windows'[u] = Opened(windows[u], open, drop, q.at)
    BY <1>0, <1>2 DEF OpenWindows
  <2> HIDE DEF open, drop
  <2>2. l \in Lengths /\ l \notin drop
    BY <2>1 DEF Stored, Opened
  <2> QED BY <2>1, <2>2 DEF Opened
<1>3. ASSUME NEW r \in Slots, NEW c \in Costs, Charge(r, c), req[r].user = u
      PROVE  /\ l \in Stored(windows[u])
             /\ windows'[u][l].started = windows[u][l].started
             /\ windows'[u][l].spent = windows[u][l].spent + c
  <2>1. windows'[u] = Charged(windows[u], c)
    BY <1>0, <1>3 DEF Charge
  <2>2. l \in Lengths /\ l \in Stored(windows[u])
    BY <2>1 DEF Stored, Charged
  <2>3. windows'[u][l] = [windows[u][l] EXCEPT !.spent = @ + c]
    BY <2>1, <2>2 DEF Charged
  <2>4. windows[u][l] \in Row
    BY <1>0, <2>2, StoredRow
  <2> QED BY <2>2, <2>3, <2>4 DEF Row
<1>4. ASSUME NEW r \in Slots, RequestStep(r)
      PROVE  \/ windows'[u] = windows[u]
             \/ OpenWindows(r) /\ req[r].user = u
             \/ \E c \in Costs : Charge(r, c) /\ req[r].user = u
  BY <1>0, <1>4 DEF RequestStep, Authenticate, RefuseBody, TakeRules,
     RefuseUnpriced, ReadWindows, Decide, OpenWindows, AdmitFails, Charge,
     LoseCharge, store
<1>5. windows'[u][l] = windows[u][l] => l \in Stored(windows[u])
  BY DEF Stored
<1> QED BY <1>1, <1>2, <1>3, <1>4, <1>5 DEF QuietNext, Tick, Restart, vars, store

\* No request begins to wait for a window whose amount is spent.
LEMMA WaitsMoves ==
    ASSUME IInv, IInv', MeterInv, NEW r \in Slots, RequestStep(r),
           NEW u \in Users, NEW l \in Stored(windows[u]),
           windows'[u][l].started = windows[u][l].started,
           NEW start, start = windows[u][l].started,
           NEW amt, amt = InForce(u)[l], windows[u][l].spent >= amt,
           NEW q2, q2 = req'[r], Waits(q2, u, l, start, amt)
    PROVE  Waits(req[r], u, l, start, amt)
<1> DEFINE q == req[r]
<1>0. /\ q \in Request /\ q2 \in Request /\ Metered(q) /\ windows[u] \in Rows
      /\ l \in DOMAIN InForce(u) /\ windows \in [Users -> Rows]
  BY DEF IInv, TypeOK, MeterInv
<1>1. CASE \/ RefuseBody(r) \/ RefuseUnpriced(r) \/ AdmitFails(r)
           \/ LoseCharge(r) \/ \E c \in Costs : Charge(r, c)
           \/ \E v \in Users : Authenticate(r, v)
  <2>1. q2.pc \in {"idle", "body"}
    <3>1. CASE \E v \in Users : Authenticate(r, v)
      BY <3>1 DEF Authenticate, IInv, TypeOK, IdleReq
    <3>2. CASE \E c \in Costs : Charge(r, c)
      BY <3>2 DEF Charge, IInv, TypeOK, IdleReq
    <3> QED BY <1>1, <3>1, <3>2 DEF RefuseBody, RefuseUnpriced, AdmitFails,
                                    LoseCharge, IInv, TypeOK, IdleReq
  <2> QED BY <2>1 DEF Waits
<1>2. CASE TakeRules(r)
  <2> DEFINE set == Effective(q.grant, memory)
  <2>1. q.pc = "body" /\ set = InForce(q.user)
    BY <1>0, <1>2 DEF TakeRules, Metered, MeterInv, InForce
  <2>2. q2.pc = (IF DOMAIN set = {} THEN "served" ELSE "rules") /\ q2.user = q.user
    BY <1>0, <1>2 DEF TakeRules, IInv, TypeOK, Request
  <2> HIDE DEF set
  <2>3. q2.user = u /\ q2.pc = "served"
    BY <2>2 DEF Waits
  <2> QED BY <1>0, <2>1, <2>2, <2>3
<1>3. CASE ReadWindows(r)
  <2>1. /\ q2.pc = "rows" /\ q2.user = q.user /\ q2.rows = windows[q.user]
    BY <1>0, <1>3 DEF ReadWindows, IInv, TypeOK, Request
  <2> QED BY <2>1 DEF Waits
<1>4. CASE Decide(r)
  <2> SUFFICES ASSUME ~ Waits(q, u, l, start, amt) PROVE FALSE
    OBVIOUS
  <2>0. q.pc = "rows" /\ q.set = InForce(q.user)
    BY <1>0, <1>4 DEF Decide, Metered
  <2>1. \/ q2 = IdleReq
        \/ /\ Due(q.set, q.rows, now) = {} /\ ~ Blocked(q.set, q.rows, now)
           /\ q2.pc = "served" /\ q2.user = q.user
        \/ /\ ~ Blocked(q.set, q.rows, now)
           /\ q2.pc = "open" /\ q2.at = now /\ q2.user = q.user
    <3>1. \/ q2 = IdleReq
          \/ /\ Due(q.set, q.rows, now) = {} /\ ~ Blocked(q.set, q.rows, now)
             /\ req' = [req EXCEPT ![r].pc = "served", ![r].at = now,
                                   ![r].rows = NoRows]
          \/ /\ ~ Blocked(q.set, q.rows, now)
             /\ req' = [req EXCEPT ![r].pc = "open", ![r].at = now]
      BY <1>4 DEF Decide, IInv, TypeOK
    <3> QED BY <1>0, <3>1 DEF IInv, TypeOK, Request
  <2>2. q.user = u /\ ~ Blocked(q.set, q.rows, now)
    BY <2>1 DEF Waits, IdleReq
  <2>3. /\ l \in Stored(q.rows) /\ q.rows[l].spent >= q.set[l]
        /\ EndsAt(q.rows, l) = start + l
    BY <2>0, <2>2 DEF Waits, EndsAt
  <2>4. ~ LiveAt(q.rows, l, now)
    BY <1>0, <2>0, <2>2, <2>3 DEF Blocked, Exhausted
  <2>5. l \in Due(q.set, q.rows, now)
    BY <1>0, <2>0, <2>2, <2>4 DEF Due
  <2> QED BY <2>1, <2>3, <2>4, <2>5 DEF Waits, LiveAt, IdleReq
<1>5. CASE OpenWindows(r)
  <2> DEFINE w == windows[u]
             open == Due(q.set, q.rows, q.at)
             drop == Orphans(q.set, q.rows)
  <2>1. q.pc = "open" /\ q2.user = q.user
    BY <1>0, <1>5 DEF OpenWindows, IInv, TypeOK, Request
  <2>2. /\ q.user = u /\ q.rows \in Rows /\ q.at \in Nat
        /\ Grown(q.rows, w) /\ q.set = InForce(u)
    BY <1>0, <2>1 DEF Waits, Metered, Request
  <2>3. windows'[u] = Opened(w, open, drop, q.at) /\ drop = {}
    BY <1>0, <1>5, <2>1, <2>2 DEF OpenWindows, Metered, Orphans
  <2>4. l \in Lengths /\ l \in Nat /\ l > 0 /\ start \in Nat
        /\ EndsAt(w, l) = start + l
    BY <1>0, StoredRow DEF EndsAt
  <2>5. CASE l \in open
    <3>1. CASE ~ LiveAt(w, l, q.at)
      <4>1. windows'[u][l] = [started |-> q.at, spent |-> 0]
        BY <2>3, <2>4, <2>5, <3>1 DEF Opened
      <4>2. windows'[u][l].started = q.at
        BY <4>1
      <4> HIDE DEF q
      <4>3. q.at = start
        BY <4>2
      <4> QED BY <2>2, <2>4, <3>1, <4>3 DEF LiveAt
    <3>2. CASE LiveAt(w, l, q.at)
      BY <2>1, <2>2, <2>4, <3>2 DEF Waits, LiveAt
    <3> QED BY <3>1, <3>2
  <2>6. CASE l \notin open
    <3>1. l \in Stored(q.rows) /\ q.at < EndsAt(q.rows, l)
      BY <1>0, <2>2, <2>6 DEF Due, LiveAt
    <3>2. EndsAt(q.rows, l) <= EndsAt(w, l) /\ EndsAt(q.rows, l) \in Nat
      BY <1>0, <2>2, <3>1, GrownFacts, StoredRow DEF EndsAt
    <3> HIDE DEF w, q
    <3>3. q.at < start + l
      BY <2>2, <2>4, <3>1, <3>2
    <3> QED BY <2>1, <2>2, <3>3 DEF Waits, q
  <2> QED BY <2>5, <2>6
<1> QED BY <1>1, <1>2, <1>3, <1>4, <1>5 DEF RequestStep

LEMMA OverStays ==
    IInv /\ IInv' /\ MeterInv /\ OverInv /\ QuietNext => OverInv'
<1> SUFFICES ASSUME IInv, IInv', MeterInv, OverInv, QuietNext,
                    NEW u \in Users, NEW l \in Stored(windows'[u])
             PROVE  Within(windows'[u][l].spent, InForce(u)[l], Pending(u, l)')
  <2>1. IInv /\ MeterInv /\ QuietNext => custom' = custom /\ stored' = stored
    BY QuietKeepsRules
  <2> QED BY <2>1 DEF OverInv, InForce
<1> DEFINE P == Pending(u, l)
<1>0. /\ windows[u] \in Rows /\ windows'[u] \in Rows
      /\ windows'[u][l].spent \in Nat
  BY StoredRow DEF IInv, TypeOK
<1>1. l \in DOMAIN InForce(u)
  BY QuietGrows
<1>2. PICK amt \in Nat : amt = InForce(u)[l] /\ amt > 0
  BY <1>1, InForceType
<1>3. CASE windows'[u][l].spent < amt
  BY <1>2, <1>3 DEF Within
<1>4. CASE /\ windows'[u][l].spent >= amt /\ l \in Stored(windows[u])
           /\ windows'[u][l].started = windows[u][l].started
  <2>1. PICK start : start = windows[u][l].started
    OBVIOUS
  <2>2. P = {s \in Slots : Waits(req[s], u, l, start, amt)}
    BY <1>2, <2>1 DEF Pending
  <2>3. Pending(u, l)' = {s \in Slots : Waits(req'[s], u, l, start, amt)}
    <3>1. InForce(u)' = InForce(u)
      BY QuietKeepsRules
    <3> QED BY <1>2, <1>4, <2>1, <3>1 DEF Pending
  <2>4. /\ Within(windows[u][l].spent, amt, P) /\ P \in SUBSET Slots
        /\ windows[u][l].spent \in Nat
    BY <1>0, <1>2, <1>4, StoredRow DEF OverInv, Pending
  <2> HIDE DEF P
  <2>5. CASE windows'[u][l].spent = windows[u][l].spent
    <3>1. ASSUME NEW s \in Slots, Waits(req'[s], u, l, start, amt)
          PROVE  Waits(req[s], u, l, start, amt)
      <4>1. CASE req'[s] = req[s]
        BY <3>1, <4>1
      <4>2. CASE req'[s] = IdleReq
        BY <3>1, <4>2 DEF Waits, IdleReq
      <4>3. ASSUME NEW r \in Slots, RequestStep(r)
            PROVE  Waits(req[s], u, l, start, amt)
        <5>1. CASE s # r
          BY <4>1, <4>3, <5>1, OthersStay
        <5>2. CASE s = r
          <6>1. windows[u][l].spent >= amt
            BY <1>4, <2>5
          <6> QED BY <1>2, <1>4, <2>1, <3>1, <4>3, <5>2, <6>1, WaitsMoves
        <5> QED BY <5>1, <5>2
      <4> QED BY <4>1, <4>2, <4>3 DEF QuietNext, Tick, Restart, vars
    <3>2. Pending(u, l)' \in SUBSET P
      BY <2>2, <2>3, <3>1
    <3> QED BY <1>2, <2>4, <2>5, <3>2, WithinShrinks
  <2>6. ASSUME NEW r \in Slots, NEW c \in Costs, Charge(r, c), req[r].user = u,
               windows'[u][l].spent = windows[u][l].spent + c
        PROVE  Within(windows'[u][l].spent, amt, Pending(u, l)')
    <3>1. r \in P
      BY <2>2, <2>6 DEF Waits, Charge
    <3>2. \A s \in Slots : s # r => req'[s] = req[s]
      BY <2>6 DEF Charge, IInv, TypeOK
    <3>3. ~ Waits(req'[r], u, l, start, amt)
      BY <2>6 DEF Charge, Waits, IdleReq, IInv, TypeOK
    <3>4. Pending(u, l)' \in SUBSET (P \ {r})
      BY <2>2, <2>3, <3>2, <3>3
    <3> QED BY <2>4, <2>6, <3>1, <3>4, WithinCharges
  <2> QED BY <1>0, <1>2, <1>3, <1>4, <2>5, <2>6, QuietWindow
<1>5. CASE windows'[u][l].spent = 0
  BY <1>2, <1>3, <1>5
<1> QED BY <1>0, <1>2, <1>3, <1>4, <1>5, QuietWindow

\* For as long as no administrator's call takes a step, the spend of a window
\* stays under its amount plus one largest cost for every request that may be
\* in the gate or in the ledger's queue at once: a request that finds the
\* amount spent is refused, whatever it and others read before, and one that
\* was admitted is charged at most once.
THEOREM OverspendIsBounded == Spec /\ RulesStand => []OverspendBounded
<1>1. IInv /\ MeterInv /\ OverInv /\ [Next]_vars
      /\ [~ \E a \in Admins : AdminStep(a)]_vars => OverInv'
  BY NextIInv, OverStays, QuietSteps
<1>2. IInv /\ OverInv => OverspendBounded
  <2> SUFFICES ASSUME IInv, OverInv, NEW u \in Users,
                      NEW l \in DOMAIN InForce(u) \cap Stored(windows[u])
               PROVE  windows[u][l].spent
                         < InForce(u)[l] + Cardinality(Slots) * MaxCost
    BY DEF OverspendBounded
  <2>1. windows[u][l].spent \in Nat /\ InForce(u)[l] \in Nat
    BY StoredRow, InForceType DEF IInv, TypeOK
  <2>2. /\ Within(windows[u][l].spent, InForce(u)[l], Pending(u, l))
        /\ Pending(u, l) \in SUBSET Slots
    BY DEF OverInv, Pending
  <2> QED BY <2>1, <2>2, WithinBounds
<1> QED BY <1>1, <1>2, MeterHolds, OverBegins, PTL DEF Spec, RulesStand

=============================================================================
