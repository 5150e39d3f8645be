--------------------------- MODULE SettingsProofs ---------------------------
(***************************************************************************)
(* What Settings promises of the accounts and of the settings document,    *)
(* proved for any number of accounts, documents, calls, faults and starts. *)
(*                                                                         *)
(* An account's call changes one account; the proofs follow it through the *)
(* four places an account is in, and let every other account stand still   *)
(* (`Elsewhere').                                                          *)
(***************************************************************************)
EXTENDS Settings, TLAPS

-----------------------------------------------------------------------------
(* Typing                                                                  *)

HeldOK == Table(held) /\ \A k \in Ids : held[k] \in Auths(k) \cup {None}

LateOK == Table(late) /\ \A k \in Ids : late[k] \in Credentials(k) \cup {None}

OpOK == op # None => op.id \in Ids /\ op \in Calls(op.id)

MarksOK ==
    /\ routed \subseteq Ids
    /\ dangling \cup recording \cup retracting \cup removed \cup unsaved
          \cup raced \subseteq Ids

PairsOK == sent \subseteq Secrets \X Urls /\ typed \subseteq Secrets \X Urls

EditOK ==
    /\ stored \in Docs \cup {None}
    /\ edit # None => edit \in Edits /\ edit.next.doc \notin Invalid
    /\ adrift \in BOOLEAN
    /\ starts \in 0 .. MaxStarts

LEMMA TypeParts ==
    TypeOK <=> /\ StoreTypeOK /\ HeldOK /\ LateOK /\ OpOK /\ MarksOK
               /\ PairsOK /\ EditOK
               /\ config \in Configs
               /\ phase \in {"down", "up", "stopped"}
BY DEF TypeOK, AccountTypeOK, HeldOK, LateOK, OpOK, MarksOK, PairsOK, EditOK

LEMMA TypePartsNext ==
    TypeOK' <=> /\ StoreTypeOK' /\ HeldOK' /\ LateOK' /\ OpOK' /\ MarksOK'
                /\ PairsOK' /\ EditOK'
                /\ config' \in Configs
                /\ phase' \in {"down", "up", "stopped"}
BY DEF TypeOK, AccountTypeOK, HeldOK, LateOK, OpOK, MarksOK, PairsOK, EditOK

\* What Save serialises of an account is a credential.
LEMMA StoredTyped ==
    ASSUME NEW k \in Ids, NEW a \in Auths(k)
    PROVE  a # None /\ Stored(a) # None /\ Stored(a) \in Credentials(k)
BY CredentialStoreAssumption DEF Stored, Auths, Credentials

\* A row is loaded as an account that would be saved as that row.
LEMMA LoadedTyped ==
    ASSUME NEW k \in Ids, NEW r \in Credentials(k)
    PROVE  /\ r # None /\ Loaded(r) # None /\ Loaded(r) \in Auths(k)
           /\ Stored(Loaded(r)) = r
<1>1. /\ Loaded(r) \in Auths(k) /\ r # None
      /\ Stored(Loaded(r)) \in Credentials(k)
  BY CredentialStoreAssumption DEF Loaded, Stored, Auths, Credentials
<1>2. Stored(Loaded(r)) = r
  BY DEF Loaded, Stored, Auths, Credentials
<1> QED BY <1>1, <1>2, CredentialStoreAssumption

\* The changes calls and the manager make to an account.
LEMMA ChangedTyped ==
    ASSUME NEW k \in Ids, NEW a \in Auths(k), NEW b \in BOOLEAN
    PROVE  /\ [a EXCEPT !.disabled = b] \in Auths(k)
           /\ [a EXCEPT !.proxy = b] \in Auths(k)
           /\ [a EXCEPT !.priority = b] \in Auths(k)
           /\ [a EXCEPT !.cooling = ~@] \in Auths(k)
           /\ \A body \in Body(k) : [a EXCEPT !.body = body] \in Auths(k)
BY DEF Auths

LEMMA SaveTyped ==
    ASSUME StoreTypeOK, NEW k \in Ids, NEW cred \in Credentials(k),
           NEW creating, NEW out, Save(k, cred, creating, out)
    PROVE  StoreTypeOK'
BY DEF StoreTypeOK, Save, Table, SavedDigest, storeVars

LEMMA DeleteTyped ==
    ASSUME StoreTypeOK, NEW k \in Ids, NEW out, Delete(k, out)
    PROVE  StoreTypeOK'
BY DEF StoreTypeOK, Delete, Table

LEMMA ListTyped ==
    ASSUME StoreTypeOK, List
    PROVE  StoreTypeOK'
BY DEF StoreTypeOK, List, Table

LEMMA EntriesTyped ==
    ASSUME NEW accounts,
           \A k \in Ids : accounts[k] \in Auths(k) \cup {None}
    PROVE  WithCompat(accounts) \in [Compats -> Entries]
<1>1. \A c \in Compats : c \in Ids /\ accounts[c] \in Auths(c) \cup {None}
  BY DEF Ids
<1>2. ASSUME NEW c \in Compats, accounts[c] # None
      PROVE  CompatEntry(accounts[c]) \in [url : Urls, priority : BOOLEAN]
  <2>1. accounts[c].body \in Definitions /\ accounts[c].priority \in BOOLEAN
    BY <1>1, <1>2 DEF Auths, Body
  <2> QED BY <2>1 DEF CompatEntry, Definitions
<1> QED BY <1>1, <1>2 DEF WithCompat, Entries

LEMMA PairsTyped ==
    ASSUME NEW def \in Definitions
    PROVE  Pairs(def) \subseteq Secrets \X Urls
BY DEF Pairs, Definitions

\* Every call a key is at work on.
LEMMA CallTyped ==
    ASSUME NEW kind \in {"add", "disable", "proxy", "compat", "priority",
                         "remove"},
           NEW k \in Ids,
           NEW at \in {"load", "withdraw", "update", "apply", "save",
                       "delete", "mark", "forget"},
           NEW auth \in Auths(k)
    PROVE  /\ Call(kind, k, at, auth) \in Calls(k)
           /\ Call(kind, k, at, auth) # None
           /\ Call(kind, k, at, auth).id = k
           /\ Call(kind, k, at, auth).at = at
           /\ Call(kind, k, at, auth).kind = kind
           /\ Call(kind, k, at, auth).auth = auth
<1>1. Call(kind, k, at, auth) \in Calls(k)
  BY DEF Call, Calls
<1> QED BY <1>1, AccountsAssumption DEF Call

LEMMA StageTyped ==
    ASSUME OpOK, op # None,
           NEW at \in {"load", "withdraw", "update", "apply", "save",
                       "delete", "mark", "forget"}
    PROVE  /\ [op EXCEPT !.at = at] \in Calls(op.id)
           /\ [op EXCEPT !.at = at] # None
           /\ [op EXCEPT !.at = at].id = op.id
           /\ [op EXCEPT !.at = at].at = at
           /\ [op EXCEPT !.at = at].kind = op.kind
           /\ [op EXCEPT !.at = at].auth = op.auth
           /\ op.auth \in Auths(op.id)
<1>1. op.id \in Ids /\ op \in Calls(op.id)
  BY DEF OpOK
<1>2. [op EXCEPT !.at = at] \in Calls(op.id)
  BY <1>1 DEF Calls
<1> QED BY <1>1, <1>2, AccountsAssumption DEF Calls

\* The definition an update gives a provider: a secret it does not carry is
\* the one held.
LEMMA KeptTyped ==
    ASSUME NEW kept, NEW at, NEW url, NEW entered,
           NEW s \in Kept(kept, at, url, entered),
           kept \in Secrets \cup {None},
           entered \in Secrets \cup {None, "keep"}
    PROVE  /\ s \in Secrets \cup {None}
           /\ entered # "keep" => s = entered
           /\ entered = "keep" => s = kept /\ (s = None \/ at = url)
BY DEF Kept

LEMMA UpdatedTyped ==
    ASSUME HeldOK, NEW k \in Compats, held[k] # None, NEW url \in Urls,
           NEW key \in Secrets \cup {None, "keep"},
           NEW headers \in Secrets \cup {None, "keep"},
           NEW newKey \in Kept(held[k].body.key, held[k].body.url, url, key),
           NEW newHeaders \in Kept(held[k].body.headers, held[k].body.url,
                                   url, headers)
    PROVE  LET def == [url |-> url, key |-> newKey, headers |-> newHeaders]
           IN  /\ def \in Definitions
               /\ [held[k] EXCEPT !.body = def] \in Auths(k)
               /\ [held[k] EXCEPT !.body = def].body = def
<1>1. k \in Ids /\ held[k] \in Auths(k)
  BY DEF HeldOK, Ids
<1>2. held[k].body \in Definitions
  BY <1>1 DEF Auths, Body
<1>3. /\ held[k].body.key \in Secrets \cup {None}
      /\ held[k].body.headers \in Secrets \cup {None}
  BY <1>2 DEF Definitions
<1>4. newKey \in Secrets \cup {None} /\ newHeaders \in Secrets \cup {None}
  BY <1>3, KeptTyped
<1>5. [url |-> url, key |-> newKey, headers |-> newHeaders] \in Definitions
  BY <1>4 DEF Definitions
<1>6. [url |-> url, key |-> newKey, headers |-> newHeaders] \in Body(k)
  BY <1>5 DEF Body
<1>7. /\ [held[k] EXCEPT !.body =
             [url |-> url, key |-> newKey, headers |-> newHeaders]]
            \in Auths(k)
      /\ [held[k] EXCEPT !.body =
             [url |-> url, key |-> newKey, headers |-> newHeaders]].body
            = [url |-> url, key |-> newKey, headers |-> newHeaders]
  BY <1>1, <1>6 DEF Auths
<1> QED BY <1>5, <1>7

-----------------------------------------------------------------------------
(* A step is about one account                                             *)

\* A call begins on account k.
Begins(k) ==
    \/ k \in Vendors /\ \E token \in Tokens, out \in Outcomes :
          AddAccount(k, token, out)
    \/ k \in Compats /\ \E def \in Submitted, out \in Outcomes :
          AddCompatProvider(k, def, out)
    \/ \E b \in BOOLEAN : SetAccountDisabled(k, b)
    \/ \E b \in BOOLEAN : SetAccountProxy(k, b)
    \/ RemoveAccount(k)
    \/ RetractAdded(k)
    \/ \E b \in BOOLEAN, out \in Outcomes : SetAccountPriority(k, b, out)
    \/ k \in Compats /\ \E url \in Urls,
          key, headers \in Secrets \cup {None, "keep"}, out \in Outcomes :
          UpdateCompatProvider(k, url, key, headers, out)

\* The call on account k goes on.
Continues(k) ==
    /\ op # None /\ op.id = k
    /\ \/ Register
       \/ \E listed \in BOOLEAN : RegisterFails(listed)
       \/ \E out \in Outcomes : Withdraw(out)
       \/ \E out \in Outcomes : UpdateHeld(out)
       \/ Apply
       \/ \E out \in Outcomes : SaveHeld(out)
       \/ \E out \in Outcomes : DeleteRow(out)
       \/ Forget

\* Account k is recorded, used for discovery, or changed by the manager.
Around(k) ==
    \/ \E fails \in BOOLEAN : RecordAdded(k, fails)
    \/ k \in Compats /\ \E url \in Urls : DiscoverModels(k, url)
    \/ /\ held[k] # None
       /\ \E auth \in Auths(k) :
             /\ \/ k \in Vendors
                      /\ \E token \in Tokens :
                            auth = [held[k] EXCEPT !.body = token]
                \/ auth = [held[k] EXCEPT !.cooling = ~@]
             /\ ManagerChange(k, auth)
    \/ \E out \in Outcomes : ManagerSave(k, out)

StepOn(k) == Begins(k) \/ Continues(k) \/ Around(k)

LEMMA StepsAreOnOne ==
    ASSUME TypeOK, AccountSteps
    PROVE  \E k \in Ids : StepOn(k)
<1> USE DEF StepOn
<1>v. Vendors \subseteq Ids /\ Compats \subseteq Ids
  BY DEF Ids
<1>o. At("load") \/ At("withdraw") \/ At("update") \/ At("apply")
        \/ At("delete") \/ At("forget") \/ op # None =>
          op # None /\ op.id \in Ids
  BY DEF At, TypeOK, AccountTypeOK
<1>1. CASE \E k \in Vendors, token \in Tokens, out \in Outcomes :
              AddAccount(k, token, out)
  BY <1>1, <1>v DEF Begins
<1>2. CASE \E k \in Compats, def \in Submitted, out \in Outcomes :
              AddCompatProvider(k, def, out)
  BY <1>2, <1>v DEF Begins
<1>3. CASE \E k \in Ids, b \in BOOLEAN :
              SetAccountDisabled(k, b) \/ SetAccountProxy(k, b)
  BY <1>3 DEF Begins
<1>4. CASE \E k \in Ids : RemoveAccount(k) \/ RetractAdded(k)
  BY <1>4 DEF Begins
<1>5. CASE \E k \in Ids, b \in BOOLEAN, out \in Outcomes :
              SetAccountPriority(k, b, out)
  BY <1>5 DEF Begins
<1>6. CASE \E k \in Compats, url \in Urls,
              key, headers \in Secrets \cup {None, "keep"}, out \in Outcomes :
              UpdateCompatProvider(k, url, key, headers, out)
  BY <1>6, <1>v DEF Begins
<1>7. CASE Register \/ Apply \/ Forget
  <2>1. op # None /\ op.id \in Ids
    BY <1>7, <1>o DEF Register, Apply, Forget
  <2> QED BY <1>7, <2>1 DEF Continues
<1>8. CASE \E listed \in BOOLEAN : RegisterFails(listed)
  <2>1. op # None /\ op.id \in Ids
    BY <1>8, <1>o DEF RegisterFails
  <2> QED BY <1>8, <2>1 DEF Continues
<1>9. CASE \E out \in Outcomes : \/ Withdraw(out) \/ UpdateHeld(out)
                                 \/ SaveHeld(out) \/ DeleteRow(out)
  <2>1. op # None /\ op.id \in Ids
    BY <1>9, <1>o DEF Withdraw, UpdateHeld, SaveHeld, DeleteRow
  <2> QED BY <1>9, <2>1 DEF Continues
<1>10. CASE \E k \in Ids, fails \in BOOLEAN : RecordAdded(k, fails)
  BY <1>10 DEF Around
<1>11. CASE \E k \in Compats, url \in Urls : DiscoverModels(k, url)
  BY <1>11, <1>v DEF Around
<1>12. CASE \E k \in Vendors : held[k] # None /\ \E token \in Tokens :
               ManagerChange(k, [held[k] EXCEPT !.body = token])
  <2>1. PICK k \in Vendors, token \in Tokens :
           /\ held[k] # None
           /\ ManagerChange(k, [held[k] EXCEPT !.body = token])
    BY <1>12
  <2>2. token \in Body(k) /\ held[k] \in Auths(k)
    BY <2>1, <1>v, CredentialStoreAssumption
       DEF Body, TypeOK, AccountTypeOK
  <2>3. [held[k] EXCEPT !.body = token] \in Auths(k)
    BY <2>2 DEF Auths
  <2> QED BY <1>v, <2>1, <2>3 DEF Around
<1>13. CASE \E k \in Ids : held[k] # None /\
               ManagerChange(k, [held[k] EXCEPT !.cooling = ~@])
  <2>1. PICK k \in Ids :
           /\ held[k] # None
           /\ ManagerChange(k, [held[k] EXCEPT !.cooling = ~@])
    BY <1>13
  <2>2. held[k] \in Auths(k)
    BY <2>1 DEF TypeOK, AccountTypeOK
  <2>3. [held[k] EXCEPT !.cooling = ~@] \in Auths(k)
    BY <2>2 DEF Auths
  <2> QED BY <2>1, <2>3 DEF Around
<1>14. CASE \E k \in Ids, out \in Outcomes : ManagerSave(k, out)
  BY <1>14 DEF Around
<1> QED BY <1>1, <1>2, <1>3, <1>4, <1>5, <1>6, <1>7, <1>8, <1>9, <1>10,
           <1>11, <1>12, <1>13, <1>14 DEF AccountSteps

\* A table with one entry replaced.
LEMMA HeldTyped ==
    ASSUME HeldOK, NEW k \in Ids, NEW a, a \in Auths(k) \cup {None},
           held' = [held EXCEPT ![k] = a]
    PROVE  HeldOK'
BY DEF HeldOK, Table

LEMMA LateTyped ==
    ASSUME LateOK, NEW k \in Ids, NEW c, c \in Credentials(k) \cup {None},
           late' = [late EXCEPT ![k] = c]
    PROVE  LateOK'
BY DEF LateOK, Table

LEMMA TracedTyped ==
    ASSUME MarksOK, NEW k \in Ids, NEW cred, NEW creating, NEW out,
           Traced(k, cred, creating, out)
    PROVE  unsaved' \subseteq Ids
BY DEF MarksOK, Traced

LEMMA BeginsTyped ==
    ASSUME TypeOK, NEW k \in Ids, Begins(k), UNCHANGED editVars
    PROVE  TypeOK'
<1> USE TypeParts, TypePartsNext
<1>e. EditOK'
  BY DEF EditOK, editVars
<1>h. held[k] # None => held[k] \in Auths(k)
  BY DEF HeldOK
<1>1. ASSUME NEW auth \in Auths(k), NEW out \in Outcomes,
             SaveNew(k, auth, out)
      PROVE  StoreTypeOK' /\ OpOK' /\ unsaved' \subseteq Ids
                /\ removed' \subseteq Ids
  <2>1. Stored(auth) \in Credentials(k)
    BY StoredTyped
  <2>2. StoreTypeOK'
    BY <1>1, <2>1, SaveTyped DEF SaveNew, SaveTraced
  <2>3. unsaved' \subseteq Ids
    BY <1>1, TracedTyped DEF SaveNew, SaveTraced
  <2>4. OpOK'
    BY <1>1, CallTyped DEF SaveNew, OpOK
  <2> QED BY <1>1, <2>2, <2>3, <2>4 DEF SaveNew, MarksOK
<1>2. ASSUME k \in Vendors, NEW token \in Tokens, NEW out \in Outcomes,
             AddAccount(k, token, out)
      PROVE  TypeOK'
  <2> DEFINE auth == [body |-> token, disabled |-> FALSE, cooling |-> FALSE,
                      proxy |-> held[k] # None /\ held[k].proxy,
                      priority |-> held[k] # None /\ held[k].priority]
  <2>1. k \notin Compats
    BY <1>2, CredentialStoreAssumption
  <2>2. auth \in Auths(k)
    BY <1>h, <2>1 DEF Auths, Body
  <2>3. /\ StoreTypeOK' /\ OpOK' /\ unsaved' \subseteq Ids
        /\ removed' \subseteq Ids
    BY <1>1, <1>2, <2>2 DEF AddAccount
  <2> QED BY <1>2, <1>e, <2>3
          DEF AddAccount, HeldOK, LateOK, MarksOK, PairsOK
<1>3. ASSUME k \in Compats, NEW def \in Submitted, NEW out \in Outcomes,
             AddCompatProvider(k, def, out)
      PROVE  TypeOK'
  <2> DEFINE auth == [body |-> def, disabled |-> FALSE, cooling |-> FALSE,
                      proxy |-> FALSE, priority |-> FALSE]
  <2>1. def \in Definitions
    BY AccountsAssumption
  <2>2. auth \in Auths(k)
    BY <1>3, <2>1 DEF Auths, Body
  <2>3. /\ StoreTypeOK' /\ OpOK' /\ unsaved' \subseteq Ids
        /\ removed' \subseteq Ids
    BY <1>1, <1>3, <2>2 DEF AddCompatProvider
  <2>4. PairsOK'
    BY <1>3, <2>1, PairsTyped DEF AddCompatProvider, PairsOK
  <2> QED BY <1>3, <1>e, <2>3, <2>4
          DEF AddCompatProvider, HeldOK, LateOK, MarksOK
<1>4. ASSUME NEW auth \in Auths(k),
             NEW kind \in {"disable", "proxy", "remove"},
             BeginChange(kind, k, auth)
      PROVE  TypeOK'
  <2>1. OpOK'
    BY <1>4, CallTyped DEF BeginChange, OpOK
  <2> QED BY <1>4, <1>e, <2>1
          DEF BeginChange, HeldOK, LateOK, MarksOK, PairsOK, StoreTypeOK
<1>5. ASSUME NEW b \in BOOLEAN,
             SetAccountDisabled(k, b) \/ SetAccountProxy(k, b)
      PROVE  TypeOK'
  <2>1. held[k] \in Auths(k)
    BY <1>5, <1>h DEF SetAccountDisabled, SetAccountProxy, BeginChange
  <2> QED BY <1>4, <1>5, <2>1, ChangedTyped
          DEF SetAccountDisabled, SetAccountProxy
<1>6. ASSUME RemoveAccount(k)
      PROVE  TypeOK'
  <2>1. held[k] \in Auths(k)
    BY <1>6, <1>h DEF RemoveAccount, BeginChange
  <2> QED BY <1>4, <1>6, <2>1, ChangedTyped DEF RemoveAccount
<1>7. ASSUME RetractAdded(k)
      PROVE  TypeOK'
  <2>1. OpOK'
    <3>1. CASE phase = "up" /\ held[k] # None
      <4>1. [held[k] EXCEPT !.disabled = TRUE] \in Auths(k)
        BY <3>1, <1>h, ChangedTyped
      <4> QED BY <1>7, <3>1, <4>1, CallTyped DEF RetractAdded, OpOK
    <3>2. CASE ~(phase = "up" /\ held[k] # None)
      BY <1>7, <3>2 DEF RetractAdded, OpOK
    <3> QED BY <3>1, <3>2
  <2> QED BY <1>7, <1>e, <2>1
          DEF RetractAdded, HeldOK, LateOK, MarksOK, PairsOK, StoreTypeOK
<1>8. ASSUME NEW b \in BOOLEAN, NEW out \in Outcomes,
             SetAccountPriority(k, b, out)
      PROVE  TypeOK'
  <2> DEFINE next == [held[k] EXCEPT !.priority = b]
  <2>1. next \in Auths(k)
    BY <1>8, <1>h, ChangedTyped DEF SetAccountPriority
  <2>2. Stored(next) \in Credentials(k)
    BY <2>1, StoredTyped
  <2>3. /\ SaveTraced(k, Stored(next), FALSE, out)
        /\ held' = IF out = "ok" THEN [held EXCEPT ![k] = next] ELSE held
        /\ op' = IF out = "ok" /\ k \in Compats
                 THEN Call("priority", k, "apply", next) ELSE op
    BY <1>8 DEF SetAccountPriority
  <2> HIDE DEF next
  <2>4. StoreTypeOK' /\ unsaved' \subseteq Ids
    BY <2>2, <2>3, SaveTyped, TracedTyped DEF SaveTraced
  <2>5. OpOK'
    BY <2>1, <2>3, CallTyped DEF OpOK
  <2>6. HeldOK'
    BY <2>1, <2>3, HeldTyped DEF HeldOK
  <2> QED BY <1>8, <1>e, <2>4, <2>5, <2>6
          DEF SetAccountPriority, LateOK, MarksOK, PairsOK
<1>9. ASSUME k \in Compats, NEW url \in Urls,
             NEW key \in Secrets \cup {None, "keep"},
             NEW headers \in Secrets \cup {None, "keep"},
             NEW out \in Outcomes,
             UpdateCompatProvider(k, url, key, headers, out)
      PROVE  TypeOK'
  <2> DEFINE entered == [url |-> url,
                         key |-> IF key = "keep" THEN None ELSE key,
                         headers |-> IF headers = "keep" THEN None
                                     ELSE headers]
  <2>1. PICK newKey \in Kept(held[k].body.key, held[k].body.url, url, key),
             newHeaders \in Kept(held[k].body.headers, held[k].body.url, url,
                                 headers) :
          LET def == [url |-> url, key |-> newKey, headers |-> newHeaders]
              next == [held[k] EXCEPT !.body = def]
          IN /\ SaveTraced(k, Stored(next), FALSE, out)
             /\ op' = IF out = "ok" THEN Call("compat", k, "update", next)
                      ELSE op
             /\ typed' = typed \cup Pairs(entered)
    BY <1>9 DEF UpdateCompatProvider
  <2> DEFINE next == [held[k] EXCEPT !.body =
                         [url |-> url, key |-> newKey, headers |-> newHeaders]]
  <2>2. next \in Auths(k)
    BY <1>9, UpdatedTyped DEF UpdateCompatProvider
  <2>3. Stored(next) \in Credentials(k)
    BY <2>2, StoredTyped
  <2>4. entered \in Definitions
    BY DEF Definitions
  <2>5. /\ SaveTraced(k, Stored(next), FALSE, out)
        /\ op' = IF out = "ok" THEN Call("compat", k, "update", next) ELSE op
        /\ typed' = typed \cup Pairs(entered)
    BY <2>1
  <2> HIDE DEF next, entered
  <2>6. StoreTypeOK' /\ unsaved' \subseteq Ids
    BY <2>3, <2>5, SaveTyped, TracedTyped DEF SaveTraced
  <2>7. OpOK'
    BY <2>2, <2>5, CallTyped DEF OpOK
  <2>8. PairsOK'
    BY <1>9, <2>4, <2>5, PairsTyped DEF UpdateCompatProvider, PairsOK
  <2> QED BY <1>9, <1>e, <2>6, <2>7, <2>8
          DEF UpdateCompatProvider, HeldOK, LateOK, MarksOK
<1> QED BY <1>2, <1>3, <1>5, <1>6, <1>7, <1>8, <1>9 DEF Begins

LEMMA ContinuesTyped ==
    ASSUME TypeOK, NEW k \in Ids, Continues(k), UNCHANGED editVars
    PROVE  TypeOK'
<1> USE TypeParts, TypePartsNext
<1>e. EditOK'
  BY DEF EditOK, editVars
<1>h. held[k] # None => held[k] \in Auths(k)
  BY DEF HeldOK
<1>o. op # None /\ op.id = k /\ op \in Calls(k) /\ op.auth \in Auths(k)
  BY DEF Continues, OpOK, Calls
<1>s. Stored(op.auth) \in Credentials(k)
  BY <1>o, StoredTyped
<1>1. CASE Register
  <2>1. Loaded(rows[k]) \in Auths(k)
    BY <1>1, <1>o, LoadedTyped DEF Register, StoreTypeOK
  <2>2. HeldOK'
    BY <1>1, <1>o, <2>1, HeldTyped DEF Register
  <2>3. StoreTypeOK'
    BY <1>1, ListTyped DEF Register
  <2>4. OpOK'
    BY <1>1, <1>o, StageTyped DEF Register, Goes, OpOK
  <2> QED BY <1>1, <1>e, <2>2, <2>3, <2>4
          DEF Register, LateOK, MarksOK, PairsOK
<1>2. ASSUME NEW listed \in BOOLEAN, RegisterFails(listed)
      PROVE  TypeOK'
  <2>1. StoreTypeOK'
    <3>1. CASE listed
      BY <1>2, <3>1, ListTyped DEF RegisterFails
    <3>2. CASE ~listed
      BY <1>2, <3>2 DEF RegisterFails, storeVars, StoreTypeOK
    <3> QED BY <3>1, <3>2
  <2>2. OpOK'
    <3>1. CASE held[k] = None
      BY <1>2, <1>o, <3>1, StageTyped DEF RegisterFails, OpOK
    <3>2. CASE held[k] # None
      <4> DEFINE auth == [held[k] EXCEPT !.disabled = TRUE]
      <4>1. auth \in Auths(k)
        BY <1>h, <3>2, ChangedTyped
      <4>2. op' = [op EXCEPT !.kind = "remove", !.at = "update",
                             !.auth = auth]
        BY <1>2, <1>o, <3>2 DEF RegisterFails
      <4> HIDE DEF auth
      <4>3. op' \in Calls(k) /\ op'.id = k
        BY <1>o, <4>1, <4>2 DEF Calls
      <4> QED BY <4>3 DEF OpOK
    <3> QED BY <3>1, <3>2
  <2> QED BY <1>2, <1>e, <2>1, <2>2
          DEF RegisterFails, HeldOK, LateOK, MarksOK, PairsOK
<1>3. ASSUME NEW out \in Outcomes, Withdraw(out)
      PROVE  TypeOK'
  <2>1. StoreTypeOK'
    BY <1>3, <1>o, DeleteTyped DEF Withdraw
  <2> QED BY <1>3, <1>e, <1>o, <2>1
          DEF Withdraw, HeldOK, LateOK, MarksOK, PairsOK, OpOK
<1>4. ASSUME NEW out \in Outcomes, UpdateHeld(out)
      PROVE  TypeOK'
  <2>1. StoreTypeOK' /\ unsaved' \subseteq Ids
    BY <1>4, <1>o, <1>s, SaveTyped, TracedTyped DEF UpdateHeld, SaveTraced
  <2>2. HeldOK'
    BY <1>4, <1>o, HeldTyped DEF UpdateHeld
  <2>3. OpOK'
    BY <1>4, <1>o, StageTyped DEF UpdateHeld, Goes, OpOK
  <2> QED BY <1>4, <1>e, <2>1, <2>2, <2>3
          DEF UpdateHeld, LateOK, MarksOK, PairsOK
<1>5. CASE Apply
  <2>1. config' \in Configs
    BY <1>5, EntriesTyped DEF Apply, Reapply, Configs, HeldOK
  <2>2. OpOK'
    BY <1>5, <1>o, StageTyped DEF Apply, OpOK
  <2> QED BY <1>5, <1>e, <1>o, <2>1, <2>2
          DEF Apply, Reapply, Applied, Enabled, HeldOK, LateOK, MarksOK,
              PairsOK, StoreTypeOK
<1>6. ASSUME NEW out \in Outcomes, SaveHeld(out)
      PROVE  TypeOK'
  <2>1. StoreTypeOK' /\ unsaved' \subseteq Ids
    BY <1>6, <1>o, <1>s, SaveTyped, TracedTyped DEF SaveHeld, SaveTraced
  <2> QED BY <1>6, <1>e, <2>1
          DEF SaveHeld, HeldOK, LateOK, MarksOK, PairsOK, OpOK
<1>7. ASSUME NEW out \in Outcomes, DeleteRow(out)
      PROVE  TypeOK'
  <2>1. StoreTypeOK'
    BY <1>7, <1>o, DeleteTyped DEF DeleteRow
  <2>2. OpOK'
    BY <1>7, <1>o, StageTyped DEF DeleteRow, Goes, OpOK
  <2> QED BY <1>7, <1>e, <1>o, <2>1, <2>2
          DEF DeleteRow, HeldOK, LateOK, MarksOK, PairsOK
<1>8. CASE Forget
  <2>1. HeldOK'
    BY <1>8, <1>o, HeldTyped DEF Forget
  <2> QED BY <1>8, <1>e, <1>o, <2>1
          DEF Forget, LateOK, MarksOK, PairsOK, OpOK, StoreTypeOK
<1> QED BY <1>1, <1>2, <1>3, <1>4, <1>5, <1>6, <1>7, <1>8 DEF Continues

LEMMA AroundTyped ==
    ASSUME TypeOK, NEW k \in Ids, Around(k), UNCHANGED editVars
    PROVE  TypeOK'
<1> USE TypeParts, TypePartsNext
<1>e. EditOK'
  BY DEF EditOK, editVars
<1>h. held[k] # None => held[k] \in Auths(k)
  BY DEF HeldOK
<1>1. ASSUME NEW fails \in BOOLEAN, RecordAdded(k, fails)
      PROVE  TypeOK'
  BY <1>1, <1>e
     DEF RecordAdded, HeldOK, LateOK, MarksOK, PairsOK, OpOK, StoreTypeOK
<1>2. ASSUME k \in Compats, NEW url \in Urls, DiscoverModels(k, url)
      PROVE  TypeOK'
  <2>1. PICK key \in Kept(held[k].body.key, held[k].body.url, url, "keep"),
             headers \in Kept(held[k].body.headers, held[k].body.url, url,
                              "keep") :
           sent' = sent \cup Pairs([url |-> url, key |-> key,
                                    headers |-> headers])
    BY <1>2 DEF DiscoverModels
  <2>2. [url |-> url, key |-> key, headers |-> headers] \in Definitions
    BY <1>2, UpdatedTyped DEF DiscoverModels
  <2>3. PairsOK'
    BY <1>2, <2>1, <2>2, PairsTyped DEF DiscoverModels, PairsOK
  <2> QED BY <1>2, <1>e, <2>3
          DEF DiscoverModels, HeldOK, LateOK, MarksOK, OpOK, StoreTypeOK
<1>3. ASSUME NEW auth \in Auths(k), ManagerChange(k, auth)
      PROVE  TypeOK'
  <2>1. HeldOK'
    BY <1>3, HeldTyped DEF ManagerChange
  <2>2. LateOK'
    BY <1>3, StoredTyped, LateTyped DEF ManagerChange
  <2> QED BY <1>3, <1>e, <2>1, <2>2
          DEF ManagerChange, MarksOK, PairsOK, OpOK, StoreTypeOK
<1>4. ASSUME NEW out \in Outcomes, ManagerSave(k, out)
      PROVE  TypeOK'
  <2>1. late[k] \in Credentials(k)
    BY <1>4 DEF ManagerSave, LateOK
  <2>2. StoreTypeOK'
    BY <1>4, <2>1, SaveTyped DEF ManagerSave
  <2>3. LateOK'
    BY <1>4, LateTyped DEF ManagerSave
  <2> QED BY <1>4, <1>e, <2>2, <2>3
          DEF ManagerSave, HeldOK, MarksOK, PairsOK, OpOK
<1> QED BY <1>1, <1>2, <1>3, <1>4 DEF Around

LEMMA StoredDocTyped ==
    ASSUME TypeOK
    PROVE  StoredDocument \in Docs
BY SettingsAssumption DEF StoredDocument, TypeOK

LEMMA InitTyped ==
    ASSUME Init
    PROVE  TypeOK
<1> USE TypeParts
<1>1. StoreTypeOK
  <2>1. Table(rows) /\ \A k \in Ids : rows[k] \in Credentials(k) \cup {None}
    BY SettingsAssumption DEF Init
  <2> QED BY <2>1 DEF Init, StoreTypeOK, Table
<1>2. HeldOK /\ LateOK /\ OpOK /\ MarksOK
  BY DEF Init, HeldOK, LateOK, OpOK, MarksOK, Table
<1>3. config \in Configs
  BY SettingsAssumption DEF Init, NoConfig, Configs, Entries
<1>4. EditOK
  <2>1. MaxStarts \in Nat /\ starts = 0
    BY SettingsAssumption DEF Init
  <2>2. starts \in 0 .. MaxStarts
    BY <2>1
  <2>3. adrift \in BOOLEAN
    BY DEF Init
  <2> QED BY <2>2, <2>3 DEF Init, EditOK
<1>5. PairsOK
  <2>1. ASSUME NEW c \in Compats, rows[c] # None
        PROVE  Pairs(rows[c].body) \subseteq Secrets \X Urls
    <3>1. rows[c].body \in Definitions
      BY <1>1, <2>1 DEF StoreTypeOK, Credentials, Body, Ids
    <3> QED BY <3>1, PairsTyped
  <2> QED BY <2>1 DEF Init, PairsOK
<1> QED BY <1>1, <1>2, <1>3, <1>4, <1>5 DEF Init

LEMMA StepTyped ==
    ASSUME TypeOK, [Next]_vars
    PROVE  TypeOK'
<1> USE TypeParts, TypePartsNext
<1>1. CASE AccountSteps /\ UNCHANGED editVars
  BY <1>1, StepsAreOnOne, BeginsTyped, ContinuesTyped, AroundTyped
     DEF StepOn
<1>2. CASE Start
  <2> DEFINE loaded == [k \in Ids |-> IF rows[k] = None THEN None
                                      ELSE Loaded(rows[k])]
  <2>1. \A k \in Ids : loaded[k] \in Auths(k) \cup {None}
    BY LoadedTyped DEF StoreTypeOK
  <2>2. /\ held' = loaded /\ config' = BootConfig(loaded)
        /\ routed' = Enabled(loaded)
    BY <1>2 DEF Start
  <2>3. HeldOK'
    BY <2>1, <2>2 DEF HeldOK, Table
  <2> HIDE DEF loaded
  <2>4. config' \in Configs
    BY <2>1, <2>2, EntriesTyped, StoredDocTyped DEF BootConfig, Configs
  <2>5. StoreTypeOK'
    BY <1>2, ListTyped DEF Start
  <2>6. EditOK'
    BY <1>2, SettingsAssumption DEF Start, EditOK
  <2>7. MarksOK'
    BY <1>2, <2>2 DEF Start, MarksOK, Enabled
  <2> QED BY <1>2, <2>3, <2>4, <2>5, <2>6, <2>7
          DEF Start, LateOK, OpOK, PairsOK
<1>3. CASE Stop
  BY <1>3 DEF Stop, StoreTypeOK, HeldOK, LateOK, OpOK, MarksOK, PairsOK,
              EditOK
<1>4. CASE Crash
  <2>1. config' \in Configs
    BY <1>4, SettingsAssumption DEF Crash, NoConfig, Configs, Entries
  <2>2. HeldOK' /\ LateOK' /\ StoreTypeOK'
    BY <1>4 DEF Crash, HeldOK, LateOK, StoreTypeOK, Table
  <2> QED BY <1>4, <2>1, <2>2 DEF Crash, OpOK, MarksOK, PairsOK, EditOK
<1>5. ASSUME NEW doc \in Docs, BeginUpdate(doc)
      PROVE  TypeOK'
  <2>1. Overlaid(doc) \in Configs /\ Overlaid(doc).doc = doc
    BY DEF Overlaid, Configs
  <2>2. edit' \in Edits /\ edit'.next.doc \notin Invalid
    BY <1>5, <2>1 DEF BeginUpdate, Edits, Parsed
  <2> QED BY <1>5, <2>2
          DEF BeginUpdate, StoreTypeOK, HeldOK, LateOK, OpOK, MarksOK,
              PairsOK, EditOK
<1>6. ASSUME NEW cfg \in Configs, PushConfig(cfg)
      PROVE  config' \in Configs /\ routed' \subseteq Ids /\ dangling' = {}
  BY <1>6, EntriesTyped
     DEF PushConfig, Applied, Enabled, Configs, HeldOK
<1>7. CASE PushProposed
  <2>1. edit \in Edits /\ edit.next \in Configs
    BY <1>7 DEF PushProposed, EditOK, Edits
  <2>2. config' \in Configs /\ routed' \subseteq Ids /\ dangling' \subseteq Ids
    BY <1>6, <1>7, <2>1 DEF PushProposed, MarksOK
  <2>3. EditOK'
    BY <1>7, <2>1 DEF PushProposed, EditOK, Edits
  <2> QED BY <1>7, <2>2, <2>3
          DEF PushProposed, StoreTypeOK, HeldOK, LateOK, OpOK, MarksOK,
              PairsOK
<1>8. CASE Restore
  <2>1. edit.running \in Configs
    BY <1>8 DEF Restore, EditOK, Edits
  <2>2. config' \in Configs /\ routed' \subseteq Ids /\ dangling' \subseteq Ids
    BY <1>6, <1>8, <2>1 DEF Restore, MarksOK
  <2> QED BY <1>8, <2>2
          DEF Restore, StoreTypeOK, HeldOK, LateOK, OpOK, MarksOK, PairsOK,
              EditOK
<1>9. ASSUME NEW out \in Outcomes, Persist(out)
      PROVE  TypeOK'
  <2>1. edit \in Edits /\ edit.next.doc \in Docs
    BY <1>9 DEF Persist, EditOK, Edits, Configs
  <2>2. EditOK'
    <3>1. adrift' \in BOOLEAN
      BY <1>9 DEF Persist
    <3> QED BY <1>9, <2>1, <3>1 DEF Persist, EditOK, Edits
  <2> QED BY <1>9, <2>2
          DEF Persist, StoreTypeOK, HeldOK, LateOK, OpOK, MarksOK, PairsOK
<1>10. CASE UNCHANGED vars
  BY <1>10 DEF vars, StoreTypeOK, HeldOK, LateOK, OpOK, MarksOK, PairsOK,
               EditOK
<1> QED BY <1>1, <1>2, <1>3, <1>4, <1>5, <1>7, <1>8, <1>9, <1>10 DEF Next

\* Every row, account, call, configuration and update has the form the code
\* gives it: a call works on an account's copy of the account's own kind, and
\* no update goes on with a document parseDocument refuses.
THEOREM SettingsTyped == Spec => []TypeOK
<1>1. Init => TypeOK
  BY InitTyped
<1>2. TypeOK /\ [Next]_vars => TypeOK'
  BY StepTyped
<1> QED BY <1>1, <1>2, PTL DEF Spec

-----------------------------------------------------------------------------
(* Every other account stands still                                        *)

\* What a step on account k leaves alone.  Reading all rows may set another
\* account's digest, to what its row holds.
Elsewhere(k) ==
    /\ phase' = phase
    /\ config'.doc = config.doc
    /\ \A j \in Ids \ {k} :
          /\ rows'[j] = rows[j]
          /\ held'[j] = held[j]
          /\ late'[j] = late[j]
          /\ digests'[j] \in {digests[j], rows[j]}
          /\ j \in unsaved' <=> j \in unsaved
          /\ j \in raced' <=> j \in raced
          /\ j \in removed' <=> j \in removed
    /\ op' # op => (op # None => op.id = k) /\ (op' # None => op'.id = k)

LEMMA SaveElsewhere ==
    ASSUME StoreTypeOK, NEW k \in Ids, NEW cred, NEW creating, NEW out,
           Save(k, cred, creating, out), NEW j \in Ids, j # k
    PROVE  rows'[j] = rows[j] /\ digests'[j] = digests[j]
BY DEF StoreTypeOK, Save, storeVars, Table

LEMMA DeleteElsewhere ==
    ASSUME StoreTypeOK, NEW k \in Ids, NEW out, Delete(k, out),
           NEW j \in Ids, j # k
    PROVE  rows'[j] = rows[j] /\ digests'[j] = digests[j]
BY DEF StoreTypeOK, Delete, Table

LEMMA OthersStandStill ==
    ASSUME TypeOK, NEW k \in Ids, StepOn(k)
    PROVE  Elsewhere(k)
<1> USE TypeParts
<1>1. ASSUME NEW out, NEW auth, SaveNew(k, auth, out), op = None
      PROVE  /\ \A j \in Ids \ {k} :
                   /\ rows'[j] = rows[j] /\ digests'[j] = digests[j]
                   /\ j \in unsaved' <=> j \in unsaved
                   /\ j \in removed' <=> j \in removed
             /\ op' # op => op'.id = k
  BY <1>1, SaveElsewhere DEF SaveNew, SaveTraced, Traced, Call
<1>2. CASE Begins(k)
  <2>1. CASE k \in Vendors /\ \E token \in Tokens, out \in Outcomes :
                AddAccount(k, token, out)
    BY <1>1, <2>1 DEF AddAccount, Takes, Elsewhere
  <2>2. CASE k \in Compats /\ \E def \in Submitted, out \in Outcomes :
                AddCompatProvider(k, def, out)
    BY <1>1, <2>2 DEF AddCompatProvider, Takes, Elsewhere
  <2>3. CASE \/ \E b \in BOOLEAN : SetAccountDisabled(k, b)
             \/ \E b \in BOOLEAN : SetAccountProxy(k, b)
             \/ RemoveAccount(k)
    <3>1. PICK kind, auth : BeginChange(kind, k, auth)
      BY <2>3 DEF SetAccountDisabled, SetAccountProxy, RemoveAccount
    <3> QED BY <3>1 DEF BeginChange, Takes, Call, Elsewhere
  <2>4. CASE RetractAdded(k)
    BY <2>4 DEF RetractAdded, Call, Elsewhere
  <2>5. ASSUME NEW b \in BOOLEAN, NEW out \in Outcomes,
               SetAccountPriority(k, b, out)
        PROVE  Elsewhere(k)
    BY <2>5, SaveElsewhere
       DEF SetAccountPriority, SaveTraced, Traced, Takes, Call, Elsewhere,
           HeldOK, Table
  <2>6. CASE k \in Compats /\ \E url \in Urls,
                key, headers \in Secrets \cup {None, "keep"},
                out \in Outcomes :
                UpdateCompatProvider(k, url, key, headers, out)
    <3>1. PICK next, out :
             /\ out \in Outcomes
             /\ SaveTraced(k, Stored(next), FALSE, out)
             /\ op' = IF out = "ok" THEN Call("compat", k, "update", next)
                      ELSE op
             /\ op = None
             /\ UNCHANGED <<phase, held, late, routed, dangling, config,
                   recording, retracting, removed, raced, sent, changes>>
      <4>1. PICK url \in Urls, key \in Secrets \cup {None, "keep"},
                 headers \in Secrets \cup {None, "keep"}, out \in Outcomes :
               UpdateCompatProvider(k, url, key, headers, out)
        BY <2>6
      <4>2. PICK next :
               /\ SaveTraced(k, Stored(next), FALSE, out)
               /\ op' = IF out = "ok" THEN Call("compat", k, "update", next)
                        ELSE op
        BY <4>1 DEF UpdateCompatProvider
      <4> QED BY <4>1, <4>2 DEF UpdateCompatProvider, Takes
    <3> QED BY <3>1, SaveElsewhere DEF SaveTraced, Traced, Call, Elsewhere
  <2> QED BY <1>2, <2>1, <2>2, <2>3, <2>4, <2>5, <2>6 DEF Begins
<1>3. CASE Continues(k)
  <2>o. op # None /\ op.id = k /\ op \in Calls(k)
    BY <1>3 DEF Continues, OpOK
  <2>1. CASE Register
    BY <2>1, <2>o
       DEF Register, List, Goes, Elsewhere, HeldOK, Table, Calls
  <2>2. CASE \E listed \in BOOLEAN : RegisterFails(listed)
    BY <2>2, <2>o
       DEF RegisterFails, List, storeVars, Elsewhere, Calls
  <2>3. CASE \E out \in Outcomes : Withdraw(out)
    BY <2>3, <2>o, DeleteElsewhere DEF Withdraw, Elsewhere
  <2>4. ASSUME NEW out \in Outcomes, UpdateHeld(out)
        PROVE  Elsewhere(k)
    <3>1. op'.id = k
      BY <2>4, <2>o DEF UpdateHeld, Goes, Calls
    <3>2. \A j \in Ids \ {k} : held'[j] = held[j]
      BY <2>4, <2>o DEF UpdateHeld, HeldOK, Table
    <3> QED BY <2>4, <2>o, <3>1, <3>2, SaveElsewhere
            DEF UpdateHeld, SaveTraced, Traced, Elsewhere
  <2>5. CASE Apply
    BY <2>5, <2>o DEF Apply, Reapply, Elsewhere, Calls, Configs
  <2>6. CASE \E out \in Outcomes : SaveHeld(out)
    BY <2>6, <2>o, SaveElsewhere DEF SaveHeld, SaveTraced, Traced, Elsewhere
  <2>7. CASE \E out \in Outcomes : DeleteRow(out)
    BY <2>7, <2>o, DeleteElsewhere DEF DeleteRow, Goes, Elsewhere, Calls
  <2>8. CASE Forget
    BY <2>8, <2>o DEF Forget, Elsewhere, HeldOK, Table
  <2> QED BY <1>3, <2>1, <2>2, <2>3, <2>4, <2>5, <2>6, <2>7, <2>8
          DEF Continues
<1>4. CASE Around(k)
  <2>1. CASE \E fails \in BOOLEAN : RecordAdded(k, fails)
    BY <2>1 DEF RecordAdded, Elsewhere
  <2>2. CASE k \in Compats /\ \E url \in Urls : DiscoverModels(k, url)
    BY <2>2 DEF DiscoverModels, Elsewhere
  <2>3. ASSUME NEW auth, ManagerChange(k, auth)
        PROVE  Elsewhere(k)
    BY <2>3 DEF ManagerChange, Elsewhere, HeldOK, LateOK, Table
  <2>4. CASE \E out \in Outcomes : ManagerSave(k, out)
    BY <2>4, SaveElsewhere DEF ManagerSave, Elsewhere, LateOK, Table
  <2> QED BY <1>4, <2>1, <2>2, <2>3, <2>4 DEF Around
<1> QED BY <1>2, <1>3, <1>4 DEF StepOn

-----------------------------------------------------------------------------
(* The settings document                                                   *)

\* Where an update stands, and what it would put back.
DocInv ==
    /\ phase = "down" => edit = None
    /\ edit = None /\ phase # "down" => adrift \/ config.doc = StoredDocument
    /\ edit # None =>
          /\ edit.at = "push" =>
                /\ edit.running.doc = config.doc
                /\ adrift \/ config.doc = StoredDocument
          /\ edit.at = "persist" =>
                /\ config.doc = edit.next.doc
                /\ adrift \/ edit.running.doc = StoredDocument
          /\ edit.at = "restore" =>
                adrift \/ edit.running.doc = StoredDocument

LEMMA DocStep ==
    ASSUME TypeOK, DocInv, [Next]_vars
    PROVE  DocInv'
<1> USE TypeParts
<1>e. edit # None => edit \in Edits /\ edit.next \in Configs
                        /\ edit.running \in Configs
  BY DEF EditOK, Edits
<1>1. CASE AccountSteps /\ UNCHANGED editVars
  <2>1. PICK k \in Ids : Elsewhere(k)
    BY <1>1, StepsAreOnOne, OthersStandStill
  <2>2. /\ config'.doc = config.doc /\ phase' = phase /\ edit' = edit
        /\ stored' = stored /\ adrift' = adrift
    BY <1>1, <2>1 DEF Elsewhere, editVars
  <2> QED BY <2>2 DEF DocInv, StoredDocument
<1>2. CASE Start
  BY <1>2 DEF Start, DocInv, BootConfig, StoredDocument
<1>3. CASE Stop
  BY <1>3 DEF Stop, DocInv, StoredDocument
<1>4. CASE Crash
  BY <1>4 DEF Crash, DocInv
<1>5. ASSUME NEW doc \in Docs, BeginUpdate(doc)
      PROVE  DocInv'
  BY <1>5 DEF BeginUpdate, DocInv, StoredDocument
<1>6. ASSUME NEW cfg \in Configs, PushConfig(cfg)
      PROVE  config'.doc = cfg.doc
  BY <1>6 DEF PushConfig, Configs
<1>7. CASE PushProposed
  <2>1. CASE phase = "up" /\ Admitted(edit.next)
    <3>1. config'.doc = edit.next.doc
      BY <1>6, <1>7, <1>e, <2>1 DEF PushProposed
    <3>2. /\ edit'.at = "persist" /\ edit'.next = edit.next
          /\ edit'.running = edit.running /\ edit' \in Edits
      BY <1>7, <1>e, <2>1 DEF PushProposed, Edits
    <3>3. adrift \/ edit.running.doc = StoredDocument
      BY <1>7 DEF PushProposed, DocInv
    <3>4. stored' = stored /\ adrift' = adrift /\ phase' = phase
      BY <1>7 DEF PushProposed
    <3> QED BY <2>1, <3>1, <3>2, <3>3, <3>4, SettingsAssumption
            DEF DocInv, StoredDocument
  <2>2. CASE ~(phase = "up" /\ Admitted(edit.next))
    BY <1>7, <2>2 DEF PushProposed, DocInv, StoredDocument
  <2> QED BY <2>1, <2>2
<1>8. CASE Restore
  <2>1. CASE phase = "up"
    BY <1>6, <1>8, <1>e, <2>1 DEF Restore, DocInv, StoredDocument
  <2>2. CASE phase # "up"
    BY <1>8, <2>2 DEF Restore, DocInv
  <2> QED BY <2>1, <2>2
<1>9. ASSUME NEW out \in Outcomes, Persist(out)
      PROVE  DocInv'
  <2>1. /\ edit # None /\ edit.at = "persist" /\ phase # "down"
        /\ config.doc = edit.next.doc /\ edit.next.doc \in Docs
        /\ adrift \/ edit.running.doc = StoredDocument
    BY <1>9, <1>e DEF Persist, DocInv, Configs
  <2>2. config' = config /\ phase' = phase
    BY <1>9 DEF Persist
  <2>3. CASE out = "ok"
    BY <1>9, <2>1, <2>2, <2>3, SettingsAssumption
       DEF Persist, DocInv, StoredDocument
  <2>4. CASE out # "ok"
    <3>1. /\ edit'.at = "restore" /\ edit'.running = edit.running
          /\ edit' \in Edits
      BY <1>9, <1>e, <2>4 DEF Persist, Edits
    <3>2. CASE out = "lost"
      BY <1>9, <2>2, <3>1, <3>2, SettingsAssumption DEF Persist, DocInv
    <3>3. CASE out = "failed"
      BY <1>9, <2>1, <2>2, <3>1, <3>3, SettingsAssumption
         DEF Persist, DocInv, StoredDocument
    <3> QED BY <2>4, <3>2, <3>3 DEF Outcomes
  <2> QED BY <2>3, <2>4
<1>10. CASE UNCHANGED vars
  BY <1>10 DEF vars, DocInv, StoredDocument
<1> QED BY <1>1, <1>2, <1>3, <1>4, <1>5, <1>7, <1>8, <1>9, <1>10 DEF Next

\* A stored settings document is the one that runs (settings.go Update):
\* between updates they differ only if an update reported that it could not
\* store its document or put the previous one back.
THEOREM StoredDocumentRuns == Spec => []StoredIsRunning
<1>1. Init => TypeOK /\ DocInv
  BY InitTyped DEF Init, DocInv
<1>2. TypeOK /\ DocInv /\ [Next]_vars => (TypeOK /\ DocInv)'
  BY StepTyped, DocStep
<1>3. TypeOK /\ DocInv => StoredIsRunning
  BY DEF DocInv, StoredIsRunning
<1> QED BY <1>1, <1>2, <1>3, PTL DEF Spec

-----------------------------------------------------------------------------
(* Secrets and URLs                                                        *)

\* A definition made of entered and kept secrets pairs each with its URL.
LEMMA KeptPairs ==
    ASSUME NEW def \in Definitions, NEW url,
           NEW key \in Secrets \cup {None, "keep"},
           NEW headers \in Secrets \cup {None, "keep"},
           NEW newKey \in Kept(def.key, def.url, url, key),
           NEW newHeaders \in Kept(def.headers, def.url, url, headers)
    PROVE  Pairs([url |-> url, key |-> newKey, headers |-> newHeaders])
             \subseteq Pairs(def) \cup
                       Pairs([url |-> url,
                              key |-> IF key = "keep" THEN None ELSE key,
                              headers |-> IF headers = "keep" THEN None
                                          ELSE headers])
<1>1. def.key \in Secrets \cup {None} /\ def.headers \in Secrets \cup {None}
  BY DEF Definitions
<1>2. ASSUME newKey # None
      PROVE  \/ key = "keep" /\ newKey = def.key /\ url = def.url
             \/ key # "keep" /\ newKey = key
  BY <1>1, <1>2, KeptTyped
<1>3. ASSUME newHeaders # None
      PROVE  \/ headers = "keep" /\ newHeaders = def.headers /\ url = def.url
             \/ headers # "keep" /\ newHeaders = headers
  BY <1>1, <1>3, KeptTyped
<1>4. SUFFICES ASSUME NEW s \in {newKey, newHeaders}, s # None
               PROVE  \/ url = def.url /\ s \in {def.key, def.headers}
                      \/ key # "keep" /\ s = key
                      \/ headers # "keep" /\ s = headers
  BY DEF Pairs
<1> QED BY <1>2, <1>3, <1>4

\* What UpdateCompatProvider saves and hands to the manager.
LEMMA UpdateShape ==
    ASSUME TypeOK, NEW k \in Compats, NEW url \in Urls,
           NEW key \in Secrets \cup {None, "keep"},
           NEW headers \in Secrets \cup {None, "keep"},
           NEW out \in Outcomes,
           UpdateCompatProvider(k, url, key, headers, out)
    PROVE  \E next \in Auths(k) :
              /\ SaveTraced(k, Stored(next), FALSE, out)
              /\ op' = IF out = "ok" THEN Call("compat", k, "update", next)
                       ELSE op
              /\ next.disabled = held[k].disabled
              /\ typed \subseteq typed'
              /\ Pairs(next.body) \subseteq Pairs(held[k].body) \cup typed'
<1> USE TypeParts
<1>1. held[k] # None /\ held[k] \in Auths(k) /\ held[k].body \in Definitions
  BY DEF UpdateCompatProvider, HeldOK, Ids, Auths, Body
<1> DEFINE entered == [url |-> url,
                       key |-> IF key = "keep" THEN None ELSE key,
                       headers |-> IF headers = "keep" THEN None
                                   ELSE headers]
<1>2. PICK newKey \in Kept(held[k].body.key, held[k].body.url, url, key),
           newHeaders \in Kept(held[k].body.headers, held[k].body.url, url,
                               headers) :
        LET def == [url |-> url, key |-> newKey, headers |-> newHeaders]
            next == [held[k] EXCEPT !.body = def]
        IN /\ SaveTraced(k, Stored(next), FALSE, out)
           /\ op' = IF out = "ok" THEN Call("compat", k, "update", next)
                    ELSE op
           /\ typed' = typed \cup Pairs(entered)
  BY DEF UpdateCompatProvider
<1> DEFINE def == [url |-> url, key |-> newKey, headers |-> newHeaders]
           next == [held[k] EXCEPT !.body = def]
<1>3. /\ SaveTraced(k, Stored(next), FALSE, out)
      /\ op' = IF out = "ok" THEN Call("compat", k, "update", next) ELSE op
      /\ typed' = typed \cup Pairs(entered)
  BY <1>2
<1>4. next \in Auths(k) /\ next.body = def
  <2>1. HeldOK
    OBVIOUS
  <2>2. next \in Auths(k)
    BY <1>1, <2>1, UpdatedTyped
  <2>3. next.body = def
    BY <1>1 DEF Auths
  <2> QED BY <2>2, <2>3
<1>5. next.disabled = held[k].disabled
  BY <1>1 DEF Auths
<1>6. Pairs(def) \subseteq Pairs(held[k].body) \cup Pairs(entered)
  BY <1>1, KeptPairs
<1> HIDE DEF def, next, entered
<1>7. /\ typed \subseteq typed'
      /\ Pairs(next.body) \subseteq Pairs(held[k].body) \cup typed'
  BY <1>3, <1>4, <1>6
<1> QED BY <1>3, <1>4, <1>5, <1>7

LEMMA SaveRow ==
    ASSUME StoreTypeOK, NEW k \in Ids, NEW cred, NEW creating, NEW out,
           Save(k, cred, creating, out)
    PROVE  rows'[k] = rows[k] \/ rows'[k] = cred
BY DEF StoreTypeOK, Save, storeVars, Table

LEMMA DeletedRow ==
    ASSUME StoreTypeOK, NEW k \in Ids, NEW out, Delete(k, out)
    PROVE  rows'[k] = IF out = "failed" THEN rows[k] ELSE None
BY DEF StoreTypeOK, Delete, Table

OpOn(k) == op # None /\ op.id = k

\* Wherever a provider's definition is, its secrets are at their own URL.
SecretAt(k) ==
    /\ rows[k] # None => Pairs(rows[k].body) \subseteq typed
    /\ held[k] # None => Pairs(held[k].body) \subseteq typed
    /\ late[k] # None => Pairs(late[k].body) \subseteq typed
    /\ OpOn(k) => Pairs(op.auth.body) \subseteq typed

SecretInv ==
    /\ sent \subseteq typed
    /\ \A k \in Compats : SecretAt(k)

LEMMA BodyKept ==
    /\ \A a : Stored(a).body = a.body
    /\ \A r : Loaded(r).body = r.body
    /\ \A k \in Ids : \A a \in Auths(k), b \in BOOLEAN :
          /\ [a EXCEPT !.disabled = b].body = a.body
          /\ [a EXCEPT !.proxy = b].body = a.body
          /\ [a EXCEPT !.priority = b].body = a.body
          /\ [a EXCEPT !.cooling = ~@].body = a.body
BY DEF Stored, Loaded, Auths

LEMMA SecretBegins ==
    ASSUME TypeOK, NEW k \in Compats, SecretAt(k), sent \subseteq typed,
           Begins(k)
    PROVE  SecretAt(k)' /\ typed \subseteq typed' /\ sent' \subseteq typed'
<1> USE TypeParts
<1>i. k \in Ids
  BY DEF Ids
<1>h. held[k] # None => held[k] \in Auths(k)
  BY <1>i DEF HeldOK
<1>1. ASSUME k \in Vendors
      PROVE  FALSE
  BY <1>1, CredentialStoreAssumption
<1>2. ASSUME NEW def \in Submitted, NEW out \in Outcomes,
             AddCompatProvider(k, def, out)
      PROVE  SecretAt(k)' /\ typed \subseteq typed' /\ sent' \subseteq typed'
  <2> DEFINE auth == [body |-> def, disabled |-> FALSE, cooling |-> FALSE,
                      proxy |-> FALSE, priority |-> FALSE]
  <2>1. /\ SaveNew(k, auth, out) /\ typed' = typed \cup Pairs(def)
        /\ op = None /\ UNCHANGED <<held, late, sent>>
    BY <1>2 DEF AddCompatProvider, Takes
  <2>2. auth.body = def
    OBVIOUS
  <2> HIDE DEF auth
  <2>3. rows'[k] = rows[k] \/ rows'[k] = Stored(auth)
    BY <1>i, <2>1, SaveRow DEF SaveNew, SaveTraced
  <2>4. op' = op \/ op' = Call("add", k, "load", auth)
    BY <2>1 DEF SaveNew
  <2> QED BY <2>1, <2>2, <2>3, <2>4, BodyKept DEF SecretAt, OpOn, Call
<1>3. ASSUME NEW kind, NEW auth, BeginChange(kind, k, auth),
             auth.body = held[k].body
      PROVE  SecretAt(k)' /\ typed \subseteq typed' /\ sent' \subseteq typed'
  BY <1>3 DEF BeginChange, SecretAt, OpOn, Call
<1>4. ASSUME NEW b \in BOOLEAN,
             SetAccountDisabled(k, b) \/ SetAccountProxy(k, b)
      PROVE  SecretAt(k)' /\ typed \subseteq typed' /\ sent' \subseteq typed'
  <2>1. held[k] \in Auths(k)
    BY <1>4, <1>h DEF SetAccountDisabled, SetAccountProxy, BeginChange
  <2> QED BY <1>3, <1>4, <1>i, <2>1, BodyKept
          DEF SetAccountDisabled, SetAccountProxy
<1>5. ASSUME RemoveAccount(k)
      PROVE  SecretAt(k)' /\ typed \subseteq typed' /\ sent' \subseteq typed'
  <2>1. held[k] \in Auths(k)
    BY <1>5, <1>h DEF RemoveAccount, BeginChange
  <2> QED BY <1>3, <1>5, <1>i, <2>1, BodyKept DEF RemoveAccount
<1>6. ASSUME RetractAdded(k)
      PROVE  SecretAt(k)' /\ typed \subseteq typed' /\ sent' \subseteq typed'
  BY <1>6, <1>h, <1>i, BodyKept DEF RetractAdded, SecretAt, OpOn, Call
<1>7. ASSUME NEW b \in BOOLEAN, NEW out \in Outcomes,
             SetAccountPriority(k, b, out)
      PROVE  SecretAt(k)' /\ typed \subseteq typed' /\ sent' \subseteq typed'
  <2> DEFINE next == [held[k] EXCEPT !.priority = b]
  <2>1. /\ SaveTraced(k, Stored(next), FALSE, out) /\ held[k] # None
        /\ held' = IF out = "ok" THEN [held EXCEPT ![k] = next] ELSE held
        /\ op' = IF out = "ok" /\ k \in Compats
                 THEN Call("priority", k, "apply", next) ELSE op
        /\ op = None /\ UNCHANGED <<late, typed, sent>>
    BY <1>7 DEF SetAccountPriority, Takes
  <2>2. next.body = held[k].body
    BY <1>h, <1>i, <2>1, BodyKept
  <2> HIDE DEF next
  <2>3. rows'[k] = rows[k] \/ rows'[k] = Stored(next)
    BY <1>i, <2>1, SaveRow DEF SaveTraced
  <2>4. held'[k] = held[k] \/ held'[k] = next
    BY <1>i, <2>1 DEF HeldOK, Table
  <2> QED BY <2>1, <2>2, <2>3, <2>4, BodyKept DEF SecretAt, OpOn, Call
<1>8. ASSUME NEW url \in Urls,
             NEW key \in Secrets \cup {None, "keep"},
             NEW headers \in Secrets \cup {None, "keep"},
             NEW out \in Outcomes,
             UpdateCompatProvider(k, url, key, headers, out)
      PROVE  SecretAt(k)' /\ typed \subseteq typed' /\ sent' \subseteq typed'
  <2>1. PICK next \in Auths(k) :
              /\ SaveTraced(k, Stored(next), FALSE, out)
              /\ op' = IF out = "ok" THEN Call("compat", k, "update", next)
                       ELSE op
              /\ typed \subseteq typed'
              /\ Pairs(next.body) \subseteq Pairs(held[k].body) \cup typed'
    BY <1>8, UpdateShape
  <2>2. /\ held[k] # None /\ op = None
        /\ UNCHANGED <<held, late, sent>>
    BY <1>8 DEF UpdateCompatProvider, Takes
  <2>3. rows'[k] = rows[k] \/ rows'[k] = Stored(next)
    BY <1>i, <2>1, SaveRow DEF SaveTraced
  <2>4. Pairs(next.body) \subseteq typed'
    BY <2>1, <2>2 DEF SecretAt
  <2> QED BY <2>1, <2>2, <2>3, <2>4, BodyKept DEF SecretAt, OpOn, Call
<1> QED BY <1>1, <1>2, <1>4, <1>5, <1>6, <1>7, <1>8 DEF Begins

LEMMA SecretContinues ==
    ASSUME TypeOK, NEW k \in Compats, SecretAt(k), Continues(k)
    PROVE  SecretAt(k)' /\ typed' = typed /\ sent' = sent
<1> USE TypeParts
<1>i. k \in Ids
  BY DEF Ids
<1>h. held[k] # None => held[k] \in Auths(k)
  BY <1>i DEF HeldOK
<1>o. /\ op # None /\ op.id = k /\ op \in Calls(k) /\ OpOn(k)
      /\ Pairs(op.auth.body) \subseteq typed
  BY DEF Continues, OpOK, OpOn, SecretAt
<1>1. CASE Register
  <2>1. held'[k] = Loaded(rows[k]) /\ rows[k] # None
    BY <1>1, <1>i, <1>o DEF Register, HeldOK, Table
  <2>2. op'.auth = op.auth
    BY <1>1, <1>o DEF Register, Goes, Calls
  <2> QED BY <1>1, <1>o, <2>1, <2>2, BodyKept
          DEF Register, List, SecretAt, OpOn
<1>2. ASSUME NEW listed \in BOOLEAN, RegisterFails(listed)
      PROVE  SecretAt(k)' /\ typed' = typed /\ sent' = sent
  <2>1. UNCHANGED <<rows, held, late, typed, sent>>
    BY <1>2 DEF RegisterFails, List, storeVars
  <2>2. CASE held[k] = None
    <3>1. op'.auth = op.auth
      BY <1>2, <1>o, <2>2 DEF RegisterFails, Calls
    <3> QED BY <1>o, <2>1, <3>1 DEF SecretAt, OpOn
  <2>3. CASE held[k] # None
    <3> DEFINE auth == [held[k] EXCEPT !.disabled = TRUE]
    <3>1. op' = [op EXCEPT !.kind = "remove", !.at = "update", !.auth = auth]
      BY <1>2, <1>o, <2>3 DEF RegisterFails
    <3>2. auth.body = held[k].body
      BY <1>h, <1>i, <2>3, BodyKept
    <3> HIDE DEF auth
    <3>3. op'.auth = auth
      BY <1>o, <3>1 DEF Calls
    <3> QED BY <2>1, <2>3, <3>2, <3>3 DEF SecretAt
  <2> QED BY <2>2, <2>3
<1>3. ASSUME NEW out \in Outcomes, Withdraw(out)
      PROVE  SecretAt(k)' /\ typed' = typed /\ sent' = sent
  <2>1. rows'[k] = rows[k] \/ rows'[k] = None
    BY <1>3, <1>i, <1>o, DeletedRow DEF Withdraw
  <2> QED BY <1>3, <2>1 DEF Withdraw, SecretAt, OpOn
<1>4. ASSUME NEW out \in Outcomes, UpdateHeld(out)
      PROVE  SecretAt(k)' /\ typed' = typed /\ sent' = sent
  <2>1. rows'[k] = rows[k] \/ rows'[k] = Stored(op.auth)
    BY <1>4, <1>i, <1>o, SaveRow DEF UpdateHeld, SaveTraced
  <2>2. held'[k] = op.auth
    BY <1>4, <1>i, <1>o DEF UpdateHeld, HeldOK, Table
  <2>3. op'.auth = op.auth
    BY <1>4, <1>o DEF UpdateHeld, Goes, Calls
  <2> QED BY <1>4, <1>o, <2>1, <2>2, <2>3, BodyKept
          DEF UpdateHeld, SecretAt
<1>5. CASE Apply
  <2>1. op' = None \/ op'.auth = op.auth
    BY <1>5, <1>o DEF Apply, Calls
  <2> QED BY <1>5, <1>o, <2>1 DEF Apply, SecretAt, OpOn
<1>6. ASSUME NEW out \in Outcomes, SaveHeld(out)
      PROVE  SecretAt(k)' /\ typed' = typed /\ sent' = sent
  <2>1. rows'[k] = rows[k] \/ rows'[k] = Stored(op.auth)
    BY <1>6, <1>i, <1>o, SaveRow DEF SaveHeld, SaveTraced
  <2> QED BY <1>6, <1>o, <2>1, BodyKept DEF SaveHeld, SecretAt, OpOn
<1>7. ASSUME NEW out \in Outcomes, DeleteRow(out)
      PROVE  SecretAt(k)' /\ typed' = typed /\ sent' = sent
  <2>1. rows'[k] = rows[k] \/ rows'[k] = None
    BY <1>7, <1>i, <1>o, DeletedRow DEF DeleteRow
  <2>2. op'.auth = op.auth
    BY <1>7, <1>o DEF DeleteRow, Goes, Calls
  <2> QED BY <1>7, <1>o, <2>1, <2>2 DEF DeleteRow, SecretAt
<1>8. CASE Forget
  <2>1. held'[k] = None
    BY <1>8, <1>i, <1>o DEF Forget, HeldOK, Table
  <2> QED BY <1>8, <2>1 DEF Forget, SecretAt, OpOn
<1> QED BY <1>1, <1>2, <1>3, <1>4, <1>5, <1>6, <1>7, <1>8 DEF Continues

LEMMA SecretAround ==
    ASSUME TypeOK, NEW k \in Compats, SecretAt(k), sent \subseteq typed,
           Around(k)
    PROVE  SecretAt(k)' /\ typed \subseteq typed' /\ sent' \subseteq typed'
<1> USE TypeParts
<1>i. k \in Ids /\ k \notin Vendors
  BY CredentialStoreAssumption DEF Ids
<1>h. held[k] # None => held[k] \in Auths(k)
  BY <1>i DEF HeldOK
<1>1. ASSUME NEW fails \in BOOLEAN, RecordAdded(k, fails)
      PROVE  SecretAt(k)' /\ typed \subseteq typed' /\ sent' \subseteq typed'
  BY <1>1 DEF RecordAdded, SecretAt, OpOn
<1>2. ASSUME NEW url \in Urls, DiscoverModels(k, url)
      PROVE  SecretAt(k)' /\ typed \subseteq typed' /\ sent' \subseteq typed'
  <2>1. held[k] # None /\ held[k].body \in Definitions
    BY <1>2, <1>h DEF DiscoverModels, Auths, Body
  <2>2. PICK key \in Kept(held[k].body.key, held[k].body.url, url, "keep"),
             headers \in Kept(held[k].body.headers, held[k].body.url, url,
                              "keep") :
           sent' = sent \cup Pairs([url |-> url, key |-> key,
                                    headers |-> headers])
    BY <1>2 DEF DiscoverModels
  <2>3. Pairs([url |-> url, key |-> key, headers |-> headers])
          \subseteq Pairs(held[k].body) \cup
                    Pairs([url |-> url, key |-> None, headers |-> None])
    BY <2>1, KeptPairs
  <2>4. Pairs([url |-> url, key |-> None, headers |-> None]) = {}
    BY DEF Pairs
  <2>5. Pairs(held[k].body) \subseteq typed
    BY <2>1 DEF SecretAt
  <2>6. sent' \subseteq typed
    BY <2>2, <2>3, <2>4, <2>5
  <2> QED BY <1>2, <2>6 DEF DiscoverModels, SecretAt, OpOn
<1>3. ASSUME held[k] # None,
             ManagerChange(k, [held[k] EXCEPT !.cooling = ~@])
      PROVE  SecretAt(k)' /\ typed \subseteq typed' /\ sent' \subseteq typed'
  <2> DEFINE auth == [held[k] EXCEPT !.cooling = ~@]
  <2>1. auth.body = held[k].body
    BY <1>3, <1>h, <1>i, BodyKept
  <2>2. ManagerChange(k, auth)
    BY <1>3
  <2> HIDE DEF auth
  <2>3. held'[k] = auth /\ late'[k] = Stored(auth)
    BY <1>i, <2>2 DEF ManagerChange, HeldOK, LateOK, Table
  <2> QED BY <1>3, <2>1, <2>2, <2>3, BodyKept
          DEF ManagerChange, SecretAt, OpOn
<1>4. ASSUME NEW out \in Outcomes, ManagerSave(k, out)
      PROVE  SecretAt(k)' /\ typed \subseteq typed' /\ sent' \subseteq typed'
  <2>1. rows'[k] = rows[k] \/ rows'[k] = late[k]
    BY <1>4, <1>i, SaveRow DEF ManagerSave
  <2>2. late'[k] = None
    BY <1>4, <1>i DEF ManagerSave, LateOK, Table
  <2> QED BY <1>4, <2>1, <2>2 DEF ManagerSave, SecretAt, OpOn
<1> QED BY <1>1, <1>2, <1>3, <1>4, <1>i DEF Around

\* A step on a vendor account enters and sends nothing.
LEMMA VendorsHaveNoPairs ==
    ASSUME NEW k \in Ids, k \notin Compats, StepOn(k)
    PROVE  typed' = typed /\ sent' = sent
<1>1. CASE Begins(k)
  BY <1>1 DEF Begins, AddAccount, SetAccountDisabled, SetAccountProxy,
              RemoveAccount, BeginChange, RetractAdded, SetAccountPriority
<1>2. CASE Continues(k)
  BY <1>2 DEF Continues, Register, RegisterFails, Withdraw, UpdateHeld,
              Apply, SaveHeld, DeleteRow, Forget
<1>3. CASE Around(k)
  BY <1>3 DEF Around, RecordAdded, ManagerChange, ManagerSave
<1> QED BY <1>1, <1>2, <1>3 DEF StepOn

LEMMA SecretStep ==
    ASSUME TypeOK, SecretInv, [Next]_vars
    PROVE  SecretInv'
<1>c. Compats \subseteq Ids
  BY DEF Ids
<1>1. CASE AccountSteps /\ UNCHANGED editVars
  <2>1. PICK k \in Ids : StepOn(k)
    BY <1>1, StepsAreOnOne
  <2>2. Elsewhere(k)
    BY <2>1, OthersStandStill
  <2>3. /\ typed \subseteq typed' /\ sent' \subseteq typed'
        /\ k \in Compats => SecretAt(k)'
    BY <2>1, VendorsHaveNoPairs, SecretBegins, SecretContinues, SecretAround
       DEF StepOn, SecretInv
  <2>4. ASSUME NEW j \in Compats, j # k
        PROVE  SecretAt(j)'
    BY <1>c, <2>2, <2>3, <2>4 DEF SecretInv, SecretAt, Elsewhere, OpOn
  <2> QED BY <2>3, <2>4 DEF SecretInv
<1>2. CASE Start
  <2>1. ASSUME NEW k \in Compats
        PROVE  SecretAt(k)'
    <3>1. /\ held'[k] = IF rows[k] = None THEN None ELSE Loaded(rows[k])
          /\ UNCHANGED <<rows, late, op, typed>>
      BY <1>2, <1>c DEF Start, List
    <3> QED BY <2>1, <3>1, BodyKept DEF SecretInv, SecretAt, OpOn
  <2> QED BY <1>2, <2>1 DEF Start, SecretInv
<1>3. CASE Crash
  BY <1>3, <1>c DEF Crash, SecretInv, SecretAt, OpOn
<1>4. CASE UNCHANGED <<rows, held, late, op, typed, sent>>
  BY <1>4 DEF SecretInv, SecretAt, OpOn
<1>5. CASE \/ Stop \/ PushProposed \/ Restore
           \/ \E doc \in Docs : BeginUpdate(doc)
           \/ \E out \in Outcomes : Persist(out)
           \/ UNCHANGED vars
  BY <1>4, <1>5 DEF Stop, PushProposed, Restore, BeginUpdate, Persist, vars
<1> QED BY <1>1, <1>2, <1>3, <1>5 DEF Next

\* A stored secret stays with the URL it was entered for (compatHeadersFor,
\* discoveryKey): through updates, restarts, the manager's own saves and
\* discovery, no account holds and no discovery sends a key or header to a
\* URL an administrator did not enter it with.
THEOREM SecretsStayHome == Spec => []SecretStaysWithItsUrl
<1>1. Init => TypeOK /\ SecretInv
  <2>1. ASSUME Init
        PROVE  SecretInv
    <3>1. Compats \subseteq Ids
      BY DEF Ids
    <3> QED BY <2>1, <3>1 DEF Init, SecretInv, SecretAt, OpOn
  <2> QED BY <2>1, InitTyped
<1>2. TypeOK /\ SecretInv /\ [Next]_vars => (TypeOK /\ SecretInv)'
  BY StepTyped, SecretStep
<1>3. TypeOK /\ SecretInv => SecretStaysWithItsUrl
  BY DEF SecretInv, SecretAt, SecretStaysWithItsUrl
<1> QED BY <1>1, <1>2, <1>3, PTL DEF Spec

-----------------------------------------------------------------------------
(* Removed accounts                                                        *)

OpAt(k, stages) == OpOn(k) /\ op.at \in stages

\* What a save leaves: with the digest the row's own content, a save reported
\* done has its content in the row, unless there was no row to update.
LEMMA SaveFacts ==
    ASSUME StoreTypeOK, NEW k \in Ids, NEW cred \in Credentials(k),
           NEW creating \in BOOLEAN, NEW out \in Outcomes,
           Save(k, cred, creating, out),
           digests[k] = None \/ digests[k] = rows[k]
    PROVE  /\ digests'[k] = None \/ digests'[k] = rows'[k]
           /\ rows[k] = None /\ ~creating => rows'[k] = None
           /\ rows'[k] = None => rows[k] = None
           /\ out = "ok" /\ (creating \/ rows[k] # None) => rows'[k] = cred
<1>1. cred # None
  BY CredentialStoreAssumption
<1>2. CASE Skipped(k, cred, creating)
  BY <1>1, <1>2 DEF Save, Skipped, storeVars
<1>3. CASE ~Skipped(k, cred, creating)
  <2>1. /\ rows' = IF out # "failed" /\ Reaches(k, creating)
                   THEN [rows EXCEPT ![k] = cred] ELSE rows
        /\ digests' =
              [digests EXCEPT ![k] = SavedDigest(k, cred, creating, out)]
    BY <1>3 DEF Save
  <2>2. digests'[k] = SavedDigest(k, cred, creating, out)
    BY <2>1 DEF StoreTypeOK, Table
  <2>3. rows'[k] = IF out # "failed" /\ Reaches(k, creating) THEN cred
                   ELSE rows[k]
    BY <2>1 DEF StoreTypeOK, Table
  <2> QED BY <1>1, <2>2, <2>3 DEF SavedDigest, Reaches
<1> QED BY <1>2, <1>3

\* A call's save that was reported failed leaves its account marked; one that
\* found no row leaves the mark as it was.
LEMMA SaveMarks ==
    ASSUME NEW k, NEW cred, NEW creating \in BOOLEAN, NEW out,
           SaveTraced(k, cred, creating, out)
    PROVE  /\ out # "ok" => k \in unsaved'
           /\ ~creating /\ rows[k] = None /\ k \in unsaved
                /\ (digests[k] = None \/ digests[k] = rows[k]) => k \in unsaved'
BY DEF SaveTraced, Traced, SaveFails, Skipped, Reaches

\* A row that is gone stays gone under any save that is not a creation.
LEMMA SaveNoRow ==
    ASSUME StoreTypeOK, NEW k \in Ids, NEW cred, NEW out,
           Save(k, cred, FALSE, out), rows[k] = None
    PROVE  rows'[k] = None
BY DEF StoreTypeOK, Save, Reaches, storeVars, Table

RemovedAt(k) ==
    /\ k \in removed => rows[k] = None /\ held[k] = None /\ ~OpOn(k)
    /\ OpAt(k, {"forget"}) => rows[k] = None
    /\ OpAt(k, {"withdraw"}) => held[k] = None

RemovedInv ==
    /\ phase = "down" => op = None
    /\ \A k \in Ids : RemovedAt(k)

LEMMA RemovedBegins ==
    ASSUME TypeOK, NEW k \in Ids, RemovedAt(k), Begins(k)
    PROVE  RemovedAt(k)'
<1> USE TypeParts
<1>1. ASSUME NEW auth, NEW out \in Outcomes, SaveNew(k, auth, out),
             op = None, held' = held
      PROVE  RemovedAt(k)'
  <2>1. out = "failed" => rows' = rows
    BY <1>1 DEF SaveNew, SaveTraced, Save, storeVars
  <2>2. op' = op \/ (op' = Call("add", k, "load", auth) /\ out = "ok")
    BY <1>1 DEF SaveNew
  <2>3. removed' = IF out = "failed" THEN removed ELSE removed \ {k}
    BY <1>1 DEF SaveNew
  <2>4. CASE out = "failed"
    BY <1>1, <2>1, <2>2, <2>3, <2>4 DEF RemovedAt, OpAt, OpOn
  <2>5. CASE out # "failed"
    BY <1>1, <2>2, <2>3, <2>5 DEF RemovedAt, OpAt, OpOn, Call
  <2> QED BY <2>4, <2>5
<1>2. ASSUME \E kind, auth : BeginChange(kind, k, auth)
      PROVE  RemovedAt(k)'
  BY <1>2 DEF BeginChange, RemovedAt, OpAt, OpOn, Call
<1>3. ASSUME NEW b \in BOOLEAN, NEW out \in Outcomes,
             SetAccountPriority(k, b, out)
      PROVE  RemovedAt(k)'
  <2>1. /\ held[k] # None /\ op = None /\ removed' = removed
        /\ op' = op \/ op' = Call("priority", k, "apply",
                                  [held[k] EXCEPT !.priority = b])
    BY <1>3 DEF SetAccountPriority, Takes
  <2> QED BY <2>1 DEF RemovedAt, OpAt, OpOn, Call
<1>4. ASSUME k \in Compats, NEW url \in Urls,
             NEW key \in Secrets \cup {None, "keep"},
             NEW headers \in Secrets \cup {None, "keep"},
             NEW out \in Outcomes,
             UpdateCompatProvider(k, url, key, headers, out)
      PROVE  RemovedAt(k)'
  <2>1. /\ held[k] # None /\ op = None /\ removed' = removed
    BY <1>4 DEF UpdateCompatProvider, Takes
  <2>2. PICK next : op' = op \/ op' = Call("compat", k, "update", next)
    BY <1>4, UpdateShape
  <2> QED BY <2>1, <2>2 DEF RemovedAt, OpAt, OpOn, Call
<1>5. CASE RetractAdded(k)
  BY <1>5 DEF RetractAdded, RemovedAt, OpAt, OpOn, Call
<1>6. CASE \E token \in Tokens, out \in Outcomes : AddAccount(k, token, out)
  BY <1>1, <1>6 DEF AddAccount, Takes
<1>7. CASE \E def \in Submitted, out \in Outcomes :
              AddCompatProvider(k, def, out)
  BY <1>1, <1>7 DEF AddCompatProvider, Takes
<1>8. CASE \/ \E b \in BOOLEAN : SetAccountDisabled(k, b)
           \/ \E b \in BOOLEAN : SetAccountProxy(k, b)
           \/ RemoveAccount(k)
  BY <1>2, <1>8 DEF SetAccountDisabled, SetAccountProxy, RemoveAccount
<1> QED BY <1>3, <1>4, <1>5, <1>6, <1>7, <1>8 DEF Begins

LEMMA RemovedContinues ==
    ASSUME TypeOK, NEW k \in Ids, RemovedAt(k), Continues(k)
    PROVE  RemovedAt(k)'
<1> USE TypeParts
<1>o. /\ op # None /\ op.id = k /\ op \in Calls(k) /\ OpOn(k)
      /\ k \notin removed
  BY DEF Continues, OpOK, OpOn, RemovedAt
<1>1. CASE Register
  <2>1. op'.at = "apply" /\ removed' = removed
    BY <1>1, <1>o DEF Register, Goes, Calls
  <2> QED BY <1>o, <2>1 DEF RemovedAt, OpAt
<1>2. CASE \E listed \in BOOLEAN : RegisterFails(listed)
  <2>1. /\ removed' = removed /\ held' = held
        /\ op'.at = IF held[k] = None THEN "withdraw" ELSE "update"
    BY <1>2, <1>o DEF RegisterFails, Calls
  <2> QED BY <1>o, <2>1 DEF RemovedAt, OpAt
<1>3. ASSUME NEW out \in Outcomes, Withdraw(out)
      PROVE  RemovedAt(k)'
  <2>1. /\ held[k] = None /\ held' = held /\ op' = None
        /\ removed' = IF out = "ok" THEN removed \cup {k} ELSE removed
    BY <1>3, <1>o DEF Withdraw, At, RemovedAt, OpAt
  <2>2. out = "ok" => rows'[k] = None
    BY <1>3, <1>o, DeletedRow DEF Withdraw
  <2> QED BY <1>o, <2>1, <2>2 DEF RemovedAt, OpAt, OpOn
<1>4. CASE \E out \in Outcomes : UpdateHeld(out)
  <2>1. op'.at \in {"save", "apply"} /\ removed' = removed
    BY <1>4, <1>o DEF UpdateHeld, Goes, Calls
  <2> QED BY <1>o, <2>1 DEF RemovedAt, OpAt
<1>5. CASE Apply
  <2>1. (op' = None \/ op'.at \in {"save", "delete"}) /\ removed' = removed
    BY <1>5, <1>o DEF Apply, Calls
  <2> QED BY <1>o, <2>1 DEF RemovedAt, OpAt, OpOn
<1>6. CASE \E out \in Outcomes : SaveHeld(out)
  BY <1>6, <1>o DEF SaveHeld, RemovedAt, OpAt, OpOn
<1>7. ASSUME NEW out \in Outcomes, DeleteRow(out)
      PROVE  RemovedAt(k)'
  <2>1. /\ op'.at = IF out = "ok" THEN "forget" ELSE "mark"
        /\ removed' = removed
    BY <1>7, <1>o DEF DeleteRow, Goes, Calls
  <2>2. out = "ok" => rows'[k] = None
    BY <1>7, <1>o, DeletedRow DEF DeleteRow
  <2> QED BY <1>o, <2>1, <2>2 DEF RemovedAt, OpAt
<1>8. CASE Forget
  <2>1. rows'[k] = None /\ op' = None
    BY <1>8, <1>o DEF Forget, At, RemovedAt, OpAt
  <2>2. held'[k] = None
    BY <1>8, <1>o DEF Forget, HeldOK, Table
  <2> QED BY <2>1, <2>2 DEF RemovedAt, OpAt, OpOn
<1> QED BY <1>1, <1>2, <1>3, <1>4, <1>5, <1>6, <1>7, <1>8 DEF Continues

LEMMA RemovedAround ==
    ASSUME TypeOK, NEW k \in Ids, RemovedAt(k), Around(k)
    PROVE  RemovedAt(k)'
<1> USE TypeParts
<1>1. CASE \E fails \in BOOLEAN : RecordAdded(k, fails)
  BY <1>1 DEF RecordAdded, RemovedAt, OpAt, OpOn
<1>2. CASE \E url \in Urls : DiscoverModels(k, url)
  BY <1>2 DEF DiscoverModels, RemovedAt, OpAt, OpOn
<1>3. CASE \E auth : ManagerChange(k, auth)
  BY <1>3 DEF ManagerChange, RemovedAt, OpAt, OpOn
<1>4. ASSUME NEW out \in Outcomes, ManagerSave(k, out)
      PROVE  RemovedAt(k)'
  <2>1. rows[k] = None => rows'[k] = None
    BY <1>4, SaveNoRow DEF ManagerSave
  <2> QED BY <1>4, <2>1 DEF ManagerSave, RemovedAt, OpAt, OpOn
<1> QED BY <1>1, <1>2, <1>3, <1>4 DEF Around

LEMMA RemovedStep ==
    ASSUME TypeOK, RemovedInv, [Next]_vars
    PROVE  RemovedInv'
<1>1. CASE AccountSteps /\ UNCHANGED editVars
  <2>1. PICK k \in Ids : StepOn(k)
    BY <1>1, StepsAreOnOne
  <2>2. Elsewhere(k)
    BY <2>1, OthersStandStill
  <2>3. RemovedAt(k)'
    BY <2>1, RemovedBegins, RemovedContinues, RemovedAround
       DEF StepOn, RemovedInv
  <2>4. ASSUME NEW j \in Ids, j # k
        PROVE  RemovedAt(j)'
    BY <2>2, <2>4 DEF RemovedInv, RemovedAt, Elsewhere, OpAt, OpOn
  <2>5. phase' = "down" => op' = None
    <3>1. CASE Begins(k)
      BY <3>1 DEF Begins, AddAccount, AddCompatProvider, SetAccountDisabled,
                  SetAccountProxy, RemoveAccount, BeginChange, RetractAdded,
                  SetAccountPriority, UpdateCompatProvider, Takes
    <3>2. CASE Continues(k)
      BY <2>2, <3>2 DEF Continues, Elsewhere, RemovedInv
    <3>3. CASE Around(k)
      BY <3>3 DEF Around, RecordAdded, DiscoverModels, ManagerChange,
                  ManagerSave, RemovedInv
    <3> QED BY <2>1, <3>1, <3>2, <3>3 DEF StepOn
  <2> QED BY <2>3, <2>4, <2>5 DEF RemovedInv
<1>2. CASE Start
  <2>1. ASSUME NEW k \in Ids
        PROVE  RemovedAt(k)'
    <3>1. /\ held'[k] = IF rows[k] = None THEN None ELSE Loaded(rows[k])
          /\ op = None /\ UNCHANGED <<rows, op, removed>>
      BY <1>2 DEF Start, List, RemovedInv
    <3> QED BY <2>1, <3>1 DEF RemovedInv, RemovedAt, OpAt, OpOn
  <2> QED BY <1>2, <2>1 DEF Start, RemovedInv
<1>3. CASE Crash
  BY <1>3 DEF Crash, RemovedInv, RemovedAt, OpAt, OpOn
<1>4. CASE UNCHANGED <<rows, held, op, removed>>
           /\ (phase' = phase \/ phase' # "down")
  BY <1>4 DEF RemovedInv, RemovedAt, OpAt, OpOn
<1>5. CASE \/ Stop \/ PushProposed \/ Restore
           \/ \E doc \in Docs : BeginUpdate(doc)
           \/ \E out \in Outcomes : Persist(out)
           \/ UNCHANGED vars
  BY <1>4, <1>5 DEF Stop, PushProposed, Restore, BeginUpdate, Persist, vars
<1> QED BY <1>1, <1>2, <1>3, <1>5 DEF Next

LEMMA InitRemoved ==
    ASSUME Init
    PROVE  RemovedInv
BY DEF Init, RemovedInv, RemovedAt, OpAt, OpOn

\* An account whose removal was reported done stays gone (RemoveAccount,
\* withdrawLocked): no save of the manager's that was still on its way, and no
\* restart, brings its row or the account back before it is added again.
THEOREM RemovedAreGone == Spec => []RemovedStaysRemoved
<1>1. Init => TypeOK /\ RemovedInv
  BY InitTyped, InitRemoved
<1>2. TypeOK /\ RemovedInv /\ [Next]_vars => (TypeOK /\ RemovedInv)'
  BY StepTyped, RemovedStep
<1>3. TypeOK /\ RemovedInv => RemovedStaysRemoved
  BY TypeParts DEF RemovedInv, RemovedAt, RemovedStaysRemoved, MarksOK
<1> QED BY <1>1, <1>2, <1>3, PTL DEF Spec

-----------------------------------------------------------------------------
(* Rows and accounts                                                       *)

\* The account held is the one its row would be loaded as, or the difference
\* is one the code reports or cannot see.
Agree(k) ==
    IF held[k] = None THEN rows[k] = None \/ k \in unsaved
    ELSE rows[k] = Stored(held[k]) \/ late[k] # None \/ k \in unsaved \cup raced

\* From where on a call's copy is the account held.
Holding(k) ==
    \/ OpAt(k, {"save", "delete", "mark", "forget"})
    \/ OpAt(k, {"apply"}) /\ op.kind \in {"disable", "remove"}

\* A digest is its row's content; a held account without a row is marked, or
\* about to be forgotten; outside the stages that change an account it agrees
\* with its row.
StoreAt(k) ==
    /\ digests[k] = None \/ digests[k] = rows[k]
    /\ rows[k] = None /\ held[k] # None =>
          k \in unsaved \/ OpAt(k, {"forget"})
    /\ (phase # "down"
          /\ (OpOn(k) => op.at \in {"apply", "save", "delete", "mark"}))
             => Agree(k)
    /\ OpAt(k, {"load"}) => op.kind = "add"
    /\ OpAt(k, {"update"}) => held[k] # None
    /\ Holding(k) => held[k] # None /\ (held[k] = op.auth \/ k \in raced)

StoreInv == \A k \in Ids : StoreAt(k)

LEMMA StoreBegins ==
    ASSUME TypeOK, NEW k \in Ids, StoreAt(k), Begins(k)
    PROVE  StoreAt(k)'
<1> USE TypeParts
<1>h. held[k] # None => held[k] \in Auths(k)
  BY DEF HeldOK
<1>d. digests[k] = None \/ digests[k] = rows[k]
  BY DEF StoreAt
<1>1. ASSUME NEW auth \in Auths(k), NEW out \in Outcomes,
             SaveNew(k, auth, out), op = None,
             UNCHANGED <<held, late, raced, phase>>
      PROVE  StoreAt(k)'
  <2>1. Stored(auth) \in Credentials(k)
    BY StoredTyped
  <2>2. SaveTraced(k, Stored(auth), TRUE, out)
    BY <1>1 DEF SaveNew
  <2>3. /\ digests'[k] = None \/ digests'[k] = rows'[k]
        /\ out = "ok" => rows'[k] # None
    BY <1>d, <2>1, <2>2, SaveFacts, StoredTyped DEF SaveTraced
  <2>4. out # "ok" => k \in unsaved'
    BY <2>2, SaveMarks
  <2>5. op' = IF out = "ok" THEN Call("add", k, "load", auth) ELSE op
    BY <1>1 DEF SaveNew
  <2>6. CASE out = "ok"
    <3>1. op' # None /\ op'.id = k /\ op'.at = "load" /\ op'.kind = "add"
      BY <2>5, <2>6, CallTyped
    <3> QED BY <2>3, <2>6, <3>1 DEF StoreAt, Holding, OpAt, OpOn
  <2>7. CASE out # "ok"
    BY <1>1, <2>3, <2>4, <2>5, <2>7
       DEF StoreAt, Agree, Holding, OpAt, OpOn
  <2> QED BY <2>6, <2>7
<1>2. ASSUME k \in Vendors, NEW token \in Tokens, NEW out \in Outcomes,
             AddAccount(k, token, out)
      PROVE  StoreAt(k)'
  <2> DEFINE auth == [body |-> token, disabled |-> FALSE, cooling |-> FALSE,
                      proxy |-> held[k] # None /\ held[k].proxy,
                      priority |-> held[k] # None /\ held[k].priority]
  <2>1. k \notin Compats
    BY <1>2, CredentialStoreAssumption
  <2>2. auth \in Auths(k)
    BY <1>h, <2>1 DEF Auths, Body
  <2> QED BY <1>1, <1>2, <2>2 DEF AddAccount, Takes
<1>3. ASSUME k \in Compats, NEW def \in Submitted, NEW out \in Outcomes,
             AddCompatProvider(k, def, out)
      PROVE  StoreAt(k)'
  <2> DEFINE auth == [body |-> def, disabled |-> FALSE, cooling |-> FALSE,
                      proxy |-> FALSE, priority |-> FALSE]
  <2>1. def \in Definitions
    BY AccountsAssumption
  <2>2. auth \in Auths(k)
    BY <1>3, <2>1 DEF Auths, Body
  <2> QED BY <1>1, <1>3, <2>2 DEF AddCompatProvider, Takes
<1>4. ASSUME NEW kind, NEW auth, held[k] # None, op = None,
             op' = Call(kind, k, "update", auth),
             UNCHANGED <<held, rows, digests, late, raced, unsaved, phase>>
      PROVE  StoreAt(k)'
  BY <1>4 DEF StoreAt, Agree, Holding, OpAt, OpOn, Call
<1>5. CASE \/ \E b \in BOOLEAN : SetAccountDisabled(k, b)
           \/ \E b \in BOOLEAN : SetAccountProxy(k, b)
           \/ RemoveAccount(k)
  <2>1. PICK kind, auth : BeginChange(kind, k, auth)
    BY <1>5 DEF SetAccountDisabled, SetAccountProxy, RemoveAccount
  <2> QED BY <1>4, <2>1 DEF BeginChange, Takes
<1>6. CASE RetractAdded(k)
  <2>1. CASE phase = "up" /\ held[k] # None
    BY <1>4, <1>6, <2>1 DEF RetractAdded
  <2>2. CASE ~(phase = "up" /\ held[k] # None)
    BY <1>6, <2>2 DEF RetractAdded, StoreAt, Agree, Holding, OpAt, OpOn
  <2> QED BY <2>1, <2>2
<1>7. ASSUME NEW b \in BOOLEAN, NEW out \in Outcomes,
             SetAccountPriority(k, b, out)
      PROVE  StoreAt(k)'
  <2> DEFINE next == [held[k] EXCEPT !.priority = b]
  <2>1. next \in Auths(k)
    BY <1>7, <1>h, ChangedTyped DEF SetAccountPriority
  <2>2. /\ SaveTraced(k, Stored(next), FALSE, out)
        /\ held' = IF out = "ok" THEN [held EXCEPT ![k] = next] ELSE held
        /\ op' = IF out = "ok" /\ k \in Compats
                 THEN Call("priority", k, "apply", next) ELSE op
        /\ op = None /\ held[k] # None /\ UNCHANGED <<late, raced, phase>>
    BY <1>7 DEF SetAccountPriority, Takes
  <2> HIDE DEF next
  <2>3. Stored(next) \in Credentials(k) /\ next # None
    BY <2>1, StoredTyped
  <2>4. held'[k] = IF out = "ok" THEN next ELSE held[k]
    BY <2>2 DEF HeldOK, Table
  <2>5. /\ digests'[k] = None \/ digests'[k] = rows'[k]
        /\ rows[k] = None => rows'[k] = None
        /\ rows'[k] = None => rows[k] = None
        /\ out = "ok" /\ rows[k] # None => rows'[k] = Stored(next)
    BY <1>d, <2>2, <2>3, SaveFacts DEF SaveTraced
  <2>6. /\ out # "ok" => k \in unsaved'
        /\ rows[k] = None /\ k \in unsaved => k \in unsaved'
    BY <1>d, <2>2, SaveMarks
  <2>7. rows[k] = None => k \in unsaved
    BY <2>2 DEF StoreAt, OpAt, OpOn
  <2>8. Agree(k)'
    BY <2>2, <2>3, <2>4, <2>5, <2>6, <2>7 DEF Agree
  <2>9. op' = None \/ (op'.at = "apply" /\ op'.kind = "priority")
    BY <2>2 DEF Call
  <2> QED BY <2>2, <2>3, <2>4, <2>5, <2>6, <2>7, <2>8, <2>9
          DEF StoreAt, Holding, OpAt, OpOn
<1>8. ASSUME k \in Compats, NEW url \in Urls,
             NEW key \in Secrets \cup {None, "keep"},
             NEW headers \in Secrets \cup {None, "keep"},
             NEW out \in Outcomes,
             UpdateCompatProvider(k, url, key, headers, out)
      PROVE  StoreAt(k)'
  <2>1. PICK next \in Auths(k) :
              /\ SaveTraced(k, Stored(next), FALSE, out)
              /\ op' = IF out = "ok" THEN Call("compat", k, "update", next)
                       ELSE op
    BY <1>8, UpdateShape
  <2>2. /\ held[k] # None /\ op = None
        /\ UNCHANGED <<held, late, raced, phase>>
    BY <1>8 DEF UpdateCompatProvider, Takes
  <2>3. Stored(next) \in Credentials(k)
    BY StoredTyped
  <2>4. /\ digests'[k] = None \/ digests'[k] = rows'[k]
        /\ rows'[k] = None => rows[k] = None
    BY <1>d, <2>1, <2>3, SaveFacts DEF SaveTraced
  <2>5. /\ out # "ok" => k \in unsaved'
        /\ rows[k] = None /\ k \in unsaved => k \in unsaved'
    BY <1>d, <2>1, SaveMarks
  <2>6. rows[k] = None => k \in unsaved
    BY <2>2 DEF StoreAt, OpAt, OpOn
  <2>7. CASE out = "ok"
    <3>1. op' # None /\ op'.id = k /\ op'.at = "update"
      BY <2>1, <2>7, CallTyped
    <3> QED BY <2>2, <2>4, <2>5, <2>6, <2>7, <3>1
            DEF StoreAt, Holding, OpAt, OpOn
  <2>8. CASE out # "ok"
    BY <2>1, <2>2, <2>4, <2>5, <2>8
       DEF StoreAt, Agree, Holding, OpAt, OpOn
  <2> QED BY <2>7, <2>8
<1> QED BY <1>2, <1>3, <1>5, <1>6, <1>7, <1>8 DEF Begins

LEMMA StoreContinues ==
    ASSUME TypeOK, NEW k \in Ids, StoreAt(k), RemovedAt(k), Continues(k)
    PROVE  StoreAt(k)'
<1> USE TypeParts
<1>h. held[k] # None => held[k] \in Auths(k)
  BY DEF HeldOK
<1>d. digests[k] = None \/ digests[k] = rows[k]
  BY DEF StoreAt
<1>o. /\ op # None /\ op.id = k /\ op \in Calls(k) /\ OpOn(k)
      /\ op.auth \in Auths(k) /\ op.auth # None
      /\ Stored(op.auth) \in Credentials(k)
  <2>1. op # None /\ op.id = k /\ op \in Calls(k) /\ OpOn(k)
    BY DEF Continues, OpOK, OpOn
  <2>2. op.auth \in Auths(k)
    BY <2>1 DEF Calls
  <2> QED BY <2>1, <2>2, StoredTyped
<1>1. CASE Register
  <2>1. rows[k] # None /\ rows' = rows /\ digests' = rows
    BY <1>1, <1>o DEF Register, List
  <2>2. held'[k] = Loaded(rows[k])
    BY <1>1, <1>o DEF Register, HeldOK, Table
  <2>3. held'[k] # None /\ rows[k] = Stored(held'[k])
    BY <2>1, <2>2, LoadedTyped DEF StoreTypeOK
  <2>4. op'.at = "apply" /\ op'.kind = op.kind /\ op'.id = k
    BY <1>1, <1>o DEF Register, Goes, Calls
  <2>5. op.kind = "add"
    BY <1>1, <1>o DEF Register, At, StoreAt, OpAt
  <2> QED BY <2>1, <2>3, <2>4, <2>5 DEF StoreAt, Agree, Holding, OpAt, OpOn
<1>2. ASSUME NEW listed \in BOOLEAN, RegisterFails(listed)
      PROVE  StoreAt(k)'
  <2>1. /\ UNCHANGED <<rows, held, unsaved>>
        /\ digests' = digests \/ digests' = rows
    BY <1>2 DEF RegisterFails, List, storeVars
  <2>2. op'.at = IF held[k] = None THEN "withdraw" ELSE "update"
    BY <1>2, <1>o DEF RegisterFails, Calls
  <2>3. op' # None /\ op'.id = k
    <3>1. CASE held[k] = None
      BY <1>2, <1>o, <3>1, StageTyped DEF RegisterFails
    <3>2. CASE held[k] # None
      <4> DEFINE auth == [held[k] EXCEPT !.disabled = TRUE]
      <4>1. auth \in Auths(k)
        BY <1>h, <3>2, ChangedTyped
      <4>2. op' = [op EXCEPT !.kind = "remove", !.at = "update",
                             !.auth = auth]
        BY <1>2, <1>o, <3>2 DEF RegisterFails
      <4> HIDE DEF auth
      <4>3. op' \in Calls(k) /\ op'.id = k
        BY <1>o, <4>1, <4>2 DEF Calls
      <4> QED BY <4>3, AccountsAssumption
    <3> QED BY <3>1, <3>2
  <2>4. ~OpAt(k, {"forget"})
    BY <1>2 DEF RegisterFails, At, OpAt
  <2> QED BY <2>1, <2>2, <2>3, <2>4 DEF StoreAt, Holding, OpAt, OpOn
<1>3. ASSUME NEW out \in Outcomes, Withdraw(out)
      PROVE  StoreAt(k)'
  <2>1. held[k] = None /\ held' = held /\ op' = None
    BY <1>3, <1>o DEF Withdraw, At, RemovedAt, OpAt
  <2>2. out = "ok" => rows'[k] = None
    BY <1>3, <1>o, DeletedRow DEF Withdraw
  <2>3. digests'[k] = None
    BY <1>3, <1>o DEF Withdraw, Delete, StoreTypeOK, Table
  <2>4. out # "ok" => k \in unsaved'
    BY <1>3, <1>o DEF Withdraw
  <2> QED BY <2>1, <2>2, <2>3, <2>4 DEF StoreAt, Agree, Holding, OpAt, OpOn
<1>4. ASSUME NEW out \in Outcomes, UpdateHeld(out)
      PROVE  StoreAt(k)'
  <2>1. /\ SaveTraced(k, Stored(op.auth), FALSE, out)
        /\ UNCHANGED <<phase, late, raced>>
    BY <1>4, <1>o DEF UpdateHeld
  <2>2. held'[k] = op.auth
    BY <1>4, <1>o DEF UpdateHeld, HeldOK, Table
  <2>3. op'.at \in {"save", "apply"} /\ op'.auth = op.auth
    BY <1>4, <1>o DEF UpdateHeld, Goes, Calls
  <2>4. /\ digests'[k] = None \/ digests'[k] = rows'[k]
        /\ rows'[k] = None => rows[k] = None
        /\ rows[k] = None => rows'[k] = None
        /\ out = "ok" /\ rows[k] # None => rows'[k] = Stored(op.auth)
    BY <1>d, <1>o, <2>1, SaveFacts DEF SaveTraced
  <2>5. /\ out # "ok" => k \in unsaved'
        /\ rows[k] = None /\ k \in unsaved => k \in unsaved'
    BY <1>d, <2>1, SaveMarks
  <2>6. rows[k] = None => k \in unsaved
    BY <1>4, <1>o DEF UpdateHeld, At, StoreAt, OpAt
  <2>7. Agree(k)'
    BY <1>o, <2>2, <2>4, <2>5, <2>6 DEF Agree
  <2> QED BY <1>o, <2>2, <2>3, <2>4, <2>5, <2>6, <2>7
          DEF StoreAt, Holding, OpAt, OpOn
<1>5. CASE Apply
  <2>1. /\ UNCHANGED <<rows, digests, held, late, unsaved, raced, phase>>
        /\ op.at = "apply"
    BY <1>5 DEF Apply, At
  <2>2. \/ op' = None
        \/ /\ op.kind \in {"disable", "remove"}
           /\ op'.at \in {"save", "delete"} /\ op'.auth = op.auth
    BY <1>5, <1>o DEF Apply, Calls
  <2>3. op.kind \in {"disable", "remove"} => Holding(k)
    BY <1>o, <2>1 DEF Holding, OpAt
  <2> QED BY <1>o, <2>1, <2>2, <2>3 DEF StoreAt, Agree, Holding, OpAt, OpOn
<1>6. ASSUME NEW out \in Outcomes, SaveHeld(out)
      PROVE  StoreAt(k)'
  <2>1. /\ SaveTraced(k, Stored(op.auth), FALSE, out)
        /\ UNCHANGED <<phase, held, late, raced>> /\ op' = None
        /\ op.at \in {"save", "mark"}
    BY <1>6, <1>o DEF SaveHeld
  <2>2. held[k] # None /\ (held[k] = op.auth \/ k \in raced)
    BY <1>o, <2>1 DEF StoreAt, Holding, OpAt
  <2>3. /\ digests'[k] = None \/ digests'[k] = rows'[k]
        /\ rows'[k] = None => rows[k] = None
        /\ rows[k] = None => rows'[k] = None
        /\ out = "ok" /\ rows[k] # None => rows'[k] = Stored(op.auth)
    BY <1>d, <1>o, <2>1, SaveFacts DEF SaveTraced
  <2>4. /\ out # "ok" => k \in unsaved'
        /\ rows[k] = None /\ k \in unsaved => k \in unsaved'
    BY <1>d, <2>1, SaveMarks
  <2>5. rows[k] = None => k \in unsaved
    BY <2>1, <2>2 DEF StoreAt, OpAt
  <2>6. Agree(k)'
    BY <2>1, <2>2, <2>3, <2>4, <2>5 DEF Agree
  <2> QED BY <2>1, <2>3, <2>4, <2>5, <2>6 DEF StoreAt, Holding, OpAt, OpOn
<1>7. ASSUME NEW out \in Outcomes, DeleteRow(out)
      PROVE  StoreAt(k)'
  <2>1. /\ op'.at = IF out = "ok" THEN "forget" ELSE "mark"
        /\ op'.auth = op.auth
    BY <1>7, <1>o DEF DeleteRow, Goes, Calls
  <2>2. op' # None /\ op'.id = k
    BY <1>7, <1>o, StageTyped DEF DeleteRow, Goes
  <2>3. UNCHANGED <<held, late, raced, phase>>
    BY <1>7 DEF DeleteRow
  <2>4. held[k] # None /\ (held[k] = op.auth \/ k \in raced)
    BY <1>7, <1>o DEF DeleteRow, At, StoreAt, Holding, OpAt
  <2>5. digests'[k] = None
    BY <1>7, <1>o DEF DeleteRow, Delete, StoreTypeOK, Table
  <2>6. out # "ok" => k \in unsaved'
    BY <1>7, <1>o DEF DeleteRow
  <2> QED BY <2>1, <2>2, <2>3, <2>4, <2>5, <2>6
          DEF StoreAt, Agree, Holding, OpAt, OpOn
<1>8. CASE Forget
  <2>1. rows[k] = None /\ UNCHANGED <<rows, digests>> /\ op' = None
    BY <1>8, <1>o DEF Forget, At, RemovedAt, OpAt
  <2>2. held'[k] = None
    BY <1>8, <1>o DEF Forget, HeldOK, Table
  <2> QED BY <1>d, <2>1, <2>2 DEF StoreAt, Agree, Holding, OpAt, OpOn
<1> QED BY <1>1, <1>2, <1>3, <1>4, <1>5, <1>6, <1>7, <1>8 DEF Continues

LEMMA StoreAround ==
    ASSUME TypeOK, NEW k \in Ids, StoreAt(k), Around(k)
    PROVE  StoreAt(k)'
<1> USE TypeParts
<1>1. CASE \E fails \in BOOLEAN : RecordAdded(k, fails)
  BY <1>1 DEF RecordAdded, StoreAt, Agree, Holding, OpAt, OpOn
<1>2. CASE \E url \in Urls : DiscoverModels(k, url)
  BY <1>2 DEF DiscoverModels, StoreAt, Agree, Holding, OpAt, OpOn
<1>3. ASSUME NEW auth \in Auths(k), ManagerChange(k, auth)
      PROVE  StoreAt(k)'
  <2>1. held'[k] = auth /\ late'[k] = Stored(auth)
    BY <1>3 DEF ManagerChange, HeldOK, LateOK, Table
  <2>2. auth # None /\ Stored(auth) # None
    BY StoredTyped
  <2>3. OpOn(k) => k \in raced'
    BY <1>3 DEF ManagerChange, OpOn
  <2> QED BY <1>3, <2>1, <2>2, <2>3
          DEF ManagerChange, StoreAt, Agree, Holding, OpAt, OpOn
<1>4. ASSUME NEW out \in Outcomes, ManagerSave(k, out)
      PROVE  StoreAt(k)'
  <2>1. late[k] \in Credentials(k) /\ late[k] # None
    BY <1>4 DEF ManagerSave, LateOK
  <2>2. /\ digests'[k] = None \/ digests'[k] = rows'[k]
        /\ rows'[k] = None => rows[k] = None
        /\ rows[k] = None => rows'[k] = None
        /\ out = "ok" /\ rows[k] # None => rows'[k] = late[k]
    BY <1>4, <2>1, SaveFacts DEF ManagerSave, StoreAt
  <2>3. /\ UNCHANGED <<held, op, phase>> /\ phase # "down"
        /\ k \in unsaved => k \in unsaved'
        /\ out # "ok" => k \in unsaved'
        /\ k \in raced => k \in raced'
        /\ held[k] # None /\ late[k] # Stored(held[k]) => k \in raced'
    BY <1>4 DEF ManagerSave
  <2>4. ASSUME held[k] = None, Agree(k)
        PROVE  Agree(k)'
    BY <2>2, <2>3, <2>4 DEF Agree
  <2>5. ASSUME held[k] # None, ~OpAt(k, {"forget"})
        PROVE  Agree(k)'
    <3>1. rows[k] = None => k \in unsaved
      BY <2>5 DEF StoreAt
    <3> QED BY <2>2, <2>3, <2>5, <3>1 DEF Agree
  <2> QED BY <2>2, <2>3, <2>4, <2>5
          DEF StoreAt, Holding, OpAt, OpOn
<1> QED BY <1>1, <1>2, <1>3, <1>4 DEF Around

LEMMA StoreStep ==
    ASSUME TypeOK, RemovedInv, StoreInv, [Next]_vars
    PROVE  StoreInv'
<1>1. CASE AccountSteps /\ UNCHANGED editVars
  <2>1. PICK k \in Ids : StepOn(k)
    BY <1>1, StepsAreOnOne
  <2>2. Elsewhere(k)
    BY <2>1, OthersStandStill
  <2>3. StoreAt(k)'
    BY <2>1, StoreBegins, StoreContinues, StoreAround
       DEF StepOn, RemovedInv, StoreInv
  <2>4. ASSUME NEW j \in Ids, j # k
        PROVE  StoreAt(j)'
    <3>1. /\ rows'[j] = rows[j] /\ held'[j] = held[j] /\ late'[j] = late[j]
          /\ digests'[j] \in {digests[j], rows[j]} /\ phase' = phase
          /\ j \in unsaved' <=> j \in unsaved
          /\ j \in raced' <=> j \in raced
          /\ op' = op \/ (~OpOn(j) /\ ~OpOn(j)')
      BY <2>2, <2>4 DEF Elsewhere, OpOn
    <3>2. Agree(j)' <=> Agree(j)
      BY <3>1 DEF Agree
    <3>3. StoreAt(j)
      BY DEF StoreInv
    <3>4. CASE op' = op
      BY <3>1, <3>2, <3>3, <3>4 DEF StoreAt, Holding, OpAt, OpOn
    <3>5. CASE ~OpOn(j) /\ ~OpOn(j)'
      BY <3>1, <3>2, <3>3, <3>5 DEF StoreAt, Holding, OpAt
    <3> QED BY <3>1, <3>4, <3>5
  <2> QED BY <2>3, <2>4 DEF StoreInv
<1>2. CASE Start
  <2>1. SUFFICES ASSUME NEW k \in Ids
                 PROVE  StoreAt(k)'
    BY DEF StoreInv
  <2>2. /\ held'[k] = IF rows[k] = None THEN None ELSE Loaded(rows[k])
        /\ op = None /\ op' = op /\ rows' = rows /\ digests' = rows
    BY <1>2 DEF Start, List, RemovedInv
  <2>3. rows[k] # None => held'[k] # None /\ Stored(held'[k]) = rows[k]
    BY <2>2, LoadedTyped DEF TypeOK, StoreTypeOK
  <2> QED BY <2>2, <2>3 DEF StoreAt, Agree, Holding, OpAt, OpOn
<1>3. CASE Crash
  BY <1>3 DEF Crash, StoreInv, StoreAt, Holding, OpAt, OpOn
<1>4. CASE /\ UNCHANGED <<rows, digests, held, late, op, unsaved, raced>>
           /\ phase' = phase \/ phase # "down"
  <2>1. SUFFICES ASSUME NEW k \in Ids
                 PROVE  StoreAt(k)'
    BY DEF StoreInv
  <2>2. Agree(k)' <=> Agree(k)
    BY <1>4 DEF Agree
  <2> QED BY <1>4, <2>2 DEF StoreInv, StoreAt, Holding, OpAt, OpOn
<1>5. CASE \/ Stop \/ PushProposed \/ Restore
           \/ \E doc \in Docs : BeginUpdate(doc)
           \/ \E out \in Outcomes : Persist(out)
           \/ UNCHANGED vars
  BY <1>4, <1>5 DEF Stop, PushProposed, Restore, BeginUpdate, Persist, vars
<1> QED BY <1>1, <1>2, <1>3, <1>5 DEF Next

\* The account the manager holds is the one a restart would load
\* (CredentialStore.Save and its digests): while no call is changing it, an
\* account differs from its row only if a write was reported failed or the
\* manager changed or saved the account across the call that changed it.
THEOREM AccountsAreStored == Spec => []HeldIsStored
<1>1. Init => TypeOK /\ RemovedInv /\ StoreInv
  <2>1. ASSUME Init
        PROVE  StoreInv
    BY <2>1 DEF Init, StoreInv, StoreAt, Holding, OpAt, OpOn
  <2> QED BY <2>1, InitTyped, InitRemoved
<1>2. TypeOK /\ RemovedInv /\ StoreInv /\ [Next]_vars
         => (TypeOK /\ RemovedInv /\ StoreInv)'
  BY StepTyped, RemovedStep, StoreStep
<1>3. StoreInv => HeldIsStored
  BY DEF StoreInv, StoreAt, Agree, HeldIsStored, OpOn
<1> QED BY <1>1, <1>2, <1>3, PTL DEF Spec

-----------------------------------------------------------------------------
(* Models and entries                                                      *)

\* withCompat's entry for one provider.
Entry(k, account) ==
    IF k \in Static THEN StaticEntry
    ELSE IF account = None THEN None
    ELSE CompatEntry(account)

RoutedAt(k) ==
    /\ k \in routed <=> held[k] # None /\ ~held[k].disabled
    /\ k \in Compats =>
          config.entries[k] = Entry(k, held[k]) \/ k \in dangling

\* Accounts are routed as held except while the call that changed one has
\* still to apply it; a call that removes an account disables it first, and
\* one that sets its proxy changes nothing the configuration is built from.
RouteAt(k) ==
    /\ phase # "down" => RoutedAt(k) \/ OpAt(k, {"apply"})
    /\ OpAt(k, {"delete", "forget"})
          \/ (OpAt(k, {"apply"}) /\ op.kind = "remove")
             => held[k] # None /\ held[k].disabled
    /\ OpAt(k, {"update"}) =>
          /\ held[k] # None
          /\ op.kind = "remove" => op.auth.disabled
          /\ op.kind = "proxy" =>
                /\ op.auth.disabled = held[k].disabled
                /\ k \in Compats => CompatEntry(op.auth) = CompatEntry(held[k])

RouteInv == \A k \in Ids : RouteAt(k)

LEMMA EntryOf ==
    ASSUME NEW accounts, NEW c \in Compats
    PROVE  WithCompat(accounts)[c] = Entry(c, accounts[c])
BY DEF WithCompat, Entry

\* The changes that do and do not reach the configuration.
LEMMA EntryKept ==
    ASSUME NEW k \in Ids, NEW a \in Auths(k), NEW b \in BOOLEAN
    PROVE  /\ [a EXCEPT !.disabled = b].disabled = b
           /\ [a EXCEPT !.proxy = b].disabled = a.disabled
           /\ [a EXCEPT !.priority = b].disabled = a.disabled
           /\ [a EXCEPT !.cooling = ~@].disabled = a.disabled
           /\ \A body : [a EXCEPT !.body = body].disabled = a.disabled
           /\ CompatEntry([a EXCEPT !.proxy = b]) = CompatEntry(a)
           /\ CompatEntry([a EXCEPT !.cooling = ~@]) = CompatEntry(a)
BY DEF Auths, CompatEntry

LEMMA RouteBegins ==
    ASSUME TypeOK, NEW k \in Ids, RouteAt(k), Begins(k)
    PROVE  RouteAt(k)' /\ UNCHANGED <<routed, config, dangling>>
<1> USE TypeParts
<1>h. held[k] # None => held[k] \in Auths(k)
  BY DEF HeldOK
<1>1. ASSUME op = None, UNCHANGED <<held, routed, config, dangling, phase>>,
             \/ op' = None
             \/ op'.at \notin {"apply", "delete", "forget", "update"}
      PROVE  RouteAt(k)'
  BY <1>1 DEF RouteAt, RoutedAt, OpAt, OpOn
<1>2. ASSUME NEW out \in Outcomes, NEW auth, SaveNew(k, auth, out), op = None
      PROVE  op' = None \/ op'.at = "load"
  BY <1>2 DEF SaveNew, Call
<1>3. CASE \E token \in Tokens, out \in Outcomes : AddAccount(k, token, out)
  BY <1>1, <1>2, <1>3 DEF AddAccount, Takes
<1>4. CASE \E def \in Submitted, out \in Outcomes :
              AddCompatProvider(k, def, out)
  BY <1>1, <1>2, <1>4 DEF AddCompatProvider, Takes
<1>5. ASSUME NEW kind \in {"disable", "proxy", "remove", "compat"}, NEW auth,
             op = None, held[k] # None,
             op' = Call(kind, k, "update", auth),
             kind = "remove" => auth.disabled,
             kind = "proxy" =>
                /\ auth.disabled = held[k].disabled
                /\ CompatEntry(auth) = CompatEntry(held[k]),
             UNCHANGED <<held, routed, config, dangling, phase>>
      PROVE  RouteAt(k)'
  <2>1. op'.at = "update" /\ op'.kind = kind /\ op'.auth = auth
    BY <1>5 DEF Call
  <2>2. phase # "down" => RoutedAt(k)'
    BY <1>5 DEF RouteAt, RoutedAt, OpAt, OpOn
  <2> QED BY <1>5, <2>1, <2>2 DEF RouteAt, OpAt
<1>6. ASSUME NEW b \in BOOLEAN, SetAccountDisabled(k, b)
      PROVE  RouteAt(k)' /\ UNCHANGED <<routed, config, dangling>>
  BY <1>5, <1>6 DEF SetAccountDisabled, BeginChange, Takes
<1>7. ASSUME NEW b \in BOOLEAN, SetAccountProxy(k, b)
      PROVE  RouteAt(k)' /\ UNCHANGED <<routed, config, dangling>>
  <2> DEFINE next == [held[k] EXCEPT !.proxy = b]
  <2>1. /\ op = None /\ held[k] # None
        /\ op' = Call("proxy", k, "update", next)
        /\ UNCHANGED <<held, routed, config, dangling, phase>>
    BY <1>7 DEF SetAccountProxy, BeginChange, Takes
  <2>2. /\ next.disabled = held[k].disabled
        /\ CompatEntry(next) = CompatEntry(held[k])
    BY <1>h, <2>1, EntryKept
  <2> HIDE DEF next
  <2> QED BY <1>5, <2>1, <2>2
<1>8. CASE RemoveAccount(k)
  BY <1>5, <1>8, <1>h, EntryKept DEF RemoveAccount, BeginChange, Takes
<1>9. CASE RetractAdded(k)
  <2>1. CASE phase = "up" /\ held[k] # None
    BY <1>5, <1>9, <1>h, <2>1, EntryKept DEF RetractAdded
  <2>2. CASE ~(phase = "up" /\ held[k] # None)
    BY <1>1, <1>9, <2>2 DEF RetractAdded
  <2> QED BY <1>9, <2>1, <2>2 DEF RetractAdded
<1>10. ASSUME NEW b \in BOOLEAN, NEW out \in Outcomes,
              SetAccountPriority(k, b, out)
       PROVE  RouteAt(k)' /\ UNCHANGED <<routed, config, dangling>>
  <2> DEFINE next == [held[k] EXCEPT !.priority = b]
  <2>1. /\ held' = IF out = "ok" THEN [held EXCEPT ![k] = next] ELSE held
        /\ op' = IF out = "ok" /\ k \in Compats
                 THEN Call("priority", k, "apply", next) ELSE op
        /\ op = None /\ held[k] # None
        /\ UNCHANGED <<routed, config, dangling, phase>>
    BY <1>10 DEF SetAccountPriority, Takes
  <2>2. next \in Auths(k) /\ next.disabled = held[k].disabled
    BY <1>h, <2>1, ChangedTyped, EntryKept
  <2> HIDE DEF next
  <2>3. CASE out # "ok"
    BY <1>1, <2>1, <2>3
  <2>4. CASE out = "ok" /\ k \in Compats
    <3>1. op' # None /\ op'.id = k /\ op'.at = "apply" /\ op'.kind = "priority"
      BY <2>1, <2>2, <2>4, CallTyped
    <3> QED BY <2>1, <3>1 DEF RouteAt, OpAt, OpOn
  <2>5. CASE out = "ok" /\ k \notin Compats
    <3>1. held'[k] = next /\ next # None /\ op' = None
      BY <2>1, <2>2, <2>5, StoredTyped DEF HeldOK, Table
    <3> QED BY <2>1, <2>2, <2>5, <3>1 DEF RouteAt, RoutedAt, OpAt, OpOn
  <2> QED BY <2>1, <2>3, <2>4, <2>5
<1>11. ASSUME k \in Compats, NEW url \in Urls,
              NEW key \in Secrets \cup {None, "keep"},
              NEW headers \in Secrets \cup {None, "keep"},
              NEW out \in Outcomes,
              UpdateCompatProvider(k, url, key, headers, out)
       PROVE  RouteAt(k)' /\ UNCHANGED <<routed, config, dangling>>
  <2>1. PICK next \in Auths(k) :
           op' = IF out = "ok" THEN Call("compat", k, "update", next) ELSE op
    BY <1>11, UpdateShape
  <2>2. /\ held[k] # None /\ op = None
        /\ UNCHANGED <<held, routed, config, dangling, phase>>
    BY <1>11 DEF UpdateCompatProvider, Takes
  <2> QED BY <1>1, <1>5, <2>1, <2>2
<1> QED BY <1>3, <1>4, <1>6, <1>7, <1>8, <1>9, <1>10, <1>11 DEF Begins

LEMMA RouteContinues ==
    ASSUME TypeOK, NEW k \in Ids, RouteAt(k), StoreAt(k), Continues(k),
           ~Apply
    PROVE  /\ RouteAt(k)'
           /\ routed' = routed /\ config' = config
           /\ \A j \in Ids \ {k} : j \in dangling' <=> j \in dangling
<1> USE TypeParts
<1>h. held[k] # None => held[k] \in Auths(k)
  BY DEF HeldOK
<1>o. /\ op # None /\ op.id = k /\ op \in Calls(k) /\ OpOn(k)
      /\ op.auth \in Auths(k) /\ op.auth # None
  <2>1. op # None /\ op.id = k /\ op \in Calls(k) /\ OpOn(k)
    BY DEF Continues, OpOK, OpOn
  <2>2. op.auth \in Auths(k)
    BY <2>1 DEF Calls
  <2> QED BY <2>1, <2>2, StoredTyped
<1>r. ASSUME op.at # "apply", phase # "down",
             UNCHANGED <<held, routed, config, dangling>>
      PROVE  RoutedAt(k)'
  BY <1>r DEF RouteAt, RoutedAt, OpAt
<1>1. CASE Register
  <2>1. op' # None /\ op'.id = k /\ op'.at = "apply" /\ op'.kind = op.kind
    BY <1>1, <1>o, StageTyped DEF Register, Goes
  <2>2. op.kind = "add"
    BY <1>1, <1>o DEF Register, At, StoreAt, OpAt
  <2> QED BY <1>1, <2>1, <2>2 DEF Register, RouteAt, OpAt, OpOn
<1>2. ASSUME NEW listed \in BOOLEAN, RegisterFails(listed)
      PROVE  RouteAt(k)' /\ UNCHANGED <<routed, config, dangling>>
  <2>1. /\ UNCHANGED <<held, routed, config, dangling, phase>>
        /\ op.at = "load"
    BY <1>2 DEF RegisterFails, At
  <2>2. CASE held[k] = None
    <3>1. op'.at = "withdraw"
      BY <1>2, <1>o, <2>2 DEF RegisterFails, Calls
    <3> QED BY <1>r, <2>1, <3>1 DEF RouteAt, OpAt
  <2>3. CASE held[k] # None
    <3> DEFINE auth == [held[k] EXCEPT !.disabled = TRUE]
    <3>1. op' = [op EXCEPT !.kind = "remove", !.at = "update", !.auth = auth]
      BY <1>2, <1>o, <2>3 DEF RegisterFails
    <3>2. auth.disabled
      BY <1>h, <2>3, EntryKept
    <3> HIDE DEF auth
    <3>3. op'.auth = auth /\ op'.kind = "remove" /\ op'.at = "update"
      BY <1>o, <3>1 DEF Calls
    <3> QED BY <1>r, <2>1, <2>3, <3>2, <3>3 DEF RouteAt, OpAt
  <2> QED BY <2>1, <2>2, <2>3
<1>3. ASSUME NEW out \in Outcomes, Withdraw(out)
      PROVE  RouteAt(k)' /\ UNCHANGED <<routed, config, dangling>>
  BY <1>3, <1>r DEF Withdraw, At, RouteAt, OpAt, OpOn
<1>4. ASSUME NEW out \in Outcomes, UpdateHeld(out)
      PROVE  RouteAt(k)' /\ UNCHANGED <<routed, config, dangling>>
  <2>1. /\ UNCHANGED <<routed, config, dangling, phase>>
        /\ op.at = "update" /\ OpAt(k, {"update"})
    BY <1>4, <1>o DEF UpdateHeld, At, OpAt
  <2>2. held'[k] = op.auth
    BY <1>4, <1>o DEF UpdateHeld, HeldOK, Table
  <2>3. /\ op' # None /\ op'.id = k /\ op'.kind = op.kind
        /\ op'.at = IF op.kind = "proxy" THEN "save" ELSE "apply"
    BY <1>4, <1>o, StageTyped DEF UpdateHeld, Goes
  <2>4. /\ held[k] # None
        /\ op.kind = "remove" => op.auth.disabled
        /\ op.kind = "proxy" =>
              /\ op.auth.disabled = held[k].disabled
              /\ k \in Compats => CompatEntry(op.auth) = CompatEntry(held[k])
        /\ phase # "down" => RoutedAt(k)
    BY <2>1 DEF RouteAt, OpAt
  <2>5. CASE op.kind = "proxy"
    <3>1. phase # "down" => RoutedAt(k)'
      BY <1>o, <2>1, <2>2, <2>4, <2>5 DEF RoutedAt, Entry
    <3> QED BY <2>1, <2>3, <2>5, <3>1 DEF RouteAt, OpAt
  <2>6. CASE op.kind # "proxy"
    BY <1>o, <2>1, <2>2, <2>3, <2>4, <2>6 DEF RouteAt, OpAt, OpOn
  <2> QED BY <2>1, <2>5, <2>6
<1>5. ASSUME NEW out \in Outcomes, SaveHeld(out)
      PROVE  RouteAt(k)' /\ UNCHANGED <<routed, config, dangling>>
  BY <1>5, <1>r DEF SaveHeld, RouteAt, OpAt, OpOn
<1>6. ASSUME NEW out \in Outcomes, DeleteRow(out)
      PROVE  RouteAt(k)' /\ UNCHANGED <<routed, config, dangling>>
  <2>1. /\ UNCHANGED <<held, routed, config, dangling, phase>>
        /\ op.at = "delete"
    BY <1>6 DEF DeleteRow, At
  <2>2. op'.at \in {"forget", "mark"}
    BY <1>6, <1>o DEF DeleteRow, Goes, Calls
  <2>3. held[k] # None /\ held[k].disabled
    BY <1>o, <2>1 DEF RouteAt, OpAt
  <2> QED BY <1>r, <2>1, <2>2, <2>3 DEF RouteAt, OpAt
<1>7. CASE Forget
  <2>1. /\ UNCHANGED <<routed, config, phase>> /\ op' = None
        /\ dangling' = dangling \cup {k} /\ op.at = "forget"
    BY <1>7, <1>o DEF Forget, At
  <2>2. held'[k] = None
    BY <1>7, <1>o DEF Forget, HeldOK, Table
  <2>3. held[k].disabled /\ (phase # "down" => k \notin routed)
    BY <1>o, <2>1 DEF RouteAt, RoutedAt, OpAt
  <2> QED BY <2>1, <2>2, <2>3 DEF RouteAt, RoutedAt, OpAt, OpOn
<1> QED BY <1>1, <1>2, <1>3, <1>4, <1>5, <1>6, <1>7 DEF Continues, Register

LEMMA RouteAround ==
    ASSUME TypeOK, NEW k \in Ids, RouteAt(k), Around(k)
    PROVE  RouteAt(k)' /\ UNCHANGED <<routed, config, dangling>>
<1> USE TypeParts
<1>1. CASE \E fails \in BOOLEAN : RecordAdded(k, fails)
  BY <1>1 DEF RecordAdded, RouteAt, RoutedAt, OpAt, OpOn
<1>2. CASE \E url \in Urls : DiscoverModels(k, url)
  BY <1>2 DEF DiscoverModels, RouteAt, RoutedAt, OpAt, OpOn
<1>3. ASSUME held[k] # None, NEW auth \in Auths(k), ManagerChange(k, auth),
             \/ k \in Vendors
                   /\ \E token \in Tokens :
                         auth = [held[k] EXCEPT !.body = token]
             \/ auth = [held[k] EXCEPT !.cooling = ~@]
      PROVE  RouteAt(k)' /\ UNCHANGED <<routed, config, dangling>>
  <2>1. held'[k] = auth /\ auth # None
    BY <1>3, StoredTyped DEF ManagerChange, HeldOK, Table
  <2>2. held[k] \in Auths(k)
    BY <1>3 DEF HeldOK
  <2>3. auth.disabled = held[k].disabled
    BY <1>3, <2>2 DEF Auths
  <2>4. UNCHANGED <<op, phase, routed, config, dangling>>
    BY <1>3 DEF ManagerChange
  <2>5. k \in Compats => CompatEntry(auth) = CompatEntry(held[k])
    <3>1. k \in Compats => k \notin Vendors
      BY CredentialStoreAssumption
    <3>2. k \in Compats => auth = [held[k] EXCEPT !.cooling = ~@]
      BY <1>3, <3>1
    <3>3. CompatEntry([held[k] EXCEPT !.cooling = ~@]) = CompatEntry(held[k])
      BY <2>2, EntryKept
    <3> QED BY <3>2, <3>3
  <2>5a. held[k] # None
    BY <1>3
  <2>5b. k \in Compats => Entry(k, held'[k]) = Entry(k, held[k])
    BY <2>1, <2>5, <2>5a DEF Entry
  <2>6. RoutedAt(k) => RoutedAt(k)'
    BY <2>1, <2>3, <2>4, <2>5a, <2>5b DEF RoutedAt
  <2> QED BY <1>3, <2>1, <2>3, <2>4, <2>5, <2>6 DEF RouteAt, OpAt, OpOn
<1>4. CASE \E out \in Outcomes : ManagerSave(k, out)
  BY <1>4 DEF ManagerSave, RouteAt, RoutedAt, OpAt, OpOn
<1> QED BY <1>1, <1>2, <1>3, <1>4 DEF Around

\* A configuration that was just applied routes every account as it is held.
LEMMA AppliedRoutes ==
    ASSUME NEW cfg \in Configs,
           config' = [cfg EXCEPT !.entries = WithCompat(held)],
           Applied, held' = held, NEW j \in Ids
    PROVE  RoutedAt(j)'
<1>1. config'.entries = WithCompat(held)
  BY DEF Configs
<1>2. j \in routed' <=> held[j] # None /\ ~held[j].disabled
  BY DEF Applied, Enabled
<1> QED BY <1>1, <1>2, EntryOf DEF RoutedAt

LEMMA RouteStep ==
    ASSUME TypeOK, RemovedInv, StoreInv, RouteInv, [Next]_vars
    PROVE  RouteInv'
<1> USE TypeParts
<1>1. CASE AccountSteps /\ UNCHANGED editVars
  <2>1. PICK k \in Ids : StepOn(k)
    BY <1>1, StepsAreOnOne
  <2>2. Elsewhere(k)
    BY <2>1, OthersStandStill
  <2>3. CASE ~(Continues(k) /\ Apply)
    <3>1. /\ RouteAt(k)' /\ routed' = routed /\ config' = config
          /\ \A j \in Ids \ {k} : j \in dangling' <=> j \in dangling
      BY <2>1, <2>3, RouteBegins, RouteContinues, RouteAround
         DEF StepOn, RouteInv, StoreInv
    <3>2. ASSUME NEW j \in Ids, j # k
          PROVE  RouteAt(j)'
      <4>1. /\ held'[j] = held[j] /\ phase' = phase
            /\ op' = op \/ (~OpOn(j) /\ ~OpOn(j)')
        BY <2>2, <3>2 DEF Elsewhere, OpOn
      <4>2. RoutedAt(j)' <=> RoutedAt(j)
        BY <3>1, <3>2, <4>1 DEF RoutedAt
      <4>3. RouteAt(j)
        BY DEF RouteInv
      <4>4. CASE op' = op
        BY <4>1, <4>2, <4>3, <4>4 DEF RouteAt, OpAt, OpOn
      <4>5. CASE ~OpOn(j) /\ ~OpOn(j)'
        BY <4>1, <4>2, <4>3, <4>5 DEF RouteAt, OpAt
      <4> QED BY <4>1, <4>4, <4>5
    <3> QED BY <3>1, <3>2 DEF RouteInv
  <2>4. CASE Continues(k) /\ Apply
    <3>1. op # None /\ op.id = k /\ op \in Calls(k) /\ op.at = "apply"
      BY <2>4 DEF Continues, Apply, At, OpOK
    <3>2. held' = held /\ \A j \in Ids : RoutedAt(j)'
      BY <2>4, AppliedRoutes DEF Apply, Reapply
    <3>3. \/ op' = None
          \/ op'.at \in {"save", "delete"} /\ op'.id = k
                /\ (op'.at = "delete" => op.kind = "remove")
      BY <2>4, <3>1 DEF Apply, Calls
    <3>4. op.kind = "remove" => held[k] # None /\ held[k].disabled
      BY <3>1 DEF RouteInv, RouteAt, OpAt, OpOn
    <3> QED BY <3>2, <3>3, <3>4 DEF RouteInv, RouteAt, OpAt, OpOn
  <2> QED BY <2>3, <2>4
<1>2. CASE Start
  <2> DEFINE loaded == [k \in Ids |-> IF rows[k] = None THEN None
                                      ELSE Loaded(rows[k])]
  <2>1. /\ held' = loaded /\ config' = BootConfig(loaded)
        /\ routed' = Enabled(loaded) /\ op = None /\ op' = op
    BY <1>2 DEF Start, RemovedInv
  <2> HIDE DEF loaded
  <2>2. config'.entries = WithCompat(loaded)
    BY <2>1 DEF BootConfig
  <2>3. ASSUME NEW k \in Ids
        PROVE  RoutedAt(k)'
    BY <2>1, <2>2, EntryOf DEF RoutedAt, Enabled
  <2> QED BY <2>1, <2>3 DEF RouteInv, RouteAt, OpAt, OpOn
<1>3. CASE Crash
  BY <1>3 DEF Crash, RouteInv, RouteAt, OpAt, OpOn
<1>4. CASE /\ UNCHANGED <<held, routed, config, dangling, op>>
           /\ phase' = phase \/ phase # "down"
  BY <1>4 DEF RouteInv, RouteAt, RoutedAt, OpAt, OpOn
<1>5. ASSUME NEW cfg \in Configs, PushConfig(cfg), op = None,
             UNCHANGED <<held, op>>
      PROVE  RouteInv'
  <2>1. \A k \in Ids : RoutedAt(k)'
    BY <1>5, AppliedRoutes DEF PushConfig
  <2> QED BY <1>5, <2>1 DEF RouteInv, RouteAt, OpAt, OpOn
<1>6. CASE PushProposed
  <2>1. edit.next \in Configs /\ op = None /\ UNCHANGED <<held, op, phase>>
    BY <1>6 DEF PushProposed, EditOK, Edits
  <2>2. CASE phase = "up" /\ Admitted(edit.next)
    BY <1>5, <1>6, <2>1, <2>2 DEF PushProposed
  <2>3. CASE ~(phase = "up" /\ Admitted(edit.next))
    BY <1>4, <1>6, <2>1, <2>3 DEF PushProposed
  <2> QED BY <2>2, <2>3
<1>7. CASE Restore
  <2>1. edit.running \in Configs /\ op = None /\ UNCHANGED <<held, op, phase>>
    BY <1>7 DEF Restore, EditOK, Edits
  <2>2. CASE phase = "up"
    BY <1>5, <1>7, <2>1, <2>2 DEF Restore
  <2>3. CASE phase # "up"
    BY <1>4, <1>7, <2>1, <2>3 DEF Restore
  <2> QED BY <2>2, <2>3
<1>8. CASE \/ Stop
           \/ \E doc \in Docs : BeginUpdate(doc)
           \/ \E out \in Outcomes : Persist(out)
           \/ UNCHANGED vars
  BY <1>4, <1>8 DEF Stop, BeginUpdate, Persist, vars
<1> QED BY <1>1, <1>2, <1>3, <1>6, <1>7, <1>8 DEF Next

\* While no call holds pushMu, exactly the enabled accounts have models
\* registered and the running configuration carries the boot entries and the
\* definition of every provider held (PushConfig, reapplyLocked), whichever
\* settings update was pushed over whichever account call.
THEOREM AccountsAreRouted == Spec => []RoutedAsHeld
<1> DEFINE Inv == TypeOK /\ RemovedInv /\ StoreInv /\ RouteInv
<1>1. Init => Inv
  <2>1. ASSUME Init
        PROVE  StoreInv /\ RouteInv
    BY <2>1 DEF Init, StoreInv, StoreAt, Holding, RouteInv, RouteAt, OpAt,
                OpOn
  <2> QED BY <2>1, InitTyped, InitRemoved
<1>2. Inv /\ [Next]_vars => Inv'
  BY StepTyped, RemovedStep, StoreStep, RouteStep
<1>3. Inv => RoutedAsHeld
  <2>1. SUFFICES ASSUME Inv, phase = "up", op = None
                 PROVE  /\ routed = Enabled(held)
                        /\ \A c \in Compats :
                              \/ config.entries[c] = WithCompat(held)[c]
                              \/ c \in dangling
    BY DEF RoutedAsHeld
  <2>2. \A k \in Ids : RoutedAt(k)
    BY <2>1 DEF RouteInv, RouteAt, OpAt, OpOn
  <2>3. routed \subseteq Ids
    BY <2>1, TypeParts DEF MarksOK
  <2> QED BY <2>2, <2>3, EntryOf DEF RoutedAt, Enabled, Ids
<1> QED BY <1>1, <1>2, <1>3, PTL DEF Spec
=============================================================================
