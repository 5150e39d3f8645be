------------------------------ MODULE Accounts ------------------------------
(***************************************************************************)
(* Vendor accounts as the gateway changes them                             *)
(* (internal/infra/gateway/service.go, compat.go, priority.go, proxy.go)   *)
(* and as the administrator's service calls it (internal/app/providers).   *)
(*                                                                         *)
(* An account is in four places: its row, the manager that holds it, the   *)
(* models registered for it, and, for an OpenAI-compatible provider, an    *)
(* entry of the running configuration.  `pushMu' serialises the calls that *)
(* change them; `op' is the call that holds it.  The manager refreshes     *)
(* tokens and cools accounts down on its own, outside pushMu, and saves    *)
(* what it changed; such a save may land late (`late').                    *)
(***************************************************************************)
EXTENDS CredentialStore

CONSTANTS
    Static,       \* providers the boot configuration names itself
    StaticEntry,  \* their entries
    Docs,         \* settings documents
    Submitted,    \* the definitions providers are added with
    MaxCalls,     \* bound: administrators' calls
    MaxChanges,   \* bound: changes the manager makes on its own
    MaxFaults     \* bound: steps that fail

\* What `op' may be: a call, the account it is about, its next stage, and
\* the copy of the account it works on.
Calls(k) ==
    [kind : {"add", "disable", "proxy", "compat", "priority", "remove"},
     id : {k},
     at : {"load", "withdraw", "update", "apply", "save", "delete", "mark",
           "forget"},
     auth : Auths(k)]

\* The running configuration: a document, and the providers' entries.
Entries == [url : Urls, priority : BOOLEAN] \cup {StaticEntry, None}
Configs == [doc : Docs, entries : [Compats -> Entries]]

ASSUME AccountsAssumption ==
    /\ Static \subseteq Compats
    /\ Submitted \subseteq Definitions
    /\ \A k \in Ids : None \notin Calls(k)
    /\ {MaxCalls, MaxChanges, MaxFaults} \subseteq Nat

VARIABLES
    phase,       \* the process: down, up, or stopped (Run has returned)
    held,        \* the accounts the core auth manager holds
    late,        \* a save of the manager's own that is still on its way
    routed,      \* the accounts whose models are registered
    config,      \* Gateway.current: the document and the compat entries
    op,          \* the call holding pushMu
    recording,   \* accounts added, their audit record not written yet
    retracting,  \* accounts whose audit record failed
    dangling,    \* accounts removed since a configuration was applied
    removed,     \* accounts whose removal was reported done
    unsaved,     \* accounts whose last write was reported failed
    raced,       \* accounts the manager changed in the middle of a call, or
                 \* saved after something newer
    typed,       \* <<secret, url>> an administrator entered together
    sent,        \* <<secret, url>> discovery sent
    calls, changes, faults

accountVars == <<held, late, routed, dangling, config, op, recording,
                 retracting, removed, unsaved, raced, typed, sent, calls,
                 changes, faults>>

AccountTypeOK ==
    /\ phase \in {"down", "up", "stopped"}
    /\ Table(held) /\ Table(late)
    /\ \A k \in Ids : held[k] \in Auths(k) \cup {None}
    /\ \A k \in Ids : late[k] \in Credentials(k) \cup {None}
    /\ routed \subseteq Ids
    /\ config \in Configs
    /\ op # None => op.id \in Ids /\ op \in Calls(op.id)
    /\ dangling \cup recording \cup retracting \cup removed \cup unsaved
          \cup raced \subseteq Ids
    /\ sent \subseteq Secrets \X Urls
    /\ typed \subseteq Secrets \X Urls

-----------------------------------------------------------------------------
(* The configuration that runs                                             *)

\* compatEntry: what upstream registers a provider's models from.  It
\* carries no secret.
CompatEntry(auth) == [url |-> auth.body.url, priority |-> auth.priority]

\* withCompat: the boot entries, then one per provider held.
WithCompat(accounts) ==
    [c \in Compats |-> IF c \in Static THEN StaticEntry
                       ELSE IF accounts[c] = None THEN None
                       ELSE CompatEntry(accounts[c])]

\* Applying a configuration registers the models of every account held and
\* enabled, and unregisters those of a disabled one.
Enabled(accounts) ==
    {k \in Ids : accounts[k] # None /\ ~accounts[k].disabled}

\* Upstream takes the configuration (apply).
Applied ==
    /\ routed' = Enabled(held)
    /\ dangling' = {}

\* A mutated form: the entries the caller built its configuration with.
PushConfigAsGiven(cfg) ==
    /\ config' = cfg
    /\ Applied

\* PushConfig replaces the entries the caller's configuration carries.
PushConfig(cfg) ==
    /\ config' = [cfg EXCEPT !.entries = WithCompat(held)]
    /\ Applied

\* reapplyLocked
Reapply ==
    /\ config' = [config EXCEPT !.entries = WithCompat(held)]
    /\ Applied

-----------------------------------------------------------------------------
(* What fails                                                              *)

\* Only the first MaxFaults steps that may fail do.
Fault(fails) ==
    /\ fails => faults < MaxFaults
    /\ faults' = IF fails THEN faults + 1 ELSE faults

\* What a call's save leaves behind for HeldIsStored to excuse.
Traced(k, cred, creating, out) ==
    unsaved' = IF SaveFails(k, cred, creating, out) THEN unsaved \cup {k}
               ELSE IF \/ Skipped(k, cred, creating)
                       \/ Reaches(k, creating)
               THEN unsaved \ {k} ELSE unsaved

SaveTraced(k, cred, creating, out) ==
    /\ Skipped(k, cred, creating) => out = "ok"
    /\ Fault(out # "ok")
    /\ Save(k, cred, creating, out)
    /\ Traced(k, cred, creating, out)

-----------------------------------------------------------------------------
(* A call takes pushMu                                                     *)

Call(kind, k, at, auth) ==
    [kind |-> kind, id |-> k, at |-> at, auth |-> auth]

Takes == phase = "up" /\ op = None /\ calls < MaxCalls /\ calls' = calls + 1

\* A pair of a secret and the URL it was entered for.
Pairs(def) == {<<s, def.url>> : s \in {def.key, def.headers} \ {None}}

\* addLocked up to its save.  A sign-in again replaces the tokens and keeps
\* the administrator's routing.
SaveNew(k, auth, out) ==
    /\ SaveTraced(k, Stored(auth), TRUE, out)
    /\ op' = IF out = "ok" THEN Call("add", k, "load", auth) ELSE op
    /\ removed' = IF out = "failed" THEN removed ELSE removed \ {k}

AddAccount(k, token, out) ==
    /\ Takes
    /\ SaveNew(k, [body |-> token, disabled |-> FALSE, cooling |-> FALSE,
                   proxy |-> held[k] # None /\ held[k].proxy,
                   priority |-> held[k] # None /\ held[k].priority], out)
    /\ UNCHANGED <<phase, held, late, routed, dangling, config, recording,
                   retracting, raced, typed, sent, changes>>

\* The name must be free: no account and no boot entry goes by it.
AddCompatProvider(k, def, out) ==
    /\ Takes
    /\ held[k] = None
    /\ k \notin Static
    /\ SaveNew(k, [body |-> def, disabled |-> FALSE, cooling |-> FALSE,
                   proxy |-> FALSE, priority |-> FALSE], out)
    /\ typed' = typed \cup Pairs(def)
    /\ UNCHANGED <<phase, held, late, routed, dangling, config, recording,
                   retracting, raced, sent, changes>>

\* accountLocked hands the call a copy of the account.
BeginChange(kind, k, auth) ==
    /\ Takes
    /\ held[k] # None
    /\ op' = Call(kind, k, "update", auth)
    /\ UNCHANGED <<phase, rows, digests, held, late, routed, dangling, config,
                   recording, retracting, removed, unsaved, raced, typed,
                   sent, changes, faults>>

SetAccountDisabled(k, disabled) ==
    BeginChange("disable", k, [held[k] EXCEPT !.disabled = disabled])

SetAccountProxy(k, proxy) ==
    BeginChange("proxy", k, [held[k] EXCEPT !.proxy = proxy])

RemoveAccount(k) ==
    BeginChange("remove", k, [held[k] EXCEPT !.disabled = TRUE])

\* Modify saves and applies under the manager's lock, the save first.
SetAccountPriority(k, priority, out) ==
    /\ Takes
    /\ held[k] # None
    /\ LET next == [held[k] EXCEPT !.priority = priority]
       IN /\ SaveTraced(k, Stored(next), FALSE, out)
          /\ held' = IF out = "ok" THEN [held EXCEPT ![k] = next] ELSE held
          /\ op' = IF out = "ok" /\ k \in Compats
                   THEN Call("priority", k, "apply", next) ELSE op
    /\ UNCHANGED <<phase, late, routed, dangling, config, recording,
                   retracting, removed, raced, typed, sent, changes>>

\* A mutated form: the stored secret follows the URL.
KeptAnywhere(stored, storedUrl, url, entered) ==
    IF entered = "keep" THEN {stored} ELSE {entered}

\* A secret the update does not carry is kept, and only at its own URL
\* (UpdateCompatProvider, compatHeadersFor).
Kept(stored, storedUrl, url, entered) ==
    IF entered # "keep" THEN {entered}
    ELSE IF stored # None /\ storedUrl # url THEN {}
    ELSE {stored}

\* UpdateCompatProvider saves first, then updates the manager's copy.
UpdateCompatProvider(k, url, key, headers, out) ==
    /\ Takes
    /\ held[k] # None
    /\ \E newKey \in Kept(held[k].body.key, held[k].body.url, url, key),
          newHeaders \in Kept(held[k].body.headers, held[k].body.url, url,
                              headers) :
          LET def == [url |-> url, key |-> newKey, headers |-> newHeaders]
              next == [held[k] EXCEPT !.body = def]
              entered == [url |-> url,
                          key |-> IF key = "keep" THEN None ELSE key,
                          headers |-> IF headers = "keep" THEN None
                                      ELSE headers]
          IN /\ SaveTraced(k, Stored(next), FALSE, out)
             /\ op' = IF out = "ok" THEN Call("compat", k, "update", next)
                      ELSE op
             /\ typed' = typed \cup Pairs(entered)
    /\ UNCHANGED <<phase, held, late, routed, dangling, config, recording,
                   retracting, removed, raced, sent, changes>>

-----------------------------------------------------------------------------
(* The steps of the call                                                   *)

At(at) == op # None /\ op.at = at
Goes(at) == op' = [op EXCEPT !.at = at]

\* loadLocked and Register: the account held is the one the store loads.
Register ==
    /\ At("load")
    /\ rows[op.id] # None
    /\ List
    /\ held' = [held EXCEPT ![op.id] = Loaded(rows[op.id])]
    /\ Goes("apply")
    /\ UNCHANGED <<phase, late, routed, dangling, config, recording,
                   retracting, removed, unsaved, raced, typed, sent, calls,
                   changes, faults>>

\* The store cannot be listed, or the manager refuses the account.
RegisterFails(listed) ==
    /\ At("load")
    /\ Fault(TRUE)
    /\ IF listed THEN List ELSE UNCHANGED storeVars
    /\ op' = IF held[op.id] = None THEN [op EXCEPT !.at = "withdraw"]
             ELSE [op EXCEPT !.kind = "remove", !.at = "update",
                             !.auth = [held[op.id] EXCEPT !.disabled = TRUE]]
    /\ UNCHANGED <<phase, held, late, routed, dangling, config, recording,
                   retracting, removed, unsaved, raced, typed, sent, calls,
                   changes>>

\* withdrawLocked, for an account the manager does not hold.
Withdraw(out) ==
    /\ At("withdraw")
    /\ Fault(out # "ok")
    /\ Delete(op.id, out)
    /\ op' = None
    /\ removed' = IF out = "ok" THEN removed \cup {op.id} ELSE removed
    /\ unsaved' = IF out = "ok" THEN unsaved \ {op.id}
                  ELSE unsaved \cup {op.id}
    /\ UNCHANGED <<phase, held, late, routed, dangling, config, recording,
                   retracting, raced, typed, sent, calls, changes>>

\* The manager takes the call's copy and saves it, ignoring errors.
UpdateHeld(out) ==
    /\ At("update")
    /\ held' = [held EXCEPT ![op.id] = op.auth]
    /\ SaveTraced(op.id, Stored(op.auth), FALSE, out)
    /\ Goes(IF op.kind = "proxy" THEN "save" ELSE "apply")
    /\ UNCHANGED <<phase, late, routed, dangling, config, recording,
                   retracting, removed, raced, typed, sent, calls, changes>>

\* reapplyLocked, and where each call goes from there.
Apply ==
    /\ At("apply")
    /\ Reapply
    /\ op' = CASE op.kind = "disable" -> [op EXCEPT !.at = "save"]
               [] op.kind = "remove" -> [op EXCEPT !.at = "delete"]
               [] OTHER -> None
    /\ recording' = IF op.kind = "add" THEN recording \cup {op.id}
                    ELSE recording
    /\ UNCHANGED <<phase, rows, digests, held, late, retracting, removed,
                   unsaved, raced, typed, sent, calls, changes, faults>>

\* saveLocked: the error the manager's own save discards.  A failed save
\* leaves the account as the call asked for it.
SaveHeld(out) ==
    /\ op # None /\ op.at \in {"save", "mark"}
    /\ SaveTraced(op.id, Stored(op.auth), FALSE, out)
    /\ op' = None
    /\ UNCHANGED <<phase, held, late, routed, dangling, config, recording,
                   retracting, removed, raced, typed, sent, calls, changes>>

\* removeLocked deletes the credential; when that fails it is saved marked
\* disabled instead.
DeleteRow(out) ==
    /\ At("delete")
    /\ Fault(out # "ok")
    /\ Delete(op.id, out)
    /\ Goes(IF out = "ok" THEN "forget" ELSE "mark")
    /\ unsaved' = IF out = "ok" THEN unsaved ELSE unsaved \cup {op.id}
    /\ UNCHANGED <<phase, held, late, routed, dangling, config, recording,
                   retracting, removed, raced, typed, sent, calls, changes>>

Forget ==
    /\ At("forget")
    /\ held' = [held EXCEPT ![op.id] = None]
    /\ dangling' = dangling \cup {op.id}
    /\ removed' = removed \cup {op.id}
    /\ unsaved' = unsaved \ {op.id}
    /\ op' = None
    /\ UNCHANGED <<phase, rows, digests, late, routed, config, recording,
                   retracting, raced, typed, sent, calls, changes, faults>>

-----------------------------------------------------------------------------
(* The administrator's service around the calls                            *)

\* An added account whose audit record fails is removed again.
RecordAdded(k, fails) ==
    /\ k \in recording
    /\ phase # "down"
    /\ Fault(fails)
    /\ recording' = recording \ {k}
    /\ retracting' = IF fails THEN retracting \cup {k} ELSE retracting
    /\ UNCHANGED <<phase, rows, digests, held, late, routed, dangling, config,
                   op, removed, unsaved, raced, typed, sent, calls, changes>>

\* withdraw: a removal like any other, or an account that is already gone.
RetractAdded(k) ==
    /\ k \in retracting
    /\ phase # "down"
    /\ op = None
    /\ retracting' = retracting \ {k}
    /\ op' = IF phase = "up" /\ held[k] # None
             THEN Call("remove", k, "update",
                       [held[k] EXCEPT !.disabled = TRUE])
             ELSE op
    /\ UNCHANGED <<phase, rows, digests, held, late, routed, dangling, config,
                   recording, removed, unsaved, raced, typed, sent, calls,
                   changes, faults>>

\* DiscoverModels with no secret entered: the stored ones go out only to
\* their own URL (discoveryKey, compatHeadersFor).
DiscoverModels(k, url) ==
    /\ phase # "down"
    /\ held[k] # None
    /\ \E key \in Kept(held[k].body.key, held[k].body.url, url, "keep"),
          headers \in Kept(held[k].body.headers, held[k].body.url, url,
                           "keep") :
          sent' = sent \cup Pairs([url |-> url, key |-> key,
                                   headers |-> headers])
    /\ UNCHANGED <<phase, rows, digests, held, late, routed, dangling, config,
                   op, recording, retracting, removed, unsaved, raced, typed,
                   calls, changes, faults>>

-----------------------------------------------------------------------------
(* The manager's own changes                                               *)

\* A token refresh or a cooldown transition; its save is on its way.
ManagerChange(k, auth) ==
    /\ phase = "up"
    /\ changes < MaxChanges
    /\ held[k] # None
    /\ late[k] = None
    /\ held' = [held EXCEPT ![k] = auth]
    /\ late' = [late EXCEPT ![k] = Stored(auth)]
    /\ changes' = changes + 1
    /\ raced' = IF op # None /\ op.id = k THEN raced \cup {k} ELSE raced
    /\ UNCHANGED <<phase, rows, digests, routed, dangling, config, op,
                   recording, retracting, removed, unsaved, typed, sent,
                   calls, faults>>

\* The save lands; its error is ignored.
ManagerSave(k, out) ==
    /\ phase # "down"
    /\ late[k] # None
    /\ Skipped(k, late[k], FALSE) => out = "ok"
    /\ Fault(out # "ok")
    /\ Save(k, late[k], FALSE, out)
    /\ unsaved' = IF out = "ok" THEN unsaved ELSE unsaved \cup {k}
    /\ late' = [late EXCEPT ![k] = None]
    /\ raced' = IF held[k] # None /\ late[k] # Stored(held[k])
                THEN raced \cup {k} ELSE raced
    /\ UNCHANGED <<phase, held, routed, dangling, config, op, recording,
                   retracting, removed, typed, sent, calls, changes>>

AccountSteps ==
    \/ \E k \in Vendors, token \in Tokens, out \in Outcomes :
          AddAccount(k, token, out)
    \/ \E k \in Compats, def \in Submitted, out \in Outcomes :
          AddCompatProvider(k, def, out)
    \/ \E k \in Ids, b \in BOOLEAN :
          SetAccountDisabled(k, b) \/ SetAccountProxy(k, b)
    \/ \E k \in Ids : RemoveAccount(k) \/ RetractAdded(k)
    \/ \E k \in Ids, b \in BOOLEAN, out \in Outcomes :
          SetAccountPriority(k, b, out)
    \/ \E k \in Compats, url \in Urls,
          key, headers \in Secrets \cup {None, "keep"}, out \in Outcomes :
          UpdateCompatProvider(k, url, key, headers, out)
    \/ Register \/ Apply \/ Forget
    \/ \E listed \in BOOLEAN : RegisterFails(listed)
    \/ \E out \in Outcomes : \/ Withdraw(out) \/ UpdateHeld(out)
                             \/ SaveHeld(out) \/ DeleteRow(out)
    \/ \E k \in Ids, fails \in BOOLEAN : RecordAdded(k, fails)
    \/ \E k \in Compats, url \in Urls : DiscoverModels(k, url)
    \/ \E k \in Vendors : held[k] # None /\ \E token \in Tokens :
          ManagerChange(k, [held[k] EXCEPT !.body = token])
    \/ \E k \in Ids : held[k] # None /\
          ManagerChange(k, [held[k] EXCEPT !.cooling = ~@])
    \/ \E k \in Ids, out \in Outcomes : ManagerSave(k, out)
=============================================================================
