------------------------------ MODULE Settings ------------------------------
(***************************************************************************)
(* The settings document an administrator edits                            *)
(* (internal/app/settings/settings.go, internal/infra/postgres/settings)   *)
(* and the gateway it is pushed into, with the accounts that change at the *)
(* same time, and the process that stops, dies and starts again            *)
(* (internal/infra/gateway/service.go).                                    *)
(*                                                                         *)
(* An update holds the service's own `mu' (`edit') and needs the gateway's *)
(* pushMu only for each push: account calls run between its steps, so the  *)
(* configuration it builds on may be old by the time it is pushed.         *)
(***************************************************************************)
EXTENDS Accounts

CONSTANTS
    Default,      \* the document before one is saved
    Invalid,      \* documents parseDocument refuses
    Refused,      \* documents it accepts and the gateway refuses
    Seeds,        \* the rows the first start finds
    MaxStarts     \* bound: starts of the process

\* What `edit' may be: an update's next stage, the configuration it proposes
\* and the one it found running.
Edits == [at : {"push", "persist", "restore"}, next : Configs,
          running : Configs]

ASSUME SettingsAssumption ==
    /\ Default \in Docs \ (Invalid \cup Refused)
    /\ None \notin Docs
    /\ None \notin Edits
    /\ \A seed \in Seeds :
          /\ Table(seed)
          /\ \A k \in Ids : seed[k] = None \/ seed[k] \in Credentials(k)
    /\ MaxStarts \in Nat

VARIABLES
    stored,    \* settings: the document's row
    edit,      \* the update holding mu
    adrift,    \* an update ended without the two agreeing, and said so
    starts

vars == <<rows, digests, phase, held, late, routed, dangling, config, op,
          recording, retracting, removed, unsaved, raced, typed, sent, calls,
          changes, faults, stored, edit, adrift, starts>>

editVars == <<stored, edit, adrift, starts>>

TypeOK ==
    /\ StoreTypeOK
    /\ AccountTypeOK
    /\ stored \in Docs \cup {None}
    /\ edit # None => edit \in Edits /\ edit.next.doc \notin Invalid
    /\ adrift \in BOOLEAN
    /\ starts \in 0 .. MaxStarts

\* storedDocument
StoredDocument == IF stored = None THEN Default ELSE stored

\* LoadBootConfig, with the entries bootCompat adds for the providers loaded.
BootConfig(loaded) == [doc |-> StoredDocument, entries |-> WithCompat(loaded)]

NoConfig == [doc |-> Default, entries |-> [c \in Compats |-> None]]

Init ==
    /\ rows \in Seeds
    /\ digests = [k \in Ids |-> None]
    /\ phase = "down"
    /\ held = [k \in Ids |-> None]
    /\ late = [k \in Ids |-> None]
    /\ routed = {}
    /\ dangling = {}
    /\ config = NoConfig
    /\ op = None
    /\ recording = {} /\ retracting = {} /\ removed = {}
    /\ unsaved = {} /\ raced = {}
    /\ typed = UNION {Pairs(rows[c].body) : c \in {x \in Compats :
                                                  rows[x] # None}}
    /\ sent = {}
    /\ calls = 0 /\ changes = 0 /\ faults = 0
    /\ stored = None
    /\ edit = None
    /\ adrift = FALSE
    /\ starts = 0

-----------------------------------------------------------------------------
(* The process                                                             *)

\* LoadBootConfig, List, New and Run: the stored document with the boot
\* entries and those of the stored providers (bootCompat).
Start ==
    /\ phase = "down"
    /\ starts < MaxStarts
    /\ starts' = starts + 1
    /\ phase' = "up"
    /\ List
    /\ LET loaded == [k \in Ids |-> IF rows[k] = None THEN None
                                    ELSE Loaded(rows[k])]
       IN /\ held' = loaded
          /\ config' = BootConfig(loaded)
          /\ routed' = Enabled(loaded)
    /\ UNCHANGED <<late, dangling, op, recording, retracting, removed,
                   unsaved, raced, typed, sent, calls, changes, faults,
                   stored, edit, adrift>>

\* Run has returned: pushes and calls are refused, what is under way goes on.
Stop ==
    /\ phase = "up"
    /\ phase' = "stopped"
    /\ UNCHANGED <<rows, digests, held, late, routed, dangling, config, op,
                   recording, retracting, removed, unsaved, raced, typed,
                   sent, calls, changes, faults, stored, edit, adrift,
                   starts>>

\* The process dies wherever it is; the rows remain.
Crash ==
    /\ phase # "down"
    /\ starts < MaxStarts
    /\ phase' = "down"
    /\ digests' = [k \in Ids |-> None]
    /\ held' = [k \in Ids |-> None]
    /\ late' = [k \in Ids |-> None]
    /\ routed' = {}
    /\ dangling' = {}
    /\ config' = NoConfig
    /\ op' = None
    /\ edit' = None
    /\ recording' = {} /\ retracting' = {}
    /\ unsaved' = {} /\ raced' = {}
    /\ adrift' = FALSE
    /\ UNCHANGED <<rows, removed, typed, sent, calls, changes, faults, stored,
                   starts>>

-----------------------------------------------------------------------------
(* Update                                                                  *)

\* documentRoot and parseDocument: one mapping without merge keys, owned keys
\* or keys upstream does not know, and a proxy URL that parses.
Parsed(doc) == doc \notin Invalid

\* checkOwnedUnset and overlayOwned: the fields the gateway owns, the compat
\* entries among them, come from the configuration that runs now.
Overlaid(doc) == [config EXCEPT !.doc = doc]

\* admit: what the gateway refuses of a configuration that parsed.
Admitted(cfg) == cfg.doc \notin Refused

\* Up to the push, holding mu.
BeginUpdate(doc) ==
    /\ phase # "down"
    /\ edit = None
    /\ calls < MaxCalls
    /\ Parsed(doc)
    /\ edit' = [at |-> "push", next |-> Overlaid(doc), running |-> config]
    /\ calls' = calls + 1
    /\ UNCHANGED <<rows, digests, phase, held, late, routed, dangling, config,
                   op, recording, retracting, removed, unsaved, raced, typed,
                   sent, changes, faults, stored, adrift, starts>>

\* A configuration the gateway refuses is never stored.
PushProposed ==
    /\ edit # None /\ edit.at = "push"
    /\ op = None
    /\ IF phase = "up" /\ Admitted(edit.next)
       THEN PushConfig(edit.next) /\ edit' = [edit EXCEPT !.at = "persist"]
       ELSE UNCHANGED <<config, routed, dangling>> /\ edit' = None
    /\ UNCHANGED <<rows, digests, phase, held, late, op, recording,
                   retracting, removed, unsaved, raced, typed, sent, calls,
                   changes, faults, stored, adrift, starts>>

\* A mutated form: a document that could not be stored goes on running.
PersistNoRestore(out) ==
    /\ edit # None /\ edit.at = "persist"
    /\ Fault(out # "ok")
    /\ stored' = IF out = "failed" THEN stored ELSE edit.next.doc
    /\ edit' = None
    /\ adrift' = (out = "lost")
    /\ UNCHANGED <<rows, digests, phase, held, late, routed, dangling, config,
                   op, recording, retracting, removed, unsaved, raced, typed,
                   sent, calls, changes, starts>>

\* SetUpstreamDocument.  A commit reported as failed is the residual the
\* code names: the next start applies the document.
Persist(out) ==
    /\ edit # None /\ edit.at = "persist"
    /\ Fault(out # "ok")
    /\ stored' = IF out = "failed" THEN stored ELSE edit.next.doc
    /\ edit' = IF out = "ok" THEN None ELSE [edit EXCEPT !.at = "restore"]
    /\ adrift' = (out = "lost" \/ (out = "failed" /\ adrift))
    /\ UNCHANGED <<rows, digests, phase, held, late, routed, dangling, config,
                   op, recording, retracting, removed, unsaved, raced, typed,
                   sent, calls, changes, starts>>

\* The previous configuration is pushed back, unless the gateway stopped.
Restore ==
    /\ edit # None /\ edit.at = "restore"
    /\ op = None
    /\ IF phase = "up"
       THEN PushConfig(edit.running) /\ UNCHANGED adrift
       ELSE UNCHANGED <<config, routed, dangling>> /\ adrift' = TRUE
    /\ edit' = None
    /\ UNCHANGED <<rows, digests, phase, held, late, op, recording,
                   retracting, removed, unsaved, raced, typed, sent, calls,
                   changes, faults, stored, starts>>

-----------------------------------------------------------------------------
Next ==
    \/ AccountSteps /\ UNCHANGED editVars
    \/ Start \/ Stop \/ Crash
    \/ \E doc \in Docs : BeginUpdate(doc)
    \/ PushProposed \/ Restore
    \/ \E out \in Outcomes : Persist(out)

Spec == Init /\ [][Next]_vars

-----------------------------------------------------------------------------
(* Properties                                                              *)

\* An account whose removal was reported done (RemoveAccount, or AddAccount's
\* own withdrawal) has no row and is not held, until it is added again:
\* neither a save the manager had on its way when the row was deleted nor a
\* restart brings it back.
RemovedStaysRemoved ==
    \A k \in removed : rows[k] = None /\ held[k] = None

\* The account held is the one a restart would load, and an account that is
\* not held has no row: while no call is changing it, an account differs from
\* its row only if a write was reported failed, or the manager changed or
\* saved the account across the call that changed it.  In particular no save
\* is skipped that the row needed (CredentialStore.digests).
HeldIsStored ==
    phase = "up" =>
        \A k \in Ids : (op = None \/ op.id # k) =>
            \/ rows[k] = IF held[k] = None THEN None ELSE Stored(held[k])
            \/ late[k] # None
            \/ k \in unsaved \cup raced

\* While no call holds pushMu, exactly the enabled accounts have models
\* registered, and the running configuration carries the boot entries and the
\* definition of every provider held, whichever settings update was pushed
\* over whichever account call.  The only other entry is that of a
\* provider removed since the last configuration was applied (withCompat).
RoutedAsHeld ==
    (phase = "up" /\ op = None) =>
        /\ routed = Enabled(held)
        /\ \A c \in Compats :
              config.entries[c] = WithCompat(held)[c] \/ c \in dangling

\* A stored settings document is the one that runs: while no update is under
\* way they differ only if an update reported that it could not store its
\* document or put the previous one back (settings.go Update).
StoredIsRunning ==
    (phase = "up" /\ edit = None /\ ~adrift) => config.doc = StoredDocument

\* A stored secret stays with the URL it was entered for: an account holds,
\* and discovery sends, a key or header only to a URL an administrator
\* entered it with (compatHeadersFor, DiscoverModels).
SecretStaysWithItsUrl ==
    /\ sent \subseteq typed
    /\ \A k \in Compats : held[k] # None => Pairs(held[k].body) \subseteq typed
=============================================================================
