-------------------------- MODULE CredentialStore --------------------------
(***************************************************************************)
(* The vendor accounts' credentials: sealed rows in Postgres               *)
(* (internal/infra/postgres/vendorcreds) behind the store upstream's       *)
(* account manager saves through                                           *)
(* (internal/infra/gateway/credential_store.go).                           *)
(*                                                                         *)
(* Save, Delete and List each hold the store's `mu' from start to end and  *)
(* touch the database once, so each is one step.  A write's outcome is     *)
(* "ok", "failed" (nothing was written) or "lost" (it was committed and    *)
(* the connection broke before the answer).                                *)
(***************************************************************************)
EXTENDS Integers, FiniteSets

CONSTANTS
    Vendors,      \* keys of vendor sign-in accounts
    Compats,      \* keys of OpenAI-compatible providers' accounts
    Tokens,       \* what a vendor account signs in with
    Urls,         \* base URLs of OpenAI-compatible providers
    Secrets,      \* API keys and custom headers
    None

Ids == Vendors \cup Compats

VARIABLES
    rows,      \* vendor_credentials: what each row's sealed column holds
    digests    \* CredentialStore.digests: the content a row is known to hold

storeVars == <<rows, digests>>

Outcomes == {"ok", "failed", "lost"}

\* What the credential JSON of an account may hold: the vendor's tokens or
\* the provider's definition (compatMetadata), the administrator's routing
\* and the disabled flag.
Definitions == [url : Urls, key : Secrets \cup {None},
                headers : Secrets \cup {None}]
Body(k) == IF k \in Compats THEN Definitions ELSE Tokens
Credentials(k) == [body : Body(k), disabled : BOOLEAN,
                   proxy : BOOLEAN, priority : BOOLEAN]

\* An account as the manager holds it: the credential, and the cooldown
\* state, which is kept in memory only.
Auths(k) == [body : Body(k), disabled : BOOLEAN, proxy : BOOLEAN,
                priority : BOOLEAN, cooling : BOOLEAN]

ASSUME CredentialStoreAssumption ==
    /\ Vendors \cap Compats = {}
    /\ None \notin Tokens \cup Urls \cup Secrets
    /\ \A k \in Ids : None \notin Credentials(k) \cup Auths(k)

\* A table with an entry for every account.
Table(f) == f = [k \in Ids |-> f[k]]

\* What Save serialises of an account.
Stored(auth) ==
    [body |-> auth.body, disabled |-> auth.disabled,
     proxy |-> auth.proxy, priority |-> auth.priority]

\* The account a row is loaded as (authFromRow): no cooldown survives.
Loaded(row) ==
    [body |-> row.body, disabled |-> row.disabled, proxy |-> row.proxy,
     priority |-> row.priority, cooling |-> FALSE]

\* A runtime save of content equal to the row's is skipped.
Skipped(k, cred, creating) ==
    ~creating /\ digests[k] # None /\ digests[k] = cred

\* A mutated form: every save inserts.
ReachesAlways(k, creating) == TRUE

\* The row a write reaches: only a save with creation intent inserts one.
Reaches(k, creating) == creating \/ rows[k] # None

\* Save's answer to its caller.  A save that finds no row to update reports
\* no error.
SaveFails(k, cred, creating, out) ==
    ~Skipped(k, cred, creating) /\ out # "ok"

\* A mutated form: the digest outlives a write whose outcome is unknown.
SavedDigestKept(k, cred, creating, out) ==
    IF out = "ok" /\ Reaches(k, creating) THEN cred ELSE digests[k]

\* The digest is dropped before the write and set again only when the write
\* is known to have reached the row.
SavedDigest(k, cred, creating, out) ==
    IF out = "ok" /\ Reaches(k, creating) THEN cred ELSE None

Save(k, cred, creating, out) ==
    IF Skipped(k, cred, creating)
    THEN UNCHANGED storeVars
    ELSE /\ rows' = IF out # "failed" /\ Reaches(k, creating)
                    THEN [rows EXCEPT ![k] = cred] ELSE rows
         /\ digests' =
               [digests EXCEPT ![k] = SavedDigest(k, cred, creating, out)]

Delete(k, out) ==
    /\ digests' = [digests EXCEPT ![k] = None]
    /\ rows' = IF out # "failed" THEN [rows EXCEPT ![k] = None] ELSE rows

\* The digests become exactly what was read.
List ==
    /\ digests' = rows
    /\ UNCHANGED rows

StoreTypeOK ==
    /\ Table(rows) /\ Table(digests)
    /\ \A k \in Ids : rows[k] \in Credentials(k) \cup {None}
    /\ \A k \in Ids : digests[k] \in Credentials(k) \cup {None}
=============================================================================
