# llm-proxy backend: TLA+ models, checks and proofs

llm-proxy embeds an LLM proxy library (CLIProxyAPI, "upstream" below) in one Go
process, in front of a PostgreSQL database. It adds accounts and sign-in, API
keys, access rules, spend limits, a usage ledger, an admin API and metrics. This
directory models the parts of it whose correctness depends on interleavings,
failures and boundaries, checks them with TLC on small instances, and proves
the safety results for every instance with TLAPS.

## 1. Inventory

| Component | State | Operations | What is hard | What makes it correct |
|---|---|---|---|---|
| Spend limits (`domain/limits`, `app/spendlimits`, `postgres/limitwindows`) | rule sets (defaults in the store and in memory, own sets in `users`), one window row per account and length | `Admit`, `SetDefaults`, `SetUser`, `Reset`, `Load` | `Admit` reads, decides and writes without a lock; the rules may change in between; a process restart loses the memory copy | no unmetered request, no window restarted early, a bounded overspend, exact answers at a window's end |
| Usage ledger (`postgres/usage`) | `usage_events`, `spent` of the windows | `AppendBatch` | charges arrive after the response, out of order with window changes | what the ledger grows by is what the windows grow by |
| Policy gate (`gateway/policy_gate.go`, `routes.go`, `access_provider.go`, `app/principal.go`) | none of its own | authenticate, receive the body, policy, admission, listing | values read before a slow body and used after it; upstream normalises names again | what is served was authenticated in time and is allowed where it is served |
| Body budget (`gateway/body_budget.go`, `encoding.go`) | a weighted semaphore, a map of shares | grow, shrink, release | timeouts racing grants; hold and wait | nothing leaks, limits hold, everybody is answered |
| Usage sink (`gateway/usage`) | queue, batch, `closed`, `dropped`, quota snapshots | `HandleUsage`, the worker, `Drain` | overflow, failed batches, a flush while records arrive | no silent loss, a flush that is one |
| Shutdown (`boot/boot.go`, `gateway/drain.go`, `gateway/service.go`) | requests in flight, the idle channel, five stages | `serve`, `Shutdown`, `enter`/`leave`/`wait` | every stage has a deadline and may be starting | it ends, in order, and reports what it cut |
| Sign-in and sessions (`app/auth`, `postgres/sessions`, `postgres/passwords`) | password row, `must_change_password`, sessions | `SignIn`, `ChangePassword`, `SignOut`, `ResetPassword` | single statements with a slow key derivation in between | replacing a password or blocking signs out; no unrecorded session |
| Sign-in throttle (`app/auth/throttle.go`, `postgres/loginattempts`) | one row per address | `Check`, `Charge`, `Reset` | parallel guesses, the clock read before the statement | bounded guesses, locks that end |
| User administration (`app/adminusers`, `postgres/users`) | account rows, invitations | create, update, invite, reset | administrators acting on each other | some administrator remains; nobody's stale read overwrites a column that is not theirs |
| Bootstrap and recovery (`app/bootstrap.go`, `app/recovery`) | the first administrator's row and password | bootstrap at each start, reset from the shell | a start that dies half-way; a shell beside the running process | the next start finishes the job |
| API tokens (`app/tokens`, `postgres/tokens`) | token rows, `last_used_at` | issue, revoke, resolve | a limit checked under concurrent issues | the limit holds; a revoked key is refused |
| OIDC (`app/auth/oidc.go`, `postgres/identities`) | identities, invitations | callback, redeem, sign up, link, group mapping | separate statements, a sign-in racing another or an administrator, dying half-way | a subject gets its own account; an invitation is redeemed once |
| Vendor accounts (`gateway/credential_store.go`, `app/providers`) | sealed rows, upstream's runtime | add, disable, remove, refresh | several writes per operation, upstream's own refreshes | store and runtime agree after every failure |
| Vendor sign-in wizard (`gateway/login`) | pending logins, a callback port | start, complete, expire, finish | expiry racing completion | an expired login adds nothing |
| Settings and compatible providers (`app/settings`, `app/providers/compat.go`) | settings rows, the running configuration | update, push, load | store, then push | what runs is what is stored |
| Prices (`app/prices`, `infra/pricecatalog`) | overrides, catalog, published table | replace, refresh, the periodic check | a fetch that ends after a change | overrides win; nothing older is published |
| Access policy, catalog, listing (`domain/access`, `gateway/catalog.go`, `listing.go`, `model_extract.go`) | upstream's model registry | `Covers`, `Routed`, `ProvidersFor`, filtering | the registry changes between check and use | part of the gate |
| Web API, metrics, configuration, migrations, sealing | little | translation, counters, start-up | - | not modelled, see section 8 |

How they interact. A proxied request passes the drain (Shutdown), then the gate:
authentication reads the key and its owner, the body is received under the body
budget, the policy and the spend limits admit it, and upstream routes and serves
it. Upstream's dispatcher hands its usage record to the sink, whose worker writes
the ledger and, in the same transaction, charges the windows. Administrators and
people change accounts, passwords, keys, rules, prices, settings and vendor
accounts through the web API at the same time; nothing but single SQL statements,
a few transactions and a handful of mutexes orders these. Settings and account
calls meet in one running configuration. The stop drains the requests, then the
sink, then closes the pool.

## 2. Plan

Modelled, in the order of importance: SpendLimits (with Limits), UsageSink,
BodyBudget, Shutdown, Sessions, Throttle; then Users and FederatedSignIn, Prices
(with the abstract PriceList), VendorLogin, CredentialStore, Accounts and Settings
(one system in three layers), Tokens and Gate (a second one in two).

| Composition | By |
|---|---|
| Limits in SpendLimits | EXTENDS |
| UsageCost in UsageSink | EXTENDS: the worker's rows are split and priced |
| Users in FederatedSignIn | EXTENDS: administrators, bootstrap, recovery and sign-ins share the tables |
| CredentialStore in Accounts in Settings | EXTENDS: rows, held accounts, running configuration |
| Tokens in Gate | EXTENDS: keys are issued and revoked under a request |
| PriceList by Prices | INSTANCE with a refinement mapping |

The theorems follow the same order; every safety property of section 4 is one.
Left for TLC is liveness (section 5).

## 3. Modules

Every module has one action per statement, transaction or critical section of
the code, so the steps interleave where the program's do. Names follow the code.
Definitions described as variants are deliberately wrong versions of the
definition that follows them; each makes the property it is paired with in
`PROJECT.json` fail. They belong to no specification. Variables called ghost or
history are read by properties only.

**Limits** (`domain/limits`). Pure: rule sets, windows, `Effective`, `Decide`
(as `Exhausted`, `Blocking`, `Due`, `Orphans`, `ResetsAt`) and `States`. A rule
set is a function from window lengths to amounts; an account's windows are a
function from lengths to rows or `NoRow`.

**SpendLimits** (`app/spendlimits`, `postgres/limitwindows`, `postgres/usage`,
the gate's part). `store` is the database, `memory` the defaults kept in the
process, `mu` the mutex of `SetDefaults`. A request goes through `Authenticate`
(the grant is read), `RefuseBody`, `TakeRules`, `RefuseUnpriced`, `ReadWindows`,
`Decide`, `OpenWindows` and, once served, `Charge` or `LoseCharge`. An
administrator's call is a sequence of actions likewise, any of which may fail;
the write of the defaults may also commit and be reported as failed
(`StoreDefaultsUnacknowledged`, which the history variable `adrift` remembers).
`Restart` loses all that is in memory and loads the defaults. Time is a counter;
money is a small number, and a cost the ledger's sum of one request.

**UsageSink** (`gateway/usage/sink.go`). `HandleUsage` and `Enqueue` are the two
halves of HandleUsage, so that Drain can come between. The worker is a program
counter with its batch; `ReceiveFlush` takes the count of a flush. Records are
numbered by delivery.

**UsageCost** (`partitionDetail`, `detailSemantics` and the choice in `eventOf`, and
`app/usage_cost.go`) is what a record costs, as operators: `PartitionDetail` splits
the raw counts of a protocol into kinds or gives up, `EventOf` prefers upstream's own
breakdown, `PriceUsage` prices the kinds. The reference they are compared with is
`Truthful`, what a vendor reports of kinds that are known; `PricedOnce` compares.
`Reports` and `Prices` give each record of UsageSink what it may carry and find. A
rate is a whole number per token.

**BodyBudget** (`gateway/body_budget.go`, `encoding.go`, `receiveBody`). `sem` is
`semaphore.Weighted` (first come, first served; modelled from its documented
behaviour), `held` the map of shares, `req` the requests with their bodyCharge.
Charging and giving back take two steps, as in the code. Sizes are in units.

**Shutdown** (`boot/boot.go` serve, `gateway/drain.go`, `Gateway.Shutdown`).
`main` is where serve is, `svc` upstream's service (external: it builds, listens,
hands over its reload callback, and closes everything when stopped), `idle` the
drain's channel. `handling` says which of the web and metrics listeners has a
handler at work: `srv.Shutdown` waits for it (`ListenerDown`), `srv.Close`, once
`listenerGrace` has run out, does not (`ListenerForced`).

**Sessions** (`app/auth`, `app/temporary_password.go`, `UpdateUser`). One
person's account, password and sessions. Sign-ins, password changes and
administrators are processes whose statements interleave and may fail. Sessions
carry marks, and `unended` remembers a failed sign-out. `crossed` holds the resets
under way whose flag a password change cleared before they stored their password;
`password.crossed` marks a temporary password such a reset stored, or one stored while
a change had its own password written and the flag still to clear.

**Throttle** (`app/auth/throttle.go`, `postgres/loginattempts`). `Charged` is the
SQL statement, `Failures` and `LockedUntil` its two CASE expressions, which read the
old row each for itself; `ReadClock` and `Charge` are apart, with `Skew` bounding the
time between them.

**Users** (`app/adminusers`, `app/bootstrap.go`, `app/recovery`, `postgres/users`).
The tables `users`, `user_passwords`, `pending_identities` and `user_identities`
as functions; `boot` is how far a start is through `Bootstrap`, `admin` the
administrators' operations, `recovery` the shell's. A start may die after each
statement and the next one resumes. An operation reads its actor and target when
it begins and writes later, so `UpdateAdminState` may land on a row, or from an
actor, that has changed; `stale` remembers an edit that outlived its actor's role.

**FederatedSignIn** (`app/auth/oidc.go`, `postgres/identities`) adds the callbacks:
link, else invitation, else sign-up; then the name and, under a group mapping, the
policy. Each statement is a step and a sign-in may end after any. A subject doubles
as the account id `signUpID` derives from it. What the provider asserts is external:
a subject and one of its addresses.

**PriceList** says what the price list promises (the table is the overrides over
the catalog, it changes in one step with one of them, and no catalog empties it);
**Prices** (`app/prices`, `postgres/prices`, `infra/pricecatalog`) is the service:
`mu`, a check that reads its validators under `mu`, fetches without it and applies
under it again, and two tables plus the catalog's state in the store. A write may be
refused, or committed and reported as failed (`lost`); a start may be given another
catalog URL or none. `Parse` gives sections their precedence. `KeepsPriceList` is
the refinement `INSTANCE PriceList WITH catalog <- catalogPrices, table <- sink`.

**VendorLogin** (`gateway/login`). `sessions`, `claimed`, `timer`, `result` and
`complete` are the service's; `registry`, `waiter` and `file` are upstream's
(external). The timer's function and the calls run at the same time and meet under
`mu`, one action per critical section. The claim's section is two, `LockLogin` (the
session is found and not yet late) and `Claim` (it is taken and its timer stopped):
in between the timer may fire, and then waits for `mu` and finds the session claimed.
`inTime` is the history of the claims made before the deadline, `added` counts the
accounts a session yielded.

**CredentialStore** (`gateway/credential_store.go`, `postgres/vendorcreds`). `rows`
and `digests`; `Save`, `Delete` and `List` each hold the store's mutex and touch the
database once. A write's outcome is ok, failed, or lost (committed, the answer not
received). A credential is what the JSON holds: tokens or a definition, the routing
an administrator set, the disabled flag.

**Accounts** (`gateway/service.go`, `compat.go`, `priority.go`, `proxy.go`,
`compat_headers.go`, `app/providers`). The account as the manager holds it, its
registration (`routed`), and the compat entries of the running configuration. `op`
is the call that holds `pushMu`; its steps are the writes and registrations between
which the process may die and the manager may act: `ManagerChange` is a token refresh
or a cooldown, `ManagerSave` its save, possibly late. `typed` and `sent` record which
secret was entered with, and sent to, which URL.

**Settings** (`app/settings`, `postgres/settings`, `admit`, `New`) adds the document
row, an update (`edit`, holding the service's own mutex), `Start`, `Stop` and
`Crash`. An update needs `pushMu` only for each push, so account calls run between
its steps. A document is a value: valid or not, admitted by the gateway or not.

**Tokens** (`app/tokens`, `postgres/tokens`). `Issue` locks its owner's row, counts,
inserts, records and returns; `Revoke` saves and records. A record that fails makes
`Issue` retract its key, which may fail in turn or be cut by a crash. `ownerLock` is the
row lock.

**Gate** (`gateway/policy_gate.go`, `routes.go`, `access_provider.go`,
`model_extract.go`, `catalog.go`, `listing.go`, `app/principal.go`, `domain/access`)
takes a request through classification, the credentials it shows, the two reads of
`Resolve`, the body, the decision, the spend step and upstream's routing, or through
a listing. A body is the sequence of its `model` keys, a glob the set of names it
matches; case folding, thinking suffixes and cloaked names are functions on names.
Upstream reads the request by itself, from the raw body and path: `UpstreamName`,
`UpstreamKeys` and `UpstreamChoices` (external) are how it arrives at a model and its
providers, and share with the gate's `RequestedModel` and `Routed` the
registry and the functions on names only. `could` is the history of what upstream could have
made of the request when the gate admitted it, `since` of what has been true since the
request came.

The `MC` modules declare the model values and symmetry sets; the `Proofs` modules
hold the theorems: SignInProofs those of Throttle and Sessions, GatewayProofs those
of BodyBudget, Shutdown and VendorLogin, the others those of the module they are
named after and of the ones it extends. So that the components of one proof module
can be extended together, Sessions, Shutdown and VendorLogin call their specification
`SessionsSpec`, `StopSpec` and `LoginSpec`, and its parts accordingly. Each theorem is
about one component; the proof module does not compose their steps.

## 4. Runs

| Run | Checks | Bounds, and why they are enough |
|---|---|---|
| `spend_gate` | metering, overspend, early restarts, answers at the end of a window, ledger against windows | two request slots, two rules of different lengths, 4 ticks: windows overlap, end at different times and are reopened by racing requests |
| `spend_admin` | memory against store, which steps may delete a live window | two administrators, one request, failures, a write that commits and is reported failed, and restarts |
| `usage_sink` | where every record ends, what a flush has processed, that Drain is answered, and what each row prices | queue 3, batches of 2, 5 records: the queue overflows and a flush needs more than one batch. Truthful reports of all three protocols with and without reasoning, cache reads, cache writes, totals and the legacy count; contradictory, negative and unclassified ones; no price, one with and one without a cache-write rate |
| `body_budget` | budget and shares hold exactly what the requests hold, within the limits; hold and wait ends | two requests, two owners, a budget of 4 filled in steps of 1, 1 and 2: both can wait, a large step ahead of a small one, and a timeout comes at the moment of a grant |
| `shutdown` | the idle channel, reports of cut requests, order of the stages, and that the stop ends | two requests, both listeners with handlers of their own; handlers that never return and outlast `listenerGrace`, a service that never starts, a `Run` that ends by itself with or without an error |
| `sessions` | signing out by password change, reset and block; recorded sessions; restricted temporary passwords | one sign-in at a time, one change, two administrators, three passwords, two sessions |
| `throttle` | guesses per window, locks earned by as many guesses, lock not renewed | four parallel attempts against a limit of three, over nearly two lock windows |
| `users` | an administrator remains, a start that comes up has finished the bootstrap, subjects and their accounts, redemption, column ownership | two administrators' operations and two sign-ins at a time, 3 operations in all, two starts under different settings (the bootstrap address, none, or one changed to an address administrators give accounts), two subjects of whom one may show the other's address: enough for two edits that cross, a start that dies, and a sign-up against an invitation |
| `prices` | `Prices` implements `PriceList`; memory and validators against the store | two catalogs using equal tags, three documents each (one all zero, one empty, one with unchanged rates), two replaces, three checks, two starts |
| `login` | one owner, an account only from a session claimed in time, no record lost, every login ends | two sessions, one slot, two calls: a second start is refused or follows, two calls fight for one session, and expiry crosses each step, the claim under `mu` included |
| `accounts` | rows, held accounts, routing and the running document against each other; secrets and URLs | a vendor account, an added and a boot provider; two calls, one change by the manager, one fault, two starts: a fault at any step of a call with a second call, a late save or a restart after it |
| `gate` | the key limit, recorded keys, authentication, policy | one request, two calls on two keys with a limit of one; one failure or change by others, besides the failed record of an issue, so that a retraction fails or dies too; two registries, five bodies, two policies: names in both cases, with and without suffix, `auto`, a cloaked one and a repeated key, on each route, meet a decision and a registration change |

`CHECK_DEADLOCK FALSE` is set where a run stops by design: its bounded input,
operations, checks or starts are used up (`usage_sink`, `users`, `prices`, `login`,
`accounts`), or the process has exited (`shutdown`). Symmetry is over
interchangeable requests, administrators, attempts, callbacks, calls, keys and
owners, and only where no liveness property is checked.

Each module's type invariant is defined beside its Init. It was checked with TLC
while the module was written; where the module has theorems it is one of them or a
part of the invariant behind them. The runs spend their time on the properties above.

### What the properties except

A property about a system with these interleavings is true only up to them. Each
exception is a variable set by exactly one kind of event, so what remains is a
claim about everything else:

- `stale` (Users): an edit by somebody no longer an administrator has landed.
- `raced` (FederatedSignIn): two redemptions of one invitation, or a redemption and
  a renewal, at the same time.
- `lost` (Prices), `unsaved` (Accounts), `adrift` (Settings), `severed` (Tokens): a
  write whose failure was reported; its effect may or may not be there. `adrift`
  (SpendLimits) is set only where the write did commit, and ends with the next call
  that swaps the defaults or with a restart.
- `raced` (Accounts): the manager changed or saved an account during the call that
  changed it.
- `dangling` (Accounts): a provider removed since a configuration was applied.
- `unended` (Sessions): failed sign-outs. `password.crossed` (Sessions): the one
  temporary password a change crossed; every other one must be restricted.
- `listener[l] = "forced"`, `runErr = "quit"` (Shutdown): `listenerGrace` ran out on a
  handler; `Run` ended by itself and reported no error.
- `StaysInPolicy` excepts a request that upstream routes as it could not have when the
  gate admitted it (the pair is not in `could`): the registry changed in between.

### Fairness

- `usage_sink`: the worker goroutine goes on when it can (weak fairness); its
  writes have a timeout, so each ends. Nothing is assumed of upstream or of the
  context of Drain.
- `body_budget`: a request inside the gate goes on; the wait is bounded by
  `bodyWait`, the arrival of the body by `bodyReadTimeout`. Nothing is assumed of
  handlers: a served request may keep its charge for ever.
- `shutdown`: the steps of the stop, its deadlines, a cancelled catalog
  check and a stopped `Run`. Nothing is assumed of handlers or of the service's
  start. That a cancelled `Run` returns is an assumption on upstream, which serve
  makes as well: it waits for it without a deadline.
- `login`: time passes, timers fire, upstream's start handler answers, its waiter
  polls and its exchange ends, and a CompleteLogin that runs goes on (its wait is
  bounded by `loginFinishWait`). Nothing makes an administrator start or complete a
  login.

## 5. Proofs

| Theorem | Result |
|---|---|
| `SpendLimitsProofs!TypeCorrect` | type correctness |
| `SpendLimitsProofs!DefaultsInStep` | `MemoryMatchesStore`: memory and store differ only inside the one call holding `mu`, or after a commit reported as failed |
| `SpendLimitsProofs!LiveWindowsKept` | `LiveWindowKept`: no step restarts a live window or lowers its spend |
| `SpendLimitsProofs!ChargesAreTheLedgers` | `ChargeFollowsLedger` |
| `GatewayProofs!DrainIsExact` | `IdleIsExact` |
| `GatewayProofs!CutsAreReported` | `CutIsReported` |
| `GatewayProofs!PoolClosesLast` | `NothingOutlivesThePool`: what may still run when the sink drains and the pool closes |
| `SpendLimitsProofs!DropsAreStale` | `OnlyStaleDrops`: which steps may delete a live window |
| `SpendLimitsProofs!AnswersAreExact` | `AnswersExact`: the reset a refusal names, and the cabinet's view, are exact |
| `SpendLimitsProofs!ForwardedIsMetered` | `AdmittedIsMetered`, while no administrator's call takes a step |
| `SpendLimitsProofs!OverspendIsBounded` | `OverspendBounded`, under the same condition |
| `SignInProofs!LocksAreEarned` | `LockEarned`: no lock without as many guesses close to each other, for any limit, lock and number of attempts |
| `SignInProofs!LockKeepsItsEnd` | `LockNotRenewed` |
| `SignInProofs!GuessesAreBounded` | `GuessesBounded`: parallel guesses per window, for any limit, lock and number of attempts |
| `SignInProofs!RevocationsSignOut` | `RevocationSignsOut` |
| `SignInProofs!SessionsRecorded` | `EverySessionRecorded` |
| `SignInProofs!TemporaryIsRestricted` | `RestrictedUnlessCrossed` |
| `GatewayProofs!BudgetTyped` | type correctness of BodyBudget |
| `GatewayProofs!ChargesAlwaysExact` | `ChargesExact`: budget and shares, for any number of requests, owners and any sizes |
| `GatewayProofs!LoginsSettledOnce` | `SettledOnce` |
| `UsageSinkProofs!TruthReconstructed` | `partitionDetail` recovers the kinds of every truthful report of a known protocol |
| `UsageSinkProofs!ReportsPricedOnce` | `PricedOnce` for every report, at every price |
| `UsageSinkProofs!RowsPricedOnce` | `TokensPricedOnce`: hence every row of every batch |
| `UsageSinkProofs!RecordsAreAccounted` | `RecordsAccounted`: no record is lost silently or counted twice, and a Drain that answered has processed what came before it |
| `PricesProofs!TableKept` | type correctness; the published table is the overrides over the catalog |
| `PricesProofs!ImplementsPriceList` | `KeepsPriceList`: Prices implements PriceList |
| `PricesProofs!PricesInForce` | `PricesMatchStore` |
| `GateProofs!GateTyped` | type correctness of Tokens and Gate |
| `GateProofs!KeyLimit` | `TokenLimitKept` |
| `GateProofs!KeysRecorded` | `IssuedIsRecorded` |
| `GateProofs!RequestsInTime` | `AuthenticatedInTime` |
| `GateProofs!RequestsInPolicy` | `StaysInPolicy` |
| `SettingsProofs!SettingsTyped` | type correctness of CredentialStore, Accounts and Settings |
| `SettingsProofs!StoredDocumentRuns` | `StoredIsRunning` |
| `SettingsProofs!SecretsStayHome` | `SecretStaysWithItsUrl` |
| `SettingsProofs!RemovedAreGone` | `RemovedStaysRemoved` |
| `SettingsProofs!AccountsAreStored` | `HeldIsStored` |
| `SettingsProofs!AccountsAreRouted` | `RoutedAsHeld` |
| `FederatedSignInProofs!AccountsTyped` | type correctness of Users and FederatedSignIn |
| `FederatedSignInProofs!AdministratorsRemain` | `AdminRemainsUnlessStale` |
| `FederatedSignInProofs!BootstrapFinishes` | `BootstrapFinished` |
| `FederatedSignInProofs!SubjectsOwnTheirAccounts` | `SubjectOwnsAccount` |
| `FederatedSignInProofs!InvitationsRedeemedOnce` | `RedeemedOnce` |
| `FederatedSignInProofs!ColumnsKept` | `ColumnsKeepTheirOwner` |

Assumptions are the named `ASSUME`s of the modules: constants are natural
numbers, model values are distinct from data (`None` from every account, call,
credential and update, `NoTable` from every list), the sets of requests are finite,
the costs have a largest one, there is a policy (the default), and the throttle's
`Skew` is less than half its lock (a charging statement waits seconds, a lock lasts minutes).

- *Spend limits.* `MemoryMatchesStore` is inductive only together with the
  meaning of `mu`: the administrator holding it is the only one between the two
  writes, and everybody else is outside; a commit reported as failed leaves that state
  through `adrift`, which every swap and restart clears by making the two equal. The two action properties follow from
  types and from the single definition of each row operation (`Opened`,
  `Charged`, `Without`): a row changes by being opened when it has none or an
  ended one, by a charge of its owner's ledger, or by deletion. `OnlyStaleDrops`
  needs in addition that outside the two writes of `SetDefaults` the set a call
  carries is the stored one. `AnswersExact` needs that no window began in the
  future (`Past`), and that among finitely many exhausted windows one ends last.
  The two results about requests assume that the rules stand (`RulesStand`): a
  change of rules while a request is in the gate is the case section 7 describes.
  `Metered` says, for each step of a request, which of its windows exist and how
  long they last; rows then only grow (`Grown`). `OverInv` says that a window below
  its amount may be passed by what is pending: each request in the gate or in the
  ledger's queue is worth one largest cost, and a request enters only while some
  window it read was not exhausted.
- *Shutdown.* `IdleIsExact` needs no more than types, since entering and leaving
  keep `inFlight` at the number of requests in the chain; the cardinality facts
  come from the library. `CutIsReported` is not inductive: a request is cut in
  the step that stops the service, and its error may have been decided two stages
  before. `StopStages` says what each stage knows: after `settle` the drain is over,
  at `stop_service` it is over or failed, at `wait_run` an unstopped service
  implies an error. `NothingOutlivesThePool` puts these together with `WaitedFor`: a
  listener that shut down in time has no handler left and gets none, and what is in the
  chain once `Run` has returned was there when it was stopped or cut.
- *Throttle.* `LockMatchesCount`, a lock exactly where the count has reached the limit,
  is a part of the invariant, and `LockNotRenewed` needs in addition that no clock
  reading lies in the future. `LockEarned` is about guesses long charged, whose times
  the row has forgotten. `EarnInv` bounds how far back they are: a failure is added
  only less than `LockFor` after the row's last attempt, so a row that counts `n` of
  them reaches back at most `(n - 1) * (LockFor - 1)` from it (`Reach`, `ReachFalls`);
  a success removes the row, a lapse begins at one.
  `GuessesBounded` is about sums over windows, which no row remembers. `GuessInv`
  says where the present count began (`CountsFrom`): guesses since then are in the
  row's count, those before are a window old, and no attempt on its way will charge
  before it. A charge that finds the row lapsed begins a new count at its own
  reading less `Skew`; `GuessesBehindRow` ties every guess to the row's last attempt
  and lock, which is what makes the older ones a window old. The sums are handled by
  four lemmas on `Upto`, proved by an induction over a set of numbers (`Induction`,
  from the library's theorem that `<` is well-founded). The attempt corrected the
  property: it used to shorten the window by one `Skew`, which held only because
  the run's limit was two. With a limit of three and four attempts, one charge locks
  the row with an early reading and another finds the lock lapsed with a late one,
  and four guesses fit; the window is shorter by a `Skew` on either side.
- *Sessions.* `RevocationSignsOut` speaks of the sessions left when nobody is about to
  end them; `EndsPending` says who that is at every step. Two cases do not meet: a
  replaced password waits for whoever replaced it, a block only for an administrator,
  since a password change spares the session it was made under and so does not stand
  for the block's own sign-out. `SignInsKnow` says which password a sign-in has read and
  from when to when it has a session of its own to record or drop, `ResetsFlagged` that
  a reset about to write its password finds the restriction it set still there, unless
  the change that cleared it had crossed that very reset, and that a change about to
  clear the restriction does so for its own password, or for a marked one.
- *Vendor logins.* `CallsOwn` says that a claimed session has one call that settles it,
  and that the call holding `mu` before its claim finds it unclaimed, whether or not the
  timer has fired by then; `CallsInTime` that the account is added by that call, at its
  end, for a session found before its deadline. That no record is lost needs `WaitersKnow`: until a session's owner lets it go,
  nobody but upstream's waiter ends it, and the waiter delivers its record first; so a
  call that finds the session no longer pending, and looks for the record once more,
  looks after the last one came.
- *Body budget.* The charge of a request is moved between its own fields, the share and
  the semaphore in separate steps; `Stands` says which part is where at each of them
  (what is asked, what is held, what is on its way `back`). `LineWaits` says the line
  holds waiting requests, none twice, so `Notify` pays each of the prefix it grants
  once. `TakenExact` and `SharedExact` are the sums over all requests. The bound on a
  share is inductive only when stated for every level (`LevelsKept`), not only for the
  levels some request is allowed: a request that comes in with a new allowance finds
  its level already kept. The sums are over finite sets; that changing one term
  changes the sum by as much, that terms of zero can be left out and that a larger
  function has a larger sum are proved from the definition of the fold by induction over the
  subsets. For this the sums in the model are `SumFunction`s, and the share's map is
  written out where it was built with `@@`.
- *Usage sink.* `TruthReconstructed` is arithmetic, by protocol: what the report adds
  to a count is what the split takes out of it, and the legacy count is read only
  where the report put the reads there. `ReportsPricedOnce` adds that the split, kept
  or given up, never exceeds the total. `RecordsInv` carries the result to the worker:
  its batch holds records upstream delivered, so each of its rows has a report of
  `Reports`. That the reports and prices are well-formed is `SinkAssumption`.
  `RecordsAccounted` follows the way of a record (hand, queue, batch, ledger) as one
  sequence in order of delivery: `WayInv` says its elements increase, are disjoint
  from the lost ones and with them make up what was delivered; `FlushInv` says how
  many of the records still to be processed a flush has counted. What `Written`
  computes of a batch is proved by induction over sets (`SetInduction`, from the
  library's well-founded minimum): an induction that takes its property as a set
  rather than as an operator is one the provers can use.
- *Prices.* `TableInv` ties the table to the two lists at every step of a replace, a
  check and a start; with it each step maps to one of PriceList's or to a stutter.
  `PricesMatchStore` adds what a check that fetches without `mu` may still apply.
- *Tokens and Gate.* `TokenLimitKept` is inductive with the meaning of the row lock:
  its holder is the only call between the count and the commit, and its count is
  still an upper bound, since keys only stop being live. `RecordInv` says which call
  still owes which audit record. For a request, `Holds` says what each step has
  established and from when (`since`), and what has been checked of the names in
  hand. `StaysInPolicy` compares two readings of one request: `NameAgrees` shows that
  upstream's name is the gate's, once the suffix is dropped and the case folded;
  `ListedAgrees` the same for a name in a listing; `AdmittedAllowed` that what upstream
  could choose with it is among the pairs `Covers` allowed. The attempt found two overlapping arms in the CASE of `RequestedModel`; it
  is now nested conditions in the order of `model_extract.go`.
- *Accounts and settings.* An account's call touches one account (`StepOn`,
  `Elsewhere`), so each invariant is proved for that account, action by action, and
  carried over for the others at once. `StoreInv` says that a digest is its row's
  content, that an account held without a row is marked or about to be forgotten,
  and from which stage of a call the copy it works on is the account held; none of
  the five properties is inductive without such facts about calls under way.
  `RouteInv` says when a removal has disabled its account, and that setting a proxy
  changes nothing the configuration is built from. `DocInv` says what an update
  would put back at each of its stages.
- *Users and FederatedSignIn.* Whoever writes `users` keeps every row and its address
  and adds at most one row, at an address nobody has (`Rows`); so addresses stay
  unique, and the account an operation read still exists when it writes. With that,
  `AdminsOK` says that until an edit outlives its author, wherever there is an
  administrator there is one who can sign in: `Roles` covers every step but an
  administrator's edit, and its author survives it (`EditorRemains`). `SignInOK` says
  what a sign-in knows at each statement, `RedeemedOK` that at most one sign-in at a
  time redeems an unmarked account's invitation, with nobody linked yet, and that a
  link about to be made has no live invitation left. The attempt corrected a property:
  `BootstrapFinished` used to be an invariant of the running process, and held only
  because the run configured one address. With a second one, an administrator who
  signs in through the provider at that address is left without a password by the
  first half of a reset. It now says what `resumeBootstrap` promises, at the moment a
  start comes up, and the run configures both addresses.

Only model-checked: the liveness properties `GateAnswers`, `DrainAnswers`, `StopEnds`
and `EveryLoginEnds`, since fairness is out of the prover's reach.

## 6. Mutants

Each property is paired in `PROJECT.json` with a variant of one mapped definition
that a plausible mistake would give (a dropped guard, a forgotten release, a
prompt counted with its cache, an unlocked count, a digest kept over a failed write, a
push that does not add the providers' entries) and that makes TLC refute the property
under the same configuration.

## 7. Disagreements between the code and what it says

Met while modelling. None has a run of its own; where a property excepts the case,
the exception is named.

- A request authenticated under an account's previous rules deletes, at its
  admission, a live window of the new rules (`spendlimits.go:115`; the last case of
  `OnlyStaleDrops`), though a window "runs for its rule's length"
  (`limits.go:6`).
- A write of the defaults that commits and is reported as failed leaves requests limited
  by the earlier defaults until the next `SetDefaults` or restart (`spendlimits.go:156`;
  `adrift`), though "a failed write leaves requests limited by the stored one"
  (`:43-44`).
- A record may enter the queue after Drain closed the sink, even after it returned
  (`usage/sink.go:129` and `:136`, against `:149-150`).
- A sign-in that read the password before it was replaced opens its session after
  the others were ended (`auth.go:219`, against `:305-306`); one that read the account
  before a block opens its session after the block (`adminusers.go:285-288`), is
  refused while it lasts and works again after it.
- A password change between whose two writes a reset runs, or begins, leaves the
  temporary password without its restriction (`auth.go:359`, against
  `temporary_password.go:24-25`; `password.crossed`).
- A request that decided under an account's old rules opens a window of them after
  `SetUser` has deleted the account's stale windows (`spendlimits.go:239`, against
  `:200`); its next request deletes it.
- A model request without a body leaves its owner an entry of zero in `bodyShares`
  (`body_budget.go:95`, against `:59-60`).
- `Gateway.Shutdown` returns without stopping a service that is still starting when
  its context ends (`service.go:599`, against `:590-591`); serve then cancels
  `Run`'s context, so the stop ends all the same (`StopEnds`).
- A web or metrics handler that outlasts `listenerGrace` runs on while the sink drains
  and the pool closes under it (`boot.go:584`): `srv.Close` closes its connection and
  does not wait for it (`"forced"`). A `Run` that ends by itself during the stop and
  reports no error leaves requests in the chain without serve's saying so (`"quit"`).
- Two administrators who demote or block each other at the same moment leave none
  (`stale`); `ErrSelfLockout` guards each against themselves only, and the recovery
  command remains.
- A redemption consumes the invitation and links in two statements. Two sign-ins that
  redeem one invitation together both link, and a renewal between the two leaves a
  live invitation beside the link (`raced`). A sign-up that died before its link, was
  then invited by `RenewInvitation` and is resumed leaves the same; `RedeemedOnce`
  counts only subjects other than the account's own.
- `SaveIdentityState` writes the row's stored address back, while its comment speaks of
  the email the provider asserts.
- `resumeBootstrap` finishes the account of the configured address; a bootstrap that
  died under another address stays unfinished. It also takes an administrator at that
  address whose reset died between its two writes for an unfinished bootstrap, and
  issues a password.
- After a catalog write that was committed but reported failed, `recordFailure` stores
  the old validators beside the new prices, and memory keeps the old ones until the
  next restart or change (`lost`, against "nothing was stored", `prices.go:403`).
- After a delete that was committed but reported failed, an account is held without a
  row: enabling or editing it succeeds and stores nothing, since an update of a
  missing row is taken for a removal (`unsaved`). The error's advice to retry
  `RemoveAccount` does not apply to an account that is no longer held.
- A refresh by the manager between a call's copy of an account and its update is
  overwritten, or its late save overtakes the call's (`raced`).
- A removed provider's entry stays in the running configuration until the next one is
  applied (`dangling`).
- The settings document known as "known residual" in `settings.go`: a commit reported
  as failed leaves the previous configuration running (`adrift`).
- A provider that registers a model between the gate's check and upstream's routing
  serves a request the gate did not check on it (the pair is not in `could`, the last
  case of `StaysInPolicy`), though
  `catalog.go` says that a provider upstream could route to is one the gate has checked.
- An `Issue` whose commit was reported failed leaves a live row without an audit
  record; its secret was never returned, but it counts towards the limit (`severed`).

## 8. Not modelled

- Metrics, logging, HTTP translation, configuration parsing and migrations keep no
  state the rest depends on. The web API's session gates appear as guards of Users
  and Sessions; its rate limiter does not.
- Cryptography (sealing, key derivation) is taken as given: a password is its number,
  a key its id. The hasher's bound on concurrent derivations is left out.
- Shapes of request and response bodies: a body is its `model` keys, a listing its
  entries. Upstream's routing, refreshing and retrying are not in this repository;
  they appear as external actions.
- Of the usage sink: quota snapshots, the label cache, the lookup of a price by model
  name or alias, and the estimate of what caching saved.
- Of the accounts: those upstream derives from its configuration and the store does
  not hold, the transient copies that `dropSynthesizedCompat` removes, upstream's access
  registry and scratch directories, and audit rows other than those that retract.
- Of the settings: single fields, differences and dry runs; an update submits some
  document.
- Of the tokens: labels, prefixes and listings.
- Amounts, sizes and prices are small integers. In SpendLimits, UsageSink, Sessions,
  Throttle and Users a statement either happens or fails without effect; a commit whose
  acknowledgement is lost is modelled in Prices, CredentialStore, Settings and Tokens,
  and in SpendLimits for the defaults, the one write there that memory follows.
