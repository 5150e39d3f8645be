------------------------------- MODULE Prices -------------------------------
(***************************************************************************)
(* The price list's service (internal/app/prices/prices.go) over its two   *)
(* tables and the catalog's state (internal/infra/postgres/prices), and    *)
(* the catalog it checks (internal/infra/pricecatalog).                    *)
(*                                                                         *)
(* A check reads its validators under `mu', fetches with no lock held, and *)
(* applies what it found under `mu' again; a Replace may run in between.   *)
(* Checks run one at a time.  A store may refuse a write, or commit it and *)
(* report a failure (`lost').  A restart may find another catalog URL, or  *)
(* none.                                                                   *)
(***************************************************************************)
EXTENDS Integers, Sequences

CONSTANTS
    Keys,         \* (provider, model)
    Rates,        \* what a token costs
    NoPrice,
    NoTable,      \* the sink before the first list is loaded
    Models, Providers,
    Sections,     \* <<section, provider>>, in precedence order
    Urls, Off,    \* the catalogs a start may be given; Off for none
    Tags, NoTag,  \* validators a catalog answers with
    DocOf,        \* the document a catalog serves under a tag
    Overrides,    \* the lists administrators submit
    MaxReplaces,  \* bound: how many
    MaxChecks,    \* bound: how many checks begin
    MaxStarts     \* bound: how many times the process starts

Lists == [Keys -> Rates \cup {NoPrice}]
Empty == [k \in Keys |-> NoPrice]
Docs == [1 .. Len(Sections) -> [Models -> Rates \cup {NoPrice}]]

ASSUME PricesAssumption ==
    /\ Keys = Providers \X Models
    /\ Rates \subseteq Nat
    /\ NoPrice \notin Rates
    /\ NoTable \notin Lists
    /\ Off \notin Urls
    /\ NoTag \notin Tags
    /\ Sections \in Seq(STRING \X Providers)
    /\ DocOf \in [Urls \X Tags -> Docs]
    /\ Overrides \subseteq Lists
    /\ {MaxReplaces, MaxChecks, MaxStarts} \subseteq Nat

VARIABLES
    store,    \* model_prices, catalog_prices and catalog_state
    manual, catalogPrices,   \* the two lists as the service holds them
    sink,     \* PriceTable: what requests are priced by
    url,      \* the running source
    state,    \* the catalog's state as the service holds it
    mu,       \* who holds the mutex: nobody, or a writer between its store
              \* and its publish
    check,    \* the check in progress
    served,   \* the tag each catalog serves now
    lost,     \* a write was committed and reported as failed
    replaces, checks, starts

vars == <<manual, catalogPrices, sink, store, url, state, mu, check, served,
          lost, replaces, checks, starts>>

NoState == [tag |-> NoTag, url |-> Off]
States == [tag : Tags \cup {NoTag}, url : Urls \cup {Off}]
Idle == [pc |-> "idle", tag |-> NoTag, unchanged |-> FALSE,
         prices |-> Empty]

TypeOK ==
    /\ manual \in Lists /\ catalogPrices \in Lists
    /\ sink \in Lists \cup {NoTable}
    /\ store \in [manual : Lists, catalog : Lists, state : States]
    /\ url \in Urls \cup {Off}
    /\ state \in States
    /\ mu \in {"free", "replace", "changed"}
    /\ check \in [pc : {"idle", "fetch", "record", "publish",
                        "failed"},
                  tag : Tags \cup {NoTag}, unchanged : BOOLEAN,
                  prices : Lists]
    /\ served \in [Urls -> Tags]
    /\ lost \in BOOLEAN
    /\ replaces \in 0 .. MaxReplaces
    /\ checks \in 0 .. MaxChecks
    /\ starts \in 0 .. MaxStarts

Init ==
    /\ manual = Empty /\ catalogPrices = Empty /\ sink = NoTable
    /\ store = [manual |-> Empty, catalog |-> Empty, state |-> NoState]
    /\ url = Off
    /\ state = NoState
    /\ mu = "free"
    /\ check = Idle
    /\ served \in [Urls -> Tags]
    /\ lost = FALSE
    /\ replaces = 0 /\ checks = 0 /\ starts = 0

Running == sink # NoTable

\* entriesLocked: each manual price replaces the catalog's for its model.
Effective(m, c) == [k \in Keys |-> IF m[k] # NoPrice THEN m[k] ELSE c[k]]

\* acceptCatalog: a list that prices nothing, or everything at zero, is
\* refused; Parse leaves no invalid price.
AcceptCatalog(prices) ==
    /\ \E k \in Keys : prices[k] # NoPrice
    /\ \E k \in Keys : prices[k] # NoPrice /\ prices[k] > 0

-----------------------------------------------------------------------------
\* Load, before anything is served: without a source the stored catalog is
\* not in force and its state not read.
Load(u) ==
    /\ ~ Running
    /\ starts < MaxStarts
    /\ starts' = starts + 1
    /\ url' = u
    /\ manual' = store.manual
    /\ catalogPrices' = IF u = Off THEN Empty ELSE store.catalog
    /\ state' = IF u = Off THEN NoState ELSE store.state
    /\ sink' = Effective(manual', catalogPrices')
    /\ UNCHANGED <<store, mu, check, served, lost, replaces, checks>>

Exit ==
    /\ Running
    /\ sink' = NoTable /\ manual' = Empty /\ catalogPrices' = Empty
    /\ state' = NoState /\ url' = Off
    /\ mu' = "free" /\ check' = Idle
    /\ UNCHANGED <<store, served, lost, replaces, checks, starts>>

-----------------------------------------------------------------------------
(* Replace.                                                                *)

\* The list is stored under mu; a list that names a model twice or carries
\* a rate that is no rate was refused before.  A refusal ends it there.
StoreManual(m) ==
    /\ Running
    /\ mu = "free"
    /\ replaces < MaxReplaces
    /\ replaces' = replaces + 1
    /\ store' = [store EXCEPT !.manual = m]
    /\ \/ mu' = "replace" /\ lost' = lost
       \/ mu' = "free" /\ lost' = TRUE
    /\ UNCHANGED <<manual, catalogPrices, sink, url, state, check, served,
                   checks, starts>>

\* What was stored goes to the service and the sink; reading it back and
\* recording it change neither.
PublishManual ==
    /\ mu = "replace"
    /\ manual' = store.manual
    /\ sink' = Effective(manual', catalogPrices)
    /\ mu' = "free"
    /\ UNCHANGED <<catalogPrices, store, url, state, check, served, lost,
                   replaces, checks, starts>>

-----------------------------------------------------------------------------
(* A check, RunCatalog's or an administrator's Refresh.                    *)

\* A variant of BeginCheck that sends validators stored for another URL.
BeginCheckAnyUrl ==
    /\ Running /\ url # Off
    /\ check.pc = "idle"
    /\ mu = "free"
    /\ checks < MaxChecks
    /\ checks' = checks + 1
    /\ check' = [Idle EXCEPT !.pc = "fetch", !.tag = state.tag]
    /\ UNCHANGED <<manual, catalogPrices, sink, store, url, state, mu, served,
                   lost, replaces, starts>>

\* The token is taken, and the validators read under mu: those stored by
\* another URL or parser are not sent.
BeginCheck ==
    /\ Running /\ url # Off
    /\ check.pc = "idle"
    /\ mu = "free"
    /\ checks < MaxChecks
    /\ checks' = checks + 1
    /\ check' = [Idle EXCEPT !.pc = "fetch",
                   !.tag = IF state.url = url THEN state.tag ELSE NoTag]
    /\ UNCHANGED <<manual, catalogPrices, sink, store, url, state, mu, served,
                   lost, replaces, starts>>

\* Parse: each provider's models from the first section that prices them.
Parse(doc) ==
    [k \in Keys |->
        LET from == {i \in 1 .. Len(Sections) :
                        Sections[i][2] = k[1] /\ doc[i][k[2]] # NoPrice}
        IN  IF from = {} THEN NoPrice
            ELSE doc[CHOOSE i \in from : \A j \in from : i <= j][k[2]]]

\* Fetch: unchanged since the validators sent, or the whole document, which
\* acceptCatalog may still refuse.  The catalog may send no validators.
Fetch(answer) ==
    /\ check.pc = "fetch"
    /\ LET tag == served[url]
           doc == Parse(DocOf[url, tag])
       IN  \/ /\ answer = "unchanged"
              /\ check.tag = tag
              /\ check' = [check EXCEPT !.pc = "record", !.unchanged = TRUE]
           \/ /\ answer = "document"
              /\ check.tag # tag
              /\ AcceptCatalog(doc)
              /\ \E t \in {tag, NoTag} :
                    check' = [pc |-> "record", tag |-> t, prices |-> doc,
                              unchanged |-> FALSE]
           \/ /\ answer = "failed"
              /\ check' = [check EXCEPT !.pc = "failed"]
    /\ UNCHANGED <<manual, catalogPrices, sink, store, url, state, mu,
                   served, lost, replaces, checks, starts>>

\* recordFailure: the reason alone is noted, prices and validators stay; in
\* the store, the service's state goes over whatever stood there.  That
\* write may fail too, and a check a shutdown stopped makes none.
RecordFailure ==
    /\ check.pc = "failed"
    /\ mu = "free"
    /\ check' = Idle
    /\ store' \in {store, [store EXCEPT !.state = state]}
    /\ UNCHANGED <<manual, catalogPrices, sink, url, state, mu, served,
                   lost, replaces, checks, starts>>

\* The state a successful check leaves.
CheckedState ==
    IF check.unchanged THEN state ELSE [tag |-> check.tag, url |-> url]

Changed == ~ check.unchanged /\ check.prices # catalogPrices

Stored ==
    IF Changed
    THEN [store EXCEPT !.catalog = check.prices, !.state = CheckedState]
    ELSE [store EXCEPT !.state = CheckedState]

\* recordSuccess: prices and state in one transaction when the rates
\* changed, the state alone when they did not ...
StoreCheck ==
    /\ check.pc = "record"
    /\ mu = "free"
    /\ store' = Stored
    /\ state' = CheckedState
    /\ IF Changed THEN mu' = "changed" /\ check' = [check EXCEPT
                                                      !.pc = "publish"]
       ELSE mu' = "free" /\ check' = Idle
    /\ UNCHANGED <<manual, catalogPrices, sink, url, served, lost, replaces,
                   checks, starts>>

\* ... or the store refuses it, or commits and reports a failure: the
\* check is then a failed one.
RefuseCheck ==
    /\ check.pc = "record"
    /\ mu = "free"
    /\ check' = [check EXCEPT !.pc = "failed"]
    /\ store' \in {store, Stored}
    /\ lost' = (lost \/ store' # store)
    /\ UNCHANGED <<manual, catalogPrices, sink, url, state, mu, served,
                   replaces, checks, starts>>

\* A variant of PublishCatalog that leaves the sink as it was.
PublishCatalogLater ==
    /\ mu = "changed"
    /\ catalogPrices' = check.prices
    /\ mu' = "free"
    /\ check' = Idle
    /\ UNCHANGED <<manual, sink, store, url, state, served, lost, replaces,
                   checks, starts>>

PublishCatalog ==
    /\ mu = "changed"
    /\ catalogPrices' = check.prices
    /\ sink' = Effective(manual, catalogPrices')
    /\ mu' = "free"
    /\ check' = Idle
    /\ UNCHANGED <<manual, store, url, state, served, lost, replaces, checks,
                   starts>>

\* The catalog's owner publishes another version.
Serve(u, t) ==
    /\ served[u] # t
    /\ served' = [served EXCEPT ![u] = t]
    /\ UNCHANGED <<manual, catalogPrices, sink, store, url, state, mu, check,
                   lost, replaces, checks, starts>>

Next ==
    \/ \E u \in Urls \cup {Off} : Load(u)
    \/ Exit
    \/ \E m \in Overrides : StoreManual(m)
    \/ PublishManual
    \/ BeginCheck
    \/ \E answer \in {"unchanged", "document", "failed"} : Fetch(answer)
    \/ RecordFailure
    \/ StoreCheck
    \/ RefuseCheck
    \/ PublishCatalog
    \/ \E u \in Urls, t \in Tags : Serve(u, t)

Spec == Init /\ [][Next]_vars

-----------------------------------------------------------------------------
List == INSTANCE PriceList WITH catalog <- catalogPrices, table <- sink

(***************************************************************************)
(* The service keeps PriceList's promise: whatever a check and a Replace   *)
(* do at the same time, whatever fails and whenever the process restarts,  *)
(* the table is the overrides over the catalog, neither writer's list is   *)
(* lost from it, and no catalog wipes it (prices.go publish,               *)
(* acceptCatalog).                                                         *)
(***************************************************************************)
KeepsPriceList == List!PriceListSpec

(***************************************************************************)
(* A catalog that answers "unchanged" speaks of the prices in force: they  *)
(* are the document this URL serves under the validators sent, whatever    *)
(* URL or parser stored them and whatever a restart or an earlier failure  *)
(* left -- unless a write was committed and reported as failed (prices.go  *)
(* check, recordSuccess).                                                  *)
(***************************************************************************)
UnchangedIsTrue ==
    check.pc = "record" /\ check.unchanged /\ ~ lost =>
        catalogPrices = Parse(DocOf[url, check.tag])

(***************************************************************************)
(* With mu free, what is in force is what a restart would load, unless a   *)
(* write was committed and reported as failed (prices.go Replace,          *)
(* recordSuccess, recordFailure).                                          *)
(***************************************************************************)
ListsMatchStore ==
    Running /\ mu = "free" /\ ~ lost =>
        /\ store.manual = manual
        /\ url # Off => store.catalog = catalogPrices /\ store.state = state

\* Both together: neither a conditional check nor a restart brings back prices
\* other than the ones in force (prices.go check, Load).
PricesMatchStore == UnchangedIsTrue /\ ListsMatchStore
=============================================================================
