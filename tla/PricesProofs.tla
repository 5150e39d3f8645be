---------------------------- MODULE PricesProofs ----------------------------
(***************************************************************************)
(* Proofs about Prices: the service implements PriceList, and what it      *)
(* holds, sends and stores agree.                                          *)
(***************************************************************************)
EXTENDS Prices, WellFoundedInduction, NaturalsInduction, TLAPS

\* PriceList's condition on a catalog, which acceptCatalog establishes.
Acceptable(c) == \E k \in Keys : c[k] # NoPrice /\ c[k] > 0

(***************************************************************************)
(* What the table rests on: it is the two lists overlaid whenever there is *)
(* one, a stopped service holds nothing, the writer between its store and  *)
(* its publish is the one `mu' says, and a catalog was accepted before it  *)
(* reached the service or the store.                                       *)
(***************************************************************************)
TableInv ==
    /\ Running => sink = Effective(manual, catalogPrices)
    /\ ~ Running => /\ manual = Empty /\ catalogPrices = Empty
                    /\ mu = "free" /\ check = Idle
    /\ mu = "changed" <=> check.pc = "publish"
    /\ check.pc # "idle" => url # Off
    /\ catalogPrices = Empty \/ Acceptable(catalogPrices)
    /\ store.catalog = Empty \/ Acceptable(store.catalog)
    /\ check.pc \in {"record", "publish"} /\ ~ check.unchanged =>
          Acceptable(check.prices)
    /\ check.pc = "publish" => ~ check.unchanged

-----------------------------------------------------------------------------
(* The operators.                                                          *)

\* A nonempty set of section numbers has a least one.
LEMMA FirstSection ==
    ASSUME NEW S \in SUBSET Nat, S # {}
    PROVE  \E i \in S : \A j \in S : i <= j
<1> DEFINE below == {p \in Nat \X Nat : p[1] < p[2]}
<1>1. IsWellFoundedOn(below, Nat)
  BY NatLessThanWellFounded, Zenon DEF OpToRel
<1> HIDE DEF below
<1>2. PICK i \in S : \A j \in S : ~(<<j, i>> \in below)
  BY <1>1, WFMin
<1>3. ASSUME NEW j \in S PROVE i <= j
  <2>1. <<j, i>> \in below <=> j < i
    BY DEF below
  <2> QED BY <1>2, <2>1
<1> QED BY <1>3

\* What Parse makes of a document is a price list.
LEMMA ParseTyped ==
    ASSUME NEW doc \in Docs
    PROVE  Parse(doc) \in Lists
<1> DEFINE from(k) == {i \in 1 .. Len(Sections) :
                          Sections[i][2] = k[1] /\ doc[i][k[2]] # NoPrice}
           first(k) == CHOOSE i \in from(k) : \A j \in from(k) : i <= j
           rate(k) == IF from(k) = {} THEN NoPrice ELSE doc[first(k)][k[2]]
<1>1. Len(Sections) \in Nat
  BY PricesAssumption
<1>2. ASSUME NEW k \in Keys PROVE rate(k) \in Rates \cup {NoPrice}
  <2>1. k[2] \in Models
    BY PricesAssumption
  <2>2. ASSUME from(k) # {} PROVE first(k) \in 1 .. Len(Sections)
    <3>1. \E i \in from(k) : \A j \in from(k) : i <= j
      <4>1. from(k) \in SUBSET Nat
        BY <1>1
      <4> HIDE DEF from
      <4> QED BY <2>2, <4>1, FirstSection
    <3>2. first(k) \in from(k)
      <4> HIDE DEF from
      <4> QED BY <3>1
    <3> QED BY <3>2
  <2> HIDE DEF first
  <2> QED BY <2>1, <2>2 DEF Docs
<1>3. Parse(doc) = [k \in Keys |-> rate(k)]
  BY DEF Parse
<1> HIDE DEF rate
<1> QED BY <1>2, <1>3 DEF Lists

\* The table is a list, and so never the sign that there is none.
LEMMA EffectiveTyped ==
    ASSUME NEW m \in Lists, NEW c \in Lists
    PROVE  Effective(m, c) \in Lists /\ Effective(m, c) # NoTable
<1>1. Effective(m, c) \in Lists
  BY DEF Effective, Lists
<1> QED BY <1>1, PricesAssumption

LEMMA EmptyTyped == Empty \in Lists
BY DEF Empty, Lists

\* acceptCatalog's answer is PriceList's condition.
LEMMA AcceptedIsAcceptable ==
    ASSUME NEW c, AcceptCatalog(c)
    PROVE  Acceptable(c)
BY DEF AcceptCatalog, Acceptable

-----------------------------------------------------------------------------
(* The table.                                                              *)

CheckRec == [pc : {"idle", "fetch", "record", "publish", "failed"},
             tag : Tags \cup {NoTag}, unchanged : BOOLEAN, prices : Lists]

LEMMA IdleTyped == Idle \in CheckRec
BY EmptyTyped DEF Idle, CheckRec

\* The bounds are numbers.
LEMMA BoundsTyped ==
    MaxReplaces \in Nat /\ MaxChecks \in Nat /\ MaxStarts \in Nat
BY PricesAssumption

LEMMA TableInit == Init => TypeOK /\ TableInv
<1> SUFFICES ASSUME Init PROVE TypeOK /\ TableInv
  OBVIOUS
<1>1. Empty \in Lists /\ check \in CheckRec /\ NoState \in States
  BY EmptyTyped, IdleTyped DEF Init, NoState, States
<1>2. TypeOK
  <2>1. store \in [manual : Lists, catalog : Lists, state : States]
    BY <1>1 DEF Init
  <2>2. replaces \in 0 .. MaxReplaces /\ checks \in 0 .. MaxChecks
        /\ starts \in 0 .. MaxStarts
    BY BoundsTyped DEF Init
  <2> QED BY <1>1, <2>1, <2>2 DEF Init, TypeOK, CheckRec
<1>3. TableInv
  BY DEF Init, TableInv, Running, Idle
<1> QED BY <1>2, <1>3

\* A step of Load or Exit.
LEMMA StartStopKeepTable ==
    ASSUME TypeOK, TableInv, (\E u \in Urls \cup {Off} : Load(u)) \/ Exit
    PROVE  TypeOK' /\ TableInv'
<1>0. Empty \in Lists /\ NoState \in States /\ Idle \in CheckRec
  BY EmptyTyped, IdleTyped DEF NoState, States
<1>1. ASSUME NEW u \in Urls \cup {Off}, Load(u)
      PROVE  TypeOK' /\ TableInv'
  <2>1. manual' \in Lists /\ catalogPrices' \in Lists /\ state' \in States
    BY <1>0, <1>1 DEF Load, TypeOK
  <2>2. sink' \in Lists /\ sink' # NoTable
    BY <1>1, <2>1, EffectiveTyped DEF Load
  <2>3. TypeOK'
    BY <1>1, <2>1, <2>2, PricesAssumption DEF Load, TypeOK
  <2>4. catalogPrices' = Empty \/ Acceptable(catalogPrices')
    BY <1>1 DEF Load, TableInv
  <2>5. TableInv'
    BY <1>1, <2>2, <2>4 DEF Load, TableInv, Running, Idle
  <2> QED BY <2>3, <2>5
<1>2. CASE Exit
  <2>1. TypeOK'
    BY <1>0, <1>2 DEF Exit, TypeOK, CheckRec
  <2>2. TableInv'
    BY <1>2 DEF Exit, TableInv, Running, Idle
  <2> QED BY <2>1, <2>2
<1> QED BY <1>1, <1>2

\* A step of Replace.
LEMMA ReplaceKeepsTable ==
    ASSUME TypeOK, TableInv,
           (\E m \in Overrides : StoreManual(m)) \/ PublishManual
    PROVE  TypeOK' /\ TableInv'
<1>1. ASSUME NEW m \in Overrides, StoreManual(m)
      PROVE  TypeOK' /\ TableInv'
  <2>1. m \in Lists
    BY PricesAssumption
  <2>2. TypeOK'
    <3>1. store' \in [manual : Lists, catalog : Lists, state : States]
      BY <1>1, <2>1 DEF StoreManual, TypeOK
    <3>2. replaces' \in 0 .. MaxReplaces
      BY <1>1, BoundsTyped DEF StoreManual, TypeOK
    <3> QED BY <1>1, <3>1, <3>2 DEF StoreManual, TypeOK
  <2>3. store'.catalog = store.catalog
    BY <1>1 DEF StoreManual, TypeOK
  <2>4. TableInv'
    BY <1>1, <2>3 DEF StoreManual, TableInv, Running
  <2> QED BY <2>2, <2>4
<1>2. CASE PublishManual
  <2>1. manual' \in Lists /\ catalogPrices \in Lists
    BY <1>2 DEF PublishManual, TypeOK
  <2>2. sink' \in Lists /\ sink' # NoTable
    BY <1>2, <2>1, EffectiveTyped DEF PublishManual
  <2>3. TypeOK'
    BY <1>2, <2>1, <2>2 DEF PublishManual, TypeOK
  <2>4. TableInv'
    BY <1>2, <2>2 DEF PublishManual, TableInv, Running
  <2> QED BY <2>3, <2>4
<1> QED BY <1>1, <1>2

\* A document of the running catalog parses to a list.
LEMMA ServedTyped ==
    ASSUME TypeOK, url # Off
    PROVE  /\ served[url] \in Tags
           /\ Parse(DocOf[url, served[url]]) \in Lists
<1>1. url \in Urls /\ served[url] \in Tags
  BY DEF TypeOK
<1>2. DocOf[url, served[url]] \in Docs
  BY <1>1, PricesAssumption
<1> QED BY <1>1, <1>2, ParseTyped

\* The state a check leaves is one.
LEMMA CheckedTyped ==
    ASSUME TypeOK, TableInv, check.pc = "record"
    PROVE  /\ CheckedState \in States
           /\ Stored \in [manual : Lists, catalog : Lists, state : States]
           /\ Stored.manual = store.manual
           /\ Stored.state = CheckedState
           /\ Stored.catalog = IF Changed THEN check.prices ELSE store.catalog
<1>1. CheckedState \in States
  BY DEF CheckedState, TypeOK, States
<1>2. store \in [manual : Lists, catalog : Lists, state : States]
      /\ check.prices \in Lists
  BY DEF TypeOK
<1> QED BY <1>1, <1>2 DEF Stored

\* A step of a check, up to what it found.
LEMMA FetchKeepsTable ==
    ASSUME TypeOK, TableInv,
           \/ BeginCheck
           \/ \E answer \in {"unchanged", "document", "failed"} : Fetch(answer)
    PROVE  TypeOK' /\ TableInv'
<1>0. check \in CheckRec
  BY DEF TypeOK, CheckRec
<1>1. CASE BeginCheck
  <2> DEFINE tag == IF state.url = url THEN state.tag ELSE NoTag
  <2>1. tag \in Tags \cup {NoTag}
    BY DEF TypeOK, States
  <2>2. check' = [Idle EXCEPT !.pc = "fetch", !.tag = tag]
    BY <1>1 DEF BeginCheck
  <2> HIDE DEF tag
  <2>3. check' \in CheckRec /\ check'.pc = "fetch"
    BY <2>1, <2>2, IdleTyped DEF CheckRec
  <2>4. checks' \in 0 .. MaxChecks
    BY <1>1, BoundsTyped DEF BeginCheck, TypeOK
  <2>5. TypeOK'
    BY <1>1, <2>3, <2>4 DEF BeginCheck, TypeOK, CheckRec
  <2>6. TableInv'
    BY <1>1, <2>3 DEF BeginCheck, TableInv, Running
  <2> QED BY <2>5, <2>6
<1>2. ASSUME NEW answer \in {"unchanged", "document", "failed"},
             Fetch(answer)
      PROVE  TypeOK' /\ TableInv'
  <2> DEFINE tag == served[url]
             doc == Parse(DocOf[url, tag])
  <2>0. check.pc = "fetch"
    BY <1>2 DEF Fetch
  <2>1. url # Off /\ Running /\ mu # "changed"
    BY <2>0 DEF TableInv, Idle
  <2>2. tag \in Tags /\ doc \in Lists
    BY <2>1, ServedTyped
  <2>3. /\ \/ check' = [check EXCEPT !.pc = "record", !.unchanged = TRUE]
           \/ /\ AcceptCatalog(doc)
              /\ \E t \in {tag, NoTag} :
                    check' = [pc |-> "record", tag |-> t, prices |-> doc,
                              unchanged |-> FALSE]
           \/ check' = [check EXCEPT !.pc = "failed"]
        /\ UNCHANGED <<manual, catalogPrices, sink, store, url, state, mu,
                       served, lost, replaces, checks, starts>>
    BY <1>2 DEF Fetch
  <2> HIDE DEF tag, doc
  <2>4. /\ check' \in CheckRec
        /\ check'.pc \in {"record", "failed"}
        /\ check'.pc = "record" /\ ~ check'.unchanged =>
              Acceptable(check'.prices)
    <3>1. CASE \/ check' = [check EXCEPT !.pc = "record", !.unchanged = TRUE]
               \/ check' = [check EXCEPT !.pc = "failed"]
      BY <1>0, <3>1 DEF CheckRec
    <3>2. ASSUME AcceptCatalog(doc), NEW t \in {tag, NoTag},
                 check' = [pc |-> "record", tag |-> t, prices |-> doc,
                           unchanged |-> FALSE]
          PROVE  check' \in CheckRec /\ Acceptable(check'.prices)
                 /\ check'.pc = "record"
      <4>1. Acceptable(doc) /\ check'.prices = doc
        BY <3>2, AcceptedIsAcceptable
      <4> QED BY <2>2, <3>2, <4>1 DEF CheckRec
    <3> QED BY <2>3, <3>1, <3>2
  <2>6. TypeOK'
    BY <2>3, <2>4 DEF TypeOK, CheckRec
  <2>7. TableInv'
    BY <2>1, <2>3, <2>4 DEF TableInv, Running
  <2> QED BY <2>6, <2>7
<1> QED BY <1>1, <1>2

\* A step of a check that applies what it found.
LEMMA CheckKeepsTable ==
    ASSUME TypeOK, TableInv,
           RecordFailure \/ StoreCheck \/ RefuseCheck \/ PublishCatalog
    PROVE  TypeOK' /\ TableInv'
<1> DEFINE Store == [manual : Lists, catalog : Lists, state : States]
<1>0. check \in CheckRec /\ Idle \in CheckRec /\ store \in Store
      /\ state \in States
  BY IdleTyped DEF TypeOK, CheckRec
<1>1. CASE RecordFailure
  <2>1. Running /\ Idle.pc = "idle" /\ mu = "free"
    BY <1>1 DEF RecordFailure, TableInv, Idle
  <2>2. store' \in Store /\ store'.catalog = store.catalog
    BY <1>0, <1>1 DEF RecordFailure
  <2>3. TypeOK'
    BY <1>0, <1>1, <2>2 DEF RecordFailure, TypeOK, CheckRec
  <2>4. TableInv'
    BY <1>1, <2>1, <2>2 DEF RecordFailure, TableInv, Running
  <2> QED BY <2>3, <2>4
<1>2. CASE StoreCheck
  <2>1. check.pc = "record" /\ Running /\ Idle.pc = "idle"
    BY <1>2 DEF StoreCheck, TableInv, Idle
  <2>2. /\ CheckedState \in States /\ Stored \in Store
        /\ Stored.catalog = IF Changed THEN check.prices ELSE store.catalog
    BY <2>1, CheckedTyped
  <2>3. /\ store' = Stored /\ state' = CheckedState
        /\ \/ Changed /\ mu' = "changed"
              /\ check' = [check EXCEPT !.pc = "publish"]
           \/ ~ Changed /\ mu' = "free" /\ check' = Idle
        /\ UNCHANGED <<manual, catalogPrices, sink, url, served, lost,
                       replaces, checks, starts>>
    BY <1>2 DEF StoreCheck
  <2>4. /\ check' \in CheckRec
        /\ mu' = "changed" =>
              /\ check'.pc = "publish" /\ check'.prices = check.prices
              /\ check'.unchanged = check.unchanged
    BY <1>0, <2>3 DEF CheckRec
  <2>5. Changed => ~ check.unchanged /\ Acceptable(check.prices)
    BY <2>1 DEF Changed, TableInv
  <2>6. TypeOK'
    BY <1>0, <2>2, <2>3, <2>4 DEF TypeOK, CheckRec
  <2>7. TableInv'
    <3>1. CASE Changed
      BY <2>1, <2>2, <2>3, <2>4, <2>5, <3>1 DEF TableInv, Running
    <3>2. CASE ~ Changed
      BY <2>1, <2>2, <2>3, <3>2 DEF TableInv, Running
    <3> QED BY <3>1, <3>2
  <2> QED BY <2>6, <2>7
<1>3. CASE RefuseCheck
  <2>1. check.pc = "record" /\ Running /\ mu = "free"
    BY <1>3 DEF RefuseCheck, TableInv, Idle
  <2>2. /\ Stored \in Store
        /\ Stored.catalog = IF Changed THEN check.prices ELSE store.catalog
    BY <2>1, CheckedTyped
  <2>3. Changed => ~ check.unchanged /\ Acceptable(check.prices)
    BY <2>1 DEF Changed, TableInv
  <2>4. check' \in CheckRec /\ check'.pc = "failed"
    BY <1>0, <1>3 DEF RefuseCheck, CheckRec
  <2>5. store' \in Store
        /\ (store'.catalog = Empty \/ Acceptable(store'.catalog))
    BY <1>0, <1>3, <2>2, <2>3 DEF RefuseCheck, TableInv
  <2>6. lost' \in BOOLEAN
    BY <1>3 DEF RefuseCheck
  <2>7. TypeOK'
    BY <1>3, <2>4, <2>5, <2>6 DEF RefuseCheck, TypeOK, CheckRec
  <2>8. TableInv'
    BY <1>3, <2>1, <2>4, <2>5 DEF RefuseCheck, TableInv, Running
  <2> QED BY <2>7, <2>8
<1>4. CASE PublishCatalog
  <2>1. /\ check.pc = "publish" /\ Acceptable(check.prices)
        /\ check.prices \in Lists /\ manual \in Lists /\ Idle.pc = "idle"
    BY <1>0, <1>4 DEF PublishCatalog, TableInv, TypeOK, CheckRec, Idle
  <2>2. /\ catalogPrices' = check.prices
        /\ sink' = Effective(manual, check.prices)
        /\ mu' = "free" /\ check' = Idle
        /\ UNCHANGED <<manual, store, url, state, served, lost, replaces,
                       checks, starts>>
    BY <1>4 DEF PublishCatalog
  <2>3. sink' \in Lists /\ sink' # NoTable
    BY <2>1, <2>2, EffectiveTyped
  <2>4. TypeOK'
    BY <1>0, <2>1, <2>2, <2>3 DEF TypeOK, CheckRec
  <2>5. TableInv'
    BY <2>1, <2>2, <2>3 DEF TableInv, Running
  <2> QED BY <2>4, <2>5
<1> QED BY <1>1, <1>2, <1>3, <1>4

LEMMA TableStep == TypeOK /\ TableInv /\ [Next]_vars => TypeOK' /\ TableInv'
<1> SUFFICES ASSUME TypeOK, TableInv, [Next]_vars PROVE TypeOK' /\ TableInv'
  OBVIOUS
<1>1. ASSUME NEW u \in Urls, NEW t \in Tags, Serve(u, t)
      PROVE  TypeOK' /\ TableInv'
  <2>1. TypeOK'
    BY <1>1 DEF Serve, TypeOK
  <2>2. TableInv'
    BY <1>1 DEF Serve, TableInv, Running
  <2> QED BY <2>1, <2>2
<1>2. CASE UNCHANGED vars
  <2>1. TypeOK'
    BY <1>2 DEF vars, TypeOK
  <2>2. TableInv'
    BY <1>2 DEF vars, TableInv, Running
  <2> QED BY <2>1, <2>2
<1> QED BY <1>1, <1>2, StartStopKeepTable, ReplaceKeepsTable, FetchKeepsTable,
           CheckKeepsTable DEF Next

\* The types and the shape of the table hold in every state: requests are
\* priced by the two lists overlaid, never by a table that is only half
\* updated (prices.go publish).
THEOREM TableKept == Spec => [](TypeOK /\ TableInv)
BY TableInit, TableStep, PTL DEF Spec

-----------------------------------------------------------------------------
(* The refinement.                                                         *)

\* Every step of the service is a step of the price list, or none.
LEMMA StepSimulation ==
    TypeOK /\ TableInv /\ [Next]_vars => [List!PriceNext]_(List!priceVars)
<1> SUFFICES ASSUME TypeOK, TableInv, [Next]_vars
             PROVE  List!PriceNext \/ UNCHANGED List!priceVars
  OBVIOUS
<1>0. /\ List!Lists = Lists /\ List!Empty = Empty
      /\ \A c : List!Acceptable(c) <=> Acceptable(c)
      /\ \A m, c : List!Overlay(m, c) = Effective(m, c)
  BY DEF List!Lists, Lists, List!Empty, Empty, List!Overlay, Effective,
         List!Acceptable, Acceptable
<1>t. /\ store.manual \in Lists /\ store.catalog \in Lists
      /\ check.prices \in Lists
  BY DEF TypeOK
<1>1. ASSUME NEW u \in Urls \cup {Off}, Load(u)
      PROVE  sink = NoTable /\ List!Restart
  <2>1. /\ catalogPrices' \in Lists
        /\ catalogPrices' = Empty \/ Acceptable(catalogPrices')
    BY <1>1, <1>t, EmptyTyped DEF Load, TableInv
  <2>2. sink = NoTable /\ manual' = store.manual
        /\ sink' = Effective(manual', catalogPrices')
    BY <1>1 DEF Load, Running
  <2> QED BY <1>0, <1>t, <2>1, <2>2 DEF List!Restart
<1>2. ASSUME Exit PROVE sink # NoTable /\ List!Stop
  BY <1>0, <1>2 DEF Exit, Running, List!Stop
<1>3. ASSUME PublishManual PROVE sink # NoTable /\ List!SetManual
  <2>1. /\ manual' = store.manual /\ sink' = Effective(manual', catalogPrices)
        /\ mu = "replace" /\ UNCHANGED catalogPrices
    BY <1>3 DEF PublishManual
  <2>2. sink # NoTable
    BY <2>1 DEF TableInv, Running
  <2> QED BY <1>0, <1>t, <2>1, <2>2 DEF List!SetManual
<1>4. ASSUME PublishCatalog PROVE sink # NoTable /\ List!SetCatalog
  <2>1. /\ catalogPrices' = check.prices
        /\ sink' = Effective(manual, catalogPrices')
        /\ mu = "changed" /\ UNCHANGED manual
    BY <1>4 DEF PublishCatalog
  <2>2. sink # NoTable /\ Acceptable(check.prices)
    BY <2>1 DEF TableInv, Running
  <2> QED BY <1>0, <1>t, <2>1, <2>2 DEF List!SetCatalog
<1>5. ASSUME \/ \E m \in Overrides : StoreManual(m)
             \/ BeginCheck \/ RecordFailure \/ StoreCheck \/ RefuseCheck
             \/ \E answer \in {"unchanged", "document", "failed"} :
                   Fetch(answer)
             \/ \E u \in Urls, t \in Tags : Serve(u, t)
             \/ UNCHANGED vars
      PROVE  UNCHANGED List!priceVars
  BY <1>5 DEF StoreManual, BeginCheck, RecordFailure, StoreCheck, RefuseCheck,
              Fetch, Serve, vars, List!priceVars
<1> QED BY <1>1, <1>2, <1>3, <1>4, <1>5 DEF Next, List!PriceNext

\* The service implements PriceList, for any keys, rates, catalogs and
\* documents: its initial states map to PriceList's, and every step of a
\* Replace, a check or a restart is one of PriceList's steps or changes
\* nothing a request can see (prices.go publish, acceptCatalog, Load).
THEOREM ImplementsPriceList == Spec => KeepsPriceList
<1>1. Init => List!PriceInit
  BY DEF Init, List!PriceInit, List!Empty, Empty
<1> QED BY <1>1, StepSimulation, TableKept, PTL
        DEF Spec, KeepsPriceList, List!PriceListSpec

-----------------------------------------------------------------------------
(* What is stored.                                                         *)

\* The validators a check sent are the service's own, and stay so while it
\* is under way; a document it brought is the one its tag stands for.
CheckInv ==
    /\ check.pc = "fetch" =>
          check.tag = IF state.url = url THEN state.tag ELSE NoTag
    /\ check.pc = "record" /\ check.unchanged =>
          /\ check.tag \in Tags
          /\ state.tag = check.tag /\ state.url = url
    /\ check.pc = "record" /\ ~ check.unchanged /\ check.tag # NoTag =>
          check.prices = Parse(DocOf[url, check.tag])

\* What every write that was not lost leaves: stored validators stand for
\* the stored catalog, and the store is ahead of the service only by what
\* the holder of `mu' is about to publish.
StoreInv ==
    /\ store.state.tag # NoTag =>
          /\ store.state.url \in Urls
          /\ store.catalog = Parse(DocOf[store.state.url, store.state.tag])
    /\ Running /\ mu # "replace" => store.manual = manual
    /\ Running /\ url # Off /\ mu # "changed" =>
          store.catalog = catalogPrices
    /\ Running /\ url # Off => store.state = state
    /\ mu = "changed" => store.catalog = check.prices

LEMMA CheckStep ==
    TypeOK /\ TableInv /\ CheckInv /\ [Next]_vars => CheckInv'
<1> SUFFICES ASSUME TypeOK, TableInv, CheckInv, [Next]_vars PROVE CheckInv'
  OBVIOUS
<1>0. check \in CheckRec
  BY DEF TypeOK, CheckRec
<1>i. Idle.pc = "idle"
  BY DEF Idle
<1>1. ASSUME NEW u \in Urls \cup {Off}, Load(u) PROVE CheckInv'
  BY <1>1, <1>i DEF Load, TableInv, CheckInv
<1>2. CASE Exit
  BY <1>2, <1>i DEF Exit, CheckInv
<1>3. ASSUME NEW m \in Overrides, StoreManual(m) PROVE CheckInv'
  BY <1>3 DEF StoreManual, CheckInv
<1>4. CASE PublishManual
  BY <1>4 DEF PublishManual, CheckInv
<1>5. CASE BeginCheck
  BY <1>5 DEF BeginCheck, CheckInv, Idle
<1>6. ASSUME NEW answer \in {"unchanged", "document", "failed"},
             Fetch(answer)
      PROVE  CheckInv'
  <2> DEFINE tag == served[url]
             doc == Parse(DocOf[url, tag])
  <2>0. check.pc = "fetch"
    BY <1>6 DEF Fetch
  <2>1. url # Off
    BY <2>0 DEF TableInv
  <2>2. tag \in Tags /\ tag # NoTag
    BY <2>1, ServedTyped, PricesAssumption
  <2>3. /\ \/ /\ check.tag = tag
              /\ check' = [check EXCEPT !.pc = "record", !.unchanged = TRUE]
           \/ \E t \in {tag, NoTag} :
                 check' = [pc |-> "record", tag |-> t, prices |-> doc,
                           unchanged |-> FALSE]
           \/ check' = [check EXCEPT !.pc = "failed"]
        /\ UNCHANGED <<url, state>>
    BY <1>6 DEF Fetch
  <2>4. CASE /\ check.tag = tag
             /\ check' = [check EXCEPT !.pc = "record", !.unchanged = TRUE]
    <3>1. /\ check'.pc = "record" /\ check'.unchanged
          /\ check'.tag = tag
      BY <1>0, <2>4 DEF CheckRec
    <3>2. state.url = url /\ state.tag = tag
      BY <2>0, <2>2, <2>4 DEF CheckInv
    <3> HIDE DEF tag, doc
    <3> QED BY <2>2, <2>3, <3>1, <3>2 DEF CheckInv
  <2>5. ASSUME NEW t \in {tag, NoTag},
               check' = [pc |-> "record", tag |-> t, prices |-> doc,
                         unchanged |-> FALSE]
        PROVE  CheckInv'
    <3>1. /\ check'.pc = "record" /\ ~ check'.unchanged
          /\ check'.tag = t /\ check'.prices = doc
      BY <2>5
    <3>2. check'.tag # NoTag => check'.prices = Parse(DocOf[url', check'.tag])
      BY <2>3, <2>5, <3>1
    <3> HIDE DEF doc
    <3> QED BY <3>1, <3>2 DEF CheckInv
  <2>6. CASE check' = [check EXCEPT !.pc = "failed"]
    <3>1. check'.pc = "failed"
      BY <1>0, <2>6 DEF CheckRec
    <3> QED BY <3>1 DEF CheckInv
  <2> QED BY <2>3, <2>4, <2>5, <2>6
<1>7. CASE RecordFailure
  BY <1>7, <1>i DEF RecordFailure, CheckInv
<1>8. CASE StoreCheck
  <2>1. check'.pc \in {"publish", "idle"}
    BY <1>0, <1>8, <1>i DEF StoreCheck, CheckRec
  <2> QED BY <2>1 DEF CheckInv
<1>9. CASE RefuseCheck
  <2>1. check'.pc = "failed"
    BY <1>0, <1>9 DEF RefuseCheck, CheckRec
  <2> QED BY <2>1 DEF CheckInv
<1>10. CASE PublishCatalog
  BY <1>10, <1>i DEF PublishCatalog, CheckInv
<1>11. ASSUME NEW u \in Urls, NEW t \in Tags, Serve(u, t) PROVE CheckInv'
  BY <1>11 DEF Serve, CheckInv
<1>12. CASE UNCHANGED vars
  BY <1>12 DEF vars, CheckInv
<1> QED BY <1>1, <1>2, <1>3, <1>4, <1>5, <1>6, <1>7, <1>8, <1>9, <1>10, <1>11,
           <1>12 DEF Next

LEMMA StoreStep ==
    TypeOK /\ TableInv /\ CheckInv /\ (~ lost => StoreInv) /\ [Next]_vars
        => (~ lost' => StoreInv')
<1> SUFFICES ASSUME TypeOK, TableInv, CheckInv, ~ lost => StoreInv,
                    [Next]_vars, ~ lost'
             PROVE  StoreInv'
  OBVIOUS
<1> DEFINE Store == [manual : Lists, catalog : Lists, state : States]
<1>0. check \in CheckRec /\ store \in Store /\ lost \in BOOLEAN
  BY DEF TypeOK, CheckRec
<1>i. Idle.pc = "idle"
  BY DEF Idle
<1>1. ASSUME NEW u \in Urls \cup {Off}, Load(u) PROVE StoreInv'
  <2>1. store' = store /\ mu' = mu /\ mu = "free" /\ StoreInv
    BY <1>1 DEF Load, TableInv
  <2> QED BY <1>1, <2>1 DEF Load, StoreInv
<1>2. CASE Exit
  <2>1. store' = store /\ mu' = "free" /\ sink' = NoTable /\ StoreInv
    BY <1>2 DEF Exit
  <2> QED BY <2>1 DEF StoreInv, Running
<1>3. ASSUME NEW m \in Overrides, StoreManual(m) PROVE StoreInv'
  <2>1. /\ mu' = "replace" /\ mu = "free" /\ StoreInv /\ Running
        /\ UNCHANGED <<manual, catalogPrices, sink, url, state, check>>
    BY <1>3 DEF StoreManual
  <2>2. store'.catalog = store.catalog /\ store'.state = store.state
    BY <1>0, <1>3 DEF StoreManual
  <2> QED BY <2>1, <2>2 DEF StoreInv, Running
<1>4. CASE PublishManual
  <2>1. /\ store' = store /\ mu = "replace" /\ mu' = "free" /\ StoreInv
        /\ Running /\ manual' = store.manual
        /\ UNCHANGED <<catalogPrices, url, state, check>>
    BY <1>4 DEF PublishManual, TableInv
  <2> QED BY <2>1 DEF StoreInv
<1>5. ASSUME \/ BeginCheck
             \/ \E answer \in {"unchanged", "document", "failed"} :
                   Fetch(answer)
      PROVE  StoreInv'
  <2>1. /\ UNCHANGED <<store, manual, catalogPrices, sink, url, state, mu, lost>>
        /\ check.pc \in {"idle", "fetch"}
    BY <1>5 DEF BeginCheck, Fetch
  <2>2. mu # "changed" /\ StoreInv
    BY <2>1 DEF TableInv
  <2> QED BY <2>1, <2>2 DEF StoreInv, Running
<1>6. CASE RecordFailure
  <2>1. /\ check.pc = "failed" /\ mu = "free" /\ lost' = lost
        /\ store' \in {store, [store EXCEPT !.state = state]}
        /\ UNCHANGED <<manual, catalogPrices, sink, url, state, mu>>
    BY <1>6 DEF RecordFailure
  <2>2. Running /\ url # Off /\ StoreInv
    BY <1>i, <2>1 DEF TableInv
  <2>3. store' = store
    BY <1>0, <2>1, <2>2 DEF StoreInv
  <2> QED BY <2>1, <2>2, <2>3 DEF StoreInv, Running
<1>7. CASE StoreCheck
  <2>1. /\ check.pc = "record" /\ mu = "free" /\ lost' = lost
        /\ store' = Stored /\ state' = CheckedState
        /\ \/ Changed /\ mu' = "changed"
              /\ check' = [check EXCEPT !.pc = "publish"]
           \/ ~ Changed /\ mu' = "free"
        /\ UNCHANGED <<manual, catalogPrices, sink, url>>
    BY <1>7 DEF StoreCheck
  <2>2. Running /\ url \in Urls /\ url # Off /\ StoreInv
    BY <1>i, <2>1 DEF TableInv, TypeOK
  <2>3. /\ store'.manual = store.manual /\ store'.state = state'
        /\ store'.catalog = IF Changed THEN check.prices ELSE store.catalog
        /\ state' \in States
    BY <2>1, CheckedTyped
  <2>4. mu' = "changed" => Changed /\ check'.prices = check.prices
    BY <1>0, <2>1 DEF CheckRec
  <2>5. store'.catalog = IF check.unchanged THEN store.catalog
                         ELSE check.prices
    BY <2>1, <2>2, <2>3 DEF Changed, StoreInv
  <2>6. state'.tag # NoTag =>
           /\ state'.url \in Urls
           /\ store'.catalog = Parse(DocOf[state'.url, state'.tag])
    <3>1. CASE check.unchanged
      BY <2>1, <2>2, <2>5, <3>1 DEF CheckedState, StoreInv
    <3>2. CASE ~ check.unchanged
      BY <2>1, <2>2, <2>5, <3>2 DEF CheckedState, CheckInv
    <3> QED BY <3>1, <3>2
  <2> QED BY <2>1, <2>2, <2>3, <2>4, <2>6 DEF StoreInv, Running
<1>8. CASE RefuseCheck
  <2>1. /\ check.pc = "record" /\ mu = "free" /\ store' = store
        /\ StoreInv
        /\ UNCHANGED <<manual, catalogPrices, sink, url, state, mu>>
    BY <1>0, <1>8 DEF RefuseCheck
  <2> QED BY <2>1 DEF StoreInv, Running
<1>9. CASE PublishCatalog
  <2>1. /\ mu = "changed" /\ mu' = "free" /\ StoreInv
        /\ catalogPrices' = check.prices
        /\ UNCHANGED <<manual, store, url, state>>
    BY <1>9 DEF PublishCatalog
  <2>2. Running
    BY <2>1 DEF TableInv
  <2> QED BY <2>1, <2>2 DEF StoreInv
<1>10. ASSUME NEW u \in Urls, NEW t \in Tags, Serve(u, t) PROVE StoreInv'
  BY <1>10 DEF Serve, StoreInv, Running
<1>11. CASE UNCHANGED vars
  BY <1>11 DEF vars, StoreInv, Running
<1> QED BY <1>1, <1>2, <1>3, <1>4, <1>5, <1>6, <1>7, <1>8, <1>9, <1>10, <1>11
        DEF Next

\* Neither a conditional check nor a restart brings back prices other than
\* the ones in force, for any number of catalogs, checks, overrides and
\* restarts, up to the first write that was committed and reported as failed
\* (prices.go check, recordSuccess, recordFailure, Load).
THEOREM PricesInForce == Spec => []PricesMatchStore
<1> DEFINE IInv == TypeOK /\ TableInv /\ CheckInv /\ (~ lost => StoreInv)
<1>1. Init => CheckInv /\ (~ lost => StoreInv)
  <2> SUFFICES ASSUME Init PROVE CheckInv /\ StoreInv
    OBVIOUS
  <2>1. check.pc = "idle" /\ mu = "free" /\ ~ Running
    BY DEF Init, Idle, Running
  <2>2. store.state.tag = NoTag
    BY DEF Init, NoState
  <2> QED BY <2>1, <2>2 DEF CheckInv, StoreInv
<1>2. IInv => PricesMatchStore
  <2> SUFFICES ASSUME IInv PROVE PricesMatchStore
    OBVIOUS
  <2>1. UnchangedIsTrue
    <3> SUFFICES ASSUME check.pc = "record", check.unchanged, ~ lost
                 PROVE  catalogPrices = Parse(DocOf[url, check.tag])
      BY DEF UnchangedIsTrue
    <3>1. Running /\ url # Off /\ mu # "changed"
      BY DEF TableInv, Idle
    <3>2. /\ store.state = state /\ store.catalog = catalogPrices
          /\ state.tag = check.tag /\ state.url = url /\ check.tag \in Tags
      BY <3>1 DEF StoreInv, CheckInv
    <3> QED BY <3>2, PricesAssumption DEF StoreInv
  <2>2. ListsMatchStore
    BY DEF ListsMatchStore, StoreInv
  <2> QED BY <2>1, <2>2 DEF PricesMatchStore
<1>3. IInv /\ [Next]_vars => IInv'
  BY TableStep, CheckStep, StoreStep
<1> HIDE DEF IInv
<1>4. Init => IInv
  BY <1>1, TableInit DEF IInv
<1> QED BY <1>2, <1>3, <1>4, PTL DEF Spec
=============================================================================
