-------------------------- MODULE UsageSinkProofs --------------------------
(***************************************************************************)
(* Proofs about UsageCost and UsageSink: the sink splits a vendor's true   *)
(* report into the kinds there were, prices no token twice, and so does    *)
(* every row it writes, for any number of records, any queue and batch     *)
(* sizes, any counts and any prices.                                       *)
(***************************************************************************)
EXTENDS UsageSink, FiniteSetTheorems, NaturalsInduction, WellFoundedInduction,
        TLAPS

\* The fields of a split (partitionDetail).
LEMMA SplitFields ==
    ASSUME NEW p, NEW d
    PROVE  /\ Split(p, d)["input"] = Positive(d.input) - InPrompt(p, d)
           /\ Split(p, d)["output"] = Positive(d.output) - InOutput(p, d)
           /\ Split(p, d)["reasoning"] = Positive(d.reasoning)
           /\ Split(p, d)["cacheRead"] = CacheRead(d)
           /\ Split(p, d)["cacheWrite"] = Positive(d.cacheWrite)
BY DEF Split, Kinds

\* A sum of natural kinds is natural.
LEMMA ClassifiedNat ==
    ASSUME NEW t \in [Kinds -> Nat]
    PROVE  Classified(t) \in Nat
BY DEF Classified, Kinds

\* What is taken out of a detail is never negative.
LEMMA CountsNat ==
    ASSUME NEW p \in Protocols, NEW d \in Detail
    PROVE  /\ Positive(d.input) \in Nat /\ Positive(d.output) \in Nat
           /\ Positive(d.reasoning) \in Nat /\ Positive(d.cacheWrite) \in Nat
           /\ Positive(d.cached) \in Nat
           /\ CacheRead(d) \in Nat
           /\ InPrompt(p, d) \in Nat /\ InOutput(p, d) \in Nat
           /\ Implied(d) \in Nat
<1>1. /\ d.input \in Int /\ d.output \in Int /\ d.reasoning \in Int
      /\ d.cacheRead \in Int /\ d.cacheWrite \in Int /\ d.cached \in Int
  BY DEF Detail
<1>2. \A n \in Int : Positive(n) \in Nat
  BY DEF Positive
<1>3. CacheRead(d) \in Nat
  BY <1>1, <1>2 DEF CacheRead
<1>4. InPrompt(p, d) \in Nat /\ InOutput(p, d) \in Nat
  BY <1>1, <1>2, <1>3 DEF InPrompt, InOutput
<1>5. \A m, n \in Nat : Greater(m, n) \in Nat
  BY DEF Greater
<1>6. Implied(d) \in Nat
  <2> DEFINE cache == CacheRead(d) + Positive(d.cacheWrite)
  <2>1. cache \in Nat
    BY <1>1, <1>2, <1>3
  <2>2. Greater(Greater(Positive(d.input), cache), Positive(d.cached)) \in Nat
    BY <1>1, <1>2, <1>5, <2>1
  <2>3. Greater(Positive(d.output), Positive(d.reasoning)) \in Nat
    BY <1>1, <1>2, <1>5
  <2> QED BY <2>2, <2>3 DEF Implied
<1> QED BY <1>1, <1>2, <1>3, <1>4, <1>6

\* partitionDetail makes a partition: natural kinds within the total.
LEMMA PartitionIsOne ==
    ASSUME NEW p \in Protocols, NEW d \in Detail
    PROVE  /\ PartitionDetail(p, d).kinds \in [Kinds -> Nat]
           /\ PartitionDetail(p, d).total \in Nat
           /\ Classified(PartitionDetail(p, d).kinds)
                 <= PartitionDetail(p, d).total
<1>0. d.total \in Int
  BY DEF Detail
<1>1. CASE Consistent(p, d)
  <2>1. Split(p, d) \in [Kinds -> Nat]
    <3>1. /\ Positive(d.input) - InPrompt(p, d) \in Nat
          /\ Positive(d.output) - InOutput(p, d) \in Nat
      BY <1>1, CountsNat DEF Consistent
    <3> QED BY <3>1, CountsNat DEF Split, Kinds
  <2>2. Classified(Split(p, d)) \in Nat
    BY <2>1, ClassifiedNat
  <2>3. /\ PartitionDetail(p, d).kinds = Split(p, d)
        /\ PartitionDetail(p, d).total =
              IF d.total > 0 THEN d.total ELSE Classified(Split(p, d))
    BY <1>1 DEF PartitionDetail
  <2> QED BY <1>0, <1>1, <2>1, <2>2, <2>3 DEF Consistent
<1>2. CASE ~ Consistent(p, d)
  <2>1. /\ PartitionDetail(p, d).kinds = Nothing
        /\ PartitionDetail(p, d).total =
              IF d.total > 0 THEN d.total ELSE Implied(d)
    BY <1>2 DEF PartitionDetail
  <2>2. Nothing \in [Kinds -> Nat] /\ Classified(Nothing) = 0
    BY DEF Nothing, Classified, Kinds
  <2> QED BY <1>0, <2>1, <2>2, CountsNat
<1> QED BY <1>1, <1>2

\* What partitionDetail makes of a true report is the truth (partitionDetail,
\* detailSemantics): each protocol's counts are taken apart as it puts them
\* together, with or without a total, and with the cache in either count.
THEOREM TruthReconstructed ==
    ASSUME NEW p \in Protocols, Known(p), NEW t \in [Kinds -> Nat],
           NEW totals \in BOOLEAN, NEW legacy \in BOOLEAN
    PROVE  PartitionDetail(p, Truthful(p, t, totals, legacy)) =
              [kinds |-> t, total |-> Classified(t)]
<1> DEFINE d == Truthful(p, t, totals, legacy)
<1>1. /\ t["input"] \in Nat /\ t["output"] \in Nat /\ t["reasoning"] \in Nat
      /\ t["cacheRead"] \in Nat /\ t["cacheWrite"] \in Nat
      /\ Classified(t) \in Nat
  BY ClassifiedNat DEF Kinds
<1>2. /\ d.input = t["input"] + (IF CacheInInput(p)
                                 THEN t["cacheRead"] + t["cacheWrite"] ELSE 0)
      /\ d.output = t["output"] + (IF ReasoningInOutput(p)
                                   THEN t["reasoning"] ELSE 0)
      /\ d.reasoning = t["reasoning"]
      /\ d.cacheRead = IF legacy /\ t["cacheWrite"] = 0
                       THEN 0 ELSE t["cacheRead"]
      /\ d.cacheWrite = t["cacheWrite"]
      /\ d.cached = IF t["cacheRead"] > 0 THEN t["cacheRead"]
                    ELSE t["cacheWrite"]
      /\ d.total = IF totals THEN Classified(t) ELSE 0
  BY DEF Truthful
<1> HIDE DEF d
<1>3. CacheRead(d) = t["cacheRead"]
  BY <1>1, <1>2 DEF CacheRead, Positive
<1>4. InPrompt(p, d) = (IF CacheInInput(p)
                        THEN t["cacheRead"] + t["cacheWrite"] ELSE 0)
  BY <1>1, <1>2, <1>3 DEF InPrompt, Positive
<1>5. InOutput(p, d) = (IF ReasoningInOutput(p) THEN t["reasoning"] ELSE 0)
  BY <1>1, <1>2 DEF InOutput, Positive
<1>6. Split(p, d) = t
  <2>1. /\ Positive(d.input) - InPrompt(p, d) = t["input"]
        /\ InPrompt(p, d) <= Positive(d.input)
    BY <1>1, <1>2, <1>4 DEF Positive
  <2>2. /\ Positive(d.output) - InOutput(p, d) = t["output"]
        /\ InOutput(p, d) <= Positive(d.output)
    BY <1>1, <1>2, <1>5 DEF Positive
  <2>3. /\ Positive(d.reasoning) = t["reasoning"]
        /\ Positive(d.cacheWrite) = t["cacheWrite"]
    BY <1>1, <1>2 DEF Positive
  <2>4. \A k \in Kinds : Split(p, d)[k] = t[k]
    BY <1>3, <2>1, <2>2, <2>3, SplitFields DEF Kinds
  <2>5. Split(p, d) \in [Kinds -> Nat]
    BY <1>1, <1>3, <2>1, <2>2, <2>3 DEF Split, Kinds
  <2> QED BY <2>4, <2>5
<1>7. Consistent(p, d)
  <2>1. InPrompt(p, d) <= Positive(d.input)
    BY <1>1, <1>2, <1>4 DEF Positive
  <2>2. InOutput(p, d) <= Positive(d.output)
    BY <1>1, <1>2, <1>5 DEF Positive
  <2> QED BY <1>1, <1>2, <1>6, <2>1, <2>2 DEF Consistent
<1>8. PartitionDetail(p, d) =
         [kinds |-> t,
          total |-> IF d.total > 0 THEN d.total ELSE Classified(t)]
  BY <1>6, <1>7 DEF PartitionDetail
<1>9. (IF d.total > 0 THEN d.total ELSE Classified(t)) = Classified(t)
  BY <1>1, <1>2
<1> QED BY <1>8, <1>9 DEF d

\* PriceUsage prices the kinds and leaves the rest of the total.
LEMMA PriceUsageSplits ==
    ASSUME NEW kinds \in [Kinds -> Nat], NEW total \in Nat,
           Classified(kinds) <= total, NEW price, NEW event,
           event.kinds = kinds, event.total = total
    PROVE  /\ PriceUsage(event, price).priced
                + PriceUsage(event, price).unpriced = total
           /\ price # NoPrice =>
                 /\ PriceUsage(event, price).usd = Cost(kinds, price)
                 /\ PriceUsage(event, price).unpriced
                       = total - Classified(kinds)
<1>1. Classified(kinds) \in Nat
  BY ClassifiedNat
<1>2. Positive(total - Classified(kinds)) = total - Classified(kinds)
  BY <1>1 DEF Positive
<1>3. CASE price = NoPrice
  BY <1>1, <1>2, <1>3 DEF PriceUsage
<1>4. CASE price # NoPrice
  BY <1>1, <1>2, <1>4 DEF PriceUsage
<1> QED BY <1>3, <1>4

\* No request costs anything when none of its tokens is classified.
LEMMA NothingIsFree ==
    ASSUME NEW price \in Rates
    PROVE  Cost(Nothing, price) = 0
<1>1. /\ price.input \in Nat /\ price.output \in Nat
      /\ price.cacheRead \in Nat /\ CacheWriteRate(price) \in Nat
  BY DEF Rates, CacheWriteRate
<1>2. \A n \in Nat : 0 * n = 0
  OBVIOUS
<1>3. \A k \in Kinds : Nothing[k] = 0
  BY DEF Nothing
<1> QED BY <1>1, <1>2, <1>3 DEF Cost, Kinds

\* Whatever a vendor reports, and at any price, no token of the request is
\* priced twice or left out, a true report costs what its tokens cost, and an
\* unknown protocol's nothing (eventOf, partitionDetail, PriceUsage).
THEOREM ReportsPricedOnce ==
    ASSUME NEW report, IsReport(report),
           NEW price, price = NoPrice \/ price \in Rates
    PROVE  PricedOnce(report, price)
<1> DEFINE event == EventOf(report)
           kinds == event.kinds
           cost == PriceUsage(event, price)
<1>1. /\ kinds \in [Kinds -> Nat] /\ event.total \in Nat
      /\ Classified(kinds) <= event.total
  <2>1. CASE report.breakdown = NoBreakdown
    BY <2>1, PartitionIsOne DEF EventOf, IsReport
  <2>2. CASE report.breakdown # NoBreakdown
    BY <2>2 DEF EventOf, IsReport
  <2> QED BY <2>1, <2>2
<1>2. /\ cost.priced + cost.unpriced = event.total
      /\ price # NoPrice =>
            /\ cost.usd = Cost(kinds, price)
            /\ cost.unpriced = event.total - Classified(kinds)
  <2> HIDE DEF event
  <2> QED BY <1>1, PriceUsageSplits
<1>3. ASSUME price # NoPrice, report.truth # Unknown
      PROVE  cost.usd = Cost(report.truth, price) /\ cost.unpriced = 0
  <2>1. /\ report.breakdown = NoBreakdown /\ report.protocol \in Protocols
        /\ Known(report.protocol) /\ report.truth \in [Kinds -> Nat]
    BY <1>3 DEF IsReport
  <2>2. PICK totals \in BOOLEAN, legacy \in BOOLEAN :
           report.detail = Truthful(report.protocol, report.truth, totals,
                                    legacy)
    BY <1>3 DEF IsReport
  <2>3. event = [kinds |-> report.truth, total |-> Classified(report.truth)]
    BY <2>1, <2>2, TruthReconstructed DEF EventOf
  <2>4. Classified(report.truth) \in Nat
    BY <2>1, ClassifiedNat
  <2>5. kinds = report.truth /\ event.total = Classified(report.truth)
    BY <2>3
  <2> HIDE DEF event, cost
  <2> QED BY <1>2, <1>3, <2>4, <2>5
<1>4. ASSUME report.breakdown = NoBreakdown, ~ Known(report.protocol)
      PROVE  cost.usd = 0
  <2>1. kinds = Nothing
    BY <1>4 DEF EventOf, PartitionDetail, Consistent
  <2>2. CASE price = NoPrice
    BY <2>2 DEF PriceUsage
  <2>3. CASE price # NoPrice
    <3> HIDE DEF event, cost
    <3> QED BY <1>2, <2>1, <2>3, NothingIsFree
  <2> QED BY <2>2, <2>3
<1> QED BY <1>2, <1>3, <1>4 DEF PricedOnce

-----------------------------------------------------------------------------
(* The sink's records are records.                                         *)

WorkerRec == [pc : WorkerPC, batch : Seq(Records), want : Int,
              flushing : BOOLEAN, left : Int, events : SUBSET Records]

RecordsInv ==
    /\ delivered \in 0 .. MaxRecords
    /\ hand \in Seq(Records)
    /\ queue \in Seq(Records)
    /\ worker \in WorkerRec

\* The members of a sequence of records are records.
LEMMA MembersAreRecords ==
    ASSUME NEW s \in Seq(Records)
    PROVE  ToSet(s) \subseteq Records
BY DEF ToSet

\* The fields of a worker.
LEMMA WorkerFields ==
    ASSUME NEW w \in WorkerRec
    PROVE  /\ w.pc \in WorkerPC /\ w.batch \in Seq(Records)
           /\ w.want \in Int /\ w.flushing \in BOOLEAN /\ w.left \in Int
           /\ w.events \in SUBSET Records
BY DEF WorkerRec

\* The waiting worker is one.
LEMMA IdleIsWorker == IdleWorker \in WorkerRec
<1> DEFINE zero == 0
           none == <<>>
<1>1. IdleWorker = [pc |-> "select", batch |-> none, want |-> zero,
                    flushing |-> FALSE, left |-> zero, events |-> {}]
  BY DEF IdleWorker
<1>2. zero \in Int /\ none \in Seq(Records) /\ "select" \in WorkerPC
  BY DEF WorkerPC
<1> HIDE DEF zero, none
<1> QED BY <1>1, <1>2 DEF WorkerRec

\* Every step of the worker moves records between the queue and its batch.
LEMMA WorkerKeepsRecords ==
    ASSUME RecordsInv, WorkerStep
    PROVE  RecordsInv'
<1>w. worker \in WorkerRec /\ queue \in Seq(Records)
  BY DEF RecordsInv
<1>0. /\ worker.pc \in WorkerPC /\ worker.batch \in Seq(Records)
      /\ worker.want \in Int /\ worker.left \in Int
      /\ worker.flushing \in BOOLEAN
  BY <1>w, WorkerFields
<1>n. Len(queue) \in Nat /\ Len(worker.batch) \in Nat /\ BatchMax \in Int
  BY <1>0, <1>w, SinkAssumption
<1>s. \A m, n \in Int : Smaller(m, n) \in Int
  BY DEF Smaller
<1>p. "fill" \in WorkerPC /\ "finish" \in WorkerPC /\ "write" \in WorkerPC
  BY DEF WorkerPC
<1>q. ASSUME queue # <<>>
      PROVE  /\ Tail(queue) \in Seq(Records)
             /\ Append(worker.batch, Head(queue)) \in Seq(Records)
  <2>1. Head(queue) \in Records /\ Tail(queue) \in Seq(Records)
    BY <1>q, <1>w
  <2> QED BY <1>0, <2>1
<1>r. ASSUME UNCHANGED <<delivered, hand>>, queue' \in Seq(Records),
             worker' \in WorkerRec
      PROVE  RecordsInv'
  BY <1>r DEF RecordsInv
<1>1. CASE ReceiveRecord
  <2> DEFINE batch == Append(worker.batch, Head(queue))
             want == BatchMax - 1
  <2>1. /\ UNCHANGED <<delivered, hand>> /\ queue # <<>>
        /\ queue' = Tail(queue)
        /\ worker' = [worker EXCEPT !.pc = "fill", !.want = want,
                                    !.batch = batch]
    BY <1>1 DEF ReceiveRecord
  <2>2. batch \in Seq(Records) /\ want \in Int
    BY <1>n, <1>q, <2>1
  <2> HIDE DEF batch, want
  <2>3. worker' \in WorkerRec
    BY <1>w, <1>p, <2>1, <2>2 DEF WorkerRec
  <2> QED BY <1>q, <1>r, <2>1, <2>3
<1>2. CASE ReceiveFlush
  <2> DEFINE pc == IF queue = <<>> THEN "finish" ELSE "fill"
             left == Len(queue)
             want == Smaller(Len(queue), BatchMax)
  <2>1. /\ UNCHANGED <<delivered, hand, queue>>
        /\ worker' = [worker EXCEPT !.pc = pc, !.flushing = TRUE,
                                    !.left = left, !.want = want]
    BY <1>2 DEF ReceiveFlush
  <2>2. pc \in WorkerPC /\ left \in Int /\ want \in Int
    BY <1>n, <1>p, <1>s
  <2> HIDE DEF pc, left, want
  <2>3. worker' \in WorkerRec
    BY <1>w, <2>1, <2>2 DEF WorkerRec
  <2> QED BY <1>r, <1>w, <2>1, <2>3
<1>3. CASE Fill
  <2> DEFINE batch == Append(worker.batch, Head(queue))
             want == worker.want - 1
  <2>1. /\ UNCHANGED <<delivered, hand>> /\ queue # <<>>
        /\ queue' = Tail(queue)
        /\ worker' = [worker EXCEPT !.want = want, !.batch = batch]
    BY <1>3 DEF Fill
  <2>2. batch \in Seq(Records) /\ want \in Int
    BY <1>0, <1>q, <2>1
  <2> HIDE DEF batch, want
  <2>3. worker' \in WorkerRec
    BY <1>w, <2>1, <2>2 DEF WorkerRec
  <2> QED BY <1>q, <1>r, <2>1, <2>3
<1>4. CASE Filled
  <2> DEFINE zero == 0
  <2>1. /\ UNCHANGED <<delivered, hand, queue>>
        /\ worker' = [worker EXCEPT !.pc = "write", !.want = zero]
    BY <1>4 DEF Filled
  <2>2. zero \in Int
    OBVIOUS
  <2> HIDE DEF zero
  <2>3. worker' \in WorkerRec
    BY <1>w, <1>p, <2>1, <2>2 DEF WorkerRec
  <2> QED BY <1>r, <1>w, <2>1, <2>3
<1>5. ASSUME NEW events \in SUBSET ToSet(worker.batch),
             WriteBatch(events) \/ WriteFails(events)
      PROVE  RecordsInv'
  <2>1. events \subseteq Records
    BY <1>0, MembersAreRecords
  <2> QED BY <1>5, <2>1
          DEF WriteBatch, WriteFails, RecordsInv, WorkerRec, WorkerPC
<1>6. CASE Touch
  BY <1>6 DEF Touch, RecordsInv, WorkerRec, WorkerPC
<1>7. CASE FinishBatch
  <2> DEFINE left == worker.left - Len(worker.batch)
             want == Smaller(left, BatchMax)
             none == <<>>
  <2>1. /\ UNCHANGED <<delivered, hand, queue>>
        /\ \/ worker' = [worker EXCEPT !.pc = "fill", !.batch = none,
                                       !.left = left, !.want = want]
           \/ worker' = IdleWorker
    BY <1>7 DEF FinishBatch
  <2>2. left \in Int /\ want \in Int /\ none \in Seq(Records)
    <3>1. left \in Int
      BY <1>0, <1>n
    <3>2. none \in Seq(Records)
      OBVIOUS
    <3> HIDE DEF left
    <3> QED BY <1>n, <1>s, <3>1, <3>2
  <2>3. IdleWorker \in WorkerRec
    BY IdleIsWorker
  <2> HIDE DEF left, want, none
  <2>4. worker' \in WorkerRec
    BY <1>w, <1>p, <2>1, <2>2, <2>3 DEF WorkerRec
  <2> QED BY <1>r, <1>w, <2>1, <2>4
<1> QED BY <1>1, <1>2, <1>3, <1>4, <1>5, <1>6, <1>7 DEF WorkerStep

\* What the queue and the batches carry are records upstream delivered.
LEMMA RecordsStay == Spec => []RecordsInv
<1>1. Init => RecordsInv
  BY SinkAssumption, IdleIsWorker DEF Init, RecordsInv
<1>2. RecordsInv /\ [Next]_vars => RecordsInv'
  <2> SUFFICES ASSUME RecordsInv, [Next]_vars PROVE RecordsInv'
    OBVIOUS
  <2>1. CASE HandleUsage
    <3>1. delivered + 1 \in Records /\ delivered + 1 \in 0 .. MaxRecords
      BY <2>1, SinkAssumption DEF HandleUsage, RecordsInv, Records
    <3>2. <<delivered + 1>> \in Seq(Records)
      BY <3>1
    <3> QED BY <2>1, <3>1, <3>2 DEF HandleUsage, RecordsInv
  <2>2. CASE Enqueue
    <3>1. queue \o hand \in Seq(Records) /\ <<>> \in Seq(Records)
      BY DEF RecordsInv
    <3> QED BY <2>2, <3>1 DEF Enqueue, RecordsInv
  <2>3. CASE DrainCall
    BY <2>3 DEF DrainCall, RecordsInv
  <2>4. CASE DrainExpires
    BY <2>4 DEF DrainExpires, RecordsInv
  <2>5. CASE WorkerStep
    BY <2>5, WorkerKeepsRecords
  <2>6. CASE UNCHANGED vars
    BY <2>6 DEF vars, RecordsInv
  <2> QED BY <2>1, <2>2, <2>3, <2>4, <2>5, <2>6 DEF Next
<1> QED BY <1>1, <1>2, PTL DEF Spec

\* Every row of every batch prices each token of its request once (process,
\* eventOf, PriceUsage), whatever the records report.
THEOREM RowsPricedOnce == Spec => []TokensPricedOnce
<1>1. RecordsInv => TokensPricedOnce
  <2> SUFFICES ASSUME RecordsInv, NEW x \in worker.events,
                      NEW report \in Reports[x], NEW price \in Prices
               PROVE  PricedOnce(report, price)
    BY DEF TokensPricedOnce
  <2>1. x \in 1 .. MaxRecords
    BY DEF RecordsInv, WorkerRec, Records
  <2>2. IsReport(report) /\ (price = NoPrice \/ price \in Rates)
    BY <2>1, SinkAssumption
  <2> QED BY <2>2, ReportsPricedOnce
<1> QED BY <1>1, RecordsStay, PTL

-----------------------------------------------------------------------------
(***************************************************************************)
(* Induction over a set of numbers.  The induction rule of the library has *)
(* an operator parameter; this one follows from its WFMin, which has none, *)
(* and is used with the set of the numbers a statement holds for.          *)
(***************************************************************************)
LEMMA LeastNumber ==
    ASSUME NEW T, T \subseteq Nat, T # {}
    PROVE  \E n \in T : \A m \in T : n <= m
<1> DEFINE below == {p \in Nat \X Nat : p[1] < p[2]}
<1>1. IsWellFoundedOn(below, Nat)
  BY NatLessThanWellFounded, Zenon DEF OpToRel
<1>2. PICK n \in T : \A m \in T : ~ (<<m, n>> \in below)
  <2> HIDE DEF below
  <2> QED BY <1>1, WFMin
<1>3. ASSUME NEW m \in T PROVE n <= m
  <2>1. n \in Nat /\ m \in Nat
    BY <1>2
  <2>2. ~ (m < n)
    BY <1>2, <2>1
  <2> QED BY <2>1, <2>2
<1> QED BY <1>2, <1>3

LEMMA SetInduction ==
    ASSUME NEW S, 0 \in S, \A n \in Nat : n \in S => n + 1 \in S
    PROVE  Nat \subseteq S
<1> SUFFICES ASSUME Nat \ S # {} PROVE FALSE
  OBVIOUS
<1>1. PICK n \in Nat \ S : \A m \in Nat \ S : n <= m
  BY LeastNumber
<1>2. n # 0 /\ n - 1 \in Nat /\ n - 1 \in S
  <2>1. n # 0 /\ n - 1 \in Nat
    BY <1>1
  <2>2. ~ (n <= n - 1)
    BY <1>1
  <2> QED BY <1>1, <2>1, <2>2
<1> QED BY <1>1, <1>2

-----------------------------------------------------------------------------
(* Written defines the rows of a batch, one record at a time.              *)

NextRows(rows, i, batch, events) ==
    IF batch[i] \in events THEN Append(rows[i - 1], batch[i]) ELSE rows[i - 1]

RowsUpto(rows, n, batch, events) ==
    rows = [i \in 0 .. n |-> IF i = 0 THEN <<>>
                             ELSE NextRows(rows, i, batch, events)]

LEMMA RowsExist ==
    ASSUME NEW batch, NEW events, NEW n \in Nat
    PROVE  \E rows : RowsUpto(rows, n, batch, events)
<1> DEFINE S == {k \in Nat : \E rows : RowsUpto(rows, k, batch, events)}
<1>1. 0 \in S
  <2> DEFINE f == [i \in 0 .. 0 |-> <<>>]
  <2>1. f = [i \in 0 .. 0 |-> IF i = 0 THEN <<>>
                              ELSE NextRows(f, i, batch, events)]
    OBVIOUS
  <2> QED BY <2>1 DEF RowsUpto
<1>2. ASSUME NEW k \in Nat, k \in S PROVE k + 1 \in S
  <2>1. PICK f : f = [i \in 0 .. k |-> IF i = 0 THEN <<>>
                                       ELSE NextRows(f, i, batch, events)]
    BY <1>2 DEF RowsUpto
  <2> DEFINE D == 0 .. k + 1
             last == NextRows(f, k + 1, batch, events)
             g == [i \in D |-> IF i <= k THEN f[i] ELSE last]
             h == [i \in D |-> IF i = 0 THEN <<>>
                               ELSE NextRows(g, i, batch, events)]
  <2>2. ASSUME NEW i \in D PROVE g[i] = h[i]
    <3>1. CASE i = 0
      <4>1. f[0] = <<>>
        BY <2>1
      <4> QED BY <3>1, <4>1
    <3>2. CASE i \in 1 .. k
      <4>1. g[i] = f[i] /\ g[i - 1] = f[i - 1]
        BY <3>2
      <4>2. f[i] = NextRows(f, i, batch, events)
        BY <2>1, <3>2
      <4>3. h[i] = NextRows(g, i, batch, events)
        BY <3>2
      <4> HIDE DEF g, h
      <4> QED BY <4>1, <4>2, <4>3 DEF NextRows
    <3>3. CASE i = k + 1
      <4>1. g[i] = last /\ g[i - 1] = f[i - 1]
            /\ h[i] = NextRows(g, i, batch, events)
        BY <3>3
      <4> HIDE DEF g, h
      <4> QED BY <3>3, <4>1 DEF NextRows
    <3> QED BY <3>1, <3>2, <3>3
  <2>3. g = h
    <3> HIDE DEF last
    <3>1. g = [i \in D |-> g[i]] /\ h = [i \in D |-> h[i]]
      OBVIOUS
    <3>2. \A i \in D : g[i] = h[i]
      BY <2>2
    <3> HIDE DEF g, h, D
    <3> QED BY <3>1, <3>2
  <2> HIDE DEF g
  <2> QED BY <2>3 DEF RowsUpto
<1> HIDE DEF S
<1>3. Nat \subseteq S
  BY <1>1, <1>2, SetInduction
<1> QED BY <1>3 DEF S

LEMMA MembersAppended ==
    ASSUME NEW s \in Seq(Records), NEW x \in Records
    PROVE  ToSet(Append(s, x)) = ToSet(s) \cup {x}
<1> DEFINE t == Append(s, x)
           n == Len(s)
<1>1. /\ t \in Seq(Records) /\ Len(t) = n + 1 /\ n \in Nat
      /\ t[n + 1] = x /\ \A i \in 1 .. n : t[i] = s[i]
  OBVIOUS
<1>2. DOMAIN t = 1 .. n + 1 /\ DOMAIN s = 1 .. n
  BY <1>1
<1> HIDE DEF t, n
<1>3. 1 .. n + 1 = (1 .. n) \cup {n + 1}
  BY <1>1
<1> QED BY <1>1, <1>2, <1>3 DEF ToSet, t

Increasing(s) == \A i, j \in 1 .. Len(s) : i < j => s[i] < s[j]

\* The rows of a batch in the order of delivery are in that order too, and
\* with the records that were lost they are all of the batch.
LEMMA WrittenFacts ==
    ASSUME NEW batch \in Seq(Records), Increasing(batch), NEW events
    PROVE  LET w == Written(batch, events)
               gone == ToSet(batch) \ events
           IN  /\ w \in Seq(Records) /\ Increasing(w)
               /\ ToSet(w) = ToSet(batch) \cap events
               /\ IsFiniteSet(gone)
               /\ Len(w) + Cardinality(gone) = Len(batch)
<1> DEFINE n == Len(batch)
           Gone(i) == {batch[j] : j \in 1 .. i} \ events
<1>0. n \in Nat /\ \A i \in 1 .. n : batch[i] \in Records /\ batch[i] \in Int
  <2>1. n \in Nat /\ \A i \in 1 .. n : batch[i] \in Records
    OBVIOUS
  <2>2. Records \subseteq Int
    BY SinkAssumption DEF Records
  <2> QED BY <2>1, <2>2
<1>1. PICK f : f = [i \in 0 .. n |-> IF i = 0 THEN <<>>
                       ELSE IF batch[i] \in events
                       THEN Append(f[i - 1], batch[i]) ELSE f[i - 1]]
               /\ Written(batch, events) = f[n]
  <2> DEFINE Body(g) == [i \in 0 .. n |-> IF i = 0 THEN <<>>
                            ELSE IF batch[i] \in events
                            THEN Append(g[i - 1], batch[i]) ELSE g[i - 1]]
  <2>1. \E g : g = Body(g)
    <3>1. PICK g : RowsUpto(g, n, batch, events)
      BY <1>0, RowsExist
    <3>2. g = Body(g)
      BY <3>1 DEF RowsUpto, NextRows
    <3> QED BY <3>2
  <2>2. PICK g : g = CHOOSE h : h = Body(h)
    OBVIOUS
  <2>3. g = Body(g)
    BY <2>1, <2>2
  <2>4. Written(batch, events) = g[n]
    BY <2>2 DEF Written
  <2> QED BY <2>3, <2>4
<1> HIDE DEF n
<1> DEFINE Good(i) ==
       /\ f[i] \in Seq(Records) /\ Increasing(f[i])
       /\ \A x : x \in ToSet(f[i]) <=>
                    x \in events /\ \E j \in 1 .. i : x = batch[j]
       /\ IsFiniteSet(Gone(i))
       /\ Len(f[i]) + Cardinality(Gone(i)) = i
           S == {i \in Nat : i <= n => Good(i)}
<1>2. 0 \in S
  <2>1. f[0] = <<>>
    BY <1>0, <1>1
  <2>2. Gone(0) = {}
    OBVIOUS
  <2>3. IsFiniteSet(Gone(0)) /\ Cardinality(Gone(0)) = 0
    BY <2>2, FS_EmptySet
  <2>4. /\ <<>> \in Seq(Records) /\ Len(<<>>) = 0 /\ Increasing(<<>>)
        /\ \A x : x \notin ToSet(<<>>)
    BY DEF Increasing, ToSet
  <2>5. Good(0)
    <3> HIDE DEF Gone
    <3> QED BY <2>1, <2>3, <2>4
  <2> QED BY <2>5
<1>3. ASSUME NEW i \in Nat, i \in S PROVE i + 1 \in S
  <2> SUFFICES ASSUME i + 1 <= n PROVE Good(i + 1)
    OBVIOUS
  <2>1. Good(i) /\ i + 1 \in 1 .. n /\ i \in 0 .. n
    BY <1>0, <1>3
  <2>2. PICK x \in Records : x = batch[i + 1]
    BY <1>0, <2>1
  <2>3. x \in Int /\ \A j \in 1 .. i : batch[j] \in Int /\ batch[j] < x
    BY <1>0, <2>1, <2>2 DEF Increasing, n
  <2>4. f[i + 1] = IF x \in events THEN Append(f[i], x) ELSE f[i]
    <3>1. (i + 1) - 1 = i /\ i + 1 # 0 /\ i + 1 \in 0 .. n
      BY <1>0, <2>1
    <3> QED BY <1>1, <2>2, <3>1
  <2>5. {batch[j] : j \in 1 .. i + 1} = {batch[j] : j \in 1 .. i} \cup {x}
    BY <2>2
  <2>6. x \notin {batch[j] : j \in 1 .. i}
    BY <2>3
  <2>7. Len(f[i]) \in Nat /\ Cardinality(Gone(i)) \in Nat
    BY <2>1, FS_CardinalityType
  <2>8. \A k \in 1 .. Len(f[i]) : f[i][k] \in Int /\ f[i][k] < x
    <3> SUFFICES ASSUME NEW k \in 1 .. Len(f[i])
                 PROVE  f[i][k] \in Int /\ f[i][k] < x
      OBVIOUS
    <3>1. f[i][k] \in ToSet(f[i])
      BY <2>1 DEF ToSet
    <3>2. PICK j \in 1 .. i : f[i][k] = batch[j]
      BY <2>1, <3>1
    <3> QED BY <2>3, <3>2
  <2>9. CASE x \in events
    <3>1. f[i + 1] = Append(f[i], x) /\ f[i + 1] \in Seq(Records)
          /\ Len(f[i + 1]) = Len(f[i]) + 1
      BY <2>1, <2>4, <2>9
    <3>2. Increasing(f[i + 1])
      <4> SUFFICES ASSUME NEW k \in 1 .. Len(f[i]) + 1,
                          NEW m \in 1 .. Len(f[i]) + 1, k < m
                   PROVE  f[i + 1][k] < f[i + 1][m]
        BY <3>1 DEF Increasing
      <4>1. k \in 1 .. Len(f[i]) /\ f[i + 1][k] = f[i][k]
        BY <2>1, <2>7, <3>1
      <4>2. CASE m = Len(f[i]) + 1
        BY <2>1, <2>8, <3>1, <4>1, <4>2
      <4>3. CASE m \in 1 .. Len(f[i])
        BY <2>1, <3>1, <4>1, <4>3 DEF Increasing
      <4> QED BY <2>7, <4>2, <4>3
    <3>3. ToSet(f[i + 1]) = ToSet(f[i]) \cup {x}
      BY <2>1, <3>1, MembersAppended
    <3>4. \A y : (\E j \in 1 .. i + 1 : y = batch[j])
                    <=> (y = x \/ \E j \in 1 .. i : y = batch[j])
      BY <2>2
    <3>5. \A y : y \in ToSet(f[i + 1]) <=>
                    y \in events /\ \E j \in 1 .. i + 1 : y = batch[j]
      <4> HIDE DEF Gone
      <4> QED BY <2>1, <2>9, <3>3, <3>4
    <3>6. Gone(i + 1) = Gone(i)
      BY <2>5, <2>9
    <3> HIDE DEF Gone
    <3>7. Len(f[i + 1]) + Cardinality(Gone(i + 1)) = i + 1
      BY <2>1, <2>7, <3>1, <3>6
    <3>8. f[i + 1] \in Seq(Records) /\ IsFiniteSet(Gone(i + 1))
      BY <2>1, <3>1, <3>6
    <3> QED BY <3>2, <3>5, <3>7, <3>8
  <2>10. CASE x \notin events
    <3>1. f[i + 1] = f[i]
      BY <2>4, <2>10
    <3>2. Gone(i + 1) = Gone(i) \cup {x} /\ x \notin Gone(i)
      BY <2>5, <2>6, <2>10
    <3>3. \A y : (\E j \in 1 .. i + 1 : y = batch[j])
                    <=> (y = x \/ \E j \in 1 .. i : y = batch[j])
      BY <2>2
    <3> HIDE DEF Gone
    <3>4. /\ IsFiniteSet(Gone(i + 1))
          /\ Cardinality(Gone(i + 1)) = Cardinality(Gone(i)) + 1
      BY <2>1, <3>2, FS_AddElement
    <3>5. \A y : y \in ToSet(f[i + 1]) <=>
                    y \in events /\ \E j \in 1 .. i + 1 : y = batch[j]
      BY <2>1, <2>10, <3>1, <3>3
    <3> QED BY <2>1, <2>7, <3>1, <3>4, <3>5
  <2> QED BY <2>9, <2>10
<1>4. Good(n)
  <2> HIDE DEF Good
  <2>1. Nat \subseteq S
    <3> HIDE DEF S
    <3> QED BY <1>2, <1>3, SetInduction
  <2> QED BY <1>0, <2>1
<1>5. ToSet(batch) = {batch[j] : j \in 1 .. n}
  BY DEF ToSet, n
<1>6. Gone(n) = ToSet(batch) \ events
  BY <1>5
<1>7. ToSet(f[n]) = ToSet(batch) \cap events
  <2> HIDE DEF Gone
  <2> QED BY <1>4, <1>5
<1> HIDE DEF Gone
<1> QED BY <1>1, <1>4, <1>6, <1>7 DEF n

-----------------------------------------------------------------------------
(***************************************************************************)
(* Where the records are.  Way says of the values the variables have: the  *)
(* ledger led, the batch b and the queue q are in the order of delivery,   *)
(* one before the other and all before the record in hand h; none of their *)
(* records is among the lost ones; and d deliveries are accounted for.     *)
(***************************************************************************)
Before(s, t) == \A i \in 1 .. Len(s), j \in 1 .. Len(t) : s[i] < t[j]
Upto(s, n) == \A i \in 1 .. Len(s) : s[i] <= n
Avoids(s, S) == \A i \in 1 .. Len(s) : s[i] \notin S

Way(d, h, q, n, led, b, gone) ==
    /\ d \in Nat /\ n \in Nat /\ h \in Seq(Records)
    /\ led \in Seq(Records) /\ b \in Seq(Records) /\ q \in Seq(Records)
    /\ gone \subseteq Records
    /\ h = <<>> \/ h = <<d>>
    /\ Increasing(led) /\ Increasing(b) /\ Increasing(q)
    /\ Before(led, b) /\ Before(led, q) /\ Before(b, q)
    /\ Upto(led, d - Len(h)) /\ Upto(b, d - Len(h)) /\ Upto(q, d - Len(h))
    /\ \A x \in gone : x <= d - Len(h)
    /\ Avoids(led, gone) /\ Avoids(b, gone) /\ Avoids(q, gone)
    /\ d = n + Cardinality(gone) + Len(led) + Len(b) + Len(q) + Len(h)

WayInv == Way(delivered, hand, queue, dropped, ledger, InBatch, lost)

LEMMA RecordsAreNumbers == Records \subseteq Int /\ IsFiniteSet(Records)
BY SinkAssumption, FS_Interval DEF Records

LEMMA LostFinite ==
    ASSUME NEW gone \in SUBSET Records
    PROVE  IsFiniteSet(gone) /\ Cardinality(gone) \in Nat
BY RecordsAreNumbers, FS_Subset, FS_CardinalityType

LEMMA NumbersInside ==
    ASSUME NEW s \in Seq(Records), NEW i \in 1 .. Len(s)
    PROVE  s[i] \in Records /\ s[i] \in Int
<1>1. s[i] \in Records
  OBVIOUS
<1> QED BY <1>1, RecordsAreNumbers

\* The parts of two sequences put together.
LEMMA ConcatParts ==
    ASSUME NEW s \in Seq(Records), NEW t \in Seq(Records)
    PROVE  /\ s \o t \in Seq(Records) /\ Len(s \o t) = Len(s) + Len(t)
           /\ \A i \in 1 .. Len(s \o t) :
                 \/ i \in 1 .. Len(s) /\ (s \o t)[i] = s[i]
                 \/ /\ i - Len(s) \in 1 .. Len(t) /\ i > Len(s)
                    /\ (s \o t)[i] = t[i - Len(s)]
           /\ ToSet(s \o t) = ToSet(s) \cup ToSet(t)
<1> DEFINE u == s \o t
           m == Len(s)
           k == Len(t)
<1>1. /\ u \in Seq(Records) /\ Len(u) = m + k /\ m \in Nat /\ k \in Nat
      /\ DOMAIN u = 1 .. m + k /\ DOMAIN s = 1 .. m /\ DOMAIN t = 1 .. k
  OBVIOUS
<1>2. /\ \A i \in 1 .. m : u[i] = s[i]
      /\ \A i \in 1 .. k : u[m + i] = t[i]
  OBVIOUS
<1>3. ASSUME NEW i \in 1 .. m + k
      PROVE  \/ i \in 1 .. m /\ u[i] = s[i]
             \/ i - m \in 1 .. k /\ i > m /\ u[i] = t[i - m]
  <2> HIDE DEF u, m, k
  <2>1. CASE i <= m
    BY <1>1, <1>2, <2>1
  <2>2. CASE i > m
    <3>1. i - m \in 1 .. k /\ m + (i - m) = i
      BY <1>1, <2>2
    <3>2. u[m + (i - m)] = t[i - m]
      BY <1>2, <3>1
    <3> QED BY <2>2, <3>1, <3>2
  <2> QED BY <1>1, <2>1, <2>2
<1>4. ToSet(u) = ToSet(s) \cup ToSet(t)
  <2> HIDE DEF u, m, k
  <2>1. \A i \in 1 .. m : i \in 1 .. m + k
    BY <1>1
  <2>2. \A i \in 1 .. k : m + i \in 1 .. m + k
    BY <1>1
  <2>3. ToSet(u) = {u[i] : i \in 1 .. m + k} /\ ToSet(s) = {s[i] : i \in 1 .. m}
        /\ ToSet(t) = {t[i] : i \in 1 .. k}
    BY <1>1 DEF ToSet
  <2>4. ASSUME NEW x \in ToSet(u) PROVE x \in ToSet(s) \cup ToSet(t)
    BY <1>3, <2>3
  <2>5. ASSUME NEW x \in ToSet(s) \cup ToSet(t) PROVE x \in ToSet(u)
    <3>1. CASE x \in ToSet(s)
      BY <1>2, <2>1, <2>3, <3>1
    <3>2. CASE x \in ToSet(t)
      <4>1. PICK i \in 1 .. k : x = t[i]
        BY <2>3, <3>2
      <4>2. x = u[m + i]
        BY <1>2, <4>1
      <4> QED BY <2>2, <2>3, <4>1, <4>2
    <3> QED BY <3>1, <3>2
  <2> QED BY <2>4, <2>5
<1> QED BY <1>1, <1>3, <1>4

\* The relations of Way, of sequences put together.
LEMMA ConcatOrder ==
    ASSUME NEW s \in Seq(Records), NEW t \in Seq(Records)
    PROVE  /\ Increasing(s) /\ Increasing(t) /\ Before(s, t)
                 => Increasing(s \o t)
           /\ \A u \in Seq(Records) :
                 /\ Before(s, u) /\ Before(t, u) => Before(s \o t, u)
                 /\ Before(u, s) /\ Before(u, t) => Before(u, s \o t)
           /\ \A n : Upto(s, n) /\ Upto(t, n) => Upto(s \o t, n)
           /\ \A S : Avoids(s, S) /\ Avoids(t, S) => Avoids(s \o t, S)
<1> DEFINE w == s \o t
<1>0. /\ w \in Seq(Records) /\ Len(w) = Len(s) + Len(t)
      /\ Len(s) \in Nat /\ Len(t) \in Nat
      /\ \A i \in 1 .. Len(w) :
            \/ i \in 1 .. Len(s) /\ w[i] = s[i]
            \/ /\ i - Len(s) \in 1 .. Len(t) /\ i > Len(s)
               /\ w[i] = t[i - Len(s)]
  BY ConcatParts
<1> HIDE DEF w
<1>1. ASSUME Increasing(s), Increasing(t), Before(s, t)
      PROVE  Increasing(w)
  <2> SUFFICES ASSUME NEW i \in 1 .. Len(w), NEW j \in 1 .. Len(w), i < j
               PROVE  w[i] < w[j]
    BY DEF Increasing
  <2>1. CASE i \in 1 .. Len(s) /\ w[i] = s[i]
    <3>1. CASE j \in 1 .. Len(s) /\ w[j] = s[j]
      BY <1>1, <2>1, <3>1 DEF Increasing
    <3>2. CASE j - Len(s) \in 1 .. Len(t) /\ w[j] = t[j - Len(s)]
      BY <1>1, <2>1, <3>2 DEF Before
    <3> QED BY <1>0, <3>1, <3>2
  <2>2. CASE i - Len(s) \in 1 .. Len(t) /\ i > Len(s) /\ w[i] = t[i - Len(s)]
    <3>1. j > Len(s)
      BY <1>0, <2>2
    <3>2. j - Len(s) \in 1 .. Len(t) /\ w[j] = t[j - Len(s)]
      BY <1>0, <3>1
    <3>3. i - Len(s) < j - Len(s)
      BY <1>0
    <3> QED BY <1>1, <2>2, <3>2, <3>3 DEF Increasing
  <2> QED BY <1>0, <2>1, <2>2
<1>2. ASSUME NEW u \in Seq(Records), Before(s, u), Before(t, u)
      PROVE  Before(w, u)
  BY <1>0, <1>2 DEF Before
<1>3. ASSUME NEW u \in Seq(Records), Before(u, s), Before(u, t)
      PROVE  Before(u, w)
  BY <1>0, <1>3 DEF Before
<1>4. ASSUME NEW n, Upto(s, n), Upto(t, n) PROVE Upto(w, n)
  BY <1>0, <1>4 DEF Upto
<1>5. ASSUME NEW S, Avoids(s, S), Avoids(t, S) PROVE Avoids(w, S)
  BY <1>0, <1>5 DEF Avoids
<1> QED BY <1>1, <1>2, <1>3, <1>4, <1>5 DEF w

\* A sequence of one record, and what a sequence's members satisfy.
LEMMA OneRecord ==
    ASSUME NEW x \in Records
    PROVE  /\ <<x>> \in Seq(Records) /\ Len(<<x>>) = 1 /\ Increasing(<<x>>)
           /\ ToSet(<<x>>) = {x}
           /\ \A n : x <= n => Upto(<<x>>, n)
           /\ \A S : x \notin S => Avoids(<<x>>, S)
           /\ \A s \in Seq(Records) : Upto(s, x - 1) => Before(s, <<x>>)
           /\ \A s \in Seq(Records) :
                 (\A j \in 1 .. Len(s) : x < s[j]) => Before(<<x>>, s)
<1>0. x \in Int
  BY RecordsAreNumbers
<1>1. <<x>> \in Seq(Records) /\ Len(<<x>>) = 1 /\ <<x>>[1] = x /\ DOMAIN <<x>> = 1 .. 1
  OBVIOUS
<1>2. PICK o \in Seq(Records) : o = <<x>> /\ Len(o) = 1 /\ o[1] = x /\ DOMAIN o = 1 .. 1
  BY <1>1
<1>3. ToSet(o) = {x}
  BY <1>2 DEF ToSet
<1>4. Increasing(o)
  BY <1>2 DEF Increasing
<1>5. \A n : x <= n => Upto(o, n)
  BY <1>2 DEF Upto
<1>6. \A S : x \notin S => Avoids(o, S)
  BY <1>2 DEF Avoids
<1>7. ASSUME NEW s \in Seq(Records), Upto(s, x - 1) PROVE Before(s, o)
  <2>1. \A i \in 1 .. Len(s) : s[i] \in Int /\ s[i] <= x - 1
    BY <1>7, NumbersInside DEF Upto
  <2> QED BY <1>0, <1>2, <2>1 DEF Before
<1>8. ASSUME NEW s \in Seq(Records), \A j \in 1 .. Len(s) : x < s[j]
      PROVE  Before(o, s)
  BY <1>2, <1>8 DEF Before
<1> QED BY <1>2, <1>3, <1>4, <1>5, <1>6, <1>7, <1>8

\* HandleUsage takes the next delivery in hand, or drops it ...
LEMMA WayDelivers ==
    ASSUME NEW d, NEW q, NEW n, NEW led, NEW b, NEW gone,
           Way(d, <<>>, q, n, led, b, gone), d + 1 \in Records
    PROVE  /\ Way(d + 1, <<>>, q, n + 1, led, b, gone)
           /\ Way(d + 1, <<d + 1>>, q, n, led, b, gone)
<1> DEFINE none == <<>>
           one == <<d + 1>>
<1>1. none \in Seq(Records) /\ Len(none) = 0 /\ d \in Nat /\ n \in Nat
  BY DEF Way
<1>2. one \in Seq(Records) /\ Len(one) = 1
  BY OneRecord
<1>3. /\ \A s \in Seq(Records) : Upto(s, d) => Upto(s, d + 1)
      /\ \A x \in Records : x <= d => x <= d + 1
  <2>1. \A x \in Records : x <= d => x <= d + 1
    BY <1>1, RecordsAreNumbers
  <2>2. ASSUME NEW s \in Seq(Records), Upto(s, d) PROVE Upto(s, d + 1)
    BY <2>1, <2>2, NumbersInside DEF Upto
  <2> QED BY <2>1, <2>2
<1>4. d - Len(none) = d /\ (d + 1) - Len(none) = d + 1 /\ (d + 1) - Len(one) = d
  BY <1>1, <1>2
<1>5. Way(d, none, q, n, led, b, gone)
  OBVIOUS
<1>6. /\ led \in Seq(Records) /\ b \in Seq(Records) /\ q \in Seq(Records)
      /\ gone \in SUBSET Records
  BY <1>5 DEF Way
<1>7. /\ Len(led) \in Nat /\ Len(b) \in Nat /\ Len(q) \in Nat
      /\ Cardinality(gone) \in Nat
  BY <1>6, LostFinite
<1>8. Way(d + 1, none, q, n + 1, led, b, gone)
  <2> HIDE DEF none
  <2>1. d + 1 = (n + 1) + Cardinality(gone) + Len(led) + Len(b) + Len(q) + Len(none)
    BY <1>1, <1>5, <1>7 DEF Way
  <2>2. d + 1 \in Nat /\ n + 1 \in Nat
    BY <1>1
  <2> QED BY <1>1, <1>3, <1>4, <1>5, <1>6, <2>1, <2>2 DEF Way, none
<1>9. Way(d + 1, one, q, n, led, b, gone)
  <2> HIDE DEF none
  <2>1. d + 1 = n + Cardinality(gone) + Len(led) + Len(b) + Len(q) + Len(one)
    <3>1. d = n + Cardinality(gone) + Len(led) + Len(b) + Len(q) + Len(none)
      BY <1>5 DEF Way
    <3> HIDE DEF one
    <3> QED BY <1>1, <1>2, <1>7, <3>1
  <2>2. d + 1 \in Nat
    BY <1>1
  <2>3. one = <<>> \/ one = <<d + 1>>
    OBVIOUS
  <2> HIDE DEF one
  <2> QED BY <1>1, <1>2, <1>4, <1>5, <1>6, <2>1, <2>2, <2>3 DEF Way
<1> QED BY <1>8, <1>9

\* ... and sends it to the end of the queue, or drops it when that is full.
LEMMA WayEnqueues ==
    ASSUME NEW d, NEW h, NEW q, NEW n, NEW led, NEW b, NEW gone,
           Way(d, h, q, n, led, b, gone), h # <<>>
    PROVE  /\ Way(d, <<>>, q \o h, n, led, b, gone)
           /\ Way(d, <<>>, q, n + 1, led, b, gone)
<1> DEFINE none == <<>>
<1>1. /\ none \in Seq(Records) /\ Len(none) = 0 /\ d \in Nat /\ n \in Nat
      /\ h = <<d>> /\ h \in Seq(Records)
      /\ led \in Seq(Records) /\ b \in Seq(Records) /\ q \in Seq(Records)
      /\ gone \in SUBSET Records
  BY DEF Way
<1>2. d \in Records /\ Len(h) = 1
  BY <1>1
<1>3. /\ Increasing(h) /\ Upto(h, d)
      /\ \A S : d \notin S => Avoids(h, S)
      /\ \A s \in Seq(Records) : Upto(s, d - 1) => Before(s, h)
  <2>1. d <= d
    BY <1>1
  <2> QED BY <1>1, <1>2, <2>1, OneRecord
<1>4. d - Len(h) = d - 1 /\ d - Len(none) = d
  BY <1>1, <1>2
<1>5. /\ \A s \in Seq(Records) : Upto(s, d - 1) => Upto(s, d)
      /\ \A x \in Records : x <= d - 1 => x <= d /\ x # d
  <2>1. \A x \in Records : x <= d - 1 => x <= d /\ x # d
    BY <1>1, RecordsAreNumbers
  <2>2. ASSUME NEW s \in Seq(Records), Upto(s, d - 1) PROVE Upto(s, d)
    BY <2>1, <2>2, NumbersInside DEF Upto
  <2> QED BY <2>1, <2>2
<1>6. /\ Upto(led, d - 1) /\ Upto(b, d - 1) /\ Upto(q, d - 1)
      /\ \A x \in gone : x <= d - 1
      /\ d = n + Cardinality(gone) + Len(led) + Len(b) + Len(q) + Len(h)
  BY <1>4 DEF Way
<1>7. /\ Len(led) \in Nat /\ Len(b) \in Nat /\ Len(q) \in Nat
      /\ Cardinality(gone) \in Nat
  BY <1>1, LostFinite
<1>8. Before(led, h) /\ Before(b, h) /\ Before(q, h) /\ Avoids(h, gone)
  <2>1. d \notin gone
    BY <1>5, <1>6, <1>1
  <2> QED BY <1>1, <1>3, <1>6, <2>1
<1>9. /\ q \o h \in Seq(Records) /\ Len(q \o h) = Len(q) + Len(h)
      /\ Increasing(q \o h) /\ Before(led, q \o h) /\ Before(b, q \o h)
      /\ Upto(q \o h, d) /\ Avoids(q \o h, gone)
  BY <1>1, <1>3, <1>5, <1>6, <1>8, ConcatParts, ConcatOrder DEF Way
<1>10. Way(d, none, q \o h, n, led, b, gone)
  <2>1. d = n + Cardinality(gone) + Len(led) + Len(b) + Len(q \o h) + Len(none)
    BY <1>1, <1>2, <1>6, <1>7, <1>9
  <2>2. none = <<>> \/ none = <<d>>
    OBVIOUS
  <2> HIDE DEF none
  <2> QED BY <1>1, <1>4, <1>5, <1>6, <1>9, <2>1, <2>2 DEF Way
<1>11. Way(d, none, q, n + 1, led, b, gone)
  <2>1. d = (n + 1) + Cardinality(gone) + Len(led) + Len(b) + Len(q) + Len(none)
    BY <1>1, <1>2, <1>6, <1>7
  <2>2. none = <<>> \/ none = <<d>>
    OBVIOUS
  <2>3. n + 1 \in Nat
    BY <1>1
  <2> HIDE DEF none
  <2> QED BY <1>1, <1>4, <1>5, <1>6, <2>1, <2>2, <2>3 DEF Way
<1> QED BY <1>10, <1>11

\* The worker takes the first record of the queue.
LEMMA WayTakes ==
    ASSUME NEW d, NEW h, NEW q, NEW n, NEW led, NEW b, NEW gone,
           Way(d, h, q, n, led, b, gone), q # <<>>
    PROVE  Way(d, h, Tail(q), n, led, Append(b, Head(q)), gone)
<1> DEFINE x == Head(q)
           rest == Tail(q)
           one == <<x>>
           b2 == Append(b, x)
           top == d - Len(h)
<1>1. /\ d \in Nat /\ n \in Nat /\ h \in Seq(Records)
      /\ led \in Seq(Records) /\ b \in Seq(Records) /\ q \in Seq(Records)
      /\ gone \in SUBSET Records
  BY DEF Way
<1>2. /\ x \in Records /\ rest \in Seq(Records) /\ Len(rest) = Len(q) - 1
      /\ Len(q) \in Nat /\ Len(q) > 0 /\ x = q[1] /\ 1 \in 1 .. Len(q)
      /\ \A i \in 1 .. Len(rest) : rest[i] = q[i + 1]
  BY <1>1
<1>3. \A i \in 1 .. Len(rest) : i + 1 \in 1 .. Len(q) /\ rest[i] = q[i + 1] /\ 1 < i + 1
  BY <1>2
<1>4. b2 = b \o one
  BY <1>1, <1>2
<1>5. one \in Seq(Records) /\ Len(one) = 1 /\ Increasing(one)
  BY <1>2, OneRecord
<1> HIDE DEF x, rest, b2
<1>6. /\ Before(b, q) /\ Before(led, q) /\ Upto(q, top) /\ Avoids(q, gone)
      /\ Increasing(q) /\ Increasing(b) /\ Increasing(led)
      /\ Before(led, b) /\ Upto(led, top) /\ Upto(b, top)
      /\ Avoids(led, gone) /\ Avoids(b, gone)
      /\ h = <<>> \/ h = <<d>>
      /\ \A y \in gone : y <= top
      /\ d = n + Cardinality(gone) + Len(led) + Len(b) + Len(q) + Len(h)
  BY DEF Way
<1>7. /\ Before(b, one) /\ Before(led, one) /\ Upto(one, top)
      /\ Avoids(one, gone) /\ Before(one, rest)
  <2>1. \A s \in Seq(Records) : Before(s, q) => Before(s, one)
    <3>1. one[1] = x /\ Len(one) = 1
      BY <1>5
    <3> HIDE DEF one
    <3> QED BY <1>2, <3>1 DEF Before
  <2>2. x <= top /\ x \notin gone
    BY <1>2, <1>6 DEF Upto, Avoids
  <2>3. \A j \in 1 .. Len(rest) : x < rest[j]
    BY <1>2, <1>3, <1>6 DEF Increasing
  <2> QED BY <1>1, <1>2, <1>6, <2>1, <2>2, <2>3, OneRecord
<1>8. /\ Increasing(rest) /\ Before(b, rest) /\ Before(led, rest)
      /\ Upto(rest, top) /\ Avoids(rest, gone)
  <2>1. Increasing(rest)
    <3> SUFFICES ASSUME NEW i \in 1 .. Len(rest), NEW j \in 1 .. Len(rest), i < j
                 PROVE  rest[i] < rest[j]
      BY DEF Increasing
    <3>1. i + 1 < j + 1
      OBVIOUS
    <3> QED BY <1>3, <1>6, <3>1 DEF Increasing
  <2>2. Before(b, rest) /\ Before(led, rest)
    BY <1>3, <1>6 DEF Before
  <2>3. Upto(rest, top)
    BY <1>3, <1>6 DEF Upto
  <2>4. Avoids(rest, gone)
    BY <1>3, <1>6 DEF Avoids
  <2> QED BY <2>1, <2>2, <2>3, <2>4
<1> HIDE DEF one
<1>9. /\ b2 \in Seq(Records) /\ Len(b2) = Len(b) + 1 /\ Increasing(b2)
      /\ Before(led, b2) /\ Before(b2, rest) /\ Upto(b2, top)
      /\ Avoids(b2, gone)
  <2> HIDE DEF top
  <2>1. b \o one \in Seq(Records) /\ Len(b \o one) = Len(b) + 1
    <3>1. b \in Seq(Records) /\ one \in Seq(Records)
      BY <1>1, <1>5
    <3>2. b \o one \in Seq(Records) /\ Len(b \o one) = Len(b) + Len(one)
      BY <3>1, ConcatParts
    <3> QED BY <1>5, <3>2
  <2>2. Increasing(b \o one)
    <3>1. b \in Seq(Records) /\ one \in Seq(Records) /\ Increasing(b)
          /\ Increasing(one) /\ Before(b, one)
      BY <1>1, <1>5, <1>6, <1>7
    <3> QED BY <3>1, ConcatOrder
  <2>3. Before(led, b \o one) /\ Before(b \o one, rest)
    BY <1>1, <1>2, <1>5, <1>6, <1>7, <1>8, ConcatOrder
  <2>4. Upto(b \o one, top) /\ Avoids(b \o one, gone)
    BY <1>1, <1>5, <1>6, <1>7, ConcatOrder
  <2> QED BY <1>4, <2>1, <2>2, <2>3, <2>4
<1>10. d = n + Cardinality(gone) + Len(led) + Len(b2) + Len(rest) + Len(h)
  <2>1. /\ Len(led) \in Nat /\ Len(b) \in Nat /\ Len(h) \in Nat
        /\ Cardinality(gone) \in Nat
    BY <1>1, LostFinite
  <2> QED BY <1>1, <1>2, <1>6, <1>9, <2>1
<1>11. Way(d, h, rest, n, led, b2, gone)
  BY <1>1, <1>2, <1>6, <1>8, <1>9, <1>10 DEF Way
<1> QED BY <1>11 DEF rest, b2, x

\* The batch is written but for the records outside events, which are lost.
LEMMA WayWrites ==
    ASSUME NEW d, NEW h, NEW q, NEW n, NEW led, NEW b, NEW gone,
           Way(d, h, q, n, led, b, gone), NEW events
    PROVE  Way(d, h, q, n, led \o Written(b, events), <<>>,
               gone \cup (ToSet(b) \ events))
<1> DEFINE w == Written(b, events)
           more == ToSet(b) \ events
           none == <<>>
           top == d - Len(h)
<1>1. /\ d \in Nat /\ n \in Nat /\ h \in Seq(Records)
      /\ led \in Seq(Records) /\ b \in Seq(Records) /\ q \in Seq(Records)
      /\ gone \in SUBSET Records
  BY DEF Way
<1>2. /\ Before(b, q) /\ Before(led, q) /\ Upto(q, top) /\ Avoids(q, gone)
      /\ Increasing(q) /\ Increasing(b) /\ Increasing(led)
      /\ Before(led, b) /\ Upto(led, top) /\ Upto(b, top)
      /\ Avoids(led, gone) /\ Avoids(b, gone)
      /\ h = <<>> \/ h = <<d>>
      /\ \A y \in gone : y <= top
      /\ d = n + Cardinality(gone) + Len(led) + Len(b) + Len(q) + Len(h)
  BY DEF Way
<1>3. /\ w \in Seq(Records) /\ Increasing(w) /\ ToSet(w) = ToSet(b) \cap events
      /\ IsFiniteSet(more) /\ Len(w) + Cardinality(more) = Len(b)
  BY <1>1, <1>2, WrittenFacts
<1>4. none \in Seq(Records) /\ Len(none) = 0 /\ Increasing(none)
      /\ \A s : Before(none, s) /\ Before(s, none)
      /\ Upto(none, top) /\ \A S : Avoids(none, S)
  BY DEF Increasing, Before, Upto, Avoids
<1> HIDE DEF w, more, none
<1>5. \A i \in 1 .. Len(w) : \E j \in 1 .. Len(b) : w[i] = b[j] /\ w[i] \in events
  <2> SUFFICES ASSUME NEW i \in 1 .. Len(w)
               PROVE  \E j \in 1 .. Len(b) : w[i] = b[j] /\ w[i] \in events
    OBVIOUS
  <2>1. w[i] \in ToSet(w)
    BY <1>3 DEF ToSet
  <2>2. w[i] \in ToSet(b) /\ w[i] \in events
    BY <1>3, <2>1
  <2>3. \E j \in 1 .. Len(b) : w[i] = b[j]
    BY <1>1, <2>2 DEF ToSet
  <2> QED BY <2>2, <2>3
<1>6. \A y \in more : y \notin events /\ \E j \in 1 .. Len(b) : y = b[j]
  BY <1>1 DEF more, ToSet
<1>7. /\ Before(led, w) /\ Before(w, q) /\ Upto(w, top)
      /\ Avoids(w, gone) /\ Avoids(w, more)
  BY <1>2, <1>5, <1>6 DEF Before, Upto, Avoids
<1>8. Avoids(led, more) /\ Avoids(q, more) /\ \A y \in more : y <= top /\ y \notin gone
  <2>1. Avoids(led, more)
    <3> SUFFICES ASSUME NEW i \in 1 .. Len(led), led[i] \in more PROVE FALSE
      BY DEF Avoids
    <3>1. PICK j \in 1 .. Len(b) : led[i] = b[j]
      BY <1>6
    <3>2. led[i] < b[j] /\ led[i] \in Int
      BY <1>1, <1>2, NumbersInside DEF Before
    <3> QED BY <3>1, <3>2
  <2>2. Avoids(q, more)
    <3> SUFFICES ASSUME NEW i \in 1 .. Len(q), q[i] \in more PROVE FALSE
      BY DEF Avoids
    <3>1. PICK j \in 1 .. Len(b) : q[i] = b[j]
      BY <1>6
    <3>2. b[j] < q[i] /\ q[i] \in Int
      BY <1>1, <1>2, NumbersInside DEF Before
    <3> QED BY <3>1, <3>2
  <2>3. \A y \in more : y <= top /\ y \notin gone
    BY <1>2, <1>6 DEF Upto, Avoids
  <2> QED BY <2>1, <2>2, <2>3
<1>9. /\ gone \cup more \subseteq Records
      /\ Cardinality(gone \cup more) = Cardinality(gone) + Cardinality(more)
  <2>1. more \subseteq Records
    BY <1>1, MembersAreRecords DEF more
  <2>2. gone \cap more = {}
    BY <1>8
  <2>3. IsFiniteSet(gone)
    BY <1>1, LostFinite
  <2>4. Cardinality(gone \cup more)
           = Cardinality(gone) + Cardinality(more) - Cardinality(gone \cap more)
    BY <1>3, <2>3, FS_Union
  <2>5. Cardinality(gone \cap more) = 0
    BY <2>2, FS_EmptySet
  <2>6. Cardinality(gone) \in Nat /\ Cardinality(more) \in Nat
    BY <1>3, <2>3, FS_CardinalityType
  <2> QED BY <1>1, <2>1, <2>4, <2>5, <2>6
<1>10. /\ led \o w \in Seq(Records) /\ Len(led \o w) = Len(led) + Len(w)
       /\ Increasing(led \o w) /\ Before(led \o w, q) /\ Upto(led \o w, top)
       /\ Avoids(led \o w, gone \cup more)
  <2>1. Avoids(led, gone \cup more) /\ Avoids(w, gone \cup more)
    BY <1>2, <1>7, <1>8 DEF Avoids
  <2> QED BY <1>1, <1>2, <1>3, <1>7, <2>1, ConcatParts, ConcatOrder
<1>11. Avoids(q, gone \cup more) /\ \A y \in gone \cup more : y <= top
  BY <1>2, <1>8 DEF Avoids
<1>12. d = n + Cardinality(gone \cup more) + Len(led \o w) + Len(none)
              + Len(q) + Len(h)
  <2>1. /\ Len(led) \in Nat /\ Len(b) \in Nat /\ Len(q) \in Nat /\ Len(h) \in Nat
        /\ Len(w) \in Nat
        /\ Cardinality(gone) \in Nat /\ Cardinality(more) \in Nat
    BY <1>1, <1>3, LostFinite, FS_CardinalityType
  <2> QED BY <1>1, <1>2, <1>3, <1>4, <1>9, <1>10, <2>1
<1>13. Way(d, h, q, n, led \o w, none, gone \cup more)
  BY <1>1, <1>2, <1>4, <1>9, <1>10, <1>11, <1>12 DEF Way
<1> QED BY <1>13 DEF w, more, none

\* Or all of it is lost: a write with no events writes nothing.
LEMMA WayLoses ==
    ASSUME NEW d, NEW h, NEW q, NEW n, NEW led, NEW b, NEW gone,
           Way(d, h, q, n, led, b, gone)
    PROVE  Way(d, h, q, n, led, <<>>, gone \cup ToSet(b))
<1> DEFINE none == {}
<1>1. Way(d, h, q, n, led \o Written(b, none), <<>>, gone \cup (ToSet(b) \ none))
  BY WayWrites
<1>2. led \in Seq(Records) /\ b \in Seq(Records) /\ Increasing(b)
  BY DEF Way
<1>3. Written(b, none) \in Seq(Records) /\ ToSet(Written(b, none)) = {}
  <2>1. ToSet(Written(b, none)) = ToSet(b) \cap none
        /\ Written(b, none) \in Seq(Records)
    <3> HIDE DEF none
    <3> QED BY <1>2, WrittenFacts
  <2> QED BY <2>1
<1>4. Written(b, none) = <<>>
  <2> DEFINE w == Written(b, none)
  <2>1. w \in Seq(Records) /\ ToSet(w) = {}
    BY <1>3
  <2> HIDE DEF w
  <2>2. Len(w) = 0
    <3>1. Len(w) \in Nat /\ DOMAIN w = 1 .. Len(w)
      BY <2>1
    <3>2. CASE Len(w) > 0
      <4>1. 1 \in DOMAIN w
        BY <3>1, <3>2
      <4>2. w[1] \in ToSet(w)
        BY <4>1 DEF ToSet
      <4> QED BY <2>1, <4>2
    <3> QED BY <3>1, <3>2
  <2> QED BY <2>1, <2>2 DEF w
<1>5. led \o Written(b, none) = led
  BY <1>2, <1>4
<1>6. gone \cup (ToSet(b) \ none) = gone \cup ToSet(b)
  OBVIOUS
<1> QED BY <1>1, <1>5, <1>6

-----------------------------------------------------------------------------
(***************************************************************************)
(* What a Drain waits for.  Of the records mark, those not yet done are in *)
(* the batch b or among the first k of the queue q; while the worker       *)
(* serves the flush, k is what the flush has still to take.                *)
(***************************************************************************)
Covered(m, done, b, q, k) ==
    \A x \in m : \/ x \in done \/ x \in ToSet(b)
                 \/ \E i \in 1 .. Len(q) : i <= k /\ x = q[i]

Processed == ToSet(ledger) \cup lost
StillToTake == worker.left - Len(worker.batch)

FlushInv ==
    /\ worker.pc = "select" => worker.batch = <<>>
    /\ drain = "handover" =>
          Covered(mark, Processed, InBatch, queue, Len(queue))
    /\ drain = "waiting" =>
          /\ worker.flushing /\ worker.pc # "select"
          /\ Covered(mark, Processed, InBatch, queue, StillToTake)
    /\ drain = "done" => mark \subseteq Processed

LEMMA CoverTakes ==
    ASSUME NEW m, NEW done, NEW b \in Seq(Records), NEW q \in Seq(Records),
           NEW k \in Int, q # <<>>, Covered(m, done, b, q, k)
    PROVE  Covered(m, done, Append(b, Head(q)), Tail(q), k - 1)
<1> DEFINE x == Head(q)
           rest == Tail(q)
<1>1. /\ x \in Records /\ x = q[1] /\ Len(q) \in Nat /\ Len(rest) = Len(q) - 1
      /\ \A i \in 1 .. Len(rest) : rest[i] = q[i + 1]
  OBVIOUS
<1> HIDE DEF x, rest
<1>2. ToSet(Append(b, x)) = ToSet(b) \cup {x}
  BY <1>1, MembersAppended
<1>3. ASSUME NEW y \in m
      PROVE  \/ y \in done \/ y \in ToSet(b) \cup {x}
             \/ \E i \in 1 .. Len(rest) : i <= k - 1 /\ y = rest[i]
  <2>1. CASE y \in done \/ y \in ToSet(b)
    BY <2>1
  <2>2. ASSUME NEW i \in 1 .. Len(q), i <= k, y = q[i]
        PROVE  \/ y = x
               \/ \E j \in 1 .. Len(rest) : j <= k - 1 /\ y = rest[j]
    <3>1. CASE i = 1
      BY <1>1, <2>2, <3>1
    <3>2. CASE i # 1
      <4>1. i - 1 \in 1 .. Len(rest) /\ i - 1 <= k - 1 /\ (i - 1) + 1 = i
        BY <1>1, <2>2, <3>2
      <4>2. rest[i - 1] = q[(i - 1) + 1]
        BY <1>1, <4>1
      <4> QED BY <2>2, <4>1, <4>2
    <3> QED BY <3>1, <3>2
  <2> QED BY <2>1, <2>2 DEF Covered
<1>4. Covered(m, done, Append(b, x), rest, k - 1)
  BY <1>2, <1>3 DEF Covered
<1> QED BY <1>4 DEF x, rest

LEMMA CoverEnqueues ==
    ASSUME NEW m, NEW done, NEW b, NEW q \in Seq(Records),
           NEW h \in Seq(Records), NEW k \in Int, NEW k2 \in Int, k <= k2,
           Covered(m, done, b, q, k)
    PROVE  Covered(m, done, b, q \o h, k2)
<1> SUFFICES ASSUME NEW i \in 1 .. Len(q), i <= k
             PROVE  i \in 1 .. Len(q \o h) /\ i <= k2 /\ (q \o h)[i] = q[i]
  BY DEF Covered
<1> QED OBVIOUS

LEMMA CoverWrites ==
    ASSUME NEW m, NEW done, NEW b, NEW q, NEW k, NEW done2, NEW b2,
           Covered(m, done, b, q, k), done \cup ToSet(b) \subseteq done2
    PROVE  Covered(m, done2, b2, q, k)
BY DEF Covered

\* How a step of the worker moves the records.
WorkerTakes ==
    /\ queue # <<>> /\ queue' = Tail(queue)
    /\ InBatch' = Append(InBatch, Head(queue))
    /\ UNCHANGED <<ledger, lost, drain>>
    /\ worker'.pc # "select"
    /\ \/ worker.pc = "select"
       \/ worker'.flushing = worker.flushing /\ StillToTake' = StillToTake - 1

WorkerGoesOn ==
    /\ UNCHANGED <<queue, ledger, lost, drain>> /\ InBatch' = InBatch
    /\ worker.pc # "select" /\ worker'.pc # "select"
    /\ worker'.flushing = worker.flushing /\ StillToTake' = StillToTake

WorkerTurns ==
    /\ UNCHANGED <<queue, ledger, lost>> /\ InBatch' = InBatch
    /\ \/ /\ drain = "handover" /\ drain' = "waiting"
          /\ worker'.flushing /\ worker'.pc # "select"
          /\ StillToTake' = Len(queue)
       \/ drain' = drain /\ (drain = "waiting" => ~ worker.flushing)
       \/ /\ drain = "waiting" /\ drain' = "done"
          /\ StillToTake <= 0 /\ InBatch = <<>>

WorkerWrites ==
    /\ UNCHANGED <<queue, drain>> /\ InBatch' = <<>>
    /\ worker.pc # "select" /\ worker'.pc # "select"
    /\ worker'.flushing = worker.flushing /\ StillToTake' = StillToTake
    /\ \/ \E events :
             /\ ledger' = ledger \o Written(InBatch, events)
             /\ lost' = lost \cup (ToSet(InBatch) \ events)
       \/ ledger' = ledger /\ lost' = lost \cup ToSet(InBatch)

WorkerMove ==
    /\ UNCHANGED <<delivered, hand, dropped, mark>>
    /\ worker'.pc = "select" => worker'.batch = <<>>
    /\ WorkerTakes \/ WorkerGoesOn \/ WorkerTurns \/ WorkerWrites

LEMMA WorkerMoves ==
    ASSUME RecordsInv, worker.pc = "select" => worker.batch = <<>>, WorkerStep
    PROVE  WorkerMove
<1>w. worker \in WorkerRec /\ queue \in Seq(Records) /\ Len(queue) \in Nat
  BY DEF RecordsInv
<1>0. /\ worker.pc \in WorkerPC /\ worker.batch \in Seq(Records)
      /\ worker.want \in Int /\ worker.left \in Int
      /\ worker.flushing \in BOOLEAN /\ Len(worker.batch) \in Nat
  BY <1>w, WorkerFields
<1>e. Len(<<>>) = 0
  OBVIOUS
<1>1. CASE ReceiveRecord
  <2> DEFINE batch == Append(worker.batch, Head(queue))
             want == BatchMax - 1
  <2>1. /\ worker.pc = "select" /\ queue # <<>> /\ queue' = Tail(queue)
        /\ worker' = [worker EXCEPT !.pc = "fill", !.want = want,
                                    !.batch = batch]
        /\ UNCHANGED <<delivered, hand, dropped, mark, ledger, lost, drain>>
    BY <1>1 DEF ReceiveRecord
  <2> HIDE DEF batch, want
  <2>2. worker'.pc = "fill" /\ worker'.batch = batch
    BY <1>w, <2>1 DEF WorkerRec
  <2>3. InBatch' = batch /\ InBatch = worker.batch
    BY <2>1, <2>2 DEF InBatch
  <2> QED BY <2>1, <2>2, <2>3 DEF WorkerMove, WorkerTakes, batch
<1>2. CASE ReceiveFlush
  <2> DEFINE pc == IF queue = <<>> THEN "finish" ELSE "fill"
             left == Len(queue)
             want == Smaller(Len(queue), BatchMax)
  <2>1. /\ worker.pc = "select" /\ drain = "handover" /\ drain' = "waiting"
        /\ worker' = [worker EXCEPT !.pc = pc, !.flushing = TRUE,
                                    !.left = left, !.want = want]
        /\ UNCHANGED <<delivered, hand, dropped, mark, queue, ledger, lost>>
    BY <1>2 DEF ReceiveFlush
  <2>2. pc \in {"finish", "fill"}
    OBVIOUS
  <2> HIDE DEF pc, left, want
  <2>3. /\ worker'.pc = pc /\ worker'.batch = worker.batch
        /\ worker'.left = left /\ worker'.flushing = TRUE
    BY <1>w, <2>1 DEF WorkerRec
  <2>4. worker.batch = <<>>
    BY <2>1
  <2>5. InBatch' = <<>> /\ InBatch = <<>>
    BY <2>1, <2>2, <2>3, <2>4 DEF InBatch
  <2>6. StillToTake' = left - 0
    BY <1>e, <2>3, <2>4 DEF StillToTake
  <2>7. StillToTake' = Len(queue)
    BY <1>w, <2>6 DEF left
  <2>8. worker'.flushing /\ worker'.pc # "select"
    BY <2>2, <2>3
  <2> QED BY <2>1, <2>5, <2>7, <2>8 DEF WorkerMove, WorkerTurns
<1>3. CASE Fill
  <2> DEFINE batch == Append(worker.batch, Head(queue))
             want == worker.want - 1
  <2>1. /\ worker.pc = "fill" /\ queue # <<>> /\ queue' = Tail(queue)
        /\ worker' = [worker EXCEPT !.want = want, !.batch = batch]
        /\ UNCHANGED <<delivered, hand, dropped, mark, ledger, lost, drain>>
    BY <1>3 DEF Fill
  <2>2. Len(batch) = Len(worker.batch) + 1
    BY <1>0, <1>w, <2>1
  <2> HIDE DEF batch, want
  <2>3. /\ worker'.pc = "fill" /\ worker'.batch = batch
        /\ worker'.left = worker.left /\ worker'.flushing = worker.flushing
    BY <1>w, <2>1 DEF WorkerRec
  <2>4. InBatch' = batch /\ InBatch = worker.batch
    BY <2>1, <2>3 DEF InBatch
  <2>5. StillToTake' = StillToTake - 1
    BY <1>0, <2>2, <2>3 DEF StillToTake
  <2> QED BY <2>1, <2>3, <2>4, <2>5 DEF WorkerMove, WorkerTakes, batch
<1>4. CASE Filled
  <2> DEFINE zero == 0
  <2>1. /\ worker.pc = "fill"
        /\ worker' = [worker EXCEPT !.pc = "write", !.want = zero]
        /\ UNCHANGED <<delivered, hand, dropped, mark, queue, ledger, lost, drain>>
    BY <1>4 DEF Filled
  <2> HIDE DEF zero
  <2>2. /\ worker'.pc = "write" /\ worker'.batch = worker.batch
        /\ worker'.left = worker.left /\ worker'.flushing = worker.flushing
    BY <1>w, <2>1 DEF WorkerRec
  <2>3. InBatch' = InBatch /\ StillToTake' = StillToTake
    BY <2>1, <2>2 DEF InBatch, StillToTake
  <2> QED BY <2>1, <2>2, <2>3 DEF WorkerMove, WorkerGoesOn
<1>5. ASSUME NEW events, WriteBatch(events) \/ WriteFails(events)
      PROVE  WorkerMove
  <2>1. /\ worker.pc = "write" /\ UNCHANGED <<queue, drain>>
        /\ UNCHANGED <<delivered, hand, dropped, mark>>
    BY <1>5 DEF WriteBatch, WriteFails
  <2>2. \/ worker' = [worker EXCEPT !.pc = "touch", !.events = events]
        \/ worker' = [worker EXCEPT !.pc = "finish"]
    BY <1>5 DEF WriteBatch, WriteFails
  <2>3. /\ worker'.pc \in {"touch", "finish"} /\ worker'.batch = worker.batch
        /\ worker'.left = worker.left /\ worker'.flushing = worker.flushing
    BY <1>w, <2>2 DEF WorkerRec
  <2>4. InBatch' = <<>> /\ InBatch = worker.batch /\ StillToTake' = StillToTake
    BY <2>1, <2>3 DEF InBatch, StillToTake
  <2>5. \/ /\ ledger' = ledger \o Written(InBatch, events)
           /\ lost' = lost \cup (ToSet(InBatch) \ events)
        \/ ledger' = ledger /\ lost' = lost \cup ToSet(InBatch)
    BY <1>5, <2>4 DEF WriteBatch, WriteFails
  <2>6. WorkerWrites
    BY <2>1, <2>3, <2>4, <2>5 DEF WorkerWrites
  <2> QED BY <2>1, <2>3, <2>6 DEF WorkerMove
<1>6. CASE Touch
  <2> DEFINE none == {}
  <2>1. /\ worker.pc = "touch"
        /\ worker' = [worker EXCEPT !.pc = "finish", !.events = none]
        /\ UNCHANGED <<delivered, hand, dropped, mark, queue, ledger, lost, drain>>
    BY <1>6 DEF Touch
  <2> HIDE DEF none
  <2>2. /\ worker'.pc = "finish" /\ worker'.batch = worker.batch
        /\ worker'.left = worker.left /\ worker'.flushing = worker.flushing
    BY <1>w, <2>1 DEF WorkerRec
  <2>3. InBatch' = InBatch /\ StillToTake' = StillToTake
    BY <2>1, <2>2 DEF InBatch, StillToTake
  <2> QED BY <2>1, <2>2, <2>3 DEF WorkerMove, WorkerGoesOn
<1>7. CASE FinishBatch
  <2> DEFINE left == worker.left - Len(worker.batch)
             want == Smaller(left, BatchMax)
             none == <<>>
  <2>0. /\ worker.pc = "finish" /\ InBatch = <<>> /\ left = StillToTake
        /\ left \in Int
        /\ UNCHANGED <<delivered, hand, dropped, mark, queue, ledger, lost>>
    BY <1>0, <1>7 DEF FinishBatch, InBatch, StillToTake
  <2>1. CASE worker.flushing /\ left > 0
    <3>1. /\ worker' = [worker EXCEPT !.pc = "fill", !.batch = none,
                                      !.left = left, !.want = want]
          /\ drain' = drain
      BY <1>7, <2>1 DEF FinishBatch
    <3>2. Len(none) = 0 /\ none = <<>>
      OBVIOUS
    <3> HIDE DEF left, want, none
    <3>3. /\ worker'.pc = "fill" /\ worker'.batch = none
          /\ worker'.left = left /\ worker'.flushing = worker.flushing
      BY <1>w, <3>1 DEF WorkerRec
    <3>4. InBatch' = <<>> /\ StillToTake' = left - 0
      BY <3>2, <3>3 DEF InBatch, StillToTake
    <3>5. StillToTake' = StillToTake
      BY <2>0, <3>4
    <3> QED BY <2>0, <3>1, <3>3, <3>4, <3>5 DEF WorkerMove, WorkerGoesOn
  <2>2. CASE ~ (worker.flushing /\ left > 0)
    <3>1. /\ worker' = IdleWorker
          /\ drain' = IF worker.flushing /\ drain = "waiting" THEN "done"
                      ELSE drain
      BY <1>7, <2>2 DEF FinishBatch
    <3>2. worker'.pc = "select" /\ worker'.batch = <<>>
      BY <3>1 DEF IdleWorker
    <3>3. InBatch' = InBatch
      BY <2>0, <3>2 DEF InBatch
    <3> HIDE DEF left
    <3>4. worker.flushing => StillToTake <= 0
      BY <2>0, <2>2
    <3> QED BY <2>0, <3>1, <3>2, <3>3, <3>4 DEF WorkerMove, WorkerTurns
  <2> QED BY <2>1, <2>2
<1> QED BY <1>1, <1>2, <1>3, <1>4, <1>5, <1>6, <1>7 DEF WorkerStep

AccountInv == RecordsInv /\ WayInv /\ FlushInv

LEMMA AccountBegins == Init => WayInv /\ FlushInv
<1> SUFFICES ASSUME Init PROVE WayInv /\ FlushInv
  OBVIOUS
<1>1. /\ delivered = 0 /\ hand = <<>> /\ queue = <<>> /\ dropped = 0
      /\ ledger = <<>> /\ lost = {} /\ InBatch = <<>> /\ drain = "none"
      /\ worker.batch = <<>>
  BY DEF Init, InBatch, IdleWorker
<1> DEFINE none == <<>>
<1>2. none \in Seq(Records) /\ Len(none) = 0 /\ Increasing(none)
      /\ Before(none, none) /\ Upto(none, 0) /\ Avoids(none, {})
  BY DEF Increasing, Before, Upto, Avoids
<1>3. Cardinality({}) = 0
  BY FS_EmptySet
<1>4. Way(0, none, none, 0, none, none, {})
  <2>1. none = <<>>
    OBVIOUS
  <2> HIDE DEF none
  <2>2. 0 - Len(none) = 0 /\ 0 = 0 + 0 + Len(none) + Len(none) + Len(none) + Len(none)
    BY <1>2
  <2> QED BY <1>2, <1>3, <2>1, <2>2 DEF Way
<1> QED BY <1>1, <1>4 DEF WayInv, FlushInv

LEMMA AccountStays == AccountInv /\ RecordsInv' /\ [Next]_vars => AccountInv'
<1> SUFFICES ASSUME AccountInv, RecordsInv', [Next]_vars
             PROVE  WayInv' /\ FlushInv'
  BY DEF AccountInv
<1> USE DEF AccountInv
<1>0. /\ hand \in Seq(Records) /\ queue \in Seq(Records)
      /\ queue' \in Seq(Records) /\ delivered \in 0 .. MaxRecords
      /\ InBatch \in Seq(Records) /\ ledger \in Seq(Records)
      /\ Len(queue) \in Nat /\ Len(queue') \in Nat
  BY DEF RecordsInv, WayInv, Way
<1>t. StillToTake \in Int
  <2>1. worker.left \in Int /\ worker.batch \in Seq(Records)
    BY WorkerFields DEF RecordsInv
  <2> QED BY <2>1 DEF StillToTake
<1>1. CASE HandleUsage
  <2>1. /\ hand = <<>> /\ delivered' = delivered + 1
        /\ \/ dropped' = dropped + 1 /\ hand' = <<>>
           \/ hand' = <<delivered + 1>> /\ dropped' = dropped
        /\ UNCHANGED <<queue, worker, ledger, lost, drain, mark>>
    BY <1>1 DEF HandleUsage
  <2>2. InBatch' = InBatch
    BY <2>1 DEF InBatch
  <2>3. delivered + 1 \in Records
    BY <1>0, <1>1, SinkAssumption DEF HandleUsage, Records
  <2>4. Way(delivered, <<>>, queue, dropped, ledger, InBatch, lost)
    BY <2>1 DEF WayInv
  <2>5. WayInv'
    BY <2>1, <2>2, <2>3, <2>4, WayDelivers DEF WayInv
  <2>6. FlushInv'
    BY <2>1, <2>2 DEF FlushInv, Processed, StillToTake
  <2> QED BY <2>5, <2>6
<1>2. CASE Enqueue
  <2>1. /\ hand # <<>> /\ hand' = <<>>
        /\ \/ queue' = queue \o hand /\ dropped' = dropped
           \/ dropped' = dropped + 1 /\ queue' = queue
        /\ UNCHANGED <<delivered, worker, ledger, lost, drain, mark>>
    BY <1>2 DEF Enqueue
  <2>2. InBatch' = InBatch /\ Processed' = Processed /\ StillToTake' = StillToTake
    BY <2>1 DEF InBatch, Processed, StillToTake
  <2>3. WayInv'
    BY <2>1, <2>2, WayEnqueues DEF WayInv
  <2>4. Len(queue) <= Len(queue')
    BY <1>0, <2>1, ConcatParts
  <2>5. \A k \in Int, k2 \in Int :
           k <= k2 /\ Covered(mark, Processed, InBatch, queue, k)
              => Covered(mark, Processed, InBatch, queue \o hand, k2)
    BY <1>0, CoverEnqueues
  <2>6. CASE queue' = queue \o hand
    <3>1. Covered(mark, Processed, InBatch, queue, Len(queue))
             => Covered(mark, Processed, InBatch, queue', Len(queue'))
      BY <1>0, <2>4, <2>5, <2>6
    <3>2. Covered(mark, Processed, InBatch, queue, StillToTake)
             => Covered(mark, Processed, InBatch, queue', StillToTake)
      BY <1>t, <2>5, <2>6
    <3> QED BY <2>1, <2>2, <2>3, <3>1, <3>2 DEF FlushInv
  <2>7. CASE queue' = queue
    BY <2>1, <2>2, <2>3, <2>7 DEF FlushInv
  <2> QED BY <2>1, <2>6, <2>7
<1>3. CASE DrainCall
  <2>1. /\ drain' = "handover"
        /\ mark' = ToSet(queue) \cup
                      (IF worker.pc \in {"fill", "write"} THEN ToSet(worker.batch)
                                                          ELSE {})
        /\ UNCHANGED <<delivered, hand, queue, dropped, worker, ledger, lost>>
    BY <1>3 DEF DrainCall
  <2>2. InBatch' = InBatch /\ Processed' = Processed
    BY <2>1 DEF InBatch, Processed
  <2>3. mark' \subseteq ToSet(queue) \cup ToSet(InBatch)
    BY <2>1 DEF InBatch
  <2>4. \A x \in ToSet(queue) : \E i \in 1 .. Len(queue) : i <= Len(queue) /\ x = queue[i]
    BY <1>0 DEF ToSet
  <2>5. Covered(mark', Processed, InBatch, queue, Len(queue))
    BY <2>3, <2>4 DEF Covered
  <2>6. FlushInv'
    BY <2>1, <2>2, <2>5 DEF FlushInv
  <2> QED BY <2>1, <2>2, <2>6 DEF WayInv
<1>4. CASE DrainExpires
  <2>1. /\ drain' = "expired"
        /\ UNCHANGED <<delivered, hand, queue, dropped, worker, ledger, lost, mark>>
    BY <1>4 DEF DrainExpires
  <2>2. InBatch' = InBatch
    BY <2>1 DEF InBatch
  <2> QED BY <2>1, <2>2 DEF WayInv, FlushInv
<1>5. CASE WorkerStep
  <2>0. WorkerMove
    BY <1>5, WorkerMoves DEF FlushInv
  <2>u. /\ UNCHANGED <<delivered, hand, dropped, mark>>
        /\ worker'.pc = "select" => worker'.batch = <<>>
    BY <2>0 DEF WorkerMove
  <2>1. CASE WorkerTakes
    <3>1. WayInv'
      BY <2>u, <2>1, WayTakes DEF WayInv, WorkerTakes
    <3>2. Processed' = Processed /\ drain' = drain /\ queue # <<>>
          /\ queue' = Tail(queue) /\ InBatch' = Append(InBatch, Head(queue))
      BY <2>1 DEF WorkerTakes, Processed
    <3>3. Len(queue') = Len(queue) - 1
      BY <1>0, <3>2
    <3>4. \A k \in Int : Covered(mark, Processed, InBatch, queue, k)
             => Covered(mark', Processed', InBatch', queue', k - 1)
      BY <1>0, <2>u, <3>2, CoverTakes
    <3>5. drain = "handover" =>
             Covered(mark', Processed', InBatch', queue', Len(queue'))
      BY <1>0, <3>3, <3>4 DEF FlushInv
    <3>6. drain = "waiting" =>
             /\ worker'.flushing /\ worker'.pc # "select"
             /\ Covered(mark', Processed', InBatch', queue', StillToTake')
      BY <1>t, <2>1, <3>4 DEF FlushInv, WorkerTakes
    <3>7. FlushInv'
      BY <2>u, <3>2, <3>5, <3>6 DEF FlushInv
    <3> QED BY <3>1, <3>7
  <2>2. CASE WorkerGoesOn
    <3>1. WayInv'
      BY <2>u, <2>2 DEF WayInv, WorkerGoesOn
    <3>2. Processed' = Processed
      BY <2>2 DEF WorkerGoesOn, Processed
    <3>3. FlushInv'
      BY <2>u, <2>2, <3>2 DEF FlushInv, WorkerGoesOn
    <3> QED BY <3>1, <3>3
  <2>3. CASE WorkerTurns
    <3>1. WayInv'
      BY <2>u, <2>3 DEF WayInv, WorkerTurns
    <3>2. Processed' = Processed /\ InBatch' = InBatch /\ queue' = queue
          /\ mark' = mark
      BY <2>u, <2>3 DEF WorkerTurns, Processed
    <3>3. CASE /\ drain = "handover" /\ drain' = "waiting"
               /\ worker'.flushing /\ worker'.pc # "select"
               /\ StillToTake' = Len(queue)
      BY <2>u, <3>1, <3>2, <3>3 DEF FlushInv
    <3>4. CASE drain' = drain /\ (drain = "waiting" => ~ worker.flushing)
      BY <2>u, <3>1, <3>2, <3>4 DEF FlushInv
    <3>5. CASE /\ drain = "waiting" /\ drain' = "done"
               /\ StillToTake <= 0 /\ InBatch = <<>>
      <4>1. Covered(mark, Processed, <<>>, queue, StillToTake)
        BY <3>5 DEF FlushInv
      <4>2. \A x : x \notin ToSet(<<>>)
        BY DEF ToSet
      <4>3. \A i \in 1 .. Len(queue) : ~ (i <= StillToTake)
        BY <1>0, <1>t, <3>5
      <4>4. mark \subseteq Processed
        BY <4>1, <4>2, <4>3 DEF Covered
      <4> QED BY <2>u, <3>1, <3>2, <3>5, <4>4 DEF FlushInv
    <3> QED BY <2>3, <3>1, <3>3, <3>4, <3>5 DEF WorkerTurns
  <2>4. CASE WorkerWrites
    <3>1. WayInv'
      <4>1. Way(delivered', hand', queue', dropped', ledger', <<>>, lost')
        <5>1. ASSUME NEW events, ledger' = ledger \o Written(InBatch, events),
                     lost' = lost \cup (ToSet(InBatch) \ events)
              PROVE  Way(delivered, hand, queue, dropped, ledger', <<>>, lost')
          BY <5>1, WayWrites DEF WayInv
        <5>2. CASE ledger' = ledger /\ lost' = lost \cup ToSet(InBatch)
          BY <2>u, <2>4, <5>2, WayLoses DEF WayInv, WorkerWrites
        <5> QED BY <2>u, <2>4, <5>1, <5>2 DEF WorkerWrites
      <4> QED BY <2>4, <4>1 DEF WayInv, WorkerWrites
    <3>2. Processed \cup ToSet(InBatch) \subseteq Processed'
      <4>1. ASSUME NEW events, ledger' = ledger \o Written(InBatch, events),
                   lost' = lost \cup (ToSet(InBatch) \ events)
            PROVE  Processed \cup ToSet(InBatch) \subseteq Processed'
        <5>1. /\ Written(InBatch, events) \in Seq(Records)
              /\ ToSet(Written(InBatch, events)) = ToSet(InBatch) \cap events
          BY <1>0, WrittenFacts DEF WayInv, Way
        <5>2. ToSet(ledger') = ToSet(ledger) \cup (ToSet(InBatch) \cap events)
          BY <1>0, <4>1, <5>1, ConcatParts
        <5> QED BY <4>1, <5>2 DEF Processed
      <4>2. CASE ledger' = ledger /\ lost' = lost \cup ToSet(InBatch)
        BY <4>2 DEF Processed
      <4> QED BY <2>4, <4>1, <4>2 DEF WorkerWrites
    <3>3. \A k : Covered(mark, Processed, InBatch, queue, k)
                    => Covered(mark', Processed', InBatch', queue', k)
      BY <2>u, <2>4, <3>2, CoverWrites DEF WorkerWrites
    <3>4. FlushInv'
      BY <2>u, <2>4, <3>2, <3>3 DEF FlushInv, WorkerWrites
    <3> QED BY <3>1, <3>4
  <2> QED BY <2>0, <2>1, <2>2, <2>3, <2>4 DEF WorkerMove
<1>6. CASE UNCHANGED vars
  BY <1>6 DEF vars, WayInv, FlushInv, InBatch, Processed, StillToTake
<1> QED BY <1>1, <1>2, <1>3, <1>4, <1>5, <1>6 DEF Next

\* For any queue, any batches and any number of records: at every instant
\* each delivered record is written once, lost and logged, dropped and
\* counted, or on its way; the ledger is in the order of delivery; and a Drain
\* that returned without an error left no record accepted before it
\* unprocessed, whatever records arrive, writes fail or contexts end meanwhile.
THEOREM RecordsAreAccounted == Spec => []RecordsAccounted
<1>1. AccountInv => RecordsAccounted
  <2> SUFFICES ASSUME AccountInv PROVE RecordsAccounted
    OBVIOUS
  <2> USE DEF AccountInv
  <2>1. DrainFlushes
    BY DEF FlushInv, DrainFlushes, Processed
  <2> DEFINE b == InBatch
             s == ledger \o b
             t == s \o queue
             way == t \o hand
             top == delivered - Len(hand)
  <2>2. /\ hand \in Seq(Records) /\ queue \in Seq(Records) /\ b \in Seq(Records)
        /\ ledger \in Seq(Records) /\ delivered \in Nat /\ lost \subseteq Records
        /\ (hand = <<>> \/ hand = <<delivered>>)
        /\ Increasing(ledger) /\ Increasing(b) /\ Increasing(queue)
        /\ Before(ledger, b) /\ Before(ledger, queue) /\ Before(b, queue)
        /\ Upto(ledger, top) /\ Upto(b, top) /\ Upto(queue, top)
        /\ (\A x \in lost : x <= top)
        /\ Avoids(ledger, lost) /\ Avoids(b, lost) /\ Avoids(queue, lost)
        /\ delivered = dropped + Cardinality(lost) + Len(ledger) + Len(b)
                          + Len(queue) + Len(hand)
        /\ dropped \in Nat
    BY DEF WayInv, Way
  <2>3. /\ s \in Seq(Records) /\ Len(s) = Len(ledger) + Len(b) /\ Increasing(s)
        /\ Before(s, queue) /\ Upto(s, top) /\ Avoids(s, lost)
    BY <2>2, ConcatParts, ConcatOrder
  <2> HIDE DEF s, b
  <2>4. /\ t \in Seq(Records) /\ Len(t) = Len(s) + Len(queue) /\ Increasing(t)
        /\ Upto(t, top) /\ Avoids(t, lost)
    BY <2>2, <2>3, ConcatParts, ConcatOrder
  <2> HIDE DEF t
  <2>5. Increasing(hand) /\ Before(t, hand) /\ Avoids(hand, lost)
    <3>1. CASE hand = <<>>
      BY <3>1 DEF Increasing, Before, Avoids
    <3>2. CASE hand = <<delivered>>
      <4>1. delivered \in Records /\ Len(hand) = 1
        BY <2>2, <3>2
      <4>2. top = delivered - 1
        BY <4>1
      <4>3. delivered \notin lost
        BY <2>2, <4>2
      <4> QED BY <2>4, <3>2, <4>1, <4>2, <4>3, OneRecord
    <3> QED BY <2>2, <3>1, <3>2
  <2>6. /\ way \in Seq(Records) /\ Len(way) = Len(t) + Len(hand)
        /\ Increasing(way) /\ Avoids(way, lost)
    BY <2>2, <2>4, <2>5, ConcatParts, ConcatOrder
  <2> HIDE DEF way
  <2>7. ToSet(way) \cap lost = {}
    BY <2>6 DEF Avoids, ToSet
  <2>8. delivered = dropped + Cardinality(lost) + Len(way)
    <3>1. /\ Len(ledger) \in Nat /\ Len(b) \in Nat /\ Len(queue) \in Nat
          /\ Len(hand) \in Nat /\ Cardinality(lost) \in Nat
      BY <2>2, LostFinite
    <3>2. /\ Len(way) = Len(t) + Len(hand) /\ Len(t) = Len(s) + Len(queue)
          /\ Len(s) = Len(ledger) + Len(b)
      BY <2>3, <2>4, <2>6, Zenon
    <3>3. /\ delivered = dropped + Cardinality(lost) + Len(ledger) + Len(b)
                            + Len(queue) + Len(hand)
          /\ dropped \in Nat
      BY <2>2, Zenon
    <3> QED BY <3>1, <3>2, <3>3
  <2>9. NothingLostSilently
    BY <2>6, <2>7, <2>8 DEF NothingLostSilently, way, t, s, b, Increasing
  <2> QED BY <2>1, <2>9 DEF RecordsAccounted
<1>2. Spec => []AccountInv
  <2>1. AccountInv /\ RecordsInv' /\ [Next]_vars => AccountInv'
    BY AccountStays
  <2>2. RecordsInv /\ WayInv /\ FlushInv => AccountInv
    BY DEF AccountInv
  <2> QED BY <2>1, <2>2, AccountBegins, RecordsStay, PTL DEF Spec
<1> QED BY <1>1, <1>2, PTL

=============================================================================
