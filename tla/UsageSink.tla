------------------------------ MODULE UsageSink ------------------------------
(***************************************************************************)
(* The usage sink (internal/infra/gateway/usage): upstream's dispatcher    *)
(* hands it one record at a time, a bounded queue carries them to the one  *)
(* worker, and the worker writes them to the ledger in batches and stamps  *)
(* their owner.  Drain, at shutdown, stops the intake and waits for the    *)
(* worker to be through what was queued.                                   *)
(*                                                                         *)
(* A record is the number of its delivery; what it costs is UsageCost's.   *)
(* Metrics, labels and quota headers are left out; a panic while a record  *)
(* is mapped is the loss of that record.  All records have one owner.      *)
(***************************************************************************)
EXTENDS UsageCost, Sequences, FiniteSets, SequencesExt

CONSTANTS
    QueueSize,   \* usageQueueSize
    BatchMax,    \* usageBatchMax
    Completed,   \* when the response of each record was complete
    Reports,     \* what each record may report
    Prices,      \* the prices a record may find
    MaxRecords   \* bound: how many records upstream delivers

ASSUME SinkAssumption ==
    /\ QueueSize \in Nat \ {0}
    /\ BatchMax \in Nat \ {0}
    /\ MaxRecords \in Nat
    /\ Completed \in [1 .. MaxRecords -> Nat]
    /\ DOMAIN Reports = 1 .. MaxRecords
    /\ \A x \in 1 .. MaxRecords : \A report \in Reports[x] : IsReport(report)
    /\ \A price \in Prices : price = NoPrice \/ price \in Rates

VARIABLES
    delivered,   \* how many records upstream has handed over
    hand,        \* the record HandleUsage found the sink open for, or <<>>
    queue,       \* Sink.queue
    closed,      \* Sink.closed
    dropped,     \* Sink.dropped
    worker,      \* the worker: where it is, its batch, and its flush
    ledger,      \* usage_events, in the order written
    lost,        \* records processed and not written
    seen,        \* the owner's last_seen_at
    drain,       \* where the call of Drain is
    mark         \* the records accepted when Drain was called

vars == <<delivered, hand, queue, closed, dropped, worker, ledger, lost, seen,
          drain, mark>>

(***************************************************************************)
(* worker.pc: "select" waits for a record or a flush; "fill" tops the      *)
(* batch up with want more records; "write" maps and writes it; "touch"    *)
(* stamps events' owner; "finish" ends the batch.  worker.left is how many *)
(* records the flush being served has still to process.                    *)
(***************************************************************************)
WorkerPC == {"select", "fill", "write", "touch", "finish"}
DrainPC == {"none", "handover", "waiting", "done", "expired"}

Records == 1 .. MaxRecords

Worker == [pc : WorkerPC, batch : Seq(Records), want : Nat,
           flushing : BOOLEAN, left : Nat, events : SUBSET Records]

IdleWorker == [pc |-> "select", batch |-> <<>>, want |-> 0,
               flushing |-> FALSE, left |-> 0, events |-> {}]

TypeOK ==
    /\ delivered \in 0 .. MaxRecords
    /\ hand \in Seq(Records) /\ Len(hand) <= 1
    /\ queue \in Seq(Records) /\ Len(queue) <= QueueSize
    /\ closed \in BOOLEAN
    /\ dropped \in 0 .. MaxRecords
    /\ worker \in Worker /\ Len(worker.batch) <= BatchMax
    /\ ledger \in Seq(Records)
    /\ lost \subseteq Records
    /\ seen \in Nat
    /\ drain \in DrainPC
    /\ mark \subseteq Records

Init ==
    /\ delivered = 0 /\ hand = <<>> /\ queue = <<>>
    /\ closed = FALSE /\ dropped = 0
    /\ worker = IdleWorker
    /\ ledger = <<>> /\ lost = {} /\ seen = 0
    /\ drain = "none" /\ mark = {}

-----------------------------------------------------------------------------
(* HandleUsage, called from upstream's one dispatcher goroutine.           *)

\* It first looks whether the sink is closed ...
HandleUsage ==
    /\ hand = <<>>
    /\ delivered < MaxRecords
    /\ delivered' = delivered + 1
    /\ \/ closed /\ dropped' = dropped + 1 /\ UNCHANGED hand
       \/ ~ closed /\ hand' = <<delivered + 1>> /\ UNCHANGED dropped
    /\ UNCHANGED <<queue, closed, worker, ledger, lost, seen, drain, mark>>

\* ... and only then sends without waiting: a full queue drops the record.
Enqueue ==
    /\ hand # <<>>
    /\ hand' = <<>>
    /\ \/ Len(queue) < QueueSize /\ queue' = queue \o hand
          /\ UNCHANGED dropped
       \/ Len(queue) = QueueSize /\ dropped' = dropped + 1
          /\ UNCHANGED queue
    /\ UNCHANGED <<delivered, closed, worker, ledger, lost, seen, drain, mark>>

-----------------------------------------------------------------------------
(* Drain and sync.                                                         *)

DrainCall ==
    /\ drain = "none"
    /\ closed' = TRUE
    /\ drain' = "handover"
    /\ mark' = ToSet(queue) \cup
               (IF worker.pc \in {"fill", "write"} THEN ToSet(worker.batch)
                                                   ELSE {})
    /\ UNCHANGED <<delivered, hand, queue, dropped, worker, ledger, lost, seen>>

\* ctx ends before the worker answered.
DrainExpires ==
    /\ drain \in {"handover", "waiting"}
    /\ drain' = "expired"
    /\ UNCHANGED <<delivered, hand, queue, closed, dropped, worker, ledger,
                   lost, seen, mark>>

-----------------------------------------------------------------------------
(* The worker.                                                             *)

Smaller(a, b) == IF a < b THEN a ELSE b

\* run, case r := <-s.queue.
ReceiveRecord ==
    /\ worker.pc = "select"
    /\ queue # <<>>
    /\ queue' = Tail(queue)
    /\ worker' = [worker EXCEPT !.pc = "fill", !.want = BatchMax - 1,
                                !.batch = Append(@, Head(queue))]
    /\ UNCHANGED <<delivered, hand, closed, dropped, ledger, lost, seen, drain,
                   mark>>

\* A flush that processes one batch whatever is queued.
ReceiveFlushOnce ==
    /\ worker.pc = "select"
    /\ drain = "handover"
    /\ drain' = "waiting"
    /\ worker' = [worker EXCEPT
                     !.pc = IF queue = <<>> THEN "finish" ELSE "fill",
                     !.flushing = TRUE,
                     !.left = Smaller(Len(queue), BatchMax),
                     !.want = Smaller(Len(queue), BatchMax)]
    /\ UNCHANGED <<delivered, hand, queue, closed, dropped, ledger, lost, seen,
                   mark>>

\* A flush of an empty queue that goes back to waiting unanswered.
ReceiveFlushSilent ==
    /\ worker.pc = "select"
    /\ drain = "handover"
    /\ drain' = "waiting"
    /\ worker' = IF queue = <<>> THEN worker
                 ELSE [worker EXCEPT !.pc = "fill", !.flushing = TRUE,
                                     !.left = Len(queue),
                                     !.want = Smaller(Len(queue), BatchMax)]
    /\ UNCHANGED <<delivered, hand, queue, closed, dropped, ledger, lost, seen,
                   mark>>

\* run, case done := <-s.flush: as many records as are queued now.
ReceiveFlush ==
    /\ worker.pc = "select"
    /\ drain = "handover"
    /\ drain' = "waiting"
    /\ worker' = [worker EXCEPT
                     !.pc = IF queue = <<>> THEN "finish" ELSE "fill",
                     !.flushing = TRUE,
                     !.left = Len(queue),
                     !.want = Smaller(Len(queue), BatchMax)]
    /\ UNCHANGED <<delivered, hand, queue, closed, dropped, ledger, lost, seen,
                   mark>>

\* fill and take, a record at a time.
Fill ==
    /\ worker.pc = "fill"
    /\ worker.want > 0
    /\ queue # <<>>
    /\ queue' = Tail(queue)
    /\ worker' = [worker EXCEPT !.want = @ - 1,
                                !.batch = Append(@, Head(queue))]
    /\ UNCHANGED <<delivered, hand, closed, dropped, ledger, lost, seen, drain,
                   mark>>

\* fill stops at an empty queue, take only at its count.
Filled ==
    /\ worker.pc = "fill"
    /\ worker.want = 0 \/ (queue = <<>> /\ ~ worker.flushing)
    /\ worker' = [worker EXCEPT !.pc = "write", !.want = 0]
    /\ UNCHANGED <<delivered, hand, queue, closed, dropped, ledger, lost, seen,
                   drain, mark>>

\* The rows of a batch, in its order: the records of events (the selection is
\* a recursive function so that it can be proved about).
Written(batch, events) ==
    LET rows[i \in 0 .. Len(batch)] ==
            IF i = 0 THEN <<>>
            ELSE IF batch[i] \in events THEN Append(rows[i - 1], batch[i])
            ELSE rows[i - 1]
    IN  rows[Len(batch)]

\* process: the records of events survive being mapped; AppendBatch writes
\* all of them.
WriteBatch(events) ==
    /\ worker.pc = "write"
    /\ ledger' = ledger \o Written(worker.batch, events)
    /\ lost' = lost \cup (ToSet(worker.batch) \ events)
    /\ worker' = [worker EXCEPT !.pc = "touch", !.events = events]
    /\ UNCHANGED <<delivered, hand, queue, closed, dropped, seen, drain, mark>>

\* AppendBatch fails, writing nothing, and the batch goes on; or it panics
\* and the guard ends it.
WriteFails(events) ==
    /\ worker.pc = "write"
    /\ lost' = lost \cup ToSet(worker.batch)
    /\ \/ worker' = [worker EXCEPT !.pc = "touch", !.events = events]
       \/ worker' = [worker EXCEPT !.pc = "finish"]
    /\ UNCHANGED <<delivered, hand, queue, closed, dropped, ledger, seen, drain,
                   mark>>

Latest(events) ==
    CHOOSE t \in {Completed[x] : x \in events} :
        \A x \in events : Completed[x] <= t

\* touch stamps the owner with the latest completion of the batch, and the
\* statement keeps the later of that and what is stored; or it fails.
Touch ==
    /\ worker.pc = "touch"
    /\ \/ worker.events # {} /\ seen < Latest(worker.events)
          /\ seen' = Latest(worker.events)
       \/ UNCHANGED seen
    /\ worker' = [worker EXCEPT !.pc = "finish", !.events = {}]
    /\ UNCHANGED <<delivered, hand, queue, closed, dropped, ledger, lost, drain,
                   mark>>

\* A flush goes on until it has processed its count, then answers.
FinishBatch ==
    LET left == worker.left - Len(worker.batch)
    IN  /\ worker.pc = "finish"
        /\ IF worker.flushing /\ left > 0
           THEN /\ worker' = [worker EXCEPT !.pc = "fill", !.batch = <<>>,
                                 !.left = left,
                                 !.want = Smaller(left, BatchMax)]
                /\ UNCHANGED drain
           ELSE /\ worker' = IdleWorker
                /\ drain' = IF worker.flushing /\ drain = "waiting"
                            THEN "done" ELSE drain
        /\ UNCHANGED <<delivered, hand, queue, closed, dropped, ledger, lost,
                       seen, mark>>

WorkerStep ==
    \/ ReceiveRecord \/ ReceiveFlush \/ Fill \/ Filled
    \/ \E events \in SUBSET ToSet(worker.batch) :
           WriteBatch(events) \/ WriteFails(events)
    \/ Touch \/ FinishBatch

Next == HandleUsage \/ Enqueue \/ DrainCall \/ DrainExpires \/ WorkerStep

Spec == Init /\ [][Next]_vars /\ WF_vars(WorkerStep)

-----------------------------------------------------------------------------
(* Properties.                                                             *)

\* The records the worker has taken and not yet written or lost.
InBatch == IF worker.pc \in {"select", "fill", "write"}
           THEN worker.batch ELSE <<>>

\* Every record upstream delivered is in one place: written, lost and logged,
\* dropped and counted, or still on its way; none is written twice, and the
\* ledger is in the order of delivery.
NothingLostSilently ==
    LET way == ledger \o InBatch \o queue \o hand
    IN  /\ \A i, j \in 1 .. Len(way) : i < j => way[i] < way[j]
        /\ ToSet(way) \cap lost = {}
        /\ delivered = dropped + Cardinality(lost) + Len(way)

\* When Drain returns without an error, every record accepted before it was
\* called has been processed.
DrainFlushes ==
    drain = "done" => mark \subseteq ToSet(ledger) \cup lost

\* Both accounts of the records: nothing lost silently at any instant, and
\* nothing unprocessed behind a Drain that answered.
RecordsAccounted == NothingLostSilently /\ DrainFlushes

\* Each row of a batch prices every token of its request at most once, at the
\* rate of its kind, and counts as unpriced exactly the others, however the
\* record's vendor counts and whatever it leaves out (eventOf, PriceUsage).
TokensPricedOnce ==
    worker.pc = "touch" =>
        \A x \in worker.events : \A report \in Reports[x], price \in Prices :
            PricedOnce(report, price)

\* The worker answers a Drain, whatever records still arrive and whatever
\* writes fail, unless its context ends first.
DrainAnswers == (drain = "handover") ~> (drain \in {"done", "expired"})

=============================================================================
