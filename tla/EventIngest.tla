---------------------------- MODULE EventIngest ----------------------------
(***************************************************************************)
(* The app peer's half of the telemetry channel: the POST                  *)
(* /telemetry/v1/push handler and its single background delivery runner    *)
(* (internal/app/eventingest/eventingest.go).                              *)
(*                                                                         *)
(* appendBatch holds in.mu from its first entry to its ack; the log append *)
(* inside it is durable entry by entry, so a crash can leave a prefix of a *)
(* batch in the log.  handling is the request that holds in.mu.  The       *)
(* runner takes in.mu to pop the queue and again to conclude, and runs the *)
(* deliverer in between without it.                                        *)
(***************************************************************************)
EXTENDS Integers, Sequences, FiniteSets, FiniteSetsExt

CONSTANTS
    InvalidKinds,        \* kinds whose envelope fails events.Validate
    DeliveryQueueDepth,  \* deliveryQueueDepth
    SinkOutcomes         \* whether the log takes an append: {TRUE} or BOOLEAN

ASSUME IngestConstantsAssumption ==
    /\ DeliveryQueueDepth \in Nat \ {0}
    /\ SinkOutcomes \subseteq BOOLEAN

NoSeq == 0
Idle == [busy |-> FALSE, rest |-> {}, markers |-> {}]

VARIABLES
    receivedThrough, ackThrough,   \* the two cursors
    processed, pending,            \* seqs handled in this batch; not concluded
    queue, draining, delivering,   \* the FIFO, its runner, what it is running
    handling,                      \* the request holding in.mu
    log,                           \* the event log, in append order (persistent)
    epoch,                         \* history: length of log at process start
    dropped,                       \* history: entries refused as invalid
    reported                       \* history: loss markers received

cursors == <<receivedThrough, ackThrough, processed>>
runner == <<pending, queue, draining, delivering>>
ingestHistory == <<epoch, dropped, reported>>
ingestVars == <<cursors, runner, handling, log, ingestHistory>>

IngestTypeOK ==
    /\ receivedThrough \in Nat /\ ackThrough \in Nat
    /\ processed \in SUBSET Nat /\ pending \in SUBSET Nat
    /\ queue \in Seq(Nat) /\ draining \in BOOLEAN /\ delivering \in Nat
    /\ handling.busy \in BOOLEAN
    /\ epoch \in 0..Len(log)

IngestInit ==
    /\ receivedThrough = 0 /\ ackThrough = 0 /\ processed = {}
    /\ pending = {} /\ queue = <<>> /\ draining = FALSE /\ delivering = NoSeq
    /\ handling = Idle
    /\ log = <<>> /\ epoch = 0 /\ dropped = {} /\ reported = {}

Appended == {log[i] : i \in 1..Len(log)}
-----------------------------------------------------------------------------
(***************************************************************************)
(* The handler.                                                            *)
(***************************************************************************)
\* Mutant: entries already received are not skipped.
BeginBatchUnfiltered(b) ==
    /\ ~handling.busy
    /\ handling' = [busy |-> TRUE, rest |-> b.entries, markers |-> b.markers]
    /\ UNCHANGED <<cursors, runner, log, ingestHistory>>

(***************************************************************************)
(* ServeHTTP hands a decoded batch to appendBatch, which takes in.mu.  An  *)
(* entry at or below receivedThrough is skipped; the cursor does not move  *)
(* while the loop runs, so the skipped ones are left out here.             *)
(***************************************************************************)
BeginBatch(b) ==
    /\ ~handling.busy
    /\ handling' = [busy    |-> TRUE,
                    rest    |-> {e \in b.entries : e.seq > receivedThrough},
                    markers |-> b.markers]
    /\ UNCHANGED <<cursors, runner, log, ingestHistory>>

NextEntry(e) == e \in handling.rest /\ \A f \in handling.rest : e.seq <= f.seq

QueueFull == Cardinality(pending) >= DeliveryQueueDepth

(***************************************************************************)
(* One turn of the loop, with room in the queue.  processOne appends a     *)
(* valid envelope, or logs that it drops an invalid one; either way the    *)
(* seq is processed.  Sink.Append has no error return: an append the log   *)
(* refuses goes on as one it took.                                         *)
(***************************************************************************)
TakeEntry(e) ==
    /\ handling.busy
    /\ NextEntry(e)
    /\ e.seq \notin processed
    /\ ~QueueFull
    /\ processed' = processed \cup {e.seq}
    /\ handling' = [handling EXCEPT !.rest = @ \ {e}]
    /\ IF e.kind \in InvalidKinds
       THEN /\ dropped' = dropped \cup {e}
            /\ UNCHANGED <<pending, queue, log>>
       ELSE /\ pending' = pending \cup {e.seq}
            /\ queue' = Append(queue, e.seq)
            /\ \E ok \in SinkOutcomes : log' = IF ok THEN Append(log, e) ELSE log
            /\ UNCHANGED dropped
    /\ UNCHANGED <<receivedThrough, ackThrough, draining, delivering, epoch, reported>>

\* Mutant: the loop goes on over what it has no room for.
SkipAtFullQueue ==
    /\ handling.busy
    /\ handling.rest # {}
    /\ QueueFull
    /\ processed' = processed \cup {e.seq : e \in handling.rest}
    /\ handling' = [handling EXCEPT !.rest = {}]
    /\ UNCHANGED <<receivedThrough, ackThrough, runner, log, ingestHistory>>

\* Backpressure: the loop breaks, leaving the rest of the batch untaken.
StopAtFullQueue ==
    /\ handling.busy
    /\ handling.rest # {}
    /\ QueueFull
    /\ handling' = [handling EXCEPT !.rest = {}]
    /\ UNCHANGED <<cursors, runner, log, ingestHistory>>

\* Mutant: the ack reaches the lowest pending seq itself.
RecomputeAckOneTooHigh(received, pend, ack) == Max({ack, Min({received} \cup pend)})

\* recomputeAckLocked: one below the lowest pending seq, never lowered.
RecomputeAck(received, pend, ack) ==
    Max({ack, Min({received} \cup {s - 1 : s \in pend})})

RangeOfMarker(m) == [from |-> m.from, to |-> m.to]

(***************************************************************************)
(* The end of appendBatch: both cursors advance, the delivery runner is    *)
(* started unless it is alive, and the ack names every marker of the       *)
(* batch.                                                                  *)
(***************************************************************************)
ReceivedAfterBatch == Max({receivedThrough} \cup processed)
AckAfterBatch == RecomputeAck(ReceivedAfterBatch, pending, ackThrough)
Answer == [through |-> AckAfterBatch,
           markers |-> {RangeOfMarker(m) : m \in handling.markers}]

\* Mutant: a batch does not start the delivery runner.
FinishBatchNoRunner ==
    /\ handling.busy
    /\ handling.rest = {}
    /\ receivedThrough' = ReceivedAfterBatch
    /\ ackThrough' = AckAfterBatch
    /\ processed' = {}
    /\ reported' = reported \cup handling.markers
    /\ handling' = Idle
    /\ UNCHANGED <<runner, log, epoch, dropped>>

FinishBatch ==
    /\ handling.busy
    /\ handling.rest = {}
    /\ receivedThrough' = ReceivedAfterBatch
    /\ ackThrough' = AckAfterBatch
    /\ processed' = {}
    /\ draining' = (draining \/ queue # <<>>)
    /\ reported' = reported \cup handling.markers
    /\ handling' = Idle
    /\ UNCHANGED <<pending, queue, delivering, log, epoch, dropped>>
-----------------------------------------------------------------------------
(***************************************************************************)
(* The delivery runner, drainQueue.                                        *)
(***************************************************************************)
TakeHead ==
    /\ draining /\ delivering = NoSeq
    /\ ~handling.busy
    /\ queue # <<>>
    /\ delivering' = Head(queue) /\ queue' = Tail(queue)
    /\ UNCHANGED <<cursors, pending, draining, handling, log, ingestHistory>>

\* deliverOne came back: it returned, ran out its budget, or panicked.
Conclude ==
    /\ delivering # NoSeq
    /\ ~handling.busy
    /\ pending' = pending \ {delivering}
    /\ ackThrough' = RecomputeAck(receivedThrough, pending', ackThrough)
    /\ delivering' = NoSeq
    /\ UNCHANGED <<receivedThrough, processed, queue, draining, handling, log, ingestHistory>>

RunnerExits ==
    /\ draining /\ delivering = NoSeq
    /\ ~handling.busy
    /\ queue = <<>>
    /\ draining' = FALSE
    /\ UNCHANGED <<cursors, pending, queue, delivering, handling, log, ingestHistory>>

\* The process dies: every cursor and the queue are memory, the log is not.
IngestRestart ==
    /\ receivedThrough' = 0 /\ ackThrough' = 0 /\ processed' = {}
    /\ pending' = {} /\ queue' = <<>> /\ draining' = FALSE /\ delivering' = NoSeq
    /\ handling' = Idle
    /\ epoch' = Len(log)
    /\ UNCHANGED <<log, dropped, reported>>

RunnerNext == TakeHead \/ Conclude \/ RunnerExits
HandlerNext == (\E e \in handling.rest : TakeEntry(e)) \/ StopAtFullQueue
=============================================================================
