------------------------- MODULE TelemetryInvariant -------------------------
(***************************************************************************)
(* The inductive invariant behind NoSilentLoss.  NoSilentLoss is not       *)
(* inductive: an ack may discard an entry only because of what held when   *)
(* the push it answers was built, perhaps several crashes ago.  The        *)
(* invariant says what every batch in flight and every cursor still        *)
(* guarantees about entries it does not carry itself.                      *)
(***************************************************************************)
EXTENDS TelemetryPipeline

\* Every set of entries on its way to, or inside, the handler.
Flying == {batch.entries, handling.rest} \cup {b.entries : b \in late}

\* Every form of a loss marker anyone holds.
SeenMarkers ==
    lossMarkers \cup dMarkers \cup batch.markers \cup handling.markers
        \cup reported \cup UNION {b.markers : b \in late}

Accounted == Terminal \cup Marked

\* Nothing at or below x is missing: an ack of x may be acted on.
Covered(x) == \A e \in recorded : e.seq <= x => e \in Accounted

\* The collections are finite, and recordDrop keeps to one marker.
WellFormed ==
    /\ IsFiniteSet(entries) /\ IsFiniteSet(dEntries)
    /\ IsFiniteSet(processed) /\ IsFiniteSet(pending)
    /\ \A m, n \in lossMarkers : m = n
    /\ \A m, n \in dMarkers : m = n

\* The disk and the buffer agree, but for a retired marker not yet saved.
DiskMirrorsBuffer ==
    /\ Durables(entries) = dEntries
    /\ mu # "ack" => lossMarkers = dMarkers
    /\ lossMarkers \subseteq dMarkers
    /\ DroppedBy(dMarkers) \subseteq DroppedBy(lossMarkers) \cup DroppedBy(reported)

\* Nothing visible carries a seq above the last one issued.
Numbering ==
    /\ mu = "record" => nextSeq > 0
    /\ \A e \in entries : e.seq <= nextSeq
    /\ \A e \in recorded : e.seq > 0 /\ (e.seq <= IssuedSeq \/ e \in dEntries)
    /\ \A B \in Flying : \A e \in B : e.seq <= IssuedSeq
    /\ \A s \in processed : s <= IssuedSeq
    /\ receivedThrough <= IssuedSeq /\ ackThrough <= IssuedSeq
    /\ ackedThrough <= IssuedSeq /\ answer.through <= IssuedSeq
    /\ \A m \in SeenMarkers : m.to <= IssuedSeq

\* A seq names one entry.
SeqIsIdentity ==
    \A B \in Flying \cup {entries} : \A b \in B : \A e \in recorded :
        e.seq = b.seq => e = b

\* A batch carries every unsettled entry below any entry it carries.
FlyingClosed ==
    \A B \in Flying : \A b \in B : \A e \in recorded :
        e.seq <= b.seq => e \in B \cup Accounted

CursorsCovered ==
    /\ Covered(receivedThrough) /\ Covered(ackThrough)
    /\ Covered(ackedThrough) /\ Covered(answer.through)
    /\ \A s \in processed : Covered(s)

\* A marker's range determines what it counts, and every later drop is above it.
MarkersAgree ==
    /\ \A m, n \in SeenMarkers : m.to = n.to => m.dropped = n.dropped
    /\ \A m \in SeenMarkers : \A e \in dEntries : m.to < e.seq
    /\ \A r \in answer.markers : \E m \in reported : RangeOf(m) = r

Settled ==
    /\ dEntries \subseteq recorded
    /\ EveryEntrySettled
    /\ evicted \subseteq Marked

ChannelOK ==
    /\ DiskMirrorsBuffer /\ Numbering /\ SeqIsIdentity /\ FlyingClosed
    /\ CursorsCovered /\ MarkersAgree /\ Settled

(***************************************************************************)
(* The inductive invariant of the telemetry channel: what the buffer, the  *)
(* disk, the batches in flight, the cursors and the markers guarantee one  *)
(* another until a seq is issued twice.                                    *)
(***************************************************************************)
ChannelInvariant == ~reissued => ChannelOK

IInv == TypeOK /\ WellFormed /\ ChannelInvariant
(***************************************************************************)
(* Why the log stays in order: what was appended since the app peer        *)
(* started is at or below the received cursor or taken in this batch, and  *)
(* what is left of the batch is above the cursor and not below what was    *)
(* taken.                                                                  *)
(***************************************************************************)
LogIsBehind ==
    \A i \in (epoch + 1)..Len(log) : log[i].seq <= receivedThrough \/ log[i].seq \in processed

RestIsAhead ==
    \A e \in handling.rest : e.seq > receivedThrough /\ \A s \in processed : s <= e.seq

LogInv ==
    /\ LogOrdered /\ LogIsBehind /\ RestIsAhead
    /\ ~handling.busy => processed = {}
(***************************************************************************)
(* Why an ack stays below what is in flight: what waits for delivery was   *)
(* taken once, above both cursors, and an answer still on its way is no    *)
(* higher than the ack cursor, unless the app peer has restarted since, in *)
(* which case it takes nothing until the relay has read that answer.       *)
(***************************************************************************)
Queued == {queue[i] : i \in 1..Len(queue)}

PendingIsAhead ==
    /\ ackThrough <= receivedThrough
    /\ \A s \in pending : s > ackThrough /\ (s <= receivedThrough \/ s \in processed)

AnswerIsBehind ==
    push = "answered" =>
        \/ answer.through <= ackThrough
        \/ late = {} /\ ~handling.busy /\ pending = {}

QueuedOnce ==
    /\ \A i, j \in 1..Len(queue) : queue[i] = queue[j] => i = j
    /\ delivering \notin Queued
    /\ delivering # NoSeq => draining

QueueInv == PendingIsAhead /\ AnswerIsBehind /\ QueuedOnce /\ RunnerHasTheQueue
-----------------------------------------------------------------------------
(***************************************************************************)
(* The same in memory alone, for NoLossWhileUp.  Until the relay restarts  *)
(* no seq is issued twice and nothing is read back from the disk, so that  *)
(* the buffer and the marker it holds stand in for what is saved, whatever *)
(* the disk has taken.                                                     *)
(***************************************************************************)
MarkersInMemory ==
    lossMarkers \cup batch.markers \cup handling.markers
        \cup reported \cup UNION {b.markers : b \in late}

Told == Terminal \cup DroppedBy(lossMarkers) \cup DroppedBy(reported)

\* Nothing at or below x is missing but what was told.
ToldUpTo(x) == \A e \in recorded : e.seq <= x => e \in Told

MemoryNumbering ==
    /\ mu = "record" => nextSeq > 0
    /\ \A e \in entries : e.seq <= nextSeq
    /\ \A e \in recorded : e.seq > 0 /\ e.seq <= nextSeq
    /\ \A B \in Flying : \A e \in B : e.seq <= IssuedSeq
    /\ \A s \in processed : s <= IssuedSeq
    /\ receivedThrough <= IssuedSeq /\ ackThrough <= IssuedSeq
    /\ ackedThrough <= IssuedSeq /\ answer.through <= IssuedSeq
    /\ \A m \in MarkersInMemory : m.to <= IssuedSeq

MemoryFlyingClosed ==
    \A B \in Flying : \A b \in B : \A e \in recorded :
        e.seq <= b.seq => e \in B \cup Told

MemoryCursorsCovered ==
    /\ ToldUpTo(receivedThrough) /\ ToldUpTo(ackThrough)
    /\ ToldUpTo(ackedThrough) /\ ToldUpTo(answer.through)
    /\ \A s \in processed : ToldUpTo(s)

MemoryMarkersAgree ==
    /\ \A m, n \in MarkersInMemory : m.to = n.to => m.dropped = n.dropped
    /\ \A m \in MarkersInMemory : \A e \in Durables(entries) : m.to < e.seq
    /\ \A r \in answer.markers : \E m \in reported : RangeOf(m) = r

MemorySettled ==
    /\ Durables(entries) \subseteq recorded
    /\ recorded \subseteq Durables(entries) \cup Told

MemoryOK ==
    /\ MemoryNumbering /\ SeqIsIdentity /\ MemoryFlyingClosed
    /\ MemoryCursorsCovered /\ MemoryMarkersAgree /\ MemorySettled

MemoryInvariant == relayRestarts = 0 => MemoryOK
=============================================================================
