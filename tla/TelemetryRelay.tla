--------------------------- MODULE TelemetryRelay ---------------------------
(***************************************************************************)
(* The relay's half of the telemetry channel: the bounded Buffer           *)
(* (internal/relay/telemetry/buffer.go), its write-through DurableStore    *)
(* (internal/relay/identity/telemetrystore.go) and the upstream Channel    *)
(* that pushes it (internal/relay/telemetry/channel.go).                   *)
(*                                                                         *)
(* An entry is its seq and its kind.  A kind stands for one (schema,       *)
(* subject) pair, the key Buffer.supersede compares; payload, trace id and *)
(* record time are carried unread and left out.  A slice of entries, or of *)
(* loss markers, is held in ascending seq order: it is modelled as a set.  *)
(*                                                                         *)
(* b.mu is held across a Record and across an applyAck, each of which      *)
(* makes two separate durable writes: mu says which of the two still has   *)
(* its second write to do.  Only a process crash can fall between them.    *)
(***************************************************************************)
EXTENDS Integers, Sequences, FiniteSets, FiniteSetsExt

CONSTANTS
    DurableKinds,   \* kinds of the durable schemas
    LatestKinds,    \* kinds of the latest-only schemas
    Capacity,       \* durable entries the buffer holds
    MaxAttempts,    \* ExponentialBackoff.MaxAttempts; 1 when backoff is nil
    StoreOutcomes,  \* whether a durable write commits: {TRUE} or BOOLEAN
    MaxSeq          \* bound: how many entries are ever recorded

ASSUME KindsAssumption == DurableKinds \cap LatestKinds = {}
ASSUME RelayConstantsAssumption ==
    /\ Capacity \in Nat \ {0}
    /\ MaxAttempts \in Nat
    /\ MaxSeq \in Nat
    /\ StoreOutcomes \subseteq BOOLEAN

Kinds == DurableKinds \cup LatestKinds
Entry == [seq : Nat, kind : Kinds]

(***************************************************************************)
(* A loss marker.  dropped stands for DroppedCountsBySchema: the code      *)
(* keeps the number of its members per schema, and nothing reads it.       *)
(***************************************************************************)
LossMarker == [from : Nat, to : Nat, dropped : SUBSET Entry]
SeqRange == [from : Nat, to : Nat]

VARIABLES
    entries, nextSeq, lossMarkers,    \* Buffer, in memory
    storeErr,                         \* Buffer: an unread write-through error
    dEntries, dMarkers, dHighWater,   \* DurableStore, on disk
    mu,                               \* what the holder of b.mu still has to write
    ackedThrough,                     \* Channel, in memory
    flush, attempt,                   \* Channel: where Flush is, which attempt
    batch,                            \* Channel: the push being built or sent
    recorded,                         \* history: every durable entry recorded
    evicted,                          \* history: every entry dropped by overflow
    reissued                          \* history: a restart resumed below an issued seq

memory == <<entries, nextSeq, lossMarkers, storeErr>>
disk == <<dEntries, dMarkers, dHighWater>>
channel == <<ackedThrough, flush, attempt, batch>>
history == <<recorded, evicted, reissued>>
relayVars == <<memory, disk, mu, channel, history>>

EmptyBatch == [entries |-> {}, markers |-> {}]

RelayTypeOK ==
    /\ entries \in SUBSET Entry /\ nextSeq \in Nat
    /\ lossMarkers \in SUBSET LossMarker
    /\ storeErr \in BOOLEAN
    /\ dEntries \in SUBSET Entry /\ dMarkers \in SUBSET LossMarker
    /\ dHighWater \in Nat
    /\ mu \in {"free", "record", "ack"}
    /\ ackedThrough \in Nat
    /\ flush \in {"idle", "pending", "built", "pushing"}
    /\ attempt \in Nat
    /\ batch \in [entries : SUBSET Entry, markers : SUBSET LossMarker]
    /\ recorded \in SUBSET Entry /\ evicted \in SUBSET Entry
    /\ reissued \in BOOLEAN

RelayInit ==
    /\ entries = {} /\ nextSeq = 0 /\ lossMarkers = {} /\ storeErr = FALSE
    /\ dEntries = {} /\ dMarkers = {} /\ dHighWater = 0
    /\ mu = "free"
    /\ ackedThrough = 0 /\ flush = "idle" /\ attempt = 0 /\ batch = EmptyBatch
    /\ recorded = {} /\ evicted = {} /\ reissued = FALSE
-----------------------------------------------------------------------------
(***************************************************************************)
(* Recording.                                                              *)
(***************************************************************************)
Durables(S) == {e \in S : e.kind \in DurableKinds}

\* Buffer.supersede: a newer latest-only entry replaces the one of its kind.
Supersede(S, k) == IF k \in LatestKinds THEN {e \in S : e.kind # k} ELSE S

(***************************************************************************)
(* enforceCapacity evicts the lowest durable entry until no more than      *)
(* Capacity are left: what goes is every durable entry with at least       *)
(* Capacity durable entries above it.                                      *)
(***************************************************************************)
Overflow(S) ==
    {e \in Durables(S) : Cardinality({f \in Durables(S) : f.seq > e.seq}) >= Capacity}

Seqs(S) == {e.seq : e \in S}
MaxSeqOf(S) == Max(Seqs(S))
MinSeqOf(S) == Min(Seqs(S))

(***************************************************************************)
(* recordDrop, for each evicted entry: widen the last marker, or open the  *)
(* first one.                                                              *)
(***************************************************************************)
LastMarker(markers) == CHOOSE m \in markers : \A n \in markers : n.to <= m.to

Widen(m, S) == [from    |-> Min({m.from, MinSeqOf(S)}),
                to      |-> Max({m.to, MaxSeqOf(S)}),
                dropped |-> m.dropped \cup S]

RecordDrops(markers, S) ==
    CASE S = {} -> markers
      [] S # {} /\ markers = {} ->
            {[from |-> MinSeqOf(S), to |-> MaxSeqOf(S), dropped |-> S]}
      [] OTHER ->
            LET last == LastMarker(markers)
            IN  (markers \ {last}) \cup {Widen(last, S)}

\* Mutant: the eviction prunes the store and leaves the markers unwritten.
RecordWithoutMarkers(k) ==
    /\ mu = "free"
    /\ nextSeq < MaxSeq
    /\ LET e    == [seq |-> nextSeq + 1, kind |-> k]
           held == Supersede(entries, k) \cup {e}
           gone == Overflow(held)
       IN  /\ entries' = held \ gone
           /\ lossMarkers' = RecordDrops(lossMarkers, gone)
           /\ dEntries' = (dEntries \cup Durables({e})) \ gone
           /\ recorded' = recorded \cup Durables({e})
           /\ evicted' = evicted \cup gone
    /\ nextSeq' = nextSeq + 1
    /\ mu' = "record"
    /\ UNCHANGED <<storeErr, dMarkers, dHighWater, channel, reissued>>

(***************************************************************************)
(* RecordTraced up to and including the first durable write of             *)
(* persistRecord.  Without an eviction that is AppendTelemetry; with one   *)
(* it is AppendWithEviction, a single transaction that appends the entry,  *)
(* prunes the evicted run and rewrites the markers.  A latest-only entry   *)
(* has no row.  A write that fails leaves the disk alone and is noted.     *)
(***************************************************************************)
Record(k) ==
    /\ mu = "free"
    /\ nextSeq < MaxSeq
    /\ LET e    == [seq |-> nextSeq + 1, kind |-> k]
           held == Supersede(entries, k) \cup {e}
           gone == Overflow(held)
           keep == held \ gone
           marks == RecordDrops(lossMarkers, gone)
           rows == dEntries \cup Durables({e})
       IN  \E ok \in StoreOutcomes :
             /\ nextSeq' = nextSeq + 1
             /\ entries' = keep
             /\ lossMarkers' = marks
             /\ dEntries' = IF ~ok THEN dEntries
                            ELSE IF gone = {} THEN rows
                            ELSE {r \in rows : r.seq > MaxSeqOf(gone)}
             /\ dMarkers' = IF ok /\ gone # {} THEN marks ELSE dMarkers
             /\ storeErr' = (storeErr \/ ~ok)
             /\ recorded' = recorded \cup Durables({e})
             /\ evicted' = evicted \cup gone
    /\ mu' = "record"
    /\ UNCHANGED <<dHighWater, channel, reissued>>

\* persistRecord's second write: SaveSeqHighWater, which only advances.
SaveSeqHighWater ==
    /\ mu = "record"
    /\ \E ok \in StoreOutcomes :
         /\ dHighWater' = IF ok THEN Max({dHighWater, nextSeq}) ELSE dHighWater
         /\ storeErr' = (storeErr \/ ~ok)
    /\ mu' = "free"
    /\ UNCHANGED <<entries, nextSeq, lossMarkers, dEntries, dMarkers, channel, history>>

(***************************************************************************)
(* StoreErr: read by the automation host after a tick and after a device   *)
(* state change; reading it clears it.                                     *)
(***************************************************************************)
StoreErr ==
    /\ mu = "free"
    /\ storeErr
    /\ storeErr' = FALSE
    /\ UNCHANGED <<entries, nextSeq, lossMarkers, disk, mu, channel, history>>
-----------------------------------------------------------------------------
(***************************************************************************)
(* Flushing.  Flush holds c.mu throughout, so there is one at a time; it   *)
(* takes b.mu twice to build a batch, once for the entries and once for    *)
(* the markers, and a Record may come between the two.                     *)
(***************************************************************************)
\* telemetryFlushLoop: the ticker fires.
FlushTick ==
    /\ flush = "idle"
    /\ flush' = "pending" /\ attempt' = 0
    /\ UNCHANGED <<memory, disk, mu, ackedThrough, batch, history>>

\* buildBatch: Buffer.Pending, without what an ack already covers.
BuildPending ==
    /\ flush = "pending"
    /\ mu = "free"
    /\ batch' = [entries |-> {e \in entries : e.seq > ackedThrough}, markers |-> {}]
    /\ flush' = "built"
    /\ UNCHANGED <<memory, disk, mu, ackedThrough, attempt, history>>

\* buildBatch: Buffer.PendingLossMarkers.  An empty batch ends the Flush,
\* any other is handed to Upstream.Push.
BuildLossMarkers ==
    /\ flush = "built"
    /\ mu = "free"
    /\ LET b == [batch EXCEPT !.markers = lossMarkers]
       IN  IF b = EmptyBatch
           THEN flush' = "idle" /\ batch' = EmptyBatch
           ELSE flush' = "pushing" /\ batch' = b
    /\ UNCHANGED <<memory, disk, mu, ackedThrough, attempt, history>>

\* ExponentialBackoff.Next(n): retry n is allowed.  MaxAttempts = 0 is no limit.
RetryAllowed(n) == ~(MaxAttempts > 0 /\ n > MaxAttempts)

\* Push returned an error: another attempt after the backoff, or give up.
PushFailed ==
    /\ flush = "pushing"
    /\ IF RetryAllowed(attempt + 1)
       THEN flush' = "pending" /\ attempt' = attempt + 1
       ELSE flush' = "idle" /\ attempt' = 0
    /\ batch' = EmptyBatch
    /\ UNCHANGED <<memory, disk, mu, ackedThrough, history>>

RangeOf(m) == [from |-> m.from, to |-> m.to]

\* Mutant: no marker is ever matched.
UnackedKeepsAll(markers, acked) == markers

Unacked(markers, acked) == {m \in markers : RangeOf(m) \notin acked}

(***************************************************************************)
(* Push returned an ack.  Channel.applyAck raises the cursor, and          *)
(* Buffer.applyAck discards what the ack covers, prunes the store, and     *)
(* retires the markers the ack names.  The retired set is saved by a       *)
(* second write, SaveLossMarkers, unless the ack names no marker.          *)
(***************************************************************************)
ApplyAck(ack) ==
    /\ flush = "pushing"
    /\ mu = "free"
    /\ ackedThrough' = Max({ackedThrough, ack.through})
    /\ entries' = {e \in entries : e.seq > ack.through}
    /\ lossMarkers' = Unacked(lossMarkers, ack.markers)
    /\ \E ok \in StoreOutcomes :
         /\ dEntries' = IF ok THEN {e \in dEntries : e.seq > ack.through} ELSE dEntries
         /\ storeErr' = (storeErr \/ ~ok)
    /\ mu' = IF ack.markers = {} THEN "free" ELSE "ack"
    /\ flush' = "idle" /\ attempt' = 0 /\ batch' = EmptyBatch
    /\ UNCHANGED <<nextSeq, dMarkers, dHighWater, history>>

\* Mutant: the saved rows are cleared and not written again.
SaveNoLossMarkers ==
    /\ mu = "ack"
    /\ dMarkers' = {}
    /\ mu' = "free"
    /\ UNCHANGED <<entries, nextSeq, lossMarkers, storeErr, dEntries, dHighWater, channel, history>>

\* applyAck's second write.
SaveLossMarkers ==
    /\ mu = "ack"
    /\ \E ok \in StoreOutcomes :
         /\ dMarkers' = IF ok THEN lossMarkers ELSE dMarkers
         /\ storeErr' = (storeErr \/ ~ok)
    /\ mu' = "free"
    /\ UNCHANGED <<entries, nextSeq, lossMarkers, dEntries, dHighWater, channel, history>>
-----------------------------------------------------------------------------
(***************************************************************************)
(* The process dies at any point, between the two writes of a Record or of *)
(* an applyAck included, and NewDurableBuffer reloads from the store.  The *)
(* cursor of the Channel is not persisted.                                 *)
(***************************************************************************)
ResumeSeq == Max({dHighWater} \cup Seqs(dEntries))

\* The highest seq anyone but the holder of b.mu may have seen.
IssuedSeq == IF mu = "record" THEN nextSeq - 1 ELSE nextSeq

RelayRestart ==
    /\ entries' = dEntries
    /\ lossMarkers' = dMarkers
    /\ nextSeq' = ResumeSeq
    /\ storeErr' = FALSE
    /\ mu' = "free"
    /\ ackedThrough' = 0
    /\ flush' = "idle" /\ attempt' = 0 /\ batch' = EmptyBatch
    /\ reissued' = (reissued \/ ResumeSeq < IssuedSeq)
    /\ UNCHANGED <<disk, recorded, evicted>>

(***************************************************************************)
(* The steps that do not involve the app peer.                             *)
(***************************************************************************)
RelayNext ==
    \/ \E k \in Kinds : Record(k)
    \/ SaveSeqHighWater
    \/ StoreErr
    \/ FlushTick
    \/ BuildPending
    \/ BuildLossMarkers
    \/ SaveLossMarkers
=============================================================================
