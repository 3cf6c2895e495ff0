------------------------- MODULE TelemetryPipeline -------------------------
(***************************************************************************)
(* One relay pushing its telemetry to the app peer: the relay's half       *)
(* (TelemetryRelay) and the app peer's (EventIngest), joined by the HTTP   *)
(* push of internal/relay/telemetryhttp.                                   *)
(*                                                                         *)
(* A push can fail on the relay's side at any point: the request is lost,  *)
(* the client's deadline passes while the handler works, or the answer is  *)
(* lost.  A request the relay has given up on may still reach the handler  *)
(* later, after newer pushes: late holds those.                            *)
(***************************************************************************)
EXTENDS TelemetryRelay, EventIngest

CONSTANTS
    MaxLate,            \* bound: abandoned requests the app peer may still see
    MaxRelayRestarts,   \* bound: crashes of the relay
    MaxIngestRestarts   \* bound: crashes of the app peer

ASSUME PipelineAssumption ==
    MaxLate \in Nat /\ MaxRelayRestarts \in Nat /\ MaxIngestRestarts \in Nat

VARIABLES
    push,    \* the current Push call
    answer,  \* the ack on its way back
    late,    \* abandoned batches the handler has not seen
    relayRestarts, ingestRestarts

wire == <<push, answer, late>>
restarts == <<relayRestarts, ingestRestarts>>
vars == <<relayVars, ingestVars, wire, restarts>>

NoAnswer == [through |-> 0, markers |-> {}]
Batch == [entries : SUBSET Entry, markers : SUBSET LossMarker]
Ack == [through : Nat, markers : SUBSET SeqRange]

(***************************************************************************)
(* The types of the variables of both halves and of the wire.              *)
(***************************************************************************)
TypeOK ==
    /\ RelayTypeOK
    /\ IngestTypeOK
    /\ handling \in [busy : BOOLEAN, rest : SUBSET Entry, markers : SUBSET LossMarker]
    /\ log \in Seq(Entry)
    /\ dropped \in SUBSET Entry /\ reported \in SUBSET LossMarker
    /\ push \in {"none", "sent", "handled", "answered", "broken"}
    /\ answer \in Ack
    /\ late \in SUBSET Batch
    /\ relayRestarts \in Nat /\ ingestRestarts \in Nat

Init ==
    /\ RelayInit /\ IngestInit
    /\ push = "none" /\ answer = NoAnswer /\ late = {}
    /\ relayRestarts = 0 /\ ingestRestarts = 0
-----------------------------------------------------------------------------
\* The relay records, persists and builds on its own.
RelayStep ==
    /\ RelayNext
    /\ UNCHANGED <<ingestVars, wire, restarts>>

\* Client.Push: the POST of the batch the Channel has built.
SendPush ==
    /\ flush = "pushing" /\ push = "none"
    /\ push' = "sent"
    /\ UNCHANGED <<relayVars, ingestVars, answer, late, restarts>>

\* The handler takes the current request.
HandlePush ==
    /\ push = "sent"
    /\ BeginBatch(batch)
    /\ push' = "handled"
    /\ UNCHANGED <<relayVars, answer, late, restarts>>

\* The handler takes a request nobody waits for any more.
HandleLatePush ==
    /\ \E b \in late : BeginBatch(b) /\ late' = late \ {b}
    /\ UNCHANGED <<relayVars, push, answer, restarts>>

HandlerStep ==
    /\ HandlerNext
    /\ UNCHANGED <<relayVars, wire, restarts>>

(***************************************************************************)
(* The handler answers.  push = "handled" exactly while the request being  *)
(* handled is the one the relay is waiting on.                             *)
(***************************************************************************)
AnswerPush ==
    /\ FinishBatch
    /\ IF push = "handled"
       THEN push' = "answered" /\ answer' = Answer
       ELSE UNCHANGED <<push, answer>>
    /\ UNCHANGED <<relayVars, late, restarts>>

RunnerStep ==
    /\ RunnerNext
    /\ UNCHANGED <<relayVars, wire, restarts>>

\* Client.Push returns the decoded ack and the Channel applies it.
PushReturnsAck ==
    /\ push = "answered"
    /\ ApplyAck(answer)
    /\ push' = "none" /\ answer' = NoAnswer
    /\ UNCHANGED <<ingestVars, late, restarts>>

\* Where the request of a Push that the relay gives up on may end up.
Abandon ==
    /\ push' = "none" /\ answer' = NoAnswer
    /\ \/ late' = late
       \/ /\ push = "sent" /\ Cardinality(late) < MaxLate
          /\ late' = late \cup {batch}

(***************************************************************************)
(* Client.Push returns an error: no connection, the deadline, or an answer *)
(* other than 2xx.                                                         *)
(***************************************************************************)
PushReturnsError ==
    /\ push \in {"sent", "handled", "answered", "broken"}
    /\ PushFailed
    /\ Abandon
    /\ UNCHANGED <<ingestVars, restarts>>

CrashRelay ==
    /\ relayRestarts < MaxRelayRestarts
    /\ relayRestarts' = relayRestarts + 1
    /\ RelayRestart
    /\ Abandon
    /\ UNCHANGED <<ingestVars, ingestRestarts>>

\* Every open connection goes with the process; an answer already sent may
\* still be read.
CrashIngest ==
    /\ ingestRestarts < MaxIngestRestarts
    /\ ingestRestarts' = ingestRestarts + 1
    /\ IngestRestart
    /\ push' = IF push \in {"sent", "handled"} THEN "broken" ELSE push
    /\ late' = {}
    /\ UNCHANGED <<relayVars, answer, relayRestarts>>

Next ==
    \/ RelayStep
    \/ SendPush \/ HandlePush \/ HandleLatePush
    \/ HandlerStep \/ AnswerPush \/ RunnerStep
    \/ PushReturnsAck \/ PushReturnsError
    \/ CrashRelay \/ CrashIngest

Spec == Init /\ [][Next]_vars

(***************************************************************************)
(* Fairness.  The flush ticker, the buffer's writes, the handler and the   *)
(* runner are never stopped while their process is up, and sync.Mutex      *)
(* starves none of those that wait for it, however often another takes it  *)
(* first (hence SF).  The network may fail any number of pushes, but from  *)
(* some time on it fails none.  Nobody is bound to record.                 *)
(***************************************************************************)
Local(A) == A /\ UNCHANGED <<ingestVars, wire, restarts>>

Fairness ==
    /\ WF_vars(Local(SaveSeqHighWater)) /\ WF_vars(Local(SaveLossMarkers))
    /\ WF_vars(Local(FlushTick))
    /\ SF_vars(Local(BuildPending)) /\ SF_vars(Local(BuildLossMarkers))
    /\ WF_vars(SendPush) /\ SF_vars(HandlePush)
    /\ WF_vars(HandlerStep) /\ WF_vars(AnswerPush)
    /\ SF_vars(RunnerStep)
    /\ SF_vars(PushReturnsAck)
    /\ WF_vars(PushReturnsError /\ push = "broken")

NetworkRecovers == <>[][~(PushReturnsError /\ push # "broken")]_vars

FairSpec == Spec /\ Fairness /\ NetworkRecovers
-----------------------------------------------------------------------------
(***************************************************************************)
(* Properties.                                                             *)
(***************************************************************************)
DroppedBy(M) == UNION {m.dropped : m \in M}

\* What the app peer has finished with, and what it was told is lost.
Terminal == Appended \cup dropped
Marked == DroppedBy(dMarkers) \cup DroppedBy(reported)

(***************************************************************************)
(* REL-093 and REL-103: a durable entry the relay has recorded is on its   *)
(* disk, or in the app peer's log (or refused there as invalid), or        *)
(* counted by a loss marker that is on disk or has been received.          *)
(***************************************************************************)
EveryEntrySettled == recorded \subseteq dEntries \cup Terminal \cup Marked

(***************************************************************************)
(* EveryEntrySettled across overflow, crashes of either side between any   *)
(* two writes, and pushes that time out and are handled late, for as long  *)
(* as no restart of the relay resumes below a seq it had issued: a seq     *)
(* issued twice is the only way an entry can go missing.                   *)
(***************************************************************************)
NoSilentLoss == ~reissued => EveryEntrySettled

(***************************************************************************)
(* The same promise kept in memory alone, whatever the disk does: while no *)
(* relay crash has happened, an entry is buffered, finished with by the    *)
(* app peer, or counted by a marker the relay still holds or has handed    *)
(* over.                                                                   *)
(***************************************************************************)
NoLossWhileUp ==
    relayRestarts = 0 =>
        recorded \subseteq entries \cup Terminal
                          \cup DroppedBy(lossMarkers) \cup DroppedBy(reported)

(***************************************************************************)
(* REL-100 and REL-102: an entry dropped by overflow stays counted by a    *)
(* marker on disk until the app peer has received a marker that counts it, *)
(* even when the marker was widened while an older form of it was in       *)
(* flight, and even if the entry itself had already been delivered.        *)
(***************************************************************************)
OverflowIsMarked == ~reissued => evicted \subseteq Marked

(***************************************************************************)
(* REL-092, and recomputeAckLocked: no entry whose delivery has not        *)
(* concluded is at or below the ack cursor, so the relay never discards    *)
(* one on the strength of an ack.                                          *)
(***************************************************************************)
NothingInFlightBelowAck ==
    \A s \in pending : s > ackThrough /\ (push = "answered" => s > answer.through)

(***************************************************************************)
(* REL-097 and EVT-135: since the app peer started, it has appended        *)
(* entries in strictly increasing seq order: no retry and no late push is  *)
(* appended twice or behind a newer entry.                                 *)
(***************************************************************************)
LogOrdered ==
    \A i, j \in (epoch + 1)..Len(log) : i < j => log[i].seq < log[j].seq

(***************************************************************************)
(* startDeliveryLocked and drainQueue: an entry waiting for delivery has a *)
(* runner that will come to it, and what is pending is exactly what is     *)
(* queued or being delivered.                                              *)
(***************************************************************************)
RunnerHasTheQueue ==
    /\ ~handling.busy /\ queue # <<>> => draining
    /\ pending = {queue[i] : i \in 1..Len(queue)} \cup ({delivering} \ {NoSeq})

(***************************************************************************)
(* REL-092 and REL-102, as steps: an entry leaves the relay's disk only if *)
(* the app peer is finished with it or a marker counts it, and a marker    *)
(* only if the app peer has received it.                                   *)
(***************************************************************************)
DiscardsOnlyWhatIsSettled ==
    [][~reissued' => /\ dEntries \ dEntries' \subseteq (Terminal \cup Marked)'
                     /\ DroppedBy(dMarkers) \subseteq (Marked)']_vars

(***************************************************************************)
(* The channel implements the custody it promises: the disk's entries and  *)
(* markers are what the relay owes, the app peer's log what was delivered, *)
(* the markers it received what was announced.                             *)
(***************************************************************************)
Custody == INSTANCE DurableCustody WITH
    accepted  <- recorded,
    owed      <- dEntries \cup DroppedBy(dMarkers),
    delivered <- Terminal,
    announced <- DroppedBy(reported),
    sound     <- ~reissued

ImplementsCustody == Custody!Spec

(***************************************************************************)
(* REL-093: once nothing new is recorded, the backlog and its markers are  *)
(* handed over and nothing stays behind on the relay.                      *)
(***************************************************************************)
BacklogDrains ==
    <>[](dEntries = {} /\ dMarkers = {})

(***************************************************************************)
(* Every delivery that was started is concluded and acknowledged by the    *)
(* cursor: backpressure never wedges the ack behind the received cursor.   *)
(***************************************************************************)
AckCatchesUp == []<>(ackThrough = receivedThrough)
=============================================================================
