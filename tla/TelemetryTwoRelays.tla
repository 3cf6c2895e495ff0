------------------------ MODULE TelemetryTwoRelays ------------------------
(***************************************************************************)
(* Two enrolled relays pushing to the one ingest of an app peer.  The      *)
(* first is the relay of TelemetryPipeline; the second is another instance *)
(* of TelemetryRelay, with its own store and its own seq counter.  Its     *)
(* pushes are neither lost nor late, and it does not crash.                *)
(***************************************************************************)
EXTENDS TelemetryPipeline

VARIABLES
    entries2, nextSeq2, lossMarkers2, storeErr2, dEntries2, dMarkers2,
    dHighWater2, mu2, ackedThrough2, flush2, attempt2, batch2, recorded2,
    evicted2, reissued2,
    push2, answer2

Relay2 == INSTANCE TelemetryRelay WITH
    entries <- entries2, nextSeq <- nextSeq2, lossMarkers <- lossMarkers2,
    storeErr <- storeErr2, dEntries <- dEntries2, dMarkers <- dMarkers2,
    dHighWater <- dHighWater2, mu <- mu2, ackedThrough <- ackedThrough2,
    flush <- flush2, attempt <- attempt2, batch <- batch2,
    recorded <- recorded2, evicted <- evicted2, reissued <- reissued2

relay2 == <<entries2, nextSeq2, lossMarkers2, storeErr2, dEntries2, dMarkers2,
            dHighWater2, mu2, ackedThrough2, flush2, attempt2, batch2,
            recorded2, evicted2, reissued2>>
relay2Vars == <<relay2, push2, answer2>>
siteVars == <<vars, relay2Vars>>

SiteInit == Init /\ Relay2!RelayInit /\ push2 = "none" /\ answer2 = NoAnswer

Relay2Step ==
    /\ Relay2!RelayNext
    /\ UNCHANGED <<vars, push2, answer2>>

HandlePush2 ==
    /\ flush2 = "pushing" /\ push2 = "none"
    /\ BeginBatch(batch2)
    /\ push2' = "handled"
    /\ UNCHANGED <<relayVars, wire, restarts, relay2, answer2>>

AnswerPush2 ==
    /\ push2 = "handled"
    /\ FinishBatch
    /\ push2' = "answered" /\ answer2' = Answer
    /\ UNCHANGED <<relayVars, wire, restarts, relay2>>

PushReturnsAck2 ==
    /\ push2 = "answered"
    /\ Relay2!ApplyAck(answer2)
    /\ push2' = "none" /\ answer2' = NoAnswer
    /\ UNCHANGED vars

\* A request of the second relay is answered by AnswerPush2 alone.
SiteNext ==
    \/ Next /\ (push2 = "handled" => handling'.busy) /\ UNCHANGED relay2Vars
    \/ Relay2Step \/ HandlePush2 \/ AnswerPush2 \/ PushReturnsAck2

SiteSpec == SiteInit /\ [][SiteNext]_siteVars

(***************************************************************************)
(* The durability contract of eventingest.go, for each of the relays the   *)
(* package comment says may push at once: "ack_through_seq S means: every  *)
(* ordinary entry at or below S has been terminally handled".              *)
(***************************************************************************)
AckMeansHandled ==
    /\ push = "answered" =>
           \A e \in recorded : e.seq <= answer.through => e \in Terminal \cup Marked
    /\ push2 = "answered" =>
           \A e \in recorded2 : e.seq <= answer2.through =>
               e \in Terminal \cup DroppedBy(dMarkers2)
=============================================================================
