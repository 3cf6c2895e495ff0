-------------------------- MODULE WebhookDelivery --------------------------
(***************************************************************************)
(* Outbound webhooks of the app peer: the delivery pass                    *)
(* (internal/app/webhookdeliver), the endpoint's persisted state           *)
(* (store/webhooks.go) and the operator's handlers that share it           *)
(* (api/webhookendpoints.go), over the event log.                          *)
(*                                                                         *)
(* A pass lists the endpoints, makes at most one attempt for each and      *)
(* prunes the state of those it did not list.  It reads an endpoint's      *)
(* state, POSTs, and writes back what it read, moved on; the handlers read *)
(* and write the same row at any point in between.  One endpoint is        *)
(* followed: to it the others are only time that passes within a pass.     *)
(*                                                                         *)
(* A delivery id is represented by the event it was minted for.            *)
(***************************************************************************)
EXTENDS EventLog

CONSTANTS
    MaxAttempts,    \* attempts of one logical delivery
    MaxFailures,    \* exhausted deliveries in a row that disable the endpoint
    Secrets,        \* bound: the secrets 1..Secrets are installed, in that order
    MaxEnables,     \* bound: how often the operator enables the endpoint
    MaxFaults       \* bound: restarts and failed writes

ASSUME WebhookAssumption ==
    /\ MaxAttempts \in Nat \ {0} /\ MaxFailures \in Nat \ {0}
    /\ Secrets \in Nat /\ MaxEnables \in Nat /\ MaxFaults \in Nat

VARIABLES
    endpoint,   \* the resource row: "absent", "live", "deleted"
    state,      \* its row of webhook_delivery_state, or NoState
    pass,       \* the pass in flight
    op,         \* the operator's handler in flight
    used,       \* [secrets, enables, faults] so far
    processed,  \* history: [event, delivery] the receiver has processed
    excused,    \* history: evicted, and gone past with a report or with no way to know
    failed      \* history: failed attempts since the last recorded success or enable

hookVars == <<endpoint, state, pass, op, used, processed, excused, failed>>
vars == <<logVars, hookVars>>

NoState == [status |-> "none"]
Fresh == [status |-> "active", failures |-> 0, cursor |-> None, attempt |-> 0,
          delivery |-> None, waits |-> FALSE, secret |-> None, prior |-> None]
States ==
    [status : {"active", "disabled"}, failures : 0..MaxFailures, cursor : Ids \union {None},
     attempt : 0..MaxAttempts, delivery : Ids \union {None}, waits : BOOLEAN,
     secret : 0..Secrets, prior : 0..Secrets]
IdlePass == [at |-> "idle", listed |-> FALSE, row |-> NoState, event |-> None, delivery |-> None]
Pruning == [IdlePass EXCEPT !.at = "prune", !.listed = pass.listed]
IdleOp == [kind |-> "none", row |-> NoState, secret |-> None, prior |-> None]

TypeOK ==
    /\ LogTypeOK
    /\ endpoint \in {"absent", "live", "deleted"}
    /\ state \in States \union {NoState}
    /\ pass \in [at : {"idle", "visit", "post", "write", "prune", "delete"}, listed : BOOLEAN,
                 row : States \union {NoState}, event : Ids \union {None},
                 delivery : Ids \union {None}]
    /\ op \in [kind : {"none", "rotate", "enable"}, row : States \union {NoState},
               secret : 0..Secrets, prior : 0..Secrets]
    /\ used \in [secrets : 0..Secrets, enables : 0..MaxEnables, faults : 0..MaxFaults]
    /\ processed \subseteq [event : Ids, delivery : Ids]
    /\ excused \subseteq appended
    /\ failed \in 0..(MaxAttempts * MaxFailures)

Init ==
    /\ LogInit
    /\ endpoint = "absent" /\ state = NoState /\ pass = IdlePass /\ op = IdleOp
    /\ used = [secrets |-> 0, enables |-> 0, faults |-> 0]
    /\ processed = {} /\ excused = {} /\ failed = 0

\* The progress half of row written over the row there is; a row is made if there is none.
Put(row) ==
    [row EXCEPT !.secret = IF state = NoState THEN None ELSE state.secret,
                !.prior  = IF state = NoState THEN None ELSE state.prior]

Faults == /\ used.faults < MaxFaults
          /\ used' = [used EXCEPT !.faults = @ + 1]
-----------------------------------------------------------------------------
(***************************************************************************)
(* The backlog an endpoint with this cursor is owed.                       *)
(***************************************************************************)
Gapped(cursor) == AgedOut(cursor) /\ After(cursor) # {}
Resolves(cursor) == cursor = None \/ cursor \in log \/ Gapped(cursor)
Pending(cursor) == After(cursor)

\* The ids between the cursor and where delivery resumes, told to the operator; and
\* those nothing tells of, evicted before anything was delivered.
Skipped(cursor) ==
    CASE cursor = None   -> appended \ log
      [] Gapped(cursor)  -> {i \in appended : cursor < i /\ i < Min(After(cursor))}
      [] OTHER           -> {}

Deliverable(cursor) == {i \in Pending(cursor) : Wanted(i)}

QueueHead(cursor) == Min(Deliverable(cursor))
-----------------------------------------------------------------------------
(***************************************************************************)
(* A pass.                                                                 *)
(***************************************************************************)
\* Bug: the list holds deleted rows too.
ListsDeleted ==
    /\ pass.at = "idle"
    /\ pass' = [IdlePass EXCEPT !.at = IF endpoint = "absent" THEN "prune" ELSE "visit",
                                !.listed = endpoint # "absent"]
    /\ UNCHANGED <<endpoint, state, op, used, processed, excused, failed>>

\* The ticker, or a wake from the hub or from a delivery.
Lists ==
    /\ pass.at = "idle"
    /\ pass' = [IdlePass EXCEPT !.at = IF endpoint = "live" THEN "visit" ELSE "prune",
                                !.listed = endpoint = "live"]
    /\ UNCHANGED <<endpoint, state, op, used, processed, excused, failed>>

Ready == /\ state # NoState
         /\ state.status = "active" /\ ~state.waits /\ state.secret # None
         /\ Resolves(state.cursor)

PassesOver ==
    /\ pass.at = "visit"
    /\ ~(Ready /\ Pending(state.cursor) # {})
    /\ pass' = Pruning
    /\ UNCHANGED <<endpoint, state, op, used, processed, excused, failed>>

\* Nothing owed is for this endpoint: the cursor moves over what was considered.
SkipsTail ==
    /\ pass.at = "visit" /\ Ready
    /\ Pending(state.cursor) # {} /\ Deliverable(state.cursor) = {}
    /\ pass' = [pass EXCEPT !.at = "write",
                    !.row = [state EXCEPT !.cursor = Max(Pending(state.cursor)), !.attempt = 0,
                                          !.delivery = None, !.waits = FALSE]]
    /\ excused' = excused \union Skipped(state.cursor)
    /\ UNCHANGED <<endpoint, state, op, used, processed, failed>>

\* The head of the queue, under the id of the delivery in progress if there is one.
Sends ==
    LET head == QueueHead(state.cursor)
    IN /\ pass.at = "visit" /\ Ready /\ Deliverable(state.cursor) # {}
       /\ pass' = [pass EXCEPT !.at = "post", !.row = state, !.event = head,
                       !.delivery = IF state.attempt = 0 THEN head ELSE state.delivery]
       /\ excused' = excused \union Skipped(state.cursor)
       /\ UNCHANGED <<endpoint, state, op, used, processed, failed>>

\* Bug: the attempts and the delivery id are not reset with the success.
SucceededKeepsAttempts == [pass.row EXCEPT !.failures = 0, !.cursor = pass.event,
                                           !.attempt = 1, !.delivery = pass.delivery, !.waits = FALSE]
Succeeded == [pass.row EXCEPT !.failures = 0, !.cursor = pass.event, !.attempt = 0,
                              !.delivery = None, !.waits = FALSE]
\* Bug: the budget counts the retries left without the attempt just made.
ExhaustedEarly == pass.row.attempt + 2 >= MaxAttempts
Exhausted == pass.row.attempt + 1 >= MaxAttempts
Disables == Exhausted /\ pass.row.failures + 1 >= MaxFailures
\* Bug: an event whose budget is spent is given up.
FailedAndGone ==
    [pass.row EXCEPT
        !.attempt = IF Exhausted THEN 0 ELSE @ + 1,
        !.delivery = IF Exhausted THEN None ELSE pass.delivery,
        !.cursor = IF Exhausted THEN pass.event ELSE @,
        !.failures = IF Exhausted THEN @ + 1 ELSE @,
        !.status = IF Disables THEN "disabled" ELSE @,
        !.waits = TRUE]
Failed ==
    [pass.row EXCEPT
        !.attempt = IF Exhausted THEN 0 ELSE @ + 1,
        !.delivery = IF Exhausted THEN None ELSE pass.delivery,
        !.failures = IF Exhausted THEN @ + 1 ELSE @,
        !.status = IF Disables THEN "disabled" ELSE @,
        !.waits = TRUE]

\* A 2xx within the timeout; anything else fails, whether or not the receiver took it.
Answers(taken, ok) ==
    /\ pass.at = "post" /\ (ok => taken)
    /\ processed' = IF taken THEN processed \union {[event |-> pass.event, delivery |-> pass.delivery]}
                             ELSE processed
    /\ pass' = [pass EXCEPT !.at = "write", !.row = IF ok THEN Succeeded ELSE Failed]
    /\ failed' = IF ok THEN failed ELSE Min({failed + 1, MaxAttempts * MaxFailures})
    /\ UNCHANGED <<endpoint, state, op, used, excused>>

Succeeds == pass.event # None /\ pass.row.cursor = pass.event

Writes ==
    /\ pass.at = "write"
    /\ state' = Put(pass.row)
    /\ pass' = Pruning
    /\ failed' = IF Succeeds THEN 0 ELSE failed
    /\ UNCHANGED <<endpoint, op, used, processed, excused>>

WriteFails ==
    /\ pass.at = "write" /\ Faults
    /\ pass' = Pruning
    /\ UNCHANGED <<endpoint, state, op, processed, excused, failed>>

Prunes ==
    /\ pass.at = "prune"
    /\ pass' = IF state # NoState /\ ~pass.listed THEN [pass EXCEPT !.at = "delete"] ELSE IdlePass
    /\ UNCHANGED <<endpoint, state, op, used, processed, excused, failed>>

DeletesState ==
    /\ pass.at = "delete"
    /\ state' = NoState /\ failed' = 0
    /\ pass' = IdlePass
    /\ UNCHANGED <<endpoint, op, used, processed, excused>>

BackoffElapses ==
    /\ state # NoState /\ state.waits
    /\ state' = [state EXCEPT !.waits = FALSE]
    /\ UNCHANGED <<endpoint, pass, op, used, processed, excused, failed>>

PassStep ==
    \/ Lists \/ PassesOver \/ SkipsTail \/ Sends
    \/ \E taken, ok \in BOOLEAN : Answers(taken, ok)
    \/ Writes \/ Prunes \/ DeletesState
-----------------------------------------------------------------------------
(***************************************************************************)
(* The operator.                                                           *)
(***************************************************************************)
Registers ==
    /\ endpoint = "absent" /\ endpoint' = "live"
    /\ UNCHANGED <<state, pass, op, used, processed, excused, failed>>

Deletes ==
    /\ endpoint = "live" /\ endpoint' = "deleted"
    /\ UNCHANGED <<state, pass, op, used, processed, excused, failed>>

\* rotateWebhookSecret seals the secret to be replaced as the prior one...
RotateReads ==
    /\ op.kind = "none" /\ endpoint = "live" /\ used.secrets < Secrets
    /\ op' = [IdleOp EXCEPT !.kind = "rotate", !.secret = used.secrets + 1,
                            !.prior = IF state = NoState THEN None ELSE state.secret]
    /\ used' = [used EXCEPT !.secrets = @ + 1]
    /\ UNCHANGED <<endpoint, state, pass, processed, excused, failed>>

\* ...and installs both, in a row it makes if there is none.
RotateWrites ==
    /\ op.kind = "rotate"
    /\ state' = [(IF state = NoState THEN Fresh ELSE state) EXCEPT
                    !.secret = op.secret, !.prior = op.prior]
    /\ op' = IdleOp
    /\ UNCHANGED <<endpoint, pass, used, processed, excused, failed>>

EnableReads ==
    /\ op.kind = "none" /\ endpoint = "live" /\ state # NoState /\ used.enables < MaxEnables
    /\ op' = [IdleOp EXCEPT !.kind = "enable", !.row = state]
    /\ used' = [used EXCEPT !.enables = @ + 1]
    /\ UNCHANGED <<endpoint, state, pass, processed, excused, failed>>

\* An attempt read before the enable and written after it counts on from what it read.
EnableWrites ==
    /\ op.kind = "enable"
    /\ state' = Put([op.row EXCEPT !.status = "active", !.failures = 0, !.attempt = 0,
                                   !.delivery = None, !.waits = FALSE])
    /\ op' = IdleOp
    /\ failed' = IF pass.at \in {"post", "write"} THEN failed ELSE 0
    /\ UNCHANGED <<endpoint, pass, used, processed, excused>>

OpWrites == RotateWrites \/ EnableWrites

\* The process stops, during a pass or a handler, and boots.
Restart ==
    /\ Faults
    /\ LogReopens
    /\ pass' = IdlePass /\ op' = IdleOp
    /\ UNCHANGED <<endpoint, state, processed, excused, failed>>

LogSteps ==
    \/ \E p \in Producers : Mint(p) \/ AppendFails(p) \/ \E s \in Shapes : LogAppends(p, s)
    \/ PruneCommits \/ PruneNotes

Next ==
    \/ LogSteps /\ UNCHANGED hookVars
    \/ /\ \/ PassStep \/ WriteFails \/ BackoffElapses
          \/ Registers \/ Deletes \/ RotateReads \/ EnableReads \/ OpWrites
       /\ UNCHANGED logVars
    \/ Restart

Spec == Init /\ [][Next]_vars

\* The loop has a ticker; a handler that has begun finishes; clocks go on.
FairSpec ==
    /\ Spec
    /\ WF_vars(PassStep /\ UNCHANGED logVars) /\ WF_vars(BackoffElapses /\ UNCHANGED logVars)
    /\ WF_vars(OpWrites /\ UNCHANGED logVars) /\ WF_vars(PruneNotes /\ UNCHANGED hookVars)
-----------------------------------------------------------------------------
(***************************************************************************)
(* Properties.                                                             *)
(***************************************************************************)
Got == {r.event : r \in processed}

\* EVT-155, EVT-143 (deliverOne, PendingAfter): the cursor never stands beyond an event
\* of this endpoint's that the receiver has not processed, except one that was reported
\* in a gap, evicted from above a retained one, or appended behind a higher id.
NothingSkipped ==
    state # NoState =>
        \A i \in appended :
            Wanted(i) /\ i <= state.cursor => i \in Got \union excused \union stranded \union late

\* EVT-157: whatever is retried, redelivered or resumed, the receiver meets each event for
\* the first time after every lower one, but for events appended behind a higher id.
FirstInOrder == [][\A i \in Got' \ (Got \union late) : \A j \in Got : j < i]_vars

\* EVT-154: the endpoint is disabled only after MaxFailures deliveries in a row have each
\* failed MaxAttempts times, whatever was retried, restarted or enabled meanwhile.
DisabledForCause ==
    state # NoState /\ state.status = "disabled" => failed >= MaxAttempts * MaxFailures

\* pruneOrphans: "stops a deleted endpoint's sealed secret from outliving it", and the
\* secret does not come back with a handler that began before the delete.
SecretsDieWithTheirEndpoint == endpoint = "deleted" ~> [](state = NoState)

Armed == endpoint = "live" /\ state # NoState /\ state.secret # None /\ state.status = "active"

\* A live endpoint whose state has been pruned: it has no secret and no backlog any more.
Dropped == endpoint = "live" /\ state = NoState

\* Processed under its own delivery id, or under that of an event evicted before it was
\* delivered: the one case in which an id stands for two (DeliveryIdNamesOneEvent).
Delivered(i) == \E r \in processed : r.event = i /\ (r.delivery = i \/ r.delivery \notin log)

\* EVT-155, EVT-156: a retained event of an armed endpoint's is delivered in the end, and
\* not as another that is retained, unless the endpoint is disabled, which is for failing
\* (DisabledForCause), or deleted.  The code excuses itself once more: a pass that listed
\* the endpoints before this one was created drops its state (PrunesOnlyTheGone does not
\* hold), and its event with it.
DeliversOrDisables ==
    \A i \in Ids :
        (Armed /\ Wanted(i) /\ i \in log \ late) ~>
            \/ Delivered(i) \/ i \notin log
            \/ endpoint = "deleted" \/ (state # NoState /\ state.status = "disabled")
            \/ Dropped

\* "pruneOrphans drops delivery state whose endpoint row is gone": no other is dropped,
\* however long ago the pass that prunes has listed the endpoints.
PrunesOnlyTheGone == [][state # NoState /\ state' = NoState => endpoint # "live"]_vars

\* "One id per LOGICAL delivery, minted when that delivery starts and carried verbatim
\* through every retry of it" (deliverOne, EVT-151, EVT-156): a receiver that discards
\* ids it has seen discards only repetitions of the same event.
DeliveryIdNamesOneEvent == \A r \in processed : r.delivery = r.event
=============================================================================
