# Verification of Waiveo Next

Waiveo Next is a digital-signage and automation system written in Go. A *feeder*
(the app peer, `src/cmd/waiveo-feeder`) holds the authored workspace in a SQLite
store, derives from it what every site should do, and serves an operator's
console. A *relay* (`src/cmd/waiveo-relay`) stands at a site: it pulls that
desired state over one authenticated connection, persists it, serves players
(screens) and runs automation rules while the feeder is unreachable, and pushes
what happened back as telemetry. This directory holds TLA+ models of the parts of
that system where order, crashes and concurrency decide correctness, the TLC
configurations that check them, and proofs checked by TLAPS.

Contents: 1 inventory, 2 modules and the code they model, 3 runs, 4 fairness,
5 proofs, 6 what the models leave out, 7 what the checks found, 8 plan, 9 how to
run.

## 1. Inventory

Every component, its sources and its status is a row of `PROJECT.json`; this is
the overview. "Hard" is what tests hardly reach; a module in the last column
models the component, at least in part.

```
 operator --api--> store --commit hook--> current() --nudge--> relay
   |  ^              |  ^                    ^  |                | pull, persist,
   |  |  restore job +  |                    |  +---snapshot---->| install, ack
   |  |  (next boot)    |                    +------ pull -------+----> players,
  jobs|                 |                                        |      devices,
   v  |  content origin +--- retention sweep <---- acks ---------+      rules
  rows                                                           |
     event log, live stream, webhooks <--- ingest <--- push -----+ telemetry,
                                           grants <--- reports --+ redemptions
```

| Component | State | Operations | Hard | Modules |
|---|---|---|---|---|
| relay telemetry buffer, durable store, channel (`internal/relay/telemetry`, `identity/telemetrystore.go`) | entries, loss markers, next seq; their rows on disk; the ack cursor | `Record`, overflow, `Flush`, `applyAck`, reload | two durable writes per operation and a crash between them; a record while a push is in flight; late acks | `TelemetryRelay` |
| telemetry HTTP client (`telemetryhttp`) | none | `Push` | requests lost, answered late, handled after the client gave up | `TelemetryPipeline` |
| event ingest (`internal/app/eventingest`) | received and ack cursors, delivery queue, its runner | push handler, `drainQueue` | duplicates, backpressure in mid-batch, the runner's exit racing a new batch | `EventIngest` |
| restore swap (`internal/app/restoreswap`) | live, staged and pre-restore store with their SQLite companions, the marker | `Stage`, `Discard`, `Adopt` | a crash between any two file operations; two jobs | `RestoreSwap` |
| content retention (`internal/feeder/contentgc`, `contentsweep.go`) | marks, the sweep under way | `Sweep` | decisions from acks and connections read earlier; deletion racing uploads and writes | `ContentRetention` |
| content origin (`internal/feeder/origin`) | bytes in memory and on disk, Adds in flight | `Add`, `Remove`, `Open`, `Purge` | the file is written outside the lock | `ContentRetention` |
| re-mint loop (`remint.go`), asset guards (`api/assetrefs.go`) | a ticker; none | `AdvanceGeneration`; check, check again in the transaction | moving the generation under everybody else | `ContentRetention` |
| desired-state source, override expiry (`waiveo-feeder/main.go`, `overrideexpiry.go`) | cached snapshot and its window; published lapses | `current`, the expiry loop | clock and generation read before the lock | `DesiredState` |
| relay connection, both ends (`feeder/relayconn`, `relay/relayconn`) | connections, last acks, the nudge cell | pull, ack, nudge, redial, commands | a nudge to a dying connection; a reply after its caller gave up | `DesiredState` |
| desired state on the relay (`relay/desiredstate`, `livepull.go`, `conn.go`) | persisted generation and program, `lastGen`, what is served | `VerifyAndApply`, `tick`, boot | persist and install are two steps | `DesiredState` |
| event log (`store/eventlog.go`) | rows by id, the evicted-through row and the process's copy of it | append, hourly sweep, row cap | ids minted before the append; eviction per class, so not of a prefix | `EventLog` |
| live event stream (`eventsse`, `events/resume.go`) | the hub; per connection its cursors, wake and deferred marker | subscribe, resume, drain | coalesced wakes, markers about what a client may not read, reconnections | `EventStream` |
| outbound webhooks (`webhookdeliver`, `store/webhooks.go`, `api/webhookendpoints.go`) | per endpoint: cursor, attempts, failures, delivery id, sealed secret | pass, POST, write, prune; rotate, enable, delete | progress read before the POST and written after it, over what an operator did | `WebhookDelivery` |
| pairing (`playerserver/pairing.go`, `identity/playersession.go`, `pairinggrants.go`, `revocations.go`) | grants minted, delivered, consumed; redemptions owed; sessions cached and on disk; the revoked set | redeem, report, retire, revoke, look up | a crash between redemption and report; a session read before a revocation and cached after it | `Pairing` |
| device poller (`relay/ecppoll`) | remembered readings, a bounded channel | poll cycle, `SetTargets` | the oldest observation gives way; the set changes in mid-cycle | `StatePoller` |
| rules engine (`rules/engine`, `rules/eval`) | per rule: triggers' last values and holds, runs and delays; the schedule cursor | observe, tick, apply a generation | a hold or delay across a generation swap; clock corrections | `EdgeRules` |
| automation host (`relay/automationhost`, `automationdrive.go`) | two loops, the snapshot slides are told | drive, tick, store failures | one loop ends and the other goes on | `EdgeAutomation` |
| job execution (`api/jobrun.go`, `store/jobs.go`, `shared/apijob`) | job records with their targets; the runner | accept, walk, resume, reconcile, drain | a stop between a target's write and its outcome | `JobExecution` |
| app store (`internal/app/store`) | rows, generation, event log | transactions, post-commit hook | one writer; hook outside the transaction | as used by the others |
| keep-alive (`keepalive`) | observations, adoption, launches | observe, launch | the launch outlives the decision | none (sections 7, 8) |
| packs, authentication, api operations, rule compiler, archive, devices, discovery, enrollment, wire formats, players | see `PROJECT.json` | | mostly one request and one transaction, pure functions, or I/O | none |

What makes the modelled components correct:

* **telemetry**: a durable entry that was recorded is still on the relay, or
  finished with by the app peer, or counted by a loss marker that is kept until
  the app peer has it; the backlog is eventually handed over.
* **restore**: the box boots the old workspace or the whole archive, never
  anything else, and keeps a copy of what it replaced.
* **retention**: nothing in use is deleted; what is not in use should be deleted in
  the end, and as shipped is not (section 7).
* **desired state**: what a screen shows is the current derivation, or will be;
  a relay serves what it would serve after a power cut, but for a screen that is
  dropped.
* **events**: a subscriber gets every event it may read once and in order, or is
  told of the loss without being told of anything it may not read.
* **webhooks**: an endpoint's cursor never passes an event it was not sent, a
  secret does not outlive its endpoint, and an endpoint is disabled for failing
  and for nothing else.
* **pairing**: a grant is redeemed once, its redemption is reported until the
  feeder has it, and a revoked screen stays out.
* **automation**: an edit, a restart of a loop, a clock correction or a full
  channel neither fires a trigger that should not fire nor swallows one that
  should, but where the code says so.
* **jobs**: the record of a job never says more than was done, and polling it
  comes to an end.

## 2. Modules and the code they model

| Module | Models | Lines of thought |
|---|---|---|
| `TelemetryRelay` | `buffer.go`, `durable.go`, `telemetrystore.go`, `channel.go` | one action per durable write; `mu` says which write the holder of `b.mu` still owes |
| `EventIngest` | `eventingest.go` | one action per turn of `appendBatch`'s loop, one per hold of `in.mu` by the runner |
| `TelemetryPipeline` | the two composed by `telemetryhttp.Push` | loss, late handling and crashes of either side |
| `TelemetryTwoRelays` | two instances of `TelemetryRelay`, one ingest | the cursor both share |
| `DurableCustody` | abstract: who owes an entry | implemented by `TelemetryPipeline` |
| `RestoreSwap` | `restoreswap.go`, the boot and shutdown around it, `workspacerestore.go`'s job | one action per file operation |
| `AtomicRestore` | abstract: old workspace, then the archive, in one step | implemented by `RestoreSwap` |
| `ContentRetention` | `contentgc.go`, `contentsweep.go`, `origin.go`, `remint.go`, `assetrefs.go`, and the relays' pull and ack | one action per hold of a lock, frame or file operation |
| `DesiredState` | `desiredStateSource`, `overrideexpiry.go`, nudges, `relayconn`, `livepull.go`, the relay's boot | one action between two points where another goroutine can get in |
| `EventLog` | `store/eventlog.go`, `shared/ulid/ulid.go` | mint and append are two actions; a sweep is its transaction and the copy of the watermark |
| `EventStream` | `eventsse.go`, `ws.go`, `events/resume.go`, over `EventLog` | one action per hold of the hub's lock; a client that resumes |
| `WebhookDelivery` | `webhookdeliver`, `store/webhooks.go`, `events/webhook.go`, `api/webhookendpoints.go`, over `EventLog` | one action per read, POST and write of a pass; handlers as read and write |
| `Pairing` | `playerserver/pairing.go`, `playersession.go`, `pairinggrants.go`, `revocations.go`, `redemptionsink.go` | one action per section of the server's mutex, split at its durable write |
| `StatePoller`, `EdgeRules`, `EdgeAutomation` | `ecppoll.go`; `rules/engine`, `rules/eval`; `automationhost`, `automationdrive.go` | device, engine, and the loops that join them; a call of the engine is one step |
| `JobExecution` | `jobrun.go`, `jobs.go`, `apijob.go`, `workspacerun.go` | one action per transaction of a target |
| `TelemetryInvariant`, `TelemetryProofs`, `RestoreProofs`, `RetentionProofs`, `DesiredProofs`, `EventProofs`, `PairingProofs`, `AutomationProofs`, `JobProofs` | inductive invariants and proofs | section 5 |
| `MCTelemetry`, `MCRestoreSwap`, `MCEvents`, `MCWebhooks`, `MCPairing`, `MCAutomation` | instances for TLC whose constants are more than sets of model values | section 3 |

Definitions whose comment starts with `Bug:` or `Mutant:` are wrong versions of the
definition that follows them. No specification uses them: `PROJECT.json`
("mutants") says which property finds each one, which shows that the property
can fail. History variables are read by no guard.

### Telemetry

`Record(k)` is `RecordTraced` up to its first durable write (`AppendTelemetry`,
or `AppendWithEviction` when the buffer overflows), `SaveSeqHighWater` its second
one. `FlushTick`, `BuildPending` and `BuildLossMarkers` are a `Flush` up to its
push: `buildBatch` takes `b.mu` twice. `SendPush`, `HandlePush`, `TakeEntry`,
`StopAtFullQueue` and `FinishBatch` (in `AnswerPush`) are the request;
`PushReturnsAck` applies the answer and leaves `SaveLossMarkers` to be done;
`PushReturnsError` is every way a `Push` fails, and `Abandon` may leave its
request to be handled later (`HandleLatePush`). `TakeHead`, `Conclude` and
`RunnerExits` are `drainQueue`. `RelayRestart` reloads from disk only;
`IngestRestart` loses both cursors and the queue and keeps the log.

An entry is a seq and a kind; a kind is one (schema, subject) pair. `recorded`,
`evicted`, `dropped`, `reported`, `epoch` and `reissued` are history variables.

### Restore

`fs[slot][part]` says which workspace a file belongs to, so "another store's
journal" is a value. `Adopt`'s table of cases is `AdoptDecide`; each `os.Rename`
and `os.Remove` is a step of its own. `Open`, `Write` and `Close` are SQLite as
this code relies on it: companions appear with writes and go with a clean close.
`Stage` may fail at each call that has an error path, its clean-up included. `Stagers`
are the restore jobs; `openBy` is who writes into the file that is at the staging
path now, so two jobs that overlap may leave a file that is neither's (`Torn`), with
a marker. `JobsTakeTurns` says of a behaviour that no two overlap.

### Retention

Time passes in sweep intervals; a timestamp is an age, capped where the code no
longer tells ages apart. The sweep reads the generation, asks the fleet, decides
under the store's write lock, and removes one asset at a time. `AddBegin`,
`AddWrite` and `AddPublish` are `origin.Add` with its declaration, its write
outside the lock, and its publication. A relay asks, is answered with the rows as
they are then, persists, and acknowledges; a dying connection may leave a
snapshot that is persisted but not acknowledged (`Orphan`). `past.unminted` is a ghost
that counts the re-mints that failed.

### Desired state

`ReadsGeneration`, `ReadsClock` and `Locks` are the three parts of `current()`;
`caller[c]` is one goroutine inside it. `LoopReads` and `LoopDecides` are a pass
of `overrideExpiryLoop`. `PullAsks`, `Answers`, `Persists` and `Installs` are a
`tick` and the handler it talks to; a pull that is cut leaves its handler
running. `BootDials`, `BootEnds`, `BootOffline` and `BootFatal` are the relay's
`main`. A snapshot names a program for the screen, or has no entry for it (`NoEntry`:
the row is gone, or its placement gives it no time zone, `placed`). The boot installs
exactly that; the live install only adds (`Installed`: `serveAppAuthoredPrograms` sets
the programs that are named and clears none), so a screen that was dropped keeps its
last one. `past` is a ghost that counts writes and faults for the bounds and
remembers that a call failed on a live connection.

### Events

An event is its id; its *shape* is its retention class and its reach (what a
client's filter and its authority make of it: wanted, visible but narrowed away,
hidden). `Mint` draws an id from the shared generator and `LogAppends`, later,
writes it and enforces the class's row cap (`OverCap`, `Evicts`); an id appended
below a higher one is `late`. `PruneCommits` and `PruneNotes` are the sweep's
transaction and the advance of the process's watermark, which `EvictedAfter` and
`AgedOut` read. What a sweep removes is any set of old enough rows of a class,
oldest first. `stranded` remembers rows evicted from above a retained one,
`unnoted` those whose eviction a reader could not know of yet.

`Subscribe` is the four answers to a resume point: live from here, after a
retained id, over a gap, or refused. `Drain` is `drainOnce` under the hub's lock:
a marker if something was lost, then the rows after the cursor. `wake` is the
one-slot channel appends share. `DeferralExpires` is the deferred marker's timer.
Over SSE a marker's line carries an id of its own and so moves the client's
resume point; over WS only events do (`binding`).

### Webhooks

`Lists` reads the endpoints; `Ready`, `PassesOver`, `SkipsTail` and `Sends` are
`deliverOne` up to its POST; `Answers` is what the receiver did and what of it
came back; `Writes` (or `WriteFails`) puts back the row as it was read at the
start, moved on; `Prunes` deletes the state of endpoints that were not listed.
`RotateReads`/`RotateWrites` and `EnableReads`/`EnableWrites` are the handlers.
`processed` is what the receiver has processed, with the delivery id it saw;
`excused` what was reported in a gap.

### Pairing

`AddsGrant`, `Revokes` and `TtlElapses` are the feeder's rows; `Pulls` and
`InstallsRevoked` and `InstallsGrants` deliver them: the set is persisted by the
pull, enforced in memory, and then written into the durable sessions, which may
fail (`InstallsRevoked(FALSE)`). `Redeems` is the durable record under the mutex and
`Credentials` the session that follows it. `LooksUp` and `Backfills` are the two
halves of `lookupSession`: the read of the disk outside the mutex and the insert
under it. A drain reads what is owed, reports row by row, and retires what was
acknowledged; there may be two of them. A row has its SQLite number, which is given
out again once the highest row is deleted.

### Edge automation

`StatePoller` polls one entity per step and remembers what it read; the channel's
oldest observation gives way to the newest. `EdgeRules` is one call of the engine
each: `ObserveRules`, `TickRules`, `ApplyRules`. A trigger's runtime state is
`seen`, `base` (the last value), `level`, `armed`, `age` and `fired` (its hold);
a run is the list of its delays. `EdgeAutomation` joins them: `Receive` takes an
observation, `Observe` updates the snapshot and hands it to the engine; each loop
ends as its code ends it when the telemetry store fails (`RunSurvives`,
`TickSurvives`). Wall time is an instant, monotonic time is what is left or gone
by of each span, so `CorrectClock` moves one without the other.

### Jobs

`work[w]` is an execution: what is left, its step, the revision it read.
`StartTarget` or `ResumeTarget` claims, `Get` and `Update` are
`applyAutomationEnabled`'s read and its write against that revision, `Perform` a
workspace job's effect, `Outcome` the commit. `Boot` finds what an earlier
process left running, resumes what may be applied again and reconciles the rest
as failed. `Shutdown`, `DrainExpires` and `Exit` are the drain. `applied` and
`cut` count, per target, how often its work landed and how often the process ended
with it running.

## 3. Runs

Every bound is a constant. Runs end in minutes on two workers; sizes are distinct
states.

| Run | Question | Bounds | Result |
|---|---|---|---|
| `telemetry_crash` | is an entry ever lost without a marker, an ack too high; is the backlog handed over, does the ack catch up? | capacity 1, 3 seqs, one crash on each side, queue 1 | holds, 0.25 million |
| `telemetry_late` | do late pushes, invalid entries, failed writes or backpressure lose or reorder? | capacity 2, 3 seqs, 1 late push, queue 2, any durable write may fail | holds, 11 million |
| `telemetry_two_relays` | does an ack mean "handled" with two relays? | one entry each | violated (section 7) |
| `restore_crash` | is the swap atomic, whatever is interrupted? | 3 workspaces, one job at a time, any companions left by the writer | holds, 0.1 million |
| `retention_safe` | is anything in use reclaimed; does a re-mint forestall a reclaim? | 1 asset, 1 relay, 1 upload at a time, re-mint and window 1 to 2 as shipped, generations to 4, 2 faults | holds, 5.4 million |
| `desired_live` | are answers fresh, does the relay serve what it persisted and end up current? | 1 write, 1 override, 1 screen that may lose or get its place, clock to 2, 1 fault | holds, 1.9 million |
| `event_stream` | is a loss silent, a frame repeated or out of order, a marker indiscreet; does everything retained arrive? | 2 producers, 3 ids, a class capped at one row and one without cap, both bindings | holds |
| `webhooks` | is an event skipped, an endpoint disabled without cause, a secret left behind; is everything retained delivered? | 2 producers, 2 ids, 2 attempts, disabled at 1 failure, 1 secret, 1 enable, 1 fault | holds, 0.3 million |
| `pairing` | is a grant redeemed twice, a report forgotten, a revocation undone; do reports and revocations arrive? | 2 grants of 2 screens, one may be revoked, one may expire, the ticker's drain, 2 redemptions, 1 fault | holds |
| `pairing_report_lost` | is a report retired only by its own ack? | two drains, 2 redemptions, no fault | violated (section 7) |
| `automation` | does an edit, clock correction or full channel fire or swallow what it should not; do runs end? | 1 device of two states, channel 1, wall time to 2, three generations, 3 disturbances | holds, 0.3 million |
| `jobs` | is a record honest across stops; does a job settle? | 2 jobs over 1 row and the workspace, 1 edit, 1 fault, 2 stops | holds, 0.17 million |

Configurations kept beside them to be run by hand. The first six hold; the
others end in the violation section 7 describes.

| Configuration | Shows |
|---|---|
| `MCTelemetryTwoCrashes` | `telemetry_crash` with two crashes of the relay, a superseded kind, `OverflowIsMarked`, `DiscardsOnlyWhatIsSettled` and the inductive `ChannelInvariant`; 1.5 million states |
| `MCTelemetryQueue` | `NothingInFlightBelowAck` and `RunnerHasTheQueue` on the instance of `telemetry_late`, where entries of one batch wait for delivery together |
| `MCTelemetryRefused` | the liveness of the channel when the log refuses appends |
| `MCAutomationTwoDevices` | two devices on a channel of one; 0.9 million states |
| `MCRestoreOverlap` | the three invariants of `restore_crash` with two restore jobs that overlap; 1.8 million states |
| `MCJobsRows` | two jobs over two rows, so that a failed target is stepped past |
| `MCTelemetryReissue`, `MCRestoreRestage`, `MCRestoreTwoJobs`, `MCRetentionGrowth`, `MCDesiredLapse`, `MCWebhooksPrune`, `MCWebhooksDeliveryId`, `MCJobsReapply` | violated |

Why these bounds are enough to be worth trusting:

* *telemetry*: overflow needs one more entry than the capacity, a widened marker
  needs two evictions, hence 3 seqs at capacity 1. A reissue needs two crashes,
  which `MCTelemetryTwoCrashes` allows; the properties are stated around it
  (`~reissued`). One late push is enough to be handled after, before and between
  newer ones. `StoreErr` failures are separated from crashes because a failed
  write is only repaired by a restart: `NoLossWhileUp` is the promise without one.
* *restore*: nothing is bounded except the number of workspaces. Three let a swap
  replace a workspace that had itself replaced one; crashes, restores and boots
  are unlimited. `MCRestoreOverlap` has two of each; the theorems hold for any number of jobs.
* *retention*: the guards are about one asset and one relay at a time, so one of
  each meets every interleaving of an upload, a row, a sweep and an ack. A fault
  is a restart of either process, a lost connection, a lost ack or a failed call, a
  re-mint's included; at the shipped ratio of window and re-mint nothing is doomed
  without one, so there are two. `MCRetentionGrowth` has the shipped ratios in full,
  and needs no fault, row or relay.
  The proofs cover every number of them.
* *desired state*: one write and one lapse give three generations that nudges,
  pulls and the cache can disagree about; `MaxGen` is never reached at these
  bounds (no action is disabled by it), and deadlock is checked. One fault is
  enough to meet each kind of failure at every point of every call; a write may
  also drop the screen or give it its place. What two
  failures in a row do is not checked by TLC here, but the invariants that
  section 5 proves hold for any number.
* *events*: a loss needs an event evicted and one that stays, an overtaken append
  needs a second producer, and a gap between the two needs a third id. Sweeps,
  restarts and cut connections are not bounded; three ids are three appends.
* *webhooks*: of two events one can be evicted while the other is retried, or
  appended late; two attempts let one fail and one succeed; one enable, one
  rotation and one fault (a restart or a failed write) fall between any two steps
  of a pass. The theorems of `EventProofs` cover every number, of these and of the stream's.
* *pairing*: a number is given out twice with two redemptions; one screen that is
  revoked and one that is not; a fault is a restart, a failed write or a failed
  read. The ledger's second drain is in `pairing_report_lost` only, where it
  matters.
* *automation*: the generations share a rule whose mode, triggers, conditions and
  delays change under it, a schedule with either misfire policy, and a hold with
  and without bounds. A disturbance is a generation, a device set, a clock
  correction, a failed write or a restart; three are enough for an edit and its
  reversal around any of the others.
* *jobs*: two jobs for opposite values on one row, a resume, an edit or a delete
  in between, and a second stop while the resume is at work.

Deadlock is checked in every run but those of `ContentRetention`, where `Tick`
and the writes stop at `MaxGen`, and of `WebhookDelivery`, `Pairing`,
`EdgeAutomation` and `JobExecution`, which come to rest when all their bounds are
used up and nothing is left to do.

The properties, and the code they are about:

* `NoSilentLoss`, `ImplementsCustody`: `Record`, `applyAck`, `appendBatch` and the
  reload, together. `NothingInFlightBelowAck`: `recomputeAckLocked`. `LogOrdered`:
  the ingest's order. `BacklogDrains`, `AckCatchesUp`: liveness of the channel.
* `StoreNeverMissing`, `CompanionsBelong`, `ReplacedIsKept`,
  `ImplementsAtomicRestore`: the swap; `PendingIsWhole` (by hand): what it finds staged.
* `ReferencedIsHeld`, `AppliedIsHeld`, `AdvertisedIsOnDisk`,
  `UnnamedForTheWindow`, `ReclaimsOnlyUnminted`: the sweep against writers, relays,
  uploads, its own window, and the re-mint; `GrowthEnds` (by hand): its purpose.
* `CurrentIsFresh`, `ServesWhatItPersisted`, `NoNudgeStorm`, `Convergence`: the
  cache under concurrent callers, the relay's two steps, the loop's memory, and
  the claim that a lost nudge is recovered. `ServesWhatItPersisted` excepts exactly the
  screen that the persisted generation does not name.
* `LossesAreKnown`, `WireIsNews`, `GapNamesReadable`, `CatchesUp`: what a client
  misses is accounted for by an event appended late, an eviction that left no
  trace, or a marker it resumed over; what is written to it is new and in order;
  a marker names nothing it may not read; a coalesced wake covers every append.
* `NothingSkipped`, `DisabledForCause`, `SecretsDieWithTheirEndpoint`,
  `DeliversOrDisables`: the write-back of a stale row, the count of failures, the
  race of a handler with a delete and its pruning, and progress: an event is
  delivered, under its own id or that of an event evicted since, and an endpoint
  escapes only disabled for its failures, deleted, or with its state pruned by a stale
  list. `PrunesOnlyTheGone`, `DeliveryIdNamesOneEvent` (both by hand): that pruning,
  and what an id stands for.
* `AtMostOnce`, `OwedUntilReported`, `RevokedStaysOut`, `RevocationIsEnforced`,
  `RedeemedIsRetired`: the ledger across restarts, the back-fill of a session
  that was read before a revocation, and that both arrive in the end.
* `OncePerInstant`, `HoldsAreHonest`, `EditsSwallowNothing`,
  `LatestReadingArrives`, `TailsRun`: the schedule cursor under clock
  corrections, `Hold.Step` across edits, what a generation swap carries over, the
  bounded channel, and the two loops' different ends.
* `RecordIsHonest`, `Settles`: the order of a target's commits, and who picks up
  what a stop left running.

## 4. Fairness

* `TelemetryPipeline!FairSpec`. Weak fairness for what a running process does by
  itself (the flush ticker, the second durable writes, the handler's loop).
  Strong fairness for what waits for a mutex: others may take `b.mu` or `in.mu`
  in between again and again, and Go's `sync.Mutex` hands itself to a waiter
  after a millisecond (starvation mode). `NetworkRecovers`: pushes may fail any
  number of times, but not for ever; without it nothing can be promised. Nobody
  is bound to record.
* `DesiredState!Spec`. Weak fairness for each caller of `current()`, for the
  expiry loop (it polls once a minute), the handler, the frame reader, the tick,
  the boot and the redial (`dialWithRetry` and the supervisor retry without
  limit). No fairness for writes, failures or the clock. `Convergence` excuses a
  relay while a call has failed on a connection that stayed up and no pull has
  been asked since: nothing in the code retries that pull.
* `EventStream!StreamFairSpec`. Weak fairness for the connection's goroutine (subscribe,
  drain, the deferral's timer). Strong fairness for the client's reads, of any
  frame and of an event: a network that keeps cutting connections still lets one
  through now and then. None for producers, sweeps or restarts.
* `WebhookDelivery!FairSpec`. Weak fairness for the pass (a ticker starts it, and
  a step of it is always taken next), for back-off times, for a handler that has
  read and is to write, and for a sweep that has committed and is to note it. The
  receiver owes nothing: an endpoint that always fails is disabled.
* `Pairing!FairSpec`. Weak fairness for a request inside the mutex, for applying
  what was pulled, for the twelve-hour re-mint that moves the generation, and for
  the ticker's drain; strong fairness for a report getting through, since it is
  sent again on every tick. None for players.
* `EdgeAutomation!FairSpec`. The engine's ticker and time go on; nothing is asked
  of the poller, of devices or of the loop that reads the channel.
* `JobExecution!FairSpec`. Weak fairness for each execution, for boot and start (a
  supervisor starts the next process) and for the drain, whose budget runs out.

`RestoreSwap` and `ContentRetention` have no fairness and no liveness property.
`GrowthEnds`, run by hand, is the bounded form of "reclaimed in the end": `past.idle` counts the
intervals an asset has gone unnamed.

## 5. Proofs

`tlapm` checks some 12 000 obligations in eight modules. The theorems, for every value
of the constants:

| Theorem | States |
|---|---|
| `TelemetryProofs!TypeCorrect` | `[]TypeOK`, with stores that may fail |
| `ChannelSound`, `NothingLostSilently`, `EveryDropMarked` | `[]ChannelInvariant`, `[]NoSilentLoss`, `[]OverflowIsMarked` |
| `CustodyImplemented`, `DiscardsJustified`, `CustodyKeepsFaith` | the channel implements `DurableCustody`; the action property; what the abstract specification gives |
| `NothingLostInMemory` | `[]NoLossWhileUp`, whatever the relay's store refuses |
| `LogStaysOrdered`, `AckStaysBelowDelivery` | `[]LogOrdered`, `[](NothingInFlightBelowAck /\ RunnerHasTheQueue)`, whatever fails |
| `RestoreProofs!SwapIsCrashSafe`, `CompanionsStayTogether`, `ReplacedStays`, `RestoreTypeCorrect` | the three safety properties of the run, `TypeOK`, for any number of jobs however they overlap |
| `SwapIsAtomic` | the action property: the workspace the next boot opens changes only to the pending file, in one step; for any number of jobs |
| `TurnsKeepPendingWhole`, `RestoreIsAtomic` | `[]PendingIsWhole` and the refinement of `AtomicRestore`, of every behaviour with `[]JobsTakeTurns` |
| `RetentionProofs!InUseIsNeverReclaimed`, `RowsHaveTheirBytes`, `AdvertisedSurvives`, `AcksAreHonest` | `ReferencedIsHeld`, `AppliedIsHeld`, `AdvertisedIsOnDisk`; the two facts the decision rests on |
| `WindowIsObserved`, `RemintsForestallReclaim`, `ShippedReclaimsNothing` | `[]UnnamedForTheWindow`, `[]ReclaimsOnlyUnminted`, and what that means with the windows as shipped |
| `DesiredProofs!TypeCorrect`, `CurrentStaysFresh`, `RelayServesDurable`, `LoopDoesNotStorm` | `[]TypeOK` and the three invariants of the run |
| `EventProofs!StreamTypeCorrect`, `StreamSendsNews`, `StreamMarksReadable`, `StreamLosesKnowingly` | `[]StreamTypeOK`, `[]WireIsNews`, `[]GapNamesReadable`, `[]LossesAreKnown` |
| `EventProofs!TypeCorrect`, `NoEventSkipped`, `FirstDeliveriesInOrder`, `DisabledOnlyForCause` | `[]TypeOK`, `[]NothingSkipped`, `FirstInOrder`, `[]DisabledForCause` |
| `PairingProofs!TypeCorrect`, `GrantRedeemedOnce`, `ReportStaysOwed`, `RevocationHolds` | `[]TypeOK`, `[]AtMostOnce`, `[]OwedUntilReported`, `[]RevokedStaysOut` |
| `AutomationProofs!TypeCorrect`, `OccurrencesOnce`, `EditsKeepTriggers`, `HoldsHonest`, `LatestArrives` | `[]TypeOK` and the four safety properties of the run |
| `JobProofs!TypeCorrect`, `RecordStaysHonest` | `[]TypeOK`, `[]RecordIsHonest` |

Assumptions. The named `ASSUME`s of the modules say no more than what the
constants are (capacities are positive, kinds disjoint, `None` is no number).
Beyond them, `ChannelSound` and what follows from it
assume that every durable write of the relay and every append of the log
succeeds, since a refused write is a loss the code only notes; `NothingLostInMemory`
assumes the second only (a refused append has no error return, and its entry is
acked), `LogStaysOrdered` and `AckStaysBelowDelivery` neither; `WindowIsObserved` and
`RemintsForestallReclaim` assume that the ghost clock can count as far as the window
(`MinUnreferencedAge <= Horizon`), `ShippedReclaimsNothing` also that the re-mint
interval is below the window, as the code's defaults are (12 and 24 hours). Of the
restore's theorems two are about the behaviours in which restore jobs take turns, a
condition on the behaviour (`Spec /\ []JobsTakeTurns`) that nothing in the code
enforces and that `MCRestoreTwoJobs` shows to be necessary; the others have none.
Nothing else is assumed: `MaxGen`, `MaxFaults`
and the other bounds are arbitrary numbers there.

How they go:

* **Telemetry.** `NoSilentLoss` is not inductive: an ack discards an entry
  because of what was true when the push it answers was built. `IInv`
  (`TelemetryInvariant`) says what every batch in flight, late ones included, and
  every cursor still guarantees. *Flying* batches are closed downward: with an
  entry they carry every unsettled entry below it. Cursors are *covered*: nothing
  recorded at or below them is unsettled. Markers *agree*: two forms with the same
  end count the same entries, so an ack of the older form cannot retire the wider
  one. A seq names one entry, until one is issued twice. Each of the actions then
  has its own case. `MemoryInvariant` is the same with the buffer and the marker it
  holds in the place of the disk: it leaves the disk out altogether, so that no
  write that fails can disturb it, and it lasts until the relay crashes. `LogInv` is
  independent of all that: what was appended is at
  or below the cursor or taken in this batch, and the rest of the batch is above.
  `QueueInv` adds what was queued: each seq once, above the ack cursor. An answer
  on its way is no higher than that cursor, unless the app peer has restarted since;
  then no request is left that it could take before the relay has read the answer.
* **Restore.** `SwapInv` says which files exist at each program point of `Adopt`. It
  says nothing of what the staged file holds and a job's step leaves the live and the
  previous slot alone (`StageStaysAside`), so jobs may overlap. `WholeInv` adds where
  a job is inside `Stage` and what it has made of the staged file by then; a job that
  takes a step is the only one there. The refinement maps "the workspace the next boot
  opens" to the live store, or to the pre-restore copy while the live slot is empty; of
  all steps only `AdoptSwap`, `StageMark` and the removals of the marker are not
  stutters.
* **Retention.** The sweep decides from acks read before it took the lock. What
  makes that sound is that acks are honest (`AcksArePersisted`: at most what is
  persisted), that a program of the current generation names only what the rows
  name (`ProgramsFollow`), that a relay never goes back, and that the generation
  has not moved since the acks were read. `SweepKnows` carries this from the
  question to the removal. `WindowInv` says that a mark is never older than the
  time its asset has gone unnamed, and that what the sweep has doomed is.
  `RemintInv` says that a mark of the current generation is younger than the last
  re-mint that succeeded, which is one interval ago and another for each that failed.
* **Desired state.** `FreshInv` adds to `CurrentIsFresh` that the cache is no
  newer than the store and closes before its override lapses, and that callers
  are behind the store. `ServeInv` follows the pull: the answer belongs to the
  generation asked about and is not that generation, so whatever has been
  persisted since is strictly newer than what is served, and `Installs` installs
  it, if it names the screen; a relay that boots with nothing persisted serves nothing.
  `PaidInv` is the amortised form of `NoNudgeStorm`: what the loop may still
  announce (the override it holds, and the row's) counts as an advance already
  made, so that a write or a fault pays for what it makes the loop owe, and an
  advance settles it. It needs that a lapse the loop has published lies in the
  past, or the loop could announce one override for ever.
* **Event stream.** The log's own invariant comes first (`LogInv`, `LogNoted`: what
  left the log shows in the watermark or will when its sweep is noted), and what
  `Written` writes: `RankExists` and `AscendingSound` show that the enumeration of a
  finite set is onto and ascending, `WrittenSound` that a *block* has every wanted
  id of its tail once, with the marker before the id it names. `WireInv` says that
  the points of both sides are ids the client may read, that frames are in order,
  ahead of what the client has, and not ahead of what the server considered; it
  gives `WireIsNews` and `GapNamesReadable`. `LossInv` is what `LossesAreKnown`
  lacks to be inductive: what is owed below the client's point was told, what is
  owed below a frame comes no later than that frame, and what is owed of what the
  server has considered is on the wire or above the start of a pending marker.
* **Webhooks.** `LogInv` bounds the log's ids and says that what left the log is at
  or below the evicted-through row or stranded. `DeliveryInv` speaks of both rows,
  the stored one and the one the pass holds: everything wanted up to either
  cursor is accounted for, so that writing back the older one does no harm.
  `ChargeInv` counts the failures a row claims, the attempt under way included,
  against those that happened.
* **Pairing.** `SerialInv`: a consumption mark precedes every credential, so a
  second redemption needs a read that failed. `OwedInv` follows the numbers of the
  ledger through both drains. `RevokedInv`: whatever is in a lookup's hands is
  checked against the view when it is cached, under the mutex that also installs
  the view.
* **Automation.** `OnceInv`: no occurrence that was dispatched is ahead of the
  cursor. `BaseInv`: a trigger that was observed remembers what slides are told of
  its entity, through a swap of generations. `HoldInv` ties a hold's age and fired
  flag to the history of the entity; `ArriveInv` says where the last word of an
  entity is.
* **Jobs.** An execution owns what it has left, no two the same target
  (`Separate`), of the record's operation (`Operated`); `Held` says what the record
  shows of the target in its hands, `Landed` what was applied by then. `PassKeeps`
  and `CarryKeeps` are the two ways a step goes on, past a target or on with it;
  that the least target exists is well-founded induction over the pairs.

Only model-checked: every liveness property and with them `SecretsDieWithTheirEndpoint`
and `TailsRun`, and of course every violation. `FairSpec` and the temporal
formulas they need are out of the prover's reach.

## 6. What the models leave out

* *Everywhere*: payloads, formats, logs, metrics; authentication, certificates
  and signatures (a refused request is a call that fails); the text of errors.
* *Telemetry*: an ingest without a deliverer (only tests build one); a batch's
  order inside itself, which is ascending. Log appends fail in
  `MCTelemetryRefused` alone.
* *Restore*: directory operations are taken to reach the disk in the order they
  are issued, as on a journalled filesystem; a removal or rename that returns an
  error in `Adopt` ends the boot and is a `Crash` there.
* *Retention*: `Purge`, enrollment changes, and the generation going back after a
  workspace restore; one ack in flight per relay; one sweep per interval; a pull
  from 0 is allowed at any time, not only at boot (more behaviours, none fewer);
  the program in a relay's memory, which is in `DesiredState`.
* *Desired state*: one relay and one screen; a snapshot is its override program;
  an override that never expires is not among the expiries; the section hash
  (REL-070) only skips work for an equal program; the generation a nudge carries,
  which the relay does not use; a nudge that arrives while a tick waits for its
  lock is served by that tick; a handler left behind by a cut pull holds the one
  handler slot until it answers; back-off times, certificate renewal and permanent
  refusals; the generation going back after a workspace restore.
* *Events*: `PlanPrune` and the counts; a read error that answers like an empty
  log; heartbeats, close codes, write time-outs; a filter changed on an open
  socket; `Resolve` is one step with respect to a sweep; a clock that steps back.
* *Webhooks*: one endpoint is followed; edits of its filter and address, the
  length of back-off, signing, the overlap of two secrets, and the loop's wake.
* *Pairing*: codes and their rate limits, selector binding, audit records, leases
  and program serving; a revocation that is withdrawn; a boot whose drop of
  sessions fails; more than one relay.
* *Automation*: attributes and numeric triggers, the fan-out of selectors, equal
  triggers twice in one rule, time conditions, telemetry entries; the update of
  the last snapshot and the send of a slide are one step, as are the three selects of
  the poller's send (`ecppoll.go:409-433`); clock trust, and with it the guard that keeps
  an untrusted clock from dispatching schedules (`engine.go:606`), so the model dispatches
  more.
* *Jobs*: what an export, a delete or a restore does inside (the restore is
  `RestoreSwap`), selectors, archive claims, cancellation.

Hazards that are listed and that no property covers have a note in
`PROJECT.json`: most are about a timing that belongs to two components of
different models (an ack that reaches the feeder before the relay serves the
generation; acks that are gone after a feeder restart; a generation that goes back
after a workspace restore). Components that are not modelled at all, with the
reason, are rows with status `not_modelled`.

## 7. What the checks found

Runs that end in a violation of something the code says of itself; the quotation
and the exact lines are in `PROJECT.json` ("findings").

1. `telemetry_two_relays`: all relays share one `receivedThrough`, although each
   numbers from 1.
2. `pairing_report_lost`: a redemption is retired by its SQLite row number, which
   the next redemption may get; of two drains, the slower one retires a report
   that was never sent.

Configurations to be run by hand, each violated:

3. `MCTelemetryReissue`: a crash between `AppendTelemetry` and `SaveSeqHighWater`
   leaves an entry above the stored mark. The reload resumes above it but does not
   store that; once the entry is acknowledged and pruned, a second crash resumes
   below it and the seq is issued again. The app peer skips the second entry as a
   duplicate, and it is lost without a marker.
4. `MCRestoreRestage`: `Stage` clears the staged store before the marker that
   stands for it.
5. `MCRestoreTwoJobs`: nothing serialises restore jobs, and they share a path
   (`workspacerestore.go:243`; `restoreswap.go:28`, "the marker is written LAST in
   Stage, so a crash mid-write leaves a partial staged file with no marker"). The
   store they replace is safe all the same; what they replace it with may be torn.
6. `MCRetentionGrowth`: a mark is void once the generation moves
   (`contentgc.go:361-364`), and the re-mint moves it every 12 hours
   (`main.go:2464`, `remint.go:98`) while a mark needs 24 (`contentgc.go:118`): as
   shipped, nothing is ever reclaimed, where `contentgc.go:5-9` says of files that stay
   on disk forever that "this package is the sweep that ends that". `retention_safe`
   checks why, and `ShippedReclaimsNothing` proves it of every fleet and every order of
   events in which no re-mint fails.
7. `MCDesiredLapse`: `current()` reads the clock before its lock. A pull that read
   it before a lapse and builds after the generation was advanced for that lapse
   returns the new generation with the override still in it. The nudge then finds
   the relay at that generation, and the override stays on the screen.
8. `MCWebhooksPrune`: a pass judges orphans by the list it read when it began
   (`webhookdeliver.go:219`, `:266`), and drops the state, with the sealed secret, of an
   endpoint created since, although it is to drop the "state whose endpoint row is gone"
   (`:255`). An event that endpoint was owed is not delivered.
9. `MCWebhooksDeliveryId`: the event a retry was for is evicted during the
   back-off, and the next event is sent under its delivery id
   (`webhookdeliver.go:350-353`, "one id per LOGICAL delivery").
10. `MCJobsReapply`: a process stops between a target's write and its outcome, an
    operator edits the row, and the resume writes over the edit. The comment in
    `jobrun.go` counts one more revision as the only cost of a re-apply.

A gap the code itself names, and the properties except:

* *Desired state*: the live install is additive, so a screen that a new generation
  does not name keeps its last program until the relay restarts, and then has none
  (`livepull.go:91-109`, "live state and restart state disagree about the same
  persisted generation"). An alert that lapses after its screen was dropped stays up
  with it. `ServesWhatItPersisted` and `RelayServesDurable` say nothing of such a
  screen; `Convergence` is about the generation reached.

Read in the code while modelling it, and not stated as a run:

* *Pairing*: `RevokeSubject` does not move the generation, so a revocation waits
  for the next change or re-mint; a `SetPlayerSession` that fails after
  `RecordRedemption` burns the grant; `PairingGrantRedeemed` fails open; a relay
  that restarts offline has no pairing grants, contrary to REL-122.
* *Webhooks*: enabling writes back the whole progress row that was read; a POST that
  succeeds and whose progress cannot be written is sent again under a new id,
  while a comment in the feeder's `main.go` promises the same one.
* *Events*: a hole of one class is silent (EVT-143 asks for a marker); an id
  appended late is below cursors already handed out; a gap line on SSE carries
  `id: to_id`; `Prune` removes rows before it writes the watermark; a fresh
  subscriber on an emptied log is told of a gap it did not have.
* *Automation*: the cursor of `dispatchSchedule` stands still while no schedule is
  loaded, so a schedule added later fires for the time before it existed, contrary
  to RUL-351; `SetTargets` in the middle of a poll removes an entity whose snapshot
  the poll then puts back; with two entities on the channel, dropping the oldest
  can drop the last word of the other; `Observe` returns before it notes the
  snapshot while no rule is loaded; the first real transition of a new trigger is
  taken for its baseline (RUL-025, RUL-300); a hold with `from` is keyed on `to`
  alone; an occurrence fires again when the wall clock is behind after a restart;
  `Host.Run` ends at the first store error and nothing starts it again;
  `SetStabilizationWindow` has no caller.
* *Jobs*: targets still pending when a process stops never run, and their poll
  never ends; a row edited between a target's `Get` and `Update` fails the target
  with a revision conflict, contrary to the comment above it; a bulk enable that
  matches nothing stays pending; an outcome that cannot be committed leaves its
  target running and blocks a restart; a job accepted between a restart's check
  and the stop is cut; a failed read of the interrupted runs is not repeated;
  `Job.Cancel` has no caller; a comment of `workspacerestore.go` calls a restore
  resumable, which is reconciled as failed.
* *Keep-alive* (not modelled): one poll is counted by the observation and again by
  the ticker, so a streak can be met by a single poll; an observation under way
  when `SetTargets` drops its screen puts it back; a decision is carried out inline
  and holds up the drain, and may be out of date by then.

## 8. Plan

Done, in the order of importance: telemetry (the only path on which data can be
lost), restore (the only one that replaces all data), retention (the only one
that deletes), desired state (what the product is for), the event stream and the
webhooks that read the same log, pairing (who may show what), the relay's rules
engine (what acts on devices unattended), and jobs (what an operator is told about
work that outlives a request). Each was written so that it can be proved about:
constants with assumptions, one action per operation, no `RECURSIVE` operator.

Left, in this order:

1. **Generation going back**: `DesiredState` with a workspace restore, where relays
   are ahead of the store; composed with the workspace `RestoreSwap` adopts.
2. **Keep-alive of screens**: streaks, grace and back-off against a poller and a
   set of targets that change under it. Liveness: a screen that stays away is
   launched again.
3. **Refinements**: every safety property of the runs has its theorem; what pairing,
   webhooks and the event stream promise is still stated as invariants, not as
   abstract specifications that they implement.
4. **Schedule resolver and packs**: a pure algorithm against a reference
   definition, and a supervised process.

## 9. How to run

```
tlc -workers 2 -config MCTelemetryCrash.cfg MCTelemetry
tlc -workers 2 -config MCDesiredLive.cfg DesiredState
tlapm DesiredProofs.tla
```

`PROJECT.json` ("runs") pairs each configuration with its module and says which
result to expect; the modules of section 5 are checked by `tlapm` as they stand. The
configurations run by hand are those of `MCTelemetry`, `MCAutomation`,
`MCRestoreSwap` and `MCWebhooks`, by the beginning of their names; `MCJobsRows` and
`MCJobsReapply` are those of `JobExecution`, `MCDesiredLapse` that of `DesiredState`,
`MCRetentionGrowth` that of `ContentRetention`.
