------------------------------ MODULE EventLog ------------------------------
(***************************************************************************)
(* The durable event log of the app peer (internal/app/store/eventlog.go)  *)
(* and the producers that mint ids for it.                                 *)
(*                                                                         *)
(* An id is minted first and appended later, by producers that run         *)
(* concurrently: the telemetry ingest, the auditor, api operations.  Each  *)
(* retention class is bounded by itself, so what is evicted is not a       *)
(* prefix of the log; the highest id ever evicted is a row of its own, of  *)
(* which the process keeps a copy (watermark) that it advances after the   *)
(* transaction.  A retention window is applied by a sweep at boot and once *)
(* an hour; a row cap by every append as well.                             *)
(***************************************************************************)
EXTENDS Integers, FiniteSets, FiniteSetsExt

CONSTANTS
    Producers,   \* goroutines that mint an id and append it
    Cap,         \* retention class -> MaxRows, 0 for no cap
    Shapes,      \* what events there are: [class, reach]
    MaxId        \* bound: how many ids are minted

Reaches == {"wanted", "narrowed", "hidden"}   \* sent; visible but not sent; not visible

ASSUME EventLogAssumption ==
    /\ MaxId \in Nat
    /\ \A c \in DOMAIN Cap : Cap[c] \in Nat
    /\ Shapes \subseteq [class : DOMAIN Cap, reach : Reaches]
    /\ Shapes # {}

None == 0
Ids == 1..MaxId
NoShape == [class |-> "none", reach |-> "none"]

VARIABLES
    lastId,           \* the id minted last
    minted,           \* producer -> the id it has minted and not appended
    shape,            \* what each id appended is an event of
    log,              \* ids retained (persistent)
    evictedThrough,   \* event_log_meta: highest id ever evicted (persistent)
    watermark,        \* the process's copy of it
    sweeping,         \* highest id a sweep has evicted and not yet noted
    appended,         \* history: ids ever appended
    late,             \* history: appended after a higher id
    stranded          \* history: evicted, with a lower id in the log then or since

logHistory == <<appended, late, stranded>>
logVars == <<lastId, minted, shape, log, evictedThrough, watermark, sweeping, logHistory>>

LogTypeOK ==
    /\ lastId \in Ids \union {None}
    /\ shape \in [Ids -> Shapes \union {NoShape}]
    /\ minted \in [Producers -> Ids \union {None}]
    /\ log \subseteq appended /\ appended \subseteq Ids
    /\ {evictedThrough, watermark, sweeping} \subseteq Ids \union {None}
    /\ watermark <= evictedThrough
    /\ late \subseteq appended /\ stranded \subseteq appended \ log

LogInit ==
    /\ lastId = None /\ shape = [i \in Ids |-> NoShape]
    /\ minted = [p \in Producers |-> None]
    /\ log = {} /\ evictedThrough = None /\ watermark = None /\ sweeping = None
    /\ appended = {} /\ late = {} /\ stranded = {}

MaxOr0(S) == Max(S \union {None})
Class(i) == shape[i].class
Wanted(i) == shape[i].reach = "wanted"
Visible(i) == shape[i].reach \in {"wanted", "narrowed"}
-----------------------------------------------------------------------------
(***************************************************************************)
(* What the log answers.                                                   *)
(***************************************************************************)
HeadId == MaxOr0(log)
\* Bug: the point resumed from is delivered again.
AfterOrAt(id) == {i \in log : i >= id}
After(id) == {i \in log : i > id}
From(id) == {i \in log : i >= id}

EvictedAfter(id) == id < watermark

\* What the sweep in flight took beyond id and the watermark does not show yet.
Unseen(id) == {i \in appended \ log : i > id /\ watermark < i /\ i <= sweeping}

AgedOut(id) ==
    /\ id # None /\ id \notin log
    /\ \/ id <= watermark
       \/ log # {} /\ id < Min(log)
-----------------------------------------------------------------------------
(***************************************************************************)
(* What changes it.                                                        *)
(***************************************************************************)
\* The rows of i's class, i among them, that its cap leaves no room for.
OverCap(rows, i, class) ==
    LET kin == {j \in rows : j = i \/ Class(j) = class}
    IN {j \in kin : Cap[class] > 0 /\ Cardinality({k \in kin : k > j}) >= Cap[class]}

\* One transaction deletes cut and records how far it reached.
Evicts(rows, cut) ==
    /\ log' = rows \ cut
    /\ evictedThrough' = Max({evictedThrough, MaxOr0(cut)})
    /\ appended' = appended \union rows
    /\ stranded' = stranded \union {i \in appended' \ log' : \E j \in log' : j < i}

Mint(p) ==
    /\ minted[p] = None /\ lastId < MaxId
    /\ lastId' = lastId + 1
    /\ minted' = [minted EXCEPT ![p] = lastId + 1]
    /\ UNCHANGED <<shape, log, evictedThrough, watermark, sweeping, logHistory>>

LogAppends(p, s) ==
    LET i == minted[p]
        rows == log \union {i}
        cut == OverCap(rows, i, s.class)
    IN /\ i # None
       /\ minted' = [minted EXCEPT ![p] = None]
       /\ shape' = [shape EXCEPT ![i] = s]
       /\ Evicts(rows, cut)
       /\ watermark' = Max({watermark, MaxOr0(cut)})
       /\ late' = IF \E j \in appended : j > i THEN late \union {i} ELSE late
       /\ UNCHANGED <<lastId, sweeping>>

\* The transaction of an append fails: the event is reported and gone.
AppendFails(p) ==
    /\ minted[p] # None
    /\ minted' = [minted EXCEPT ![p] = None]
    /\ UNCHANGED <<lastId, shape, log, evictedThrough, watermark, sweeping, logHistory>>

\* What the windows can retire: of each class its oldest rows.
Expirable == {cut \in SUBSET log : \A i \in cut, j \in log : Class(i) = Class(j) /\ j < i => j \in cut}

PruneCommits ==
    /\ sweeping = None
    /\ \E cut \in Expirable \ {{}} : Evicts(log, cut) /\ sweeping' = Max(cut)
    /\ UNCHANGED <<lastId, shape, minted, watermark, late>>

PruneNotes ==
    /\ sweeping # None
    /\ watermark' = Max({watermark, sweeping})
    /\ sweeping' = None
    /\ UNCHANGED <<lastId, shape, minted, log, evictedThrough, logHistory>>

\* The process ends and boots: the persisted watermark is read, then the boot's sweep runs.
LogReopens ==
    /\ \E cut \in Expirable : Evicts(log, cut)
    /\ watermark' = evictedThrough'
    /\ sweeping' = None
    /\ minted' = [p \in Producers |-> None]
    /\ UNCHANGED <<lastId, shape, late>>
=============================================================================
