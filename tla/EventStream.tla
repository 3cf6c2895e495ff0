---------------------------- MODULE EventStream ----------------------------
(***************************************************************************)
(* The live event stream over the log: the hub, one connection's delivery  *)
(* (internal/app/eventsse) and the resolution of a resume point            *)
(* (internal/events/resume.go), with a client that reconnects.             *)
(*                                                                         *)
(* Append and drain each hold the hub's lock once, so each is one step;    *)
(* the hourly sweep does not take that lock.  A client keeps the last id   *)
(* it was told as its resume point.  Over SSE a gap marker carries an id   *)
(* field of its own, the marker's to_id, and so moves that point; over WS  *)
(* only events do.                                                         *)
(***************************************************************************)
EXTENDS EventLog, Sequences

CONSTANTS Bindings   \* the bindings clients use: a subset of {"sse", "ws"}

ASSUME StreamAssumption == Bindings \subseteq {"sse", "ws"} /\ Bindings # {}

VARIABLES
    sub,      \* the server's side of the connection
    wake,     \* its signal: buffered(1), coalescing
    wire,     \* frames written and not read yet
    client,   \* what the client knows
    unnoted   \* history: drained past while the sweep that evicted them had not noted it

streamVars == <<sub, wake, wire, client, unnoted>>
hubVars == <<logVars, streamVars>>

Event(i) == [frame |-> "event", from |-> None, to |-> i]
Gap(from, to) == [frame |-> "gap", from |-> from, to |-> to]
Frames == [frame : {"event", "gap"}, from : Ids \union {None}, to : Ids]

Subs == [open : BOOLEAN, considered : Ids \union {None}, delivered : Ids \union {None},
         anchor : Ids \union {None}, pending : BOOLEAN, pendingFrom : Ids \union {None}]
Closed == [open |-> FALSE, considered |-> None, delivered |-> None, anchor |-> None,
           pending |-> FALSE, pendingFrom |-> None]
NewClient(b, start) ==
    [binding |-> b, start |-> start, last |-> None, got |-> {}, gaps |-> {}]

StreamTypeOK ==
    /\ LogTypeOK
    /\ sub \in Subs
    /\ sub.delivered <= sub.considered
    /\ sub.pendingFrom # None => sub.pending
    /\ wake \in BOOLEAN /\ (~sub.open => ~wake)
    /\ wire \in Seq(Frames)
    /\ client \in [binding : Bindings, start : Ids \union {None}, last : Ids \union {None},
                   got : SUBSET Ids, gaps : SUBSET {g \in Frames : g.frame = "gap"}]
    /\ unnoted \subseteq Ids

StreamInit ==
    /\ LogInit
    /\ sub = Closed /\ wake = FALSE /\ wire = <<>>
    /\ \E b \in Bindings : client = NewClient(b, None)
    /\ unnoted = {}

Ascending(S) == [k \in 1..Cardinality(S) |->
    CHOOSE i \in S : Cardinality({j \in S : j < i}) = k - 1]

\* The frames for the ids of tail, in id order; a marker from `from` stands right
\* before the id it names, if it names one.
Written(tail, from, named) ==
    LET codes == {2 * i + 1 : i \in {j \in tail : Wanted(j)}} \union {2 * i : i \in named}
        Frame(c) == IF c % 2 = 1 THEN Event(c \div 2) ELSE Gap(from, c \div 2)
        order == Ascending(codes)
    IN [k \in DOMAIN order |-> Frame(order[k])]
-----------------------------------------------------------------------------
(***************************************************************************)
(* The hub.                                                                *)
(***************************************************************************)
HubAppend(p, s) ==
    /\ LogAppends(p, s)
    /\ wake' = sub.open
    /\ UNCHANGED <<sub, wire, client, unnoted>>

\* The connection's state and frames once a backlog has been written to it.
Opens(anchor, considered, backlog, from, named) ==
    /\ sub' = [Closed EXCEPT !.open = TRUE, !.anchor = anchor,
                 !.considered = IF backlog = {} THEN considered ELSE Max(backlog),
                 !.delivered = MaxOr0({i \in backlog : Wanted(i)})]
    /\ wire' = Written(backlog, from, named)
    /\ wake' = FALSE

\* A client with nothing to resume from is given what is recorded from now on.
SubscribesFresh ==
    /\ client.last = None
    /\ Opens(None, HeadId, {}, None, {})
    /\ client' = NewClient(client.binding, MaxOr0(appended))
    /\ UNCHANGED unnoted

\* Bug: the id a marker names is taken from the log as it is.
AnyOf(S) == S
Readable(S) == {i \in S : Visible(i)}

\* The point is gone: marked, and delivery resumes at the oldest it may read.
SubscribesOverGap ==
    LET to == Min(Readable(After(client.last)))
    IN /\ AgedOut(client.last) /\ Readable(After(client.last)) # {}
       /\ Opens(client.last, to, From(to), client.last, {to})
       /\ unnoted' = unnoted \union Unseen(client.last)
       /\ UNCHANGED client

\* The point is still there and may be read: everything after it, and no marker.
Resumes ==
    /\ ~(AgedOut(client.last) /\ Readable(After(client.last)) # {})
    /\ client.last \in log /\ Visible(client.last)
    /\ Opens(client.last, client.last, After(client.last), None, {})
    /\ unnoted' = unnoted \union Unseen(client.last)
    /\ UNCHANGED client

\* RESUME_FROM_INVALID: nothing is opened, and the client starts over.
Refused ==
    /\ ~(AgedOut(client.last) /\ Readable(After(client.last)) # {})
    /\ client.last \notin log \/ ~Visible(client.last)
    /\ client' = NewClient(client.binding, None)
    /\ UNCHANGED <<sub, wake, wire, unnoted>>

Subscribe ==
    /\ ~sub.open /\ wire = <<>>
    /\ \/ SubscribesFresh
       \/ client.last # None /\ (SubscribesOverGap \/ Resumes \/ Refused)
    /\ UNCHANGED logVars
-----------------------------------------------------------------------------
(***************************************************************************)
(* One connection.                                                         *)
(***************************************************************************)
LastKnownPoint == IF sub.delivered # None THEN sub.delivered ELSE sub.anchor

\* Bug: the watermark is looked at when a stream opens, not on every drain.
MarksOnlyPending == sub.pending
\* Whether a loss is to be marked now, and from where.
MarksLoss == sub.pending \/ EvictedAfter(sub.considered)
MarkFrom == IF sub.pending THEN sub.pendingFrom ELSE LastKnownPoint

\* Bug: one row for one wake.
OldestUnsent == {i \in log : i > sub.considered /\ ~\E j \in log : sub.considered < j /\ j < i}
Unsent == After(sub.considered)

Drain ==
    LET tail == Unsent
        named == IF MarksLoss /\ Readable(tail) # {} THEN {Min(Readable(tail))} ELSE {}
    IN /\ sub.open /\ wake
       /\ wake' = FALSE
       /\ wire' = wire \o Written(tail, MarkFrom, named)
       /\ sub' = [sub EXCEPT
              !.considered = Max({@, MaxOr0(tail)}),
              !.delivered = Max({@, MaxOr0({i \in tail : Wanted(i)})}),
              !.pending = MarksLoss /\ named = {},
              !.pendingFrom = IF MarksLoss /\ named = {} THEN MarkFrom ELSE None]
       /\ unnoted' = unnoted \union Unseen(sub.considered)
       /\ UNCHANGED <<logVars, client>>

\* The server ends a stream whose marker found no id to name within the bound.
DeferralExpires ==
    /\ sub.open /\ sub.pending
    /\ sub' = Closed /\ wake' = FALSE
    /\ UNCHANGED <<logVars, wire, client, unnoted>>

\* The connection is lost with what was on it; or the server ends it, for a revoked
\* session or a shutdown, which differs only in that the frames are read first.
ConnectionLost ==
    /\ sub.open
    /\ sub' = Closed /\ wake' = FALSE /\ wire' = <<>>
    /\ UNCHANGED <<logVars, client, unnoted>>

HubRestarts ==
    /\ LogReopens
    /\ sub' = Closed /\ wake' = FALSE /\ wire' = <<>>
    /\ UNCHANGED <<client, unnoted>>
-----------------------------------------------------------------------------
(***************************************************************************)
(* The client (external).                                                  *)
(***************************************************************************)
Receive ==
    LET f == Head(wire)
    IN /\ wire # <<>>
       /\ wire' = Tail(wire)
       /\ client' = [client EXCEPT
              !.got = IF f.frame = "event" THEN @ \union {f.to} ELSE @,
              !.gaps = IF f.frame = "gap" THEN @ \union {f} ELSE @,
              !.last = IF f.frame = "event" \/ client.binding = "sse" THEN f.to ELSE @]
       /\ UNCHANGED <<logVars, sub, wake, unnoted>>

StreamNext ==
    \/ \E p \in Producers :
           \/ Mint(p) /\ UNCHANGED streamVars
           \/ \E s \in Shapes : HubAppend(p, s)
           \/ AppendFails(p) /\ UNCHANGED streamVars
    \/ (PruneCommits \/ PruneNotes) /\ UNCHANGED streamVars
    \/ Subscribe \/ Drain \/ DeferralExpires \/ ConnectionLost
    \/ HubRestarts \/ Receive

StreamSpec == StreamInit /\ [][StreamNext]_hubVars

ReceiveEvent == Receive /\ Head(wire).frame = "event"

\* The server and the client run; a network that keeps cutting connections
\* still lets an event through now and then.
StreamFairSpec ==
    /\ StreamSpec
    /\ WF_hubVars(Subscribe) /\ WF_hubVars(Drain) /\ WF_hubVars(DeferralExpires)
    /\ SF_hubVars(Receive) /\ SF_hubVars(ReceiveEvent)
-----------------------------------------------------------------------------
(***************************************************************************)
(* Properties.                                                             *)
(***************************************************************************)
OnWire(i) == \E k \in DOMAIN wire : wire[k] = Event(i)
Covered(i) == \E g \in client.gaps : g.from < i /\ i < g.to

\* Events the client wanted, is past, and was neither sent nor told it missed.
Missing ==
    {i \in appended : /\ Wanted(i)
                      /\ client.start < i /\ i <= client.last
                      /\ i \notin client.got /\ ~OnWire(i) /\ ~Covered(i)}

\* The ids a marker named to a client for which the marker itself moves the resume point.
NamedOverSse == IF client.binding = "sse" THEN {g.to : g \in client.gaps} ELSE {}

\* The stream (deliverBacklog, drainOnce, ResolveVisible) loses nothing silently by itself:
\* what is missing was appended behind a higher id, or evicted from above one that was
\* kept, or evicted by a sweep the watermark did not show yet, or was named by a marker
\* whose own id the client resumed from.
LossesAreKnown == Missing \subseteq late \union stranded \union unnoted \union NamedOverSse

\* Whatever the reconnections, resume points, markers and late appends, what is on its
\* way to the client is above everything it has, in id order, and nothing is sent twice.
WireIsNews ==
    \A k \in DOMAIN wire : wire[k].frame = "event" =>
        /\ \A j \in client.got : j < wire[k].to
        /\ \A m \in 1..(k - 1) : wire[m].frame = "event" => wire[m].to < wire[k].to

\* EVT-134a: a marker, composed from the shared log, names only ids this client may read,
\* and a range that ends above where it starts.
GapNamesReadable ==
    \A k \in DOMAIN wire : wire[k].frame = "gap" =>
        /\ Visible(wire[k].to)
        /\ wire[k].from < wire[k].to
        /\ wire[k].from # None => Visible(wire[k].from)

\* A coalesced wake covers every append before the drain: an event that is retained and
\* was not appended late reaches the client, or the client is past it, or starts over.
CatchesUp ==
    \A i \in Ids :
        (i \in log \ late /\ Wanted(i) /\ client.start < i)
            ~> (i \notin log \/ i <= client.last \/ i <= client.start)
=============================================================================
