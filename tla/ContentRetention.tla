-------------------------- MODULE ContentRetention --------------------------
(***************************************************************************)
(* Reclaiming content (internal/feeder/contentgc): the feeder's rows name  *)
(* assets, the content origin holds their bytes, relays serve programs of  *)
(* the generations they have applied, and an hourly sweep deletes what     *)
(* nothing uses.  An action is what happens under one hold of a lock, one  *)
(* frame sent or handled, or one file operation.  Time passes in sweep     *)
(* intervals, and a timestamp is an age: how many intervals ago, no more   *)
(* than the code can tell apart.                                           *)
(***************************************************************************)
EXTENDS Integers

CONSTANTS Assets,               \* content digests
          Relays,               \* the active relays of the enrollment registry
          Uploads,              \* uploads that may run at a time
          MinAssetAge,          \* MinAssetAgeMs, in ticks
          MinUnreferencedAge,   \* MinUnreferencedAgeMs, in ticks
          MaxReclaimPerSweep,   \* deletions in one sweep
          RemintInterval,       \* SnapshotRemintInterval, in ticks
          MaxGen, MaxFaults,    \* bounds: generations; things that fail, drop, restart
          Horizon,              \* how far the ghost idle counts
          None                  \* no value

ASSUME RetentionAssumption ==
         /\ MinAssetAge \in Nat /\ MinUnreferencedAge \in Nat
         /\ MaxReclaimPerSweep \in Nat \ {0}
         /\ RemintInterval \in Nat \ {0}
         /\ MaxGen \in Nat \ {0} /\ MaxFaults \in Nat /\ Horizon \in Nat
         /\ None \notin Nat /\ None \notin [age : Nat, generation : Nat]

VARIABLES
  rows,      \* the assets the playlist and cast rows name
  gen,       \* the store's desired-state generation
  checked,   \* api writes past their pre-write check, not yet committed
  items,     \* origin: items[a] is the age of a's bytes, or None
  files,     \* the origin's directory: files[a] is the age of the file, or None
  uploads,   \* uploads[u]: where an Add is
  marks,     \* the sweeper's marks[a]: how old, and of which generation
  sweep,     \* the sweep under way
  acks,      \* the last state.ack of each relay, or None
  conn,      \* which relays are connected
  durable,   \* the generation and program each relay has persisted
  pull,      \* each relay's tick: its pull and what came back
  ackWire,   \* the state.ack on its way, or None
  swept,     \* this interval's sweep has run
  remintIn,  \* intervals until remintLoop's ticker fires
  past       \* ghost: see below

store == <<rows, gen, checked>>
origin == <<items, files, uploads>>
relays == <<acks, conn, durable, pull, ackWire>>
clock == <<swept, remintIn>>
vars == <<store, origin, marks, sweep, relays, clock, past>>

Pull(pc, since, g, prog) == [pc |-> pc, since |-> since, gen |-> g, prog |-> prog]
NoPull == Pull("none", 0, 0, {})
NoUpload == [pc |-> "none", asset |-> None]
Sweep(pc, asked, converged, doomed, left) ==
  [pc |-> pc, asked |-> asked, converged |-> converged, doomed |-> doomed, left |-> left]
NoSweep == Sweep("idle", 0, FALSE, {}, 0)

Init == /\ rows = {} /\ gen = 1 /\ checked = {}
        /\ items = [a \in Assets |-> None] /\ files = [a \in Assets |-> None]
        /\ uploads = [u \in Uploads |-> NoUpload]
        /\ marks = [a \in Assets |-> None]
        /\ sweep = NoSweep
        /\ acks = [r \in Relays |-> None]
        /\ conn = [r \in Relays |-> FALSE]
        /\ durable = [r \in Relays |-> [gen |-> 0, prog |-> {}]]
        /\ pull = [r \in Relays |-> NoPull]
        /\ ackWire = [r \in Relays |-> None]
        /\ swept = FALSE /\ remintIn = RemintInterval
        /\ past = [idle |-> [a \in Assets |-> None], unminted |-> 0, faults |-> 0]

Has(a) == items[a] # None

\* The store's write lock, held by the sweep from its reference read to its end.
Locked == sweep.pc = "removing"

\* past.idle[a]: how long ago a was last named by a row or newly stored.
\* past.unminted: how many re-mints have failed.
\* past.faults: how many things have failed, dropped or restarted, those included.
Touched(a) == past' = [past EXCEPT !.idle[a] = 0]
Accepted(a) == IF Has(a) THEN UNCHANGED past ELSE Touched(a)
Fault == past.faults < MaxFaults /\ past' = [past EXCEPT !.faults = @ + 1]
Unminted == /\ past.faults < MaxFaults
            /\ past' = [past EXCEPT !.faults = @ + 1, !.unminted = @ + 1]

-----------------------------------------------------------------------------
(* Authoring                                                               *)

\* validateRowAssets: the check before the write transaction.
Check(a) == /\ Has(a) /\ a \notin rows /\ a \notin checked
            /\ checked' = checked \cup {a}
            /\ UNCHANGED <<rows, gen, origin, marks, sweep, relays, clock, past>>

\* Bug: the asset guard does not run again inside the transaction.
CommitUnguarded(a) == /\ a \in checked /\ ~Locked /\ gen < MaxGen
                      /\ checked' = checked \ {a}
                      /\ rows' = rows \cup {a}
                      /\ gen' = gen + 1
                      /\ Touched(a)
                      /\ UNCHANGED <<origin, marks, sweep, relays, clock>>

\* The write transaction, with rowAssetGuards inside it.
Commit(a) == /\ a \in checked /\ ~Locked /\ gen < MaxGen
             /\ checked' = checked \ {a}
             /\ IF Has(a)
                THEN /\ rows' = rows \cup {a}
                     /\ gen' = gen + 1
                     /\ Touched(a)
                ELSE UNCHANGED <<rows, gen, past>>
             /\ UNCHANGED <<origin, marks, sweep, relays, clock>>

\* A write that drops the last row naming a.
Unreference(a) == /\ a \in rows /\ ~Locked /\ gen < MaxGen
                  /\ rows' = rows \ {a}
                  /\ gen' = gen + 1
                  /\ Touched(a)
                  /\ UNCHANGED <<checked, origin, marks, sweep, relays, clock>>

\* remintLoop's ticker fires: AdvanceGeneration, which may fail until the next.
Remint == /\ remintIn = 0 /\ ~Locked
          /\ remintIn' = RemintInterval
          /\ \/ gen < MaxGen /\ gen' = gen + 1 /\ UNCHANGED past
             \/ UNCHANGED gen /\ Unminted
          /\ UNCHANGED <<rows, checked, origin, marks, sweep, relays, swept>>

-----------------------------------------------------------------------------
(* The content origin                                                      *)

Adding(a) == \E u \in Uploads : uploads[u].asset = a
At(u, pc) == uploads[u].pc = pc
Uploading == UNCHANGED <<store, marks, sweep, relays, clock>>

\* Add declares itself and looks whether the bytes are there.
AddBegin(u, a) == /\ At(u, "none")
                  /\ uploads' = [uploads EXCEPT ![u] =
                                   [pc |-> IF Has(a) THEN "publish" ELSE "write", asset |-> a]]
                  /\ Uploading /\ UNCHANGED <<items, files, past>>

\* writeAtomic, outside the lock.
AddWrite(u) == /\ At(u, "write")
               /\ files' = [files EXCEPT ![uploads[u].asset] = 0]
               /\ uploads' = [uploads EXCEPT ![u] = [pc |-> "publish", asset |-> uploads[u].asset]]
               /\ Uploading /\ UNCHANGED <<items, past>>

AddFails(u) == /\ At(u, "write")
               /\ uploads' = [uploads EXCEPT ![u] = NoUpload]
               /\ Fault
               /\ Uploading /\ UNCHANGED <<items, files>>

\* Add publishes and withdraws its declaration.  The stamp of bytes already
\* stored stays as it was.
AddPublish(u) == /\ At(u, "publish")
                 /\ LET a == uploads[u].asset IN
                      /\ items' = [items EXCEPT ![a] = IF Has(a) THEN items[a] ELSE 0]
                      /\ Accepted(a)
                 /\ uploads' = [uploads EXCEPT ![u] = NoUpload]
                 /\ Uploading /\ UNCHANGED files

UploadStep(u) == \/ \E a \in Assets : AddBegin(u, a)
                 \/ AddWrite(u) \/ AddFails(u) \/ AddPublish(u)

-----------------------------------------------------------------------------
(* The sweep                                                               *)

Sweeping == UNCHANGED <<store, relays>>

SweepReadsGeneration == /\ sweep.pc = "idle" /\ ~swept
                        /\ sweep' = Sweep("ask", gen, FALSE, {}, 0)
                        /\ Sweeping /\ UNCHANGED <<origin, marks, clock, past>>

\* Bug: a relay that is not connected is left out of the count.
FleetConvergedConnected(target) == \A r \in Relays : conn[r] => acks[r] = target

\* contentSweepFleetFloor: every active relay is connected and its last ack
\* names exactly the target.
FleetConverged(target) == \A r \in Relays : conn[r] /\ acks[r] = target

SweepAsksFleet == /\ sweep.pc = "ask"
                  /\ sweep' = Sweep("lock", sweep.asked, FleetConverged(sweep.asked), {}, 0)
                  /\ Sweeping /\ UNCHANGED <<origin, marks, clock, past>>

\* Bug: a mark outlives the generation it was taken at.
MarkedSinceEver(a) == marks[a] # None

\* A mark is evidence only about the generation it was taken at.
Marked(a) == marks[a] # None /\ marks[a].generation = gen

\* Bug: a mark of an older generation is taken over with its age.
TakeMarksRestamps == [a \in Assets |->
                        IF ~Has(a) \/ a \in rows THEN None
                        ELSE IF marks[a] # None THEN [marks[a] EXCEPT !.generation = gen]
                        ELSE [age |-> 0, generation |-> gen]]

\* What the pass over Entries leaves in marks, before it reclaims.
TakeMarks == [a \in Assets |->
                IF ~Has(a) \/ a \in rows THEN None
                ELSE IF Marked(a) THEN marks[a]
                ELSE [age |-> 0, generation |-> gen]]

Reclaimable(a) == /\ Has(a) /\ a \notin rows /\ Marked(a)
                  /\ items[a] >= MinAssetAge
                  /\ marks[a].age >= MinUnreferencedAge
                  /\ sweep.converged /\ sweep.asked = gen

\* WithContentReferences takes the write lock and the pass decides.
SweepDecides == /\ sweep.pc = "lock"
                /\ marks' = TakeMarks
                /\ sweep' = Sweep("removing", sweep.asked, sweep.converged,
                                  {a \in Assets : Reclaimable(a)}, MaxReclaimPerSweep)
                /\ Sweeping /\ UNCHANGED <<origin, clock, past>>

Removing(doomed, left) == Sweep("removing", sweep.asked, sweep.converged, doomed, left)

\* Bug: Remove pays no heed to an Add in flight.
RemoveRacesAdd(a) == /\ a \in sweep.doomed /\ sweep.left > 0
                     /\ items' = [items EXCEPT ![a] = None]
                     /\ files' = [files EXCEPT ![a] = None]
                     /\ marks' = [marks EXCEPT ![a] = None]
                     /\ sweep' = Removing(sweep.doomed \ {a}, sweep.left - 1)
                     /\ UNCHANGED <<uploads, past>>

\* Remove unlinks the file and drops the item.
Remove(a) == /\ a \in sweep.doomed /\ sweep.left > 0
             /\ ~Adding(a)
             /\ items' = [items EXCEPT ![a] = None]
             /\ files' = [files EXCEPT ![a] = None]
             /\ marks' = [marks EXCEPT ![a] = None]
             /\ sweep' = Removing(sweep.doomed \ {a}, sweep.left - 1)
             /\ UNCHANGED <<uploads, past>>

\* ErrAddInFlight, or the filesystem refuses: the asset is kept.
RemoveFails(a) == /\ a \in sweep.doomed /\ sweep.left > 0
                  /\ sweep' = Removing(sweep.doomed \ {a}, sweep.left)
                  /\ IF Adding(a) THEN UNCHANGED past ELSE Fault
                  /\ UNCHANGED <<origin, marks>>

SweepRemoves(a) == sweep.pc = "removing" /\ (Remove(a) \/ RemoveFails(a)) /\ Sweeping /\ UNCHANGED clock

SweepEnds == /\ sweep.pc = "removing"
             /\ sweep.doomed = {} \/ sweep.left = 0
             /\ sweep' = NoSweep
             /\ swept' = TRUE
             /\ Sweeping /\ UNCHANGED <<origin, marks, past, remintIn>>

\* The generation or the references cannot be read: nothing is deleted.
SweepFails == /\ sweep.pc \in {"ask", "lock"}
              /\ sweep' = NoSweep
              /\ swept' = TRUE
              /\ Fault
              /\ Sweeping /\ UNCHANGED <<origin, marks, remintIn>>

SweepStep == \/ SweepReadsGeneration \/ SweepAsksFleet \/ SweepDecides
             \/ (\E a \in Assets : SweepRemoves(a)) \/ SweepEnds \/ SweepFails

-----------------------------------------------------------------------------
(* A relay: pull, persist, acknowledge                                     *)

Relaying == UNCHANGED <<store, origin, marks, sweep, clock>>
PullAt(r, pc) == pull[r].pc = pc
Arrived(r) == pull[r].pc \in {"answered", "orphaned"}

Connect(r) == /\ ~conn[r]
              /\ conn' = [conn EXCEPT ![r] = TRUE]
              /\ Relaying /\ UNCHANGED <<acks, durable, pull, ackWire, past>>

\* What a dying connection leaves of the pull on it: a snapshot already read is
\* persisted all the same, but its ack has nowhere to go.
Orphan(r) == IF PullAt(r, "answered") THEN {NoPull, Pull("orphaned", 0, pull[r].gen, pull[r].prog)}
             ELSE IF PullAt(r, "orphaned") THEN {pull[r]} ELSE {NoPull}

\* The connection fails; an ack on its way may still be handled.
Disconnect(r) == /\ conn[r]
                 /\ conn' = [conn EXCEPT ![r] = FALSE]
                 /\ \E p \in Orphan(r) : pull' = [pull EXCEPT ![r] = p]
                 /\ Fault
                 /\ Relaying /\ UNCHANGED <<acks, durable, ackWire>>

\* rePuller.tick: since is the generation last applied, or 0 at boot.
PullAsks(r) == /\ conn[r] /\ PullAt(r, "none")
               /\ \E since \in {0, durable[r].gen} :
                    pull' = [pull EXCEPT ![r] = Pull("asked", since, 0, {})]
               /\ Relaying /\ UNCHANGED <<acks, conn, durable, ackWire, past>>

\* handleStatePull: unchanged, or the snapshot of the rows as they are now.
PullAnswered(r) == /\ PullAt(r, "asked") /\ ~Locked
                   /\ pull' = [pull EXCEPT ![r] =
                                 IF pull[r].since = gen THEN NoPull
                                 ELSE Pull("answered", 0, gen, rows)]
                   /\ Relaying /\ UNCHANGED <<acks, conn, durable, ackWire, past>>

\* Sends the ack of generation g, unless the connection is gone.
SendsAck(r, g) == ackWire' = IF PullAt(r, "answered") THEN [ackWire EXCEPT ![r] = g] ELSE ackWire

\* VerifyAndApply persists a generation that does not regress and the ack names
\* it; a rejected one is acknowledged with the generation still applied.
Persist(r) == /\ Arrived(r)
              /\ \/ /\ pull[r].gen >= durable[r].gen
                    /\ durable' = [durable EXCEPT ![r] = [gen |-> pull[r].gen, prog |-> pull[r].prog]]
                    /\ SendsAck(r, pull[r].gen)
                    /\ UNCHANGED past
                 \/ /\ SendsAck(r, durable[r].gen)
                    /\ IF pull[r].gen < durable[r].gen THEN UNCHANGED past ELSE Fault
                    /\ UNCHANGED durable
              /\ pull' = [pull EXCEPT ![r] = NoPull]
              /\ Relaying /\ UNCHANGED <<acks, conn>>

AckHandled(r) == /\ ackWire[r] # None
                 /\ acks' = [acks EXCEPT ![r] = ackWire[r]]
                 /\ ackWire' = [ackWire EXCEPT ![r] = None]
                 /\ Relaying /\ UNCHANGED <<conn, durable, pull, past>>

AckLost(r) == /\ ackWire[r] # None
              /\ ackWire' = [ackWire EXCEPT ![r] = None]
              /\ Fault
              /\ Relaying /\ UNCHANGED <<acks, conn, durable, pull>>

\* The relay process restarts with what it has persisted.
RelayRestarts(r) == /\ conn' = [conn EXCEPT ![r] = FALSE]
                    /\ pull' = [pull EXCEPT ![r] = NoPull]
                    /\ Fault
                    /\ Relaying /\ UNCHANGED <<acks, durable, ackWire>>

RelayStep(r) == \/ Connect(r) \/ Disconnect(r) \/ PullAsks(r) \/ PullAnswered(r)
                \/ Persist(r) \/ AckHandled(r) \/ AckLost(r) \/ RelayRestarts(r)

-----------------------------------------------------------------------------
(* The feeder process and the clock                                        *)

\* The feeder restarts: the rows and the files stay, Open reads the files back,
\* marks, acks and everything under way are gone.
FeederRestarts == /\ items' = files
                  /\ checked' = {}
                  /\ uploads' = [u \in Uploads |-> NoUpload]
                  /\ marks' = [a \in Assets |-> None]
                  /\ sweep' = NoSweep
                  /\ acks' = [r \in Relays |-> None]
                  /\ conn' = [r \in Relays |-> FALSE]
                  /\ \E left \in [Relays -> UNION {Orphan(r) : r \in Relays}] :
                       (\A r \in Relays : left[r] \in Orphan(r)) /\ pull' = left
                  /\ ackWire' = [r \in Relays |-> None]
                  /\ swept' = TRUE
                  /\ remintIn' = RemintInterval
                  /\ Fault
                  /\ UNCHANGED <<rows, gen, files, durable>>

Older(age, cap) == IF age = None THEN None ELSE IF age < cap THEN age + 1 ELSE age

PastOlder == past' = [past EXCEPT !.idle = [a \in Assets |-> Older(past.idle[a], Horizon)]]

\* An interval passes, its sweep and its re-mint done.
Tick == /\ remintIn > 0 /\ swept
        /\ remintIn' = remintIn - 1
        /\ swept' = FALSE
        /\ items' = [a \in Assets |-> Older(items[a], MinAssetAge)]
        /\ files' = [a \in Assets |-> Older(files[a], MinAssetAge)]
        /\ marks' = [a \in Assets |-> IF marks[a] = None THEN None
                      ELSE [age |-> Older(marks[a].age, MinUnreferencedAge), generation |-> marks[a].generation]]
        /\ PastOlder
        /\ UNCHANGED <<store, uploads, sweep, relays>>

Next == \/ \E a \in Assets : Check(a) \/ Commit(a) \/ Unreference(a)
        \/ Remint
        \/ \E u \in Uploads : UploadStep(u)
        \/ SweepStep
        \/ \E r \in Relays : RelayStep(r)
        \/ FeederRestarts
        \/ Tick

Spec == Init /\ [][Next]_vars

-----------------------------------------------------------------------------
(* Properties                                                              *)

Gens == 0 .. MaxGen
Ages == 0 .. MinAssetAge \cup {None}

\* The shape of the state.
TypeOK == /\ rows \subseteq Assets /\ gen \in Gens /\ checked \subseteq Assets
          /\ items \in [Assets -> Ages] /\ files \in [Assets -> Ages]
          /\ uploads \in [Uploads -> [pc : {"none", "write", "publish"}, asset : Assets \cup {None}]]
          /\ marks \in [Assets -> [age : 0 .. MinUnreferencedAge, generation : Gens] \cup {None}]
          /\ sweep \in [pc : {"idle", "ask", "lock", "removing"}, asked : Gens, converged : BOOLEAN,
                        doomed : SUBSET Assets, left : 0 .. MaxReclaimPerSweep]
          /\ acks \in [Relays -> Gens \cup {None}] /\ conn \in [Relays -> BOOLEAN]
          /\ durable \in [Relays -> [gen : Gens, prog : SUBSET Assets]]
          /\ pull \in [Relays -> [pc : {"none", "asked", "answered", "orphaned"}, since : Gens,
                                  gen : Gens, prog : SUBSET Assets]]
          /\ ackWire \in [Relays -> Gens \cup {None}]
          /\ swept \in BOOLEAN /\ remintIn \in 0 .. RemintInterval

\* "There is no interleaving in which a stored row references reclaimed bytes"
\* (assetrefs.go): whatever uploads, writes and sweeps overlap.
ReferencedIsHeld == \A a \in rows : Has(a)

\* "Under that condition unreferenced at the current generation and unreferenced
\* everywhere are the same statement" (contentgc.go): what a relay has persisted,
\* and would serve after any restart, is in the origin, and so is what a snapshot
\* on its way could still make it persist.
AppliedIsHeld == \A r \in Relays :
                   /\ \A a \in durable[r].prog : Has(a)
                   /\ Arrived(r) /\ pull[r].gen >= durable[r].gen =>
                        \A a \in pull[r].prog : Has(a)

\* What the origin advertises is on disk, so a restart finds it again: the
\* adding counter against an Add that skips its write while Remove unlinks.
AdvertisedIsOnDisk == \A a \in Assets : Has(a) => files[a] # None

\* "Continuously observed unreferenced" (contentgc.go): an asset that was ever
\* named and is gone had not been named for the whole window, a reference that
\* came and went between two sweeps included.
UnnamedForTheWindow == \A a \in Assets :
                         past.idle[a] # None /\ past.idle[a] < MinUnreferencedAge => Has(a)

\* "The mark is only usable if the generation has not moved since it was taken"
\* (Sweep), and every re-mint moves it: nothing is reclaimed before so many re-mints
\* have failed that the generation can have stood still for the window.  As shipped, a
\* re-mint within every window, nothing at all is reclaimed while none fails.
ReclaimsOnlyUnminted == sweep.doomed # {} =>
                          RemintInterval * (past.unminted + 1) >= MinUnreferencedAge

\* "Every replaced slide, every abandoned upload, every asset dropped from a
\* playlist stays on disk forever ... This package is the sweep that ends that"
\* (contentgc.go): an asset idle up to the horizon is gone.
GrowthEnds == \A a \in Assets : Has(a) /\ a \notin rows => past.idle[a] < Horizon
=============================================================================
