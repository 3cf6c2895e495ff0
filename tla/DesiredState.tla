---------------------------- MODULE DesiredState ----------------------------
(***************************************************************************)
(* Desired state on its way to a screen.  The feeder derives a snapshot    *)
(* from its rows and the clock (desiredStateSource.current), nudges the    *)
(* relay after every commit, and advances the generation when a screen     *)
(* override lapses (overrideExpiryLoop).  The relay pulls, persists, and   *)
(* then installs what it serves (pullOverFrames, rePuller.tick).  One      *)
(* screen, one relay; its program is the override it shows, None (what its *)
(* schedule says), or NoEntry: the snapshot names no such screen.          *)
(* An action is what happens between two points where another goroutine or *)
(* process can get in.                                                     *)
(***************************************************************************)
EXTENDS Integers

CONSTANTS Writers,          \* api requests that may commit at a time
          Expiries,         \* the expires_at an operator may author
          RemintInterval,   \* contenturl.SnapshotRemintInterval, in ticks of the clock
          MaxTime, MaxGen,  \* bounds: the clock, the generation
          MaxWrites,        \* api writes
          MaxFaults,        \* restarts, lost connections, calls that fail
          Waiting,          \* the loop is between two passes
          None,             \* no value; also the program without an override
          NoEntry           \* no program for the screen: the terminal default, DAT-118

ASSUME DesiredAssumption ==
         /\ MaxTime \in Nat /\ MaxGen \in Nat \ {0}
         /\ Expiries \subseteq Nat \ {0} /\ None \notin Nat /\ Waiting \notin Nat \cup {None}
         /\ NoEntry \notin Nat \cup {None, Waiting}
         /\ RemintInterval \in Nat \ {0}
         /\ {"loop", "handler"} \cap Writers = {}
         /\ MaxWrites \in Nat /\ MaxFaults \in Nat

\* Who may be inside current() at a time: the post-commit hook of an api write
\* or of the loop's own advance, and the handler of the relay's pull.
Callers == Writers \cup {"loop", "handler"}

VARIABLES
  now,        \* the wall clock
  gen,        \* the store's desired-state generation
  override,   \* the screen row's override: its expires_at, or None
  placed,     \* the screen's scope node resolves to a time zone
  cache,      \* desiredStateSource's snapshot, its generation and window, or None
  caller,     \* where each caller of current() is, what it has read and got
  seen,       \* overrideExpiryLoop: the rows it has read, or Waiting
  published,  \* overrideExpiryLoop: the lapse it has announced, or None
  conn,       \* the authenticated connection is up and registered
  wire,       \* state.changed frames on their way
  cell,       \* the relay's nudge cell is set
  fresh,      \* OnConnected owes its tick
  answering,  \* the handler's answer still has a relay waiting for it
  phase,      \* the relay: "boot" until main has installed its first program
  tick,       \* the pull under way: rePuller.tick, or the one at boot
  durable,    \* the generation and program persisted (identity.Store)
  lastGen,    \* rePuller.lastGen
  live,       \* the program the relay serves
  past        \* ghost: how much has happened, and whether a pull or nudge failed

feeder == <<gen, override, placed, cache, seen, published>>
link == <<conn, wire, cell, fresh, answering>>
relay == <<phase, tick, durable, lastGen, live>>
vars == <<now, feeder, caller, link, relay, past>>

Snap(g, p) == [gen |-> g, prog |-> p]
Empty == Snap(0, NoEntry)
Caller(pc, g, n, s) == [pc |-> pc, gen |-> g, now |-> n, snap |-> s]
Idle == Caller("idle", 0, 0, Empty)
Entered == Caller("gen", 0, 0, Empty)
Ticking(pc, since, s) == [pc |-> pc, since |-> since, snap |-> s]
NoTick == Ticking("idle", 0, Empty)
Failed == Ticking("failed", 0, Empty)

Init == /\ now = 0 /\ gen = 1 /\ override \in Expiries \cup {None} /\ placed \in BOOLEAN
        /\ cache = None
        /\ caller = [c \in Callers |-> Idle]
        /\ seen = Waiting /\ published = None
        /\ conn = FALSE /\ wire = 0 /\ cell = FALSE /\ fresh = FALSE /\ answering = FALSE
        /\ phase = "boot" /\ tick = NoTick /\ durable = Empty /\ lastGen = 0 /\ live = NoEntry
        /\ past = [writes |-> 0, faults |-> 0, missed |-> FALSE]

At(c, pc) == caller[c].pc = pc
Goes(c, to) == caller' = [caller EXCEPT ![c] = to]

\* A connection or a process is lost.
Loss == past.faults < MaxFaults /\ past' = [past EXCEPT !.faults = @ + 1]

\* A call fails while the connection stays up: nothing retries it.
Error == past.faults < MaxFaults /\ past' = [past EXCEPT !.faults = @ + 1, !.missed = TRUE]

-----------------------------------------------------------------------------
(* The derivation                                                          *)

\* ScreenOverride.Applies: strictly before its expiry.
Applies(o, t) == o # None /\ o > t

\* DeriveScreenPrograms: what the screen shows at time t under the row's override.
\* A screen without a time zone is left out, overridden or not (DAT-034).
Program(o, p, t) == IF ~p THEN NoEntry ELSE IF Applies(o, t) THEN o ELSE None

\* Bug: the window pays no heed to the next expiry.
RemintWindowOnly(o, t) == t + RemintInterval

\* cacheWindowEnd: the next expiry strictly after t, of a screen left out as of any
\* other, or the re-mint deadline.
CacheWindowEnd(o, t) == IF Applies(o, t) /\ o < t + RemintInterval THEN o ELSE t + RemintInterval

\* current() reads the generation, then the clock, and only then locks.
ReadsGeneration(c) == /\ At(c, "gen")
                      /\ Goes(c, Caller("now", gen, 0, Empty))
                      /\ UNCHANGED <<now, feeder, link, relay, past>>

ReadsClock(c) == /\ At(c, "now")
                 /\ Goes(c, Caller("lock", caller[c].gen, now, Empty))
                 /\ UNCHANGED <<now, feeder, link, relay, past>>

Hit(c) == cache # None /\ cache.gen = caller[c].gen /\ caller[c].now < cache.until

\* Under d.mu: the cached snapshot, or one built from the rows as they are now
\* and from the clock as it was read before the lock.
Locks(c) == /\ At(c, "lock")
            /\ LET n == caller[c].now
                   built == Snap(gen, Program(override, placed, n))
               IN IF Hit(c)
                  THEN /\ Goes(c, Caller("done", caller[c].gen, n, Snap(cache.gen, cache.prog)))
                       /\ UNCHANGED cache
                  ELSE /\ Goes(c, Caller("done", caller[c].gen, n, built))
                       /\ cache' = [gen |-> gen, prog |-> built.prog,
                                    until |-> CacheWindowEnd(override, n)]
            /\ UNCHANGED <<now, gen, override, placed, seen, published, link, relay, past>>

-----------------------------------------------------------------------------
(* Writes and nudges                                                       *)

\* An api write commits, to the screen's override or to its place in the scope tree;
\* its hook enters current() on the same goroutine.
Write(w, o, p) == /\ At(w, "idle") /\ past.writes < MaxWrites /\ gen < MaxGen
                  /\ o = override \/ p = placed
                  /\ override' = o /\ placed' = p /\ gen' = gen + 1
                  /\ Goes(w, Entered)
                  /\ past' = [past EXCEPT !.writes = @ + 1]
                  /\ UNCHANGED <<now, cache, seen, published, link, relay>>

\* NotifyGenerationAdvance sends a state.changed on the registered connection.
Nudges(c) == /\ c # "handler" /\ At(c, "done")
             /\ Goes(c, Idle)
             /\ wire' = IF conn THEN wire + 1 ELSE wire
             /\ UNCHANGED <<now, feeder, conn, cell, fresh, answering, relay, past>>

\* The provider fails: nobody is nudged.
NudgeFails(c) == /\ c # "handler" /\ caller[c].pc \in {"gen", "lock"}
                 /\ Goes(c, Idle)
                 /\ Error
                 /\ UNCHANGED <<now, feeder, link, relay>>

\* overrideExpiryLoop wakes, after a commit, at a deadline or once a minute.
LoopReads == /\ seen = Waiting /\ At("loop", "idle")
             /\ seen' = override
             /\ UNCHANGED <<now, gen, override, placed, cache, published, caller, link, relay, past>>

\* lapsedOverrides of what the loop has read.
Lapsed == IF seen # None /\ seen <= now THEN seen ELSE None

Announces == /\ gen < MaxGen
             /\ gen' = gen + 1
             /\ Goes("loop", Entered)
             /\ UNCHANGED past

\* Bug: any lapse is announced, announced before or not.
LoopDecidesAnew == /\ seen # Waiting
                   /\ IF Lapsed # None THEN Announces ELSE UNCHANGED <<gen, caller, past>>
                   /\ published' = Lapsed
                   /\ seen' = Waiting
                   /\ UNCHANGED <<now, override, placed, cache, link, relay>>

\* An unpublished lapse advances the generation.  The lapse counts as published
\* even when the advance has failed.
LoopDecides == /\ seen # Waiting
               /\ IF Lapsed # None /\ Lapsed # published
                  THEN Announces \/ (Error /\ UNCHANGED <<gen, caller>>)
                  ELSE UNCHANGED <<gen, caller, past>>
               /\ published' = Lapsed
               /\ seen' = Waiting
               /\ UNCHANGED <<now, override, placed, cache, link, relay>>

-----------------------------------------------------------------------------
(* The feeder's answer to a pull                                           *)

\* handleStatePull.  A relay that has given up, or whose connection is gone,
\* never sees the answer.
Answers == /\ At("handler", "done")
           /\ Goes("handler", Idle)
           /\ answering' = FALSE
           /\ LET s == caller["handler"].snap IN
                tick' = IF ~answering THEN tick
                        ELSE IF tick.since = s.gen THEN NoTick     \* state.unchanged
                        ELSE Ticking("answered", tick.since, s)    \* state.snapshot
           /\ UNCHANGED <<now, feeder, conn, wire, cell, fresh, phase, durable, lastGen, live, past>>

\* The provider fails: INTERNAL.
AnswersError == /\ caller["handler"].pc \in {"gen", "lock"}
                /\ Goes("handler", Idle)
                /\ answering' = FALSE
                /\ tick' = IF answering THEN Failed ELSE tick
                /\ Error
                /\ UNCHANGED <<now, feeder, conn, wire, cell, fresh, phase, durable, lastGen, live>>

-----------------------------------------------------------------------------
(* The relay                                                               *)

\* A frame reaches the read loop: it sets the nudge cell, or is dropped while
\* main has not yet installed the handler.
Receives == /\ wire > 0
            /\ wire' = wire - 1
            /\ cell' = (phase = "serving")
            /\ UNCHANGED <<now, feeder, caller, conn, fresh, answering, relay, past>>

AsksFrom(since) == /\ At("handler", "idle")
                   /\ Goes("handler", Entered)
                   /\ tick' = Ticking("asked", since, Empty)
                   /\ answering' = TRUE
                   /\ past' = [past EXCEPT !.missed = FALSE]

\* Bug: OnConnected does not pull; only a nudge does.
PullAsksOnNudge == /\ phase = "serving" /\ tick.pc = "idle" /\ conn /\ cell
                   /\ AsksFrom(lastGen)
                   /\ cell' = FALSE /\ fresh' = FALSE
                   /\ UNCHANGED <<now, feeder, conn, wire, phase, durable, lastGen, live>>

\* rePuller.tick, from the nudge handler or from OnConnected, under p.mu.
PullAsks == /\ phase = "serving" /\ tick.pc = "idle" /\ conn /\ (cell \/ fresh)
            /\ AsksFrom(lastGen)
            /\ cell' = FALSE /\ fresh' = FALSE
            /\ UNCHANGED <<now, feeder, conn, wire, phase, durable, lastGen, live>>

\* The pull times out, on a connection that stays up.
PullFails == /\ tick.pc = "asked"
             /\ tick' = Failed
             /\ answering' = FALSE
             /\ Error
             /\ UNCHANGED <<now, feeder, caller, conn, wire, cell, fresh, phase, durable, lastGen, live>>

\* VerifyAndApply persists a generation that does not regress.
Persists == /\ tick.pc = "answered"
            /\ IF tick.snap.gen >= durable.gen
               THEN /\ durable' = tick.snap
                    /\ tick' = Ticking("persisted", tick.since, tick.snap)
               ELSE tick' = Failed /\ UNCHANGED durable
            /\ UNCHANGED <<now, feeder, caller, link, phase, lastGen, live, past>>

\* The snapshot is refused, or cannot be written.
PersistFails == /\ tick.pc = "answered"
                /\ tick' = Failed
                /\ Error
                /\ UNCHANGED <<now, feeder, caller, link, phase, durable, lastGen, live>>

\* serveAppAuthoredPrograms writes the entries a snapshot has and clears nothing: a
\* screen it does not name keeps the program p that it has.
Installed(p, entry) == IF entry = NoEntry THEN p ELSE entry

\* Bug: the no-op check looks at what the pull has just persisted.
InstallsUnlessPersisted == /\ phase = "serving" /\ tick.pc = "persisted"
                           /\ tick' = NoTick
                           /\ IF tick.snap.gen > durable.gen
                              THEN live' = Installed(live, tick.snap.prog) /\ lastGen' = tick.snap.gen
                              ELSE UNCHANGED <<live, lastGen>>
                           /\ UNCHANGED <<now, feeder, caller, link, phase, durable, past>>

\* The rest of tick: a newer generation is installed.  With the hash last
\* applied, the code leaves the program alone; it is the same program.
Installs == /\ phase = "serving" /\ tick.pc = "persisted"
            /\ tick' = NoTick
            /\ IF tick.snap.gen > lastGen
               THEN live' = Installed(live, tick.snap.prog) /\ lastGen' = tick.snap.gen
               ELSE UNCHANGED <<live, lastGen>>
            /\ UNCHANGED <<now, feeder, caller, link, phase, durable, past>>

GivesUp == /\ phase = "serving" /\ tick.pc = "failed"
           /\ tick' = NoTick
           /\ UNCHANGED <<now, feeder, caller, link, phase, durable, lastGen, live, past>>

\* main dials and pulls everything before it serves.
BootDials == /\ phase = "boot" /\ tick.pc = "idle" /\ ~conn
             /\ conn' = TRUE
             /\ AsksFrom(0)
             /\ UNCHANGED <<now, feeder, wire, cell, fresh, phase, durable, lastGen, live>>

\* installPersistedServingState: the relay serves what it has persisted, the
\* handler is installed, and the supervisor adopts the connection if it is up.
Serves(g) == /\ phase' = "serving"
             /\ live' = Installed(live, durable.prog)
             /\ lastGen' = g
             /\ tick' = NoTick
             /\ fresh' = conn
             /\ UNCHANGED <<now, feeder, caller, conn, wire, cell, answering, durable, past>>

BootEnds == phase = "boot" /\ tick.pc = "persisted" /\ Serves(tick.snap.gen)

\* The dial or the pull has failed and there is something to fall back on.
BootOffline == /\ phase = "boot" /\ durable.gen > 0
               /\ tick.pc = "failed" \/ (tick.pc = "idle" /\ ~conn)
               /\ Serves(0)

\* The supervisor's redial.
Connect == /\ phase = "serving" /\ ~conn
           /\ conn' = TRUE /\ fresh' = TRUE
           /\ UNCHANGED <<now, feeder, caller, wire, cell, answering, relay, past>>

-----------------------------------------------------------------------------
(* Failures, and the clock                                                 *)

\* What is gone with the connection.
LinkDown == conn' = FALSE /\ wire' = 0 /\ cell' = FALSE /\ fresh' = FALSE /\ answering' = FALSE

\* A pull waiting for its answer fails; one that has it goes on.
TickCut == tick' = IF tick.pc = "asked" THEN Failed ELSE tick

Disconnect == /\ conn
              /\ LinkDown /\ TickCut
              /\ Loss
              /\ UNCHANGED <<now, feeder, caller, phase, durable, lastGen, live>>

\* The relay process ends, on a crash or because it has nothing to serve.
RelayExits == /\ LinkDown
              /\ phase' = "boot" /\ tick' = NoTick /\ lastGen' = 0 /\ live' = NoEntry
              /\ UNCHANGED <<now, feeder, caller, durable>>

RelayRestarts == RelayExits /\ Loss

\* The first pull of all has failed: log.Fatalf, and the service manager restarts it.
BootFatal == phase = "boot" /\ tick.pc = "failed" /\ durable.gen = 0 /\ RelayExits /\ UNCHANGED past

FeederRestarts == /\ cache' = None /\ seen' = Waiting /\ published' = None
                  /\ caller' = [c \in Callers |-> Idle]
                  /\ LinkDown /\ TickCut
                  /\ Loss
                  /\ UNCHANGED <<now, gen, override, placed, phase, durable, lastGen, live>>

Clock == /\ now < MaxTime
         /\ now' = now + 1
         /\ UNCHANGED <<feeder, caller, link, relay, past>>

-----------------------------------------------------------------------------
CurrentStep(c) == ReadsGeneration(c) \/ ReadsClock(c) \/ Locks(c) \/ Nudges(c)
LoopStep == LoopReads \/ LoopDecides
TickStep == PullAsks \/ Persists \/ Installs \/ GivesUp
BootStep == BootDials \/ BootEnds \/ BootOffline \/ BootFatal

Next == \/ \E c \in Callers : CurrentStep(c) \/ NudgeFails(c)
        \/ \E w \in Writers, o \in Expiries \cup {None}, p \in BOOLEAN : Write(w, o, p)
        \/ LoopStep
        \/ Answers \/ AnswersError
        \/ Receives
        \/ TickStep \/ PullFails \/ PersistFails
        \/ BootStep \/ Connect
        \/ Disconnect \/ RelayRestarts \/ FeederRestarts
        \/ Clock

\* Goroutines that can run do; the loop polls; the supervisor redials.
Fairness == /\ \A c \in Callers : WF_vars(CurrentStep(c))
            /\ WF_vars(LoopStep) /\ WF_vars(Answers) /\ WF_vars(Receives)
            /\ WF_vars(TickStep) /\ WF_vars(BootStep) /\ WF_vars(Connect)

Spec == Init /\ [][Next]_vars /\ Fairness

-----------------------------------------------------------------------------
(* Properties                                                              *)

Gens == 0 .. MaxGen
Overrides == Expiries \cup {None}
Programs == Overrides \cup {NoEntry}
Snaps == [gen : Gens, prog : Programs]

\* The shape of the state, and what a dead connection leaves behind: nothing.
TypeOK == /\ now \in 0 .. MaxTime /\ gen \in Gens /\ override \in Overrides /\ placed \in BOOLEAN
          /\ cache \in {None} \cup [gen : Gens, prog : Programs, until : 1 .. MaxTime + RemintInterval]
          /\ caller \in [Callers -> [pc : {"idle", "gen", "now", "lock", "done"},
                                     gen : Gens, now : 0 .. MaxTime, snap : Snaps]]
          /\ seen \in Overrides \cup {Waiting} /\ published \in Overrides
          /\ conn \in BOOLEAN /\ wire \in Nat /\ cell \in BOOLEAN
          /\ fresh \in BOOLEAN /\ answering \in BOOLEAN
          /\ ~conn => wire = 0 /\ ~cell /\ ~fresh /\ ~answering
          /\ phase \in {"boot", "serving"} /\ durable \in Snaps /\ lastGen \in Gens /\ live \in Programs
          /\ tick \in [pc : {"idle", "asked", "answered", "persisted", "failed"}, since : Gens, snap : Snaps]

\* "Safe for concurrent pulls": whoever else rebuilds the cache, and with however
\* old a clock, current() never returns a generation older than the one it was
\* asked at, nor an override that had lapsed by then.
CurrentIsFresh == \A c \in Callers : At(c, "done") =>
                    /\ caller[c].snap.gen >= caller[c].gen
                    /\ caller[c].snap.prog \in {None, NoEntry} \/ Applies(caller[c].snap.prog, caller[c].now)

\* Between two pulls a relay serves what it would serve after a power cut: what it
\* has persisted.  But "this re-install is purely additive" and "a screen DROPPED
\* from the new generation's screen_programs ... keeps serving its last one, live,
\* indefinitely" (scheduleDriver.apply, which calls it a known gap): when the
\* persisted snapshot leaves the screen out, only a relay that has applied nothing
\* since its start serves the terminal default for certain.
ServesWhatItPersisted == phase = "serving" /\ tick.pc = "idle" =>
                           \/ live = durable.prog
                           \/ durable.prog = NoEntry /\ lastGen > 0

\* "The whole guard against a nudge storm": the loop advances the generation at
\* most once for an override that was written or found at a start.
NoNudgeStorm == gen - 1 - past.writes <= past.writes + past.faults + 1

\* What the relay has persisted is the current generation, and it names the screen if
\* and only if the screen has a place; then the relay serves it, as the row's override
\* if that still applies.
Converged == /\ phase = "serving" /\ lastGen = gen /\ durable.gen = gen
             /\ durable.prog = NoEntry <=> ~placed
             /\ placed => /\ live = durable.prog /\ live \in {override, None}
                          /\ Applies(override, now) => live = override

\* "Nudges are best-effort by contract; the relay's next pull recovers a lost one"
\* (NotifyGenerationAdvance): however writes, nudges, pulls, lost connections and
\* restarts interleave, the relay ends up at the current generation, unless a
\* call failed on a live connection and no pull has been asked since.
Convergence == <>[](past.missed \/ Converged)

\* Nothing is under way between the feeder and a connected relay.
Settled == /\ \A c \in Callers : At(c, "idle")
           /\ seen = Waiting /\ wire = 0 /\ ~cell /\ ~fresh
           /\ conn /\ phase = "serving" /\ tick.pc = "idle"

\* Once a lapse is published, "each re-pulls, the app peer re-derives, and the
\* screen gets a schedule-resolved program at a strictly newer generation"
\* (overrideexpiry.go): a settled relay no longer shows the override on a screen that
\* has a place.
LapseReachesScreen ==
    Settled /\ placed /\ published # None /\ published = override => live # published
=============================================================================
