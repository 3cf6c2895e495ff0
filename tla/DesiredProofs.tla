--------------------------- MODULE DesiredProofs ---------------------------
(***************************************************************************)
(* What holds of DesiredState for every set of writers, every re-mint      *)
(* interval and any number of writes, restarts and failures: current() is  *)
(* fresh, an idle relay serves what it has persisted, and the expiry loop  *)
(* does not advance the generation more often than there is cause.         *)
(***************************************************************************)
EXTENDS DesiredState, TLAPS

USE DesiredAssumption DEF Overrides, Gens, Snaps

(***************************************************************************)
(* What the cache promises: it is no newer than the store, and its window  *)
(* closes before its override lapses.  A caller has read no generation     *)
(* that the store has not reached.                                         *)
(***************************************************************************)
CacheSound ==
    cache # None => /\ cache.gen <= gen
                    /\ cache.prog \notin {None, NoEntry} => cache.until <= cache.prog

CallersBehind == \A c \in Callers : caller[c].pc # "idle" => caller[c].gen <= gen

FreshInv == CacheSound /\ CallersBehind /\ CurrentIsFresh

(***************************************************************************)
(* What a relay knows of its pull: the answer belongs to the pull under    *)
(* way, it is never the generation asked about, and only between the write *)
(* of a row and the end of the tick does the relay serve anything else,    *)
(* unless the row leaves the screen out.                                   *)
(***************************************************************************)
AnswerAwaited == answering => tick.pc = "asked"

InstalledIsPersisted == lastGen <= durable.gen

PersistedIsDurable == tick.pc = "persisted" => tick.snap = durable

PullMatches ==
    phase = "serving" =>
        /\ tick.pc \in {"asked", "answered", "persisted"} => tick.since = lastGen
        /\ tick.pc \in {"answered", "persisted"} => tick.snap.gen # tick.since

ServesDurable ==
    phase = "serving" /\ tick.pc # "persisted" =>
        live = durable.prog \/ (durable.prog = NoEntry /\ lastGen > 0)

\* A relay that does not serve yet has no program to keep.
BootIsEmpty == phase = "boot" => live = NoEntry

ServeInv == /\ AnswerAwaited /\ InstalledIsPersisted /\ PersistedIsDurable
            /\ PullMatches /\ ServesDurable /\ BootIsEmpty

(***************************************************************************)
(* What the expiry loop may still announce: the override it holds, if that *)
(* is not published, and the row's, if the loop will find it other than    *)
(* what it will have published by then.  A published lapse is in the past, *)
(* so one that is not due cannot be it.                                    *)
(***************************************************************************)
Counts == past \in [writes : Nat, faults : Nat, missed : BOOLEAN]

OwesHeld == seen \notin {Waiting, None, published}
OwesRow == override # None /\ override # IF seen = Waiting THEN published ELSE seen
Owed == (IF OwesHeld THEN 1 ELSE 0) + (IF OwesRow THEN 1 ELSE 0)

PublishedIsPast == published # None => published <= now

AdvancesArePaid == gen - 1 - past.writes + Owed <= past.writes + past.faults + 1

PaidInv == Counts /\ PublishedIsPast /\ AdvancesArePaid

-----------------------------------------------------------------------------
(* Type correctness                                                        *)

\* A program is an override, none, or no entry at all.
LEMMA ProgramType ==
    ASSUME NEW o \in Overrides, NEW p \in BOOLEAN, NEW t \in Nat
    PROVE  Program(o, p, t) \in Programs
  BY DEF Program, Programs, Applies

\* The cache's window is at least one tick and at most a re-mint long, and it
\* never outlasts the override the snapshot shows.
LEMMA WindowBounds ==
    ASSUME NEW o \in Overrides, NEW p \in BOOLEAN, NEW t \in 0 .. MaxTime
    PROVE  /\ CacheWindowEnd(o, t) \in 1 .. MaxTime + RemintInterval
           /\ Program(o, p, t) \notin {None, NoEntry} =>
                CacheWindowEnd(o, t) <= Program(o, p, t)
  <1>1. CASE Applies(o, t)
    <2>1. o \in Nat /\ o > t BY <1>1 DEF Applies
    <2>. QED BY <1>1, <2>1 DEF CacheWindowEnd, Program
  <1>2. CASE ~Applies(o, t) BY <1>2 DEF CacheWindowEnd, Program
  <1>. QED BY <1>1, <1>2

Places == [pc : {"idle", "gen", "now", "lock", "done"}, gen : Gens, now : 0 .. MaxTime, snap : Snaps]
Ticks == [pc : {"idle", "asked", "answered", "persisted", "failed"}, since : Gens, snap : Snaps]

\* The constant records have their types.
LEMMA Shapes ==
    /\ Idle \in Places /\ Entered \in Places
    /\ NoEntry \in Programs /\ Empty \in Snaps /\ NoTick \in Ticks /\ Failed \in Ticks
    /\ "handler" \in Callers /\ "loop" \in Callers /\ Writers \subseteq Callers
    /\ \A t \in Gens : Ticking("asked", t, Empty) \in Ticks
    /\ \A t \in Gens, s \in Snaps : Ticking("answered", t, s) \in Ticks
                                    /\ Ticking("persisted", t, s) \in Ticks
  BY DEF Programs, Ticks, Places, Caller, Idle, Entered, Empty, Snap, NoTick, Failed, Ticking, Callers

\* Only the pull, the connection and the handler move when a pull is cut off.
LEMMA CutType == ASSUME tick \in Ticks, TickCut PROVE tick' \in Ticks
  BY Shapes DEF TickCut

\* The shape of the state is kept by every step.
LEMMA TypeInductive == TypeOK /\ [Next]_vars => TypeOK'
  <1>. SUFFICES ASSUME TypeOK, [Next]_vars PROVE TypeOK'
    OBVIOUS
  <1>. USE DEF TypeOK
  <1>p. NoEntry \in Programs BY DEF Programs
  <1>. USE <1>p
  <1>a. tick \in Ticks BY DEF Ticks
  <1>b. caller \in [Callers -> Places] BY DEF Places
  <1>1. ASSUME NEW c \in Callers, ReadsGeneration(c) PROVE TypeOK'
    BY <1>1 DEF ReadsGeneration, Goes, Caller, Empty, Snap, feeder, link, relay
  <1>2. ASSUME NEW c \in Callers, ReadsClock(c) PROVE TypeOK'
    BY <1>2 DEF ReadsClock, Goes, Caller, Empty, Snap, feeder, link, relay
  <1>3. ASSUME NEW c \in Callers, Locks(c) PROVE TypeOK'
    <2>1. caller[c].now \in 0 .. MaxTime /\ caller[c].gen \in Gens OBVIOUS
    <2>2. Program(override, placed, caller[c].now) \in Programs BY <2>1, ProgramType
    <2>3. CacheWindowEnd(override, caller[c].now) \in 1 .. MaxTime + RemintInterval
      BY <2>1, WindowBounds
    <2>4. CASE Hit(c)
      <3>1. cache.gen \in Gens /\ cache.prog \in Programs BY <2>4 DEF Hit
      <3>. QED BY <1>3, <2>1, <2>4, <3>1 DEF Locks, Goes, Caller, Snap, link, relay
    <2>5. CASE ~Hit(c)
      BY <1>3, <2>1, <2>2, <2>3, <2>5 DEF Locks, Goes, Caller, Snap, link, relay
    <2>. QED BY <2>4, <2>5
  <1>4. ASSUME NEW c \in Callers, Nudges(c) PROVE TypeOK'
    BY <1>4 DEF Nudges, Goes, Idle, Caller, Empty, Snap, feeder, relay
  <1>5. ASSUME NEW c \in Callers, NudgeFails(c) PROVE TypeOK'
    BY <1>5 DEF NudgeFails, Goes, Idle, Caller, Empty, Snap, feeder, link, relay
  <1>6. ASSUME NEW w \in Writers, NEW o \in Overrides, NEW p \in BOOLEAN, Write(w, o, p) PROVE TypeOK'
    BY <1>6 DEF Write, Goes, Entered, Caller, Empty, Snap, Callers, link, relay
  <1>7. CASE LoopReads
    BY <1>7 DEF LoopReads, link, relay
  <1>8. CASE LoopDecides
    <2>1. Lapsed \in Overrides BY <1>8 DEF LoopDecides, Lapsed
    <2>. QED BY <1>8, <2>1 DEF LoopDecides, Announces, Goes, Entered, Caller, Empty, Snap, Callers, link, relay
  <1>9. CASE Answers
    <2>1. caller["handler"].snap \in Snaps /\ tick.since \in Gens BY Shapes
    <2>2. tick' \in Ticks BY <1>9, <1>a, <2>1, Shapes DEF Answers
    <2>3. caller' \in [Callers -> Places] BY <1>9, <1>b, Shapes DEF Answers, Goes
    <2>. QED BY <1>9, <2>2, <2>3 DEF Answers, Places, Ticks, feeder
  <1>10. CASE AnswersError
    <2>1. tick' \in Ticks BY <1>10, <1>a, Shapes DEF AnswersError
    <2>2. caller' \in [Callers -> Places] BY <1>10, <1>b, Shapes DEF AnswersError, Goes
    <2>. QED BY <1>10, <2>1, <2>2 DEF AnswersError, Places, Ticks, feeder
  <1>11. CASE Receives
    BY <1>11 DEF Receives, feeder, relay
  <1>12. CASE PullAsks
    <2>1. tick' \in Ticks BY <1>12, Shapes DEF PullAsks, AsksFrom
    <2>2. caller' \in [Callers -> Places] BY <1>12, <1>b, Shapes DEF PullAsks, AsksFrom, Goes
    <2>. QED BY <1>12, <2>1, <2>2 DEF PullAsks, AsksFrom, Places, Ticks, feeder
  <1>13. CASE PullFails
    <2>1. tick' \in Ticks BY <1>13, Shapes DEF PullFails
    <2>. QED BY <1>13, <2>1 DEF PullFails, Ticks, feeder
  <1>14. CASE Persists
    <2>1. tick' \in Ticks /\ durable' \in Snaps BY <1>14, Shapes DEF Persists
    <2>. QED BY <1>14, <2>1 DEF Persists, Ticks, feeder, link
  <1>15. CASE PersistFails
    <2>1. tick' \in Ticks BY <1>15, Shapes DEF PersistFails
    <2>. QED BY <1>15, <2>1 DEF PersistFails, Ticks, feeder, link
  <1>16. CASE Installs
    <2>1. tick' \in Ticks BY <1>16, Shapes DEF Installs
    <2>. QED BY <1>16, <2>1 DEF Installs, Installed, Ticks, feeder, link
  <1>17. CASE GivesUp
    <2>1. tick' \in Ticks BY <1>17, Shapes DEF GivesUp
    <2>. QED BY <1>17, <2>1 DEF GivesUp, Ticks, feeder, link
  <1>18. CASE BootDials
    <2>1. tick' \in Ticks BY <1>18, Shapes DEF BootDials, AsksFrom
    <2>. QED BY <1>18, <2>1 DEF BootDials, AsksFrom, Goes, Entered, Caller, Empty, Snap, Ticks, Callers, feeder
  <1>19. CASE BootEnds
    <2>1. tick' \in Ticks BY <1>19, Shapes DEF BootEnds, Serves
    <2>. QED BY <1>19, <2>1 DEF BootEnds, Serves, Installed, Ticks, feeder
  <1>20. CASE BootOffline
    <2>1. tick' \in Ticks BY <1>20, Shapes DEF BootOffline, Serves
    <2>. QED BY <1>20, <2>1 DEF BootOffline, Serves, Installed, Ticks, feeder
  <1>21. ASSUME RelayExits PROVE TypeOK'
    <2>1. tick' \in Ticks BY <1>21, Shapes DEF RelayExits
    <2>2. /\ conn' = FALSE /\ wire' = 0 /\ cell' = FALSE /\ fresh' = FALSE /\ answering' = FALSE
          /\ phase' = "boot" /\ lastGen' \in Gens /\ live' \in Programs
      BY <1>21 DEF RelayExits, LinkDown
    <2>3. UNCHANGED <<now, gen, override, placed, cache, seen, published, caller, durable>>
      BY <1>21 DEF RelayExits, feeder
    <2>4. /\ conn' \in BOOLEAN /\ wire' \in Nat /\ cell' \in BOOLEAN
          /\ fresh' \in BOOLEAN /\ answering' \in BOOLEAN
          /\ ~conn' => wire' = 0 /\ ~cell' /\ ~fresh' /\ ~answering'
      BY <2>2
    <2>. QED BY <2>1, <2>2, <2>3, <2>4 DEF Ticks
  <1>22. CASE Connect
    BY <1>22 DEF Connect, feeder, relay
  <1>23. CASE Disconnect
    <2>1. tick' \in Ticks BY <1>23, <1>a, CutType DEF Disconnect
    <2>. QED BY <1>23, <2>1 DEF Disconnect, LinkDown, Ticks, feeder
  <1>24. CASE FeederRestarts
    <2>1. tick' \in Ticks BY <1>24, <1>a, CutType DEF FeederRestarts
    <2>2. caller' \in [Callers -> Places] BY <1>24, Shapes DEF FeederRestarts
    <2>. QED BY <1>24, <2>1, <2>2 DEF FeederRestarts, LinkDown, Places, Ticks
  <1>25. CASE Clock
    BY <1>25 DEF Clock, feeder, link, relay
  <1>26. CASE UNCHANGED vars
    BY <1>26 DEF vars, feeder, link, relay
  <1>. QED
    BY <1>1, <1>2, <1>3, <1>4, <1>5, <1>6, <1>7, <1>8, <1>9, <1>10, <1>11, <1>12, <1>13, <1>14,
       <1>15, <1>16, <1>17, <1>18, <1>19, <1>20, <1>21, <1>22, <1>23, <1>24, <1>25, <1>26
       DEF Next, CurrentStep, LoopStep, TickStep, BootStep, BootFatal, RelayRestarts

-----------------------------------------------------------------------------
(* current() is fresh                                                      *)

\* A step that touches neither the store, nor the cache, nor a caller except
\* by sending one back to the start of current() or out of it.
LEMMA FreshKept ==
    ASSUME TypeOK, FreshInv, UNCHANGED cache, gen' \in Nat, gen <= gen',
           \A c \in Callers : caller'[c] \in {caller[c], Idle, Entered}
    PROVE  FreshInv'
  <1>1. CacheSound' BY DEF TypeOK, FreshInv, CacheSound
  <1>2. CallersBehind'
    <2>1. SUFFICES ASSUME NEW c \in Callers, caller'[c].pc # "idle"
                   PROVE  caller'[c].gen <= gen'
      BY DEF CallersBehind
    <2>2. CASE caller'[c] = caller[c] BY <2>1, <2>2 DEF TypeOK, FreshInv, CallersBehind
    <2>3. CASE caller'[c] \in {Idle, Entered} BY <2>3 DEF Idle, Entered, Caller
    <2>. QED BY <2>2, <2>3
  <1>3. CurrentIsFresh'
    BY DEF FreshInv, CurrentIsFresh, At, Applies, Idle, Entered, Caller
  <1>. QED BY <1>1, <1>2, <1>3 DEF FreshInv

\* Whatever a step does to the clocks and the cache, current() stays fresh.
LEMMA FreshInductive == TypeOK /\ FreshInv /\ [Next]_vars => FreshInv'
  <1>. SUFFICES ASSUME TypeOK, FreshInv, [Next]_vars PROVE FreshInv'
    OBVIOUS
  <1>a. gen \in Nat /\ caller \in [Callers -> Places] BY DEF TypeOK, Places
  <1>1. ASSUME NEW c \in Callers, ReadsGeneration(c) PROVE FreshInv'
    <2>1. caller' = [caller EXCEPT ![c] = Caller("now", gen, 0, Empty)]
          /\ UNCHANGED <<gen, cache>>
      BY <1>1 DEF ReadsGeneration, Goes, feeder
    <2>. QED BY <1>a, <2>1 DEF FreshInv, CacheSound, CallersBehind, CurrentIsFresh, At, Applies, Caller, Places
  <1>2. ASSUME NEW c \in Callers, ReadsClock(c) PROVE FreshInv'
    <2>1. /\ caller' = [caller EXCEPT ![c] = Caller("lock", caller[c].gen, now, Empty)]
          /\ caller[c].pc # "idle"
          /\ UNCHANGED <<gen, cache>>
      BY <1>2 DEF ReadsClock, Goes, At, feeder
    <2>. QED BY <1>a, <2>1 DEF FreshInv, CacheSound, CallersBehind, CurrentIsFresh, At, Applies, Caller, Places
  <1>3. ASSUME NEW c \in Callers, Locks(c) PROVE FreshInv'
    <2>. DEFINE n == caller[c].now
                s == caller'[c].snap
    <2>1. n \in 0 .. MaxTime /\ caller[c].gen \in Nat /\ caller[c].gen <= gen
      BY <1>3, <1>a DEF Locks, At, FreshInv, CallersBehind, Places
    <2>2. /\ caller' = [caller EXCEPT ![c] = Caller("done", caller[c].gen, n, s)]
          /\ CacheSound'
          /\ s.gen >= caller[c].gen
          /\ s.prog \in {None, NoEntry} \/ Applies(s.prog, n)
      <3>1. CASE Hit(c)
        <4>1. /\ caller' = [caller EXCEPT ![c] = Caller("done", caller[c].gen, n, Snap(cache.gen, cache.prog))]
              /\ UNCHANGED <<gen, cache>>
          BY <1>3, <3>1 DEF Locks, Goes
        <4>2. s = Snap(cache.gen, cache.prog) BY <1>a, <4>1 DEF Caller
        <4>3. cache.gen = caller[c].gen /\ n < cache.until
              /\ cache.prog \in Programs /\ cache.until \in Nat
          BY <3>1 DEF Hit, TypeOK
        <4>4. cache.prog \notin {None, NoEntry} => cache.until <= cache.prog
          BY <3>1 DEF Hit, FreshInv, CacheSound
        <4>5. s.gen >= caller[c].gen BY <2>1, <4>2, <4>3 DEF Snap
        <4>6. s.prog \in {None, NoEntry} \/ Applies(s.prog, n)
          <5>1. s.prog = cache.prog BY <4>2 DEF Snap
          <5>2. CASE cache.prog \notin {None, NoEntry}
            <6>1. cache.prog \in Nat BY <4>3, <5>2 DEF Programs
            <6>2. cache.prog > n BY <2>1, <4>3, <4>4, <5>2, <6>1
            <6>. QED BY <5>1, <5>2, <6>2 DEF Applies
          <5>. QED BY <5>1, <5>2
        <4>. QED BY <4>1, <4>2, <4>5, <4>6 DEF FreshInv, CacheSound
      <3>2. CASE ~Hit(c)
        <4>1. /\ caller' = [caller EXCEPT ![c] = Caller("done", caller[c].gen, n, Snap(gen, Program(override, placed, n)))]
              /\ cache' = [gen |-> gen, prog |-> Program(override, placed, n),
                           until |-> CacheWindowEnd(override, n)]
              /\ gen' = gen
          BY <1>3, <3>2 DEF Locks, Goes, Snap
        <4>2. s = Snap(gen, Program(override, placed, n)) BY <1>a, <4>1 DEF Caller
        <4>3. override \in Overrides /\ placed \in BOOLEAN BY DEF TypeOK
        <4>4. CacheSound' BY <1>a, <2>1, <4>1, <4>3, WindowBounds DEF CacheSound
        <4>5. s.gen >= caller[c].gen BY <1>a, <2>1, <4>2 DEF Snap
        <4>6. s.prog \in {None, NoEntry} \/ Applies(s.prog, n) BY <4>2 DEF Snap, Program
        <4>. QED BY <4>1, <4>2, <4>4, <4>5, <4>6
      <3>. QED BY <3>1, <3>2
    <2>3. gen' = gen BY <1>3 DEF Locks
    <2>4. CallersBehind'
      BY <1>a, <2>1, <2>2, <2>3 DEF FreshInv, CallersBehind, Caller, Places
    <2>5. CurrentIsFresh'
      <3>1. SUFFICES ASSUME NEW d \in Callers, At(d, "done")'
                     PROVE  /\ caller'[d].snap.gen >= caller'[d].gen
                            /\ \/ caller'[d].snap.prog \in {None, NoEntry}
                               \/ Applies(caller'[d].snap.prog, caller'[d].now)
        BY DEF CurrentIsFresh, Applies
      <3>2. CASE d = c BY <1>a, <2>2, <3>2 DEF Caller
      <3>3. CASE d # c
        <4>1. caller'[d] = caller[d] BY <1>a, <2>2, <3>3
        <4>. QED BY <3>1, <4>1 DEF FreshInv, CurrentIsFresh, At
      <3>. QED BY <3>2, <3>3
    <2>. QED BY <2>2, <2>4, <2>5 DEF FreshInv
  <1>4. ASSUME NEW c \in Callers, Nudges(c) \/ NudgeFails(c) PROVE FreshInv'
    BY <1>4, <1>a, FreshKept DEF Nudges, NudgeFails, Goes, feeder, Places
  <1>5. ASSUME NEW w \in Writers, NEW o \in Overrides, NEW p \in BOOLEAN, Write(w, o, p) PROVE FreshInv'
    BY <1>5, <1>a, FreshKept DEF Write, Goes, Places
  <1>6. CASE LoopStep
    BY <1>6, <1>a, FreshKept DEF LoopStep, LoopReads, LoopDecides, Announces, Goes, Places
  <1>7. CASE Answers \/ AnswersError
    BY <1>7, <1>a, FreshKept DEF Answers, AnswersError, Goes, feeder, Places
  <1>8. CASE PullAsks \/ BootDials
    BY <1>8, <1>a, FreshKept DEF PullAsks, BootDials, AsksFrom, Goes, feeder, Places
  <1>9. ASSUME UNCHANGED <<gen, cache, caller>> PROVE FreshInv'
    BY <1>9, <1>a, FreshKept
  <1>10. CASE FeederRestarts
    <2>1. cache' = None /\ gen' = gen /\ \A c \in Callers : caller'[c] = Idle
      BY <1>10 DEF FeederRestarts
    <2>. QED BY <2>1 DEF FreshInv, CacheSound, CallersBehind, CurrentIsFresh, At, Idle, Caller
  <1>. QED
    BY <1>1, <1>2, <1>3, <1>4, <1>5, <1>6, <1>7, <1>8, <1>9, <1>10
       DEF Next, CurrentStep, TickStep, BootStep, Receives, PullFails, Persists, PersistFails, Installs,
           GivesUp, BootEnds, BootOffline, Serves, BootFatal, RelayExits, Connect, Disconnect,
           RelayRestarts, Clock, vars, feeder

-----------------------------------------------------------------------------
(* An idle relay serves what it has persisted                              *)

\* The relay's rows, its program and its pull are as they were.
LEMMA ServeKept ==
    ServeInv /\ UNCHANGED <<answering, relay>> => ServeInv'
  BY DEF ServeInv, AnswerAwaited, InstalledIsPersisted, PersistedIsDurable, PullMatches,
         ServesDurable, BootIsEmpty, relay

\* A step from anywhere back to where the pull is over, cut off or failed.
LEMMA ServeCut ==
    ASSUME TypeOK, ServeInv, ~answering' \/ UNCHANGED answering,
           UNCHANGED <<phase, durable, lastGen, live>>,
           \/ UNCHANGED tick /\ ~answering'
           \/ tick.pc # "persisted" /\ tick' \in {Failed, NoTick} /\ ~answering'
           \/ tick.pc = "failed" /\ tick' = NoTick
    PROVE  ServeInv'
  BY DEF ServeInv, AnswerAwaited, InstalledIsPersisted, PersistedIsDurable, PullMatches,
         ServesDurable, BootIsEmpty, Failed, NoTick, Ticking

\* The pull's write, its installation, and everything that can come between.
LEMMA ServeInductive == TypeOK /\ ServeInv /\ [Next]_vars => ServeInv'
  <1>. SUFFICES ASSUME TypeOK, ServeInv, [Next]_vars PROVE ServeInv'
    OBVIOUS
  <1>. USE DEF AnswerAwaited, InstalledIsPersisted, PersistedIsDurable, PullMatches, ServesDurable,
              BootIsEmpty
  <1>a. /\ lastGen \in Nat /\ durable.gen \in Nat /\ tick.snap.gen \in Nat
        /\ tick \in Ticks
    BY DEF TypeOK, Ticks
  <1>1. CASE UNCHANGED <<answering, relay>> BY <1>1, ServeKept
  <1>2. CASE Answers
    <2>. DEFINE s == caller["handler"].snap
    <2>1. /\ ~answering' /\ UNCHANGED <<phase, durable, lastGen, live>>
          /\ tick' = IF ~answering THEN tick
                     ELSE IF tick.since = s.gen THEN NoTick ELSE Ticking("answered", tick.since, s)
      BY <1>2 DEF Answers
    <2>2. CASE ~answering \/ tick.since = s.gen
      BY <2>1, <2>2, ServeCut DEF ServeInv
    <2>3. CASE answering /\ tick.since # s.gen
      BY <2>1, <2>3 DEF ServeInv, Ticking
    <2>. QED BY <2>2, <2>3
  <1>3. CASE AnswersError
    BY <1>3, ServeCut DEF AnswersError, ServeInv
  <1>4. CASE PullAsks
    <2>1. /\ phase = "serving" /\ tick.pc = "idle"
          /\ tick' = Ticking("asked", lastGen, Empty)
          /\ UNCHANGED <<phase, durable, lastGen, live>>
      BY <1>4 DEF PullAsks, AsksFrom
    <2>. QED BY <2>1 DEF ServeInv, Ticking
  <1>5. CASE PullFails
    BY <1>5, ServeCut DEF PullFails
  <1>6. CASE Persists
    <2>1. /\ tick.pc = "answered" /\ ~answering
          /\ UNCHANGED <<answering, phase, lastGen, live>>
      BY <1>6 DEF Persists, ServeInv, link
    <2>2. CASE tick.snap.gen >= durable.gen
      <3>1. durable' = tick.snap /\ tick' = Ticking("persisted", tick.since, tick.snap)
        BY <1>6, <2>2 DEF Persists
      <3>. QED BY <1>a, <2>1, <2>2, <3>1 DEF ServeInv, Ticking
    <2>3. CASE ~(tick.snap.gen >= durable.gen)
      <3>1. tick' = Failed /\ durable' = durable BY <1>6, <2>3 DEF Persists
      <3>. QED BY <2>1, <3>1, ServeCut
    <2>. QED BY <2>2, <2>3
  <1>7. CASE PersistFails
    BY <1>7, ServeCut DEF PersistFails, ServeInv, link
  <1>8. CASE Installs
    <2>1. /\ phase = "serving" /\ tick.pc = "persisted" /\ tick' = NoTick
          /\ UNCHANGED <<answering, phase, durable>> /\ ~answering
      BY <1>8 DEF Installs, ServeInv, link
    <2>2. tick.snap = durable /\ tick.snap.gen > lastGen
      BY <1>a, <2>1 DEF ServeInv
    <2>3. live' = Installed(live, durable.prog) /\ lastGen' = durable.gen
      BY <1>8, <2>2 DEF Installs
    <2>4. lastGen' > 0
      BY <1>a, <2>2, <2>3
    <2>. QED BY <1>a, <2>1, <2>3, <2>4 DEF ServeInv, NoTick, Ticking, Installed
  <1>9. CASE GivesUp
    BY <1>9, ServeCut DEF GivesUp, ServeInv, link
  <1>10. CASE BootDials
    <2>1. /\ phase = "boot" /\ tick' = Ticking("asked", 0, Empty)
          /\ UNCHANGED <<phase, durable, lastGen, live>>
      BY <1>10 DEF BootDials, AsksFrom
    <2>. QED BY <2>1 DEF ServeInv, Ticking
  <1>11. ASSUME NEW g \in Nat, g <= durable.gen, phase = "boot", tick.pc # "asked", Serves(g) PROVE ServeInv'
    <2>1. /\ phase' = "serving" /\ live' = durable.prog /\ lastGen' = g /\ tick' = NoTick
          /\ UNCHANGED <<answering, durable>>
      BY <1>11 DEF Serves, ServeInv, Installed
    <2>2. ~answering' BY <1>11, <2>1 DEF ServeInv
    <2>. QED BY <1>11, <2>1, <2>2 DEF ServeInv, NoTick, Ticking
  <1>12. CASE BootEnds
    <2>1. tick.snap.gen = durable.gen /\ tick.pc = "persisted" BY <1>12 DEF BootEnds, ServeInv
    <2>. QED BY <1>a, <1>11, <1>12, <2>1 DEF BootEnds
  <1>13. CASE BootOffline
    BY <1>a, <1>11, <1>13 DEF BootOffline
  <1>14. ASSUME RelayExits PROVE ServeInv'
    <2>1. /\ phase' = "boot" /\ tick' = NoTick /\ lastGen' = 0 /\ live' = NoEntry
          /\ UNCHANGED durable /\ ~answering'
      BY <1>14 DEF RelayExits, LinkDown
    <2>. QED BY <1>a, <2>1 DEF ServeInv, NoTick, Ticking
  <1>15. CASE Disconnect \/ FeederRestarts
    <2>1. /\ ~answering' /\ tick' = IF tick.pc = "asked" THEN Failed ELSE tick
          /\ UNCHANGED <<phase, durable, lastGen, live>>
      BY <1>15 DEF Disconnect, FeederRestarts, LinkDown, TickCut
    <2>. QED BY <2>1, ServeCut
  <1>. QED
    BY <1>1, <1>2, <1>3, <1>4, <1>5, <1>6, <1>7, <1>8, <1>9, <1>10, <1>12, <1>13, <1>14, <1>15
       DEF Next, CurrentStep, LoopStep, TickStep, BootStep, ReadsGeneration, ReadsClock, Locks, Nudges,
           NudgeFails, Write, LoopReads, LoopDecides, Receives, Connect, BootFatal, RelayRestarts, Clock,
           vars, link

-----------------------------------------------------------------------------
(* The loop announces a lapse once                                         *)

\* Nothing is announced, and only the clock and the ghost may move.
LEMMA PaidKept ==
    ASSUME TypeOK, PaidInv, UNCHANGED <<gen, override, seen, published>>,
           now' \in Nat, now <= now', Counts', past'.writes = past.writes, past.faults <= past'.faults
    PROVE  PaidInv'
  <1>1. /\ now \in Nat /\ gen \in Nat /\ published \in Overrides
        /\ past.writes \in Nat /\ past.faults \in Nat /\ past'.faults \in Nat
    BY DEF TypeOK, PaidInv, Counts
  <1>2. Owed' = Owed /\ Owed \in 0 .. 2
    BY DEF Owed, OwesHeld, OwesRow
  <1>. QED BY <1>1, <1>2 DEF PaidInv, PublishedIsPast, AdvancesArePaid

\* A loss or an error adds to the faults.
LEMMA FaultCounts ==
    ASSUME Counts, Loss \/ Error
    PROVE  Counts' /\ past'.writes = past.writes /\ past'.faults = past.faults + 1
  <1>1. past = [writes |-> past.writes, faults |-> past.faults, missed |-> past.missed]
    BY DEF Counts
  <1>2. \E m \in BOOLEAN : past' = [writes |-> past.writes, faults |-> past.faults + 1, missed |-> m]
    BY <1>1 DEF Counts, Loss, Error
  <1>. QED BY <1>2 DEF Counts

\* Every advance is paid for by a write, by a fault, or by the first override.
LEMMA PaidInductive == TypeOK /\ PaidInv /\ [Next]_vars => PaidInv'
  <1>. SUFFICES ASSUME TypeOK, PaidInv, [Next]_vars PROVE PaidInv'
    OBVIOUS
  <1>. USE DEF PaidInv, PublishedIsPast, AdvancesArePaid, Owed, OwesHeld, OwesRow
  <1>a. /\ now \in Nat /\ gen \in Nat /\ override \in Overrides
        /\ seen \in Overrides \cup {Waiting} /\ published \in Overrides
        /\ past.writes \in Nat /\ past.faults \in Nat
    BY DEF TypeOK, Counts
  <1>1. ASSUME UNCHANGED <<now, gen, override, seen, published>>,
               \/ UNCHANGED past
               \/ past' = [past EXCEPT !.missed = FALSE]
               \/ Loss \/ Error
        PROVE  PaidInv'
    <2>1. Counts' /\ past'.writes = past.writes /\ past.faults <= past'.faults
      <3>1. CASE UNCHANGED past \/ Loss \/ Error BY <1>a, <3>1, FaultCounts DEF Counts
      <3>2. CASE past' = [past EXCEPT !.missed = FALSE]
        <4>1. past' = [writes |-> past.writes, faults |-> past.faults, missed |-> FALSE]
          BY <3>2 DEF Counts
        <4>. QED BY <1>a, <4>1 DEF Counts
      <3>. QED BY <1>1, <3>1, <3>2
    <2>. QED BY <1>1, <1>a, <2>1, PaidKept
  <1>2. ASSUME NEW w \in Writers, NEW o \in Overrides, NEW p \in BOOLEAN, Write(w, o, p) PROVE PaidInv'
    <2>1. /\ gen' = gen + 1 /\ override' = o /\ UNCHANGED <<now, seen, published>>
          /\ past' = [past EXCEPT !.writes = @ + 1]
      BY <1>2 DEF Write
    <2>2. Counts' /\ past'.writes = past.writes + 1 /\ past'.faults = past.faults
      BY <1>a, <2>1 DEF Counts
    <2>3. Owed' <= Owed + 1
      BY <2>1
    <2>. QED BY <1>a, <2>1, <2>2, <2>3
  <1>3. CASE LoopReads
    <2>1. /\ seen = Waiting /\ seen' = override
          /\ UNCHANGED <<now, gen, override, published, past>>
      BY <1>3 DEF LoopReads
    <2>2. Owed' = Owed
      BY <1>a, <2>1
    <2>. QED BY <1>a, <2>1, <2>2 DEF Counts
  <1>4. CASE LoopDecides
    <2>1. /\ seen # Waiting /\ published' = Lapsed /\ seen' = Waiting
          /\ UNCHANGED <<now, override>>
      BY <1>4 DEF LoopDecides
    <2>2. CASE Lapsed # None /\ Lapsed # published
      <3>1. Lapsed = seen /\ seen # None /\ seen <= now
        BY <2>2 DEF Lapsed
      <3>2. Owed' = Owed - 1
        BY <1>a, <2>1, <2>2, <3>1
      <3>3. CASE Announces
        BY <1>a, <2>1, <3>1, <3>2, <3>3 DEF Announces, Counts
      <3>4. CASE Error /\ gen' = gen
        <4>1. Counts' /\ past'.writes = past.writes /\ past'.faults = past.faults + 1
          BY <3>4, FaultCounts
        <4>. QED BY <1>a, <2>1, <3>1, <3>2, <3>4, <4>1
      <3>. QED BY <1>4, <2>2, <3>3, <3>4 DEF LoopDecides
    <2>3. CASE ~(Lapsed # None /\ Lapsed # published)
      <3>1. UNCHANGED <<gen, past>>
        BY <1>4, <2>3 DEF LoopDecides
      <3>2. Owed' <= Owed
        <4>1. CASE Lapsed = None
          <5>1. seen = None \/ (seen \in Nat /\ seen > now)
            BY <1>a, <2>1, <4>1 DEF Lapsed
          <5>2. seen # None => seen # published
            BY <1>a, <5>1
          <5>. QED BY <1>a, <2>1, <4>1, <5>1, <5>2
        <4>2. CASE Lapsed = published /\ Lapsed # None
          <5>1. Lapsed = seen
            BY <4>2 DEF Lapsed
          <5>. QED BY <1>a, <2>1, <4>2, <5>1
        <4>. QED BY <2>3, <4>1, <4>2
      <3>3. published' # None => published' <= now
        BY <2>1 DEF Lapsed
      <3>. QED BY <1>a, <2>1, <3>1, <3>2, <3>3 DEF Counts
    <2>. QED BY <2>2, <2>3
  <1>5. CASE FeederRestarts
    <2>1. /\ seen' = Waiting /\ published' = None /\ UNCHANGED <<now, gen, override>>
          /\ Loss
      BY <1>5 DEF FeederRestarts
    <2>2. Counts' /\ past'.writes = past.writes /\ past'.faults = past.faults + 1
      BY <2>1, FaultCounts
    <2>3. Owed' <= Owed + 1
      BY <1>a, <2>1
    <2>. QED BY <1>a, <2>1, <2>2, <2>3
  <1>6. CASE Clock
    <2>1. now' = now + 1 /\ UNCHANGED <<gen, override, seen, published, past>>
      BY <1>6 DEF Clock, feeder
    <2>. QED BY <1>a, <2>1, PaidKept DEF Counts
  <1>. QED
    BY <1>1, <1>2, <1>3, <1>4, <1>5, <1>6
       DEF Next, CurrentStep, LoopStep, TickStep, BootStep, ReadsGeneration, ReadsClock, Locks, Nudges,
           NudgeFails, Answers, AnswersError, Receives, PullAsks, AsksFrom, PullFails, Persists, PersistFails,
           Installs, GivesUp, BootDials, BootEnds, BootOffline, Serves, BootFatal, RelayExits, Connect,
           Disconnect, RelayRestarts, vars, feeder

-----------------------------------------------------------------------------
(* The theorems                                                            *)

\* The program starts well-typed, fresh and serving nothing.
LEMMA InitHolds == Init => TypeOK /\ FreshInv /\ ServeInv
  <1>. SUFFICES ASSUME Init PROVE TypeOK /\ FreshInv /\ ServeInv
    OBVIOUS
  <1>1. TypeOK
    <2>p. NoEntry \in Programs BY DEF Programs
    <2>1. caller \in [Callers -> Places] BY Shapes DEF Init
    <2>2. tick \in Ticks /\ durable \in Snaps BY Shapes DEF Init
    <2>3. /\ now \in 0 .. MaxTime /\ gen \in Gens /\ override \in Overrides /\ placed \in BOOLEAN
          /\ cache = None
          /\ seen \in Overrides \cup {Waiting} /\ published \in Overrides
          /\ phase \in {"boot", "serving"} /\ lastGen \in Gens /\ live \in Programs
      BY <2>p DEF Init
    <2>4. wire = 0 /\ conn = FALSE /\ cell = FALSE /\ fresh = FALSE /\ answering = FALSE
      BY DEF Init
    <2>5. /\ conn \in BOOLEAN /\ wire \in Nat /\ cell \in BOOLEAN
          /\ fresh \in BOOLEAN /\ answering \in BOOLEAN
          /\ ~conn => wire = 0 /\ ~cell /\ ~fresh /\ ~answering
      BY <2>4
    <2>. QED BY <2>1, <2>2, <2>3, <2>5 DEF TypeOK, Places, Ticks
  <1>2. FreshInv
    BY DEF Init, FreshInv, CacheSound, CallersBehind, CurrentIsFresh, At, Idle, Caller
  <1>3. ServeInv
    BY DEF Init, ServeInv, AnswerAwaited, InstalledIsPersisted, PersistedIsDurable, PullMatches,
           ServesDurable, BootIsEmpty, NoTick, Ticking, Empty, Snap
  <1>. QED BY <1>1, <1>2, <1>3

\* Whatever is written, lost or restarted, the state keeps its shape, and a dead
\* connection leaves no nudge, no owed tick and no awaited answer behind
\* (Client.fail, OnDisconnected).
THEOREM TypeCorrect == Spec => []TypeOK
  <1>1. Init => TypeOK BY InitHolds
  <1>2. TypeOK /\ [Next]_vars => TypeOK' BY TypeInductive
  <1>. QED BY <1>1, <1>2, PTL DEF Spec

\* desiredStateSource.current, with any number of callers between its reads and
\* its lock: the answer is no older than the generation its caller read, and
\* shows no override that had lapsed at the time its caller read.
THEOREM CurrentStaysFresh == Spec => []CurrentIsFresh
  <1>1. Init => FreshInv BY InitHolds
  <1>2. TypeOK /\ FreshInv /\ [Next]_vars => FreshInv' BY FreshInductive
  <1>3. FreshInv => CurrentIsFresh BY DEF FreshInv
  <1>. QED BY <1>1, <1>2, <1>3, TypeCorrect, PTL DEF Spec

\* rePuller.tick and main's boot: wherever a pull, a connection or the process
\* is cut, a relay that is not inside a tick serves the screen what it has persisted
\* for it; if that is nothing, a relay that has applied no generation since its start
\* serves nothing, while one that has may still serve the last program it had.
THEOREM RelayServesDurable == Spec => []ServesWhatItPersisted
  <1>1. Init => ServeInv BY InitHolds
  <1>2. TypeOK /\ ServeInv /\ [Next]_vars => ServeInv' BY ServeInductive
  <1>3. ServeInv => ServesWhatItPersisted
    BY DEF ServeInv, ServesDurable, ServesWhatItPersisted
  <1>. QED BY <1>1, <1>2, <1>3, TypeCorrect, PTL DEF Spec

\* overrideExpiryLoop's published map, through writes behind its back, failed
\* advances and restarts that lose it: every advance beyond the writes themselves
\* is the one due to an override that was written, to a fault, or to the first row.
THEOREM LoopDoesNotStorm == Spec => []NoNudgeStorm
  <1>1. Init => PaidInv
    BY DEF Init, PaidInv, Counts, PublishedIsPast, AdvancesArePaid, Owed, OwesHeld, OwesRow
  <1>2. TypeOK /\ PaidInv /\ [Next]_vars => PaidInv' BY PaidInductive
  <1>3. TypeOK /\ PaidInv => NoNudgeStorm
    BY DEF TypeOK, PaidInv, Counts, AdvancesArePaid, Owed, NoNudgeStorm
  <1>. QED BY <1>1, <1>2, <1>3, TypeCorrect, PTL DEF Spec
=============================================================================
