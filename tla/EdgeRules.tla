----------------------------- MODULE EdgeRules -----------------------------
(* The relay's rules engine (internal/rules/engine and the holds of
   internal/rules/eval): what one observation, one tick and one generation do to
   the loaded rules.  Spans of monotonic time are kept as the time gone by or
   left, so that only wall time is an instant. *)
EXTENDS StatePoller

CONSTANTS MaxWall     \* bound: the last wall instant an instance reaches

ASSUME WallAssumption == MaxWall \in Nat \ {0}

Any == "any"
StateTrigger(e, from, to, hold) ==
    [kind |-> "state", entity |-> e, from |-> from, to |-> to, hold |-> hold,
     at |-> {}, misfire |-> "skip"]
\* time, time_pattern and sun alike: a set of instants.
TimeTrigger(at, misfire) ==
    [kind |-> "time", entity |-> 0, from |-> Any, to |-> Any, hold |-> 0,
     at |-> at, misfire |-> misfire]

VARIABLES rules,      \* rule id -> the instance the engine drives
          snap,       \* the engine's snapshot of each entity
          wall,       \* what the wall clock reads
          lastTick,   \* lastTickWall, 0 before the first tick
          floor       \* scheduleFloor

engineVars == <<rules, snap, wall, lastTick, floor>>

FreshRuntime == [seen |-> FALSE, base |-> Unknown, level |-> FALSE,
                 armed |-> FALSE, age |-> 0, fired |-> FALSE]
FreshInstance(def) ==
    [def |-> def, trig |-> [t \in def.triggers |-> FreshRuntime], run |-> <<>>]
FreshRules(defs) ==
    [id \in {d.id : d \in defs} |-> FreshInstance(CHOOSE d \in defs : d.id = id)]

----------------------------------------------------------------------------
(* One trigger: its edge, its level, its hold. *)

Bounded(t) == t.from # Any \/ t.to # Any
LevelHolds(t, s) == t.to \in {Any, s}
Edge(t, rt, obs) ==
    rt.seen /\ obs.changed /\ t.from \in {Any, rt.base} /\ t.to \in {Any, obs.state}

\* Hold.Step: raw is the level of a bounded trigger, the edge of another.
Entered(t, rt, raw) == raw /\ (Bounded(t) => ~rt.level)
HoldFiresAgain(t, rt, raw) ==
    /\ rt.armed /\ rt.age >= t.hold
    /\ raw = Bounded(t) /\ ~Entered(t, rt, raw)
HoldFires(t, rt, raw) ==
    /\ rt.armed /\ ~rt.fired /\ rt.age >= t.hold
    /\ raw = Bounded(t) /\ ~Entered(t, rt, raw)
AfterHold(t, rt, raw) ==
    LET entered == Entered(t, rt, raw)
        kept    == rt.armed /\ (Bounded(t) => raw)
        fires   == HoldFires(t, rt, raw)
    IN [seen  |-> rt.seen, base |-> rt.base,
        level |-> Bounded(t) /\ raw,
        armed |-> entered \/ (kept /\ (Bounded(t) \/ ~fires)),
        age   |-> IF kept /\ ~entered THEN rt.age ELSE 0,
        fired |-> kept /\ ~entered /\ Bounded(t) /\ (rt.fired \/ fires)]

Concerns(t, obs) == t.kind = "state" /\ t.entity = obs.entity
Seeded(t, rt, obs) ==
    IF rt.seen \/ ~Bounded(t) THEN rt ELSE [rt EXCEPT !.level = LevelHolds(t, obs.state)]
RawOf(t, rt, obs) == IF Bounded(t) THEN LevelHolds(t, obs.state) ELSE Edge(t, rt, obs)

FiresOn(t, rt, obs) ==
    /\ Concerns(t, obs)
    /\ IF t.hold = 0 THEN Edge(t, rt, obs)
       ELSE HoldFires(t, Seeded(t, rt, obs), RawOf(t, rt, obs))
Observed(t, rt, obs) ==
    IF ~Concerns(t, obs) THEN rt
    ELSE [(IF t.hold = 0 THEN rt ELSE AfterHold(t, Seeded(t, rt, obs), RawOf(t, rt, obs)))
          EXCEPT !.seen = TRUE, !.base = obs.state]

SteadyRaw(t, rt) == Bounded(t) /\ rt.level
FiresOnTick(t, rt) == t.hold > 0 /\ HoldFires(t, rt, SteadyRaw(t, rt))
Ticked(t, rt) == IF t.hold = 0 THEN rt ELSE AfterHold(t, rt, SteadyRaw(t, rt))

----------------------------------------------------------------------------
(* One rule: its conditions, its mode, its run.  A run is the delays it still has
   before it, the first as the time it has left. *)

Passes(ri, view) == \A c \in ri.def.when : view[c.entity] = c.state

\* The run after n firings of one step: the first that passes starts it, single
\* drops the others, restart begins again.
AfterFirings(ri, view, n) ==
    IF n = 0 \/ ~Passes(ri, view) \/ (ri.run # <<>> /\ ri.def.mode = "single")
    THEN ri.run ELSE ri.def.delays

Resumed(run) == IF run # <<>> /\ Head(run) = 0 THEN Tail(run) ELSE run

----------------------------------------------------------------------------
(* The schedule. *)

Missed(policy, due) ==
    CASE policy = "fire_each" -> due
      [] policy = "catch_up_once" -> {w \in due : \A other \in due : other <= w}
      [] OTHER -> {}

HasSchedule == \E id \in DOMAIN rules : \E t \in rules[id].def.triggers : t.kind = "time"
TickFrom == IF lastTick > floor THEN lastTick ELSE floor
Due(t) == {w \in t.at : TickFrom < w /\ w <= wall}
ScheduleFires(t) == IF lastTick = 0 THEN Missed(t.misfire, Due(t)) ELSE Due(t)

\* The cursor only ever moves forward.
TickCursorFollows == IF HasSchedule THEN wall ELSE lastTick
TickCursor == IF HasSchedule /\ wall > lastTick THEN wall ELSE lastTick

----------------------------------------------------------------------------
(* What a step of the engine raises, and what it does. *)

Loaded == UNION {{<<id, t>> : t \in rules[id].def.triggers} : id \in DOMAIN rules}
Runtime(x) == rules[x[1]].trig[x[2]]

RaisedBy(obs) == {x \in Loaded : FiresOn(x[2], Runtime(x), obs)}
RaisedByTick == {x \in Loaded : FiresOnTick(x[2], Runtime(x))}
RaisedBySchedule == UNION {{<<x[1], x[2], w>> : w \in ScheduleFires(x[2])} : x \in Loaded}

FiringsOf(id, raised) == Cardinality({x \in raised : x[1] = id})

\* Observe does nothing at all while no rule is loaded.
ObserveRules(obs) ==
    LET view == [snap EXCEPT ![obs.entity] = obs.state]
        Next(id, ri) ==
            [def |-> ri.def,
             trig |-> [t \in ri.def.triggers |-> Observed(t, ri.trig[t], obs)],
             run |-> AfterFirings(ri, view, FiringsOf(id, RaisedBy(obs)))]
    IN  /\ rules' = [id \in DOMAIN rules |-> Next(id, rules[id])]
        /\ snap' = IF DOMAIN rules = {} THEN snap ELSE view
        /\ UNCHANGED <<wall, lastTick, floor>>

\* Holds, then the schedule, then the delays that are due.
TickRules ==
    LET Next(id, ri) ==
            [def |-> ri.def,
             trig |-> [t \in ri.def.triggers |-> Ticked(t, ri.trig[t])],
             run |-> Resumed(AfterFirings(ri, snap, FiringsOf(id, RaisedByTick)
                                                      + FiringsOf(id, RaisedBySchedule)))]
    IN  /\ rules' = [id \in DOMAIN rules |-> Next(id, rules[id])]
        /\ lastTick' = TickCursor
        /\ UNCHANGED <<snap, wall, floor>>

\* ApplyGeneration: an unchanged rule keeps its instance, a changed one the
\* runtimes of the triggers the edit left alone; every other run is cancelled.
CarriedWhole(ri, def) == FreshInstance(def)
Carried(ri, def) ==
    [def |-> def,
     trig |-> [t \in def.triggers |-> IF t \in ri.def.triggers THEN ri.trig[t] ELSE FreshRuntime],
     run |-> <<>>]

ApplyRules(defs) ==
    LET next == FreshRules(defs)
    IN  /\ rules' = [id \in DOMAIN next |->
              IF id \notin DOMAIN rules THEN next[id]
              ELSE IF rules[id].def = next[id].def THEN rules[id]
              ELSE Carried(rules[id], next[id].def)]
        /\ UNCHANGED <<snap, wall, lastTick, floor>>

\* A unit of monotonic time, and of wall time while the instance has any.
Aged(t, rt) == IF rt.armed /\ rt.age < t.hold THEN [rt EXCEPT !.age = @ + 1] ELSE rt
Waited(run) == IF run # <<>> /\ Head(run) > 0 THEN [run EXCEPT ![1] = @ - 1] ELSE run
ElapseRules ==
    LET Next(ri) ==
            [def |-> ri.def,
             trig |-> [t \in ri.def.triggers |-> Aged(t, ri.trig[t])],
             run |-> Waited(ri.run)]
    IN  /\ rules' = [id \in DOMAIN rules |-> Next(rules[id])]
        /\ wall' = IF wall < MaxWall THEN wall + 1 ELSE wall
        /\ UNCHANGED <<snap, lastTick, floor>>

\* The wall clock is corrected.
StepClock ==
    /\ wall' \in 1..MaxWall \ {wall}
    /\ UNCHANGED <<rules, snap, lastTick, floor>>

\* The process starts: nothing of the engine is persisted, and the floor, which no
\* verified time has ever moved, is the instant of the boot.
BootRules(defs) ==
    /\ rules' = FreshRules(defs)
    /\ snap' = [e \in Entities |-> Unknown]
    /\ wall' \in 1..MaxWall
    /\ lastTick' = 0 /\ floor' = wall'

RulesInit(defs) ==
    /\ rules = FreshRules(defs)
    /\ snap = [e \in Entities |-> Unknown]
    /\ wall = 1 /\ lastTick = 0 /\ floor = 1
=============================================================================
