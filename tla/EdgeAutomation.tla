--------------------------- MODULE EdgeAutomation ---------------------------
(* The relay's edge automation as it runs: the poller, the loop that hands its
   observations to the engine, the loop that ticks it, and the generations and
   device sets that replace what both work on (internal/relay/automationhost,
   cmd/waiveo-relay/automationdrive.go).  The engine is under one lock, so a call
   of it is one step; an observation received and not yet delivered is in hand. *)
EXTENDS EdgeRules

CONSTANTS Generations,      \* the sets of compiled rules a generation can carry
          MaxDisturbances   \* bound: generations, device sets, clock corrections,
                            \* failed writes and restarts, together

VARIABLES defs,       \* the generation last applied, as it is persisted
          hand,       \* the observation Run has received
          view,       \* entityStates: what slides are told
          loops,      \* which of the two drive loops still run
          storeErr,   \* Buffer.StoreErr, until somebody reads it
          left        \* what is left of MaxDisturbances

VARIABLES raised,     \* history: the triggers the last step raised
          since,      \* history: units since an entity's observed state changed
          quiet,      \* history: units since it was last observed to change
          spent,      \* history: holds that fired since their level was entered
          fresh,      \* history: triggers not observed since they were introduced
          once, twice \* history: occurrences dispatched, and dispatched again

hostVars == <<defs, hand, view, loops, storeErr, left>>
historyVars == <<raised, since, quiet, spent, fresh, once, twice>>
vars == <<pollerVars, engineVars, hostVars, historyVars>>

AllRules == UNION Generations
AllTriggers == UNION {d.triggers : d \in AllRules}
Pairs == UNION {{<<d.id, t>> : t \in d.triggers} : d \in AllRules}
MaxHold == CHOOSE n \in {t.hold : t \in AllTriggers} : \A t \in AllTriggers : t.hold <= n

None == [entity |-> 0, state |-> Unknown, changed |-> FALSE]

\* Entity 0 and state Unknown are nobody's; a trigger that has instants is a schedule's.
ASSUME AutomationAssumption ==
    /\ 0 \notin Entities /\ Unknown \notin States /\ MaxHold \in Nat /\ MaxDisturbances \in Nat
    /\ \A d \in AllRules : d.delays \in Seq(Nat)
    /\ \A t \in AllTriggers : /\ t.hold \in 0..MaxHold /\ t.at \subseteq Nat
                              /\ t.at # {} => t.kind = "time"

RuntimeState == [seen : BOOLEAN, base : States \cup {Unknown}, level : BOOLEAN,
                 armed : BOOLEAN, age : 0..MaxHold, fired : BOOLEAN]
InstanceState ==
    UNION {[def : {d}, trig : [d.triggers -> RuntimeState], run : Seq(Nat)] : d \in AllRules}

TypeOK ==
    /\ PollerTypeOK
    /\ defs \in Generations
    /\ rules \in [{d.id : d \in defs} -> InstanceState]
    /\ \A id \in DOMAIN rules : rules[id].def \in defs /\ rules[id].def.id = id
    /\ snap \in [Entities -> States \cup {Unknown}] /\ view \in [Entities -> States \cup {Unknown}]
    /\ wall \in 1..MaxWall /\ lastTick \in 0..MaxWall /\ floor \in 1..MaxWall
    /\ hand \in Observation \cup {None} /\ storeErr \in BOOLEAN
    /\ loops \in [run : BOOLEAN, tick : BOOLEAN] /\ left \in 0..MaxDisturbances
    /\ raised \subseteq Pairs /\ spent \subseteq Pairs /\ fresh \subseteq Pairs
    /\ since \in [Entities -> 0..MaxHold] /\ quiet \in [Entities -> 0..MaxHold]

Init ==
    /\ PollerInit
    /\ defs \in Generations /\ RulesInit(defs)
    /\ hand = None /\ view = [e \in Entities |-> Unknown]
    /\ loops = [run |-> TRUE, tick |-> TRUE] /\ storeErr = FALSE
    /\ left = MaxDisturbances
    /\ raised = {} /\ spent = {} /\ once = {} /\ twice = {}
    /\ since = [e \in Entities |-> 0] /\ quiet = [e \in Entities |-> 0]
    /\ fresh = Loaded

Disturb == left > 0 /\ left' = left - 1

----------------------------------------------------------------------------
(* The poller's steps, and the deviceplane's call of SetTargets. *)

Poll ==
    /\ BeginCycle \/ PollEntity
    /\ raised' = {}
    /\ UNCHANGED <<engineVars, hostVars, since, quiet, spent, fresh, once, twice>>

InstallDevices ==
    /\ Disturb
    /\ \E adopted \in (SUBSET Entities) \ {targets} : SetTargets(adopted)
    /\ raised' = {}
    /\ UNCHANGED <<engineVars, defs, hand, view, loops, storeErr, since, quiet, spent, fresh, once, twice>>

----------------------------------------------------------------------------
(* Run: receive an observation, then observe it under the lock. *)

Receive ==
    /\ loops.run /\ hand = None /\ channel # <<>>
    /\ hand' = Head(channel) /\ channel' = Tail(channel)
    /\ raised' = {}
    /\ UNCHANGED <<targets, cycle, prev, overtaken, engineVars, defs, view, loops, storeErr, left,
                   since, quiet, spent, fresh, once, twice>>

\* A firing whose conditions pass leaves a record, which is written or is not; the
\* error is whatever the buffer has noted since somebody last asked.
Dispositions(firings, seen) == {x \in firings : Passes(rules[x[1]], seen)}
Recorded(firings, seen, failed) ==
    IF failed THEN Dispositions(firings, seen) # {} /\ Disturb ELSE UNCHANGED left

\* Run ends at the first error; TickLoop logs it.
RunSurvives(err) == ~err
TickEndsToo(err) == loops.tick /\ ~err
TickSurvives(err) == loops.tick

Observe ==
    /\ loops.run /\ hand # None
    /\ ObserveRules(hand)
    /\ raised' = RaisedBy(hand)
    /\ view' = [view EXCEPT ![hand.entity] = hand.state]
    /\ \E failed \in BOOLEAN :
          /\ Recorded(raised', snap', failed)
          /\ loops' = [loops EXCEPT !.run = RunSurvives(storeErr \/ failed)]
    /\ storeErr' = FALSE
    /\ hand' = None
    /\ since' = [since EXCEPT ![hand.entity] = IF view[hand.entity] = hand.state THEN @ ELSE 0]
    /\ quiet' = [quiet EXCEPT ![hand.entity] = IF hand.changed THEN 0 ELSE @]
    /\ spent' = {x \in spent : \/ x[2].entity # hand.entity
                               \/ Bounded(x[2]) /\ LevelHolds(x[2], hand.state)
                               \/ ~Bounded(x[2]) /\ ~hand.changed}
                \cup {x \in raised' : x[2].hold > 0}
    /\ fresh' = {x \in fresh : x[2].entity # hand.entity}
    /\ UNCHANGED <<pollerVars, defs, once, twice>>

----------------------------------------------------------------------------
(* TickLoop, time, and the telemetry channel's own failing writes. *)

Tick ==
    /\ loops.tick
    /\ TickRules
    /\ raised' = RaisedByTick
    /\ LET all == raised' \cup RaisedBySchedule
           quietTick == Dispositions(all, snap) = {}
       IN  \E failed \in BOOLEAN :
             /\ Recorded(all, snap, failed)
             /\ loops' = [loops EXCEPT !.tick = TickSurvives(~quietTick /\ (storeErr \/ failed))]
             /\ storeErr' = (storeErr /\ quietTick)
    /\ spent' = spent \cup raised'
    /\ once' = once \cup RaisedBySchedule
    /\ twice' = twice \cup (once \cap RaisedBySchedule)
    /\ UNCHANGED <<pollerVars, defs, hand, view, since, quiet, fresh>>

Elapse ==
    /\ ElapseRules
    /\ since' = [e \in Entities |-> IF since[e] < MaxHold THEN since[e] + 1 ELSE MaxHold]
    /\ quiet' = [e \in Entities |-> IF quiet[e] < MaxHold THEN quiet[e] + 1 ELSE MaxHold]
    /\ raised' = {}
    /\ UNCHANGED <<pollerVars, hostVars, spent, fresh, once, twice>>

CorrectClock ==
    /\ Disturb /\ StepClock
    /\ raised' = {}
    /\ UNCHANGED <<pollerVars, defs, hand, view, loops, storeErr, since, quiet, spent, fresh, once, twice>>

BufferFails ==
    /\ Disturb /\ storeErr' = TRUE
    /\ raised' = {}
    /\ UNCHANGED <<pollerVars, engineVars, defs, hand, view, loops, since, quiet, spent, fresh, once, twice>>

----------------------------------------------------------------------------
(* A generation, and a restart of the process. *)

ApplyGeneration ==
    /\ Disturb
    /\ \E next \in Generations : ApplyRules(next) /\ defs' = next
    /\ raised' = {}
    /\ fresh' = {x \in Loaded' : x \in fresh \/ x \notin Loaded}
    /\ UNCHANGED <<pollerVars, hand, view, loops, storeErr, since, quiet, spent, once, twice>>

Restart ==
    /\ Disturb
    /\ PollerRestart
    /\ BootRules(defs)
    /\ hand' = None /\ view' = [e \in Entities |-> Unknown]
    /\ loops' = [run |-> TRUE, tick |-> TRUE] /\ storeErr' = FALSE
    /\ raised' = {} /\ spent' = {} /\ once' = {} /\ twice' = {}
    /\ since' = [e \in Entities |-> 0] /\ quiet' = since'
    /\ fresh' = Loaded'
    /\ UNCHANGED defs

Next ==
    \/ Poll \/ InstallDevices \/ Receive \/ Observe
    \/ Tick \/ Elapse \/ CorrectClock \/ BufferFails
    \/ ApplyGeneration \/ Restart

Spec == Init /\ [][Next]_vars

\* The ticker and time go on; nothing is asked of the poller or the devices.
FairSpec == Spec /\ WF_vars(Tick) /\ WF_vars(Elapse)

----------------------------------------------------------------------------
(* Properties. *)

\* An occurrence of a schedule trigger is dispatched at most once in the life of a
\* process, whatever the clock is corrected to and whatever is edited
\* (dispatchSchedule's cursor).
OncePerInstant == twice = {}

\* A `for` trigger fires only when the state it names has been observed, unbroken,
\* for its span, and once in that time; one without bounds, after as long without
\* a change.  Edits, ticks and clock corrections do not add to either (Hold.Step).
HoldsAreHonest ==
    [][\A x \in raised' : x[2].hold > 0 =>
          /\ x \notin spent
          /\ IF Bounded(x[2])
             THEN LevelHolds(x[2], view'[x[2].entity]) /\ since'[x[2].entity] >= x[2].hold
             ELSE quiet'[x[2].entity] >= x[2].hold]_vars

\* A transition fires exactly the triggers without `for` that it matches, a trigger
\* nothing was observed for since it was introduced apart: no edit of another part
\* of the rule swallows one (carryUnchangedTriggers, RUL-303).
Matches(t, obs) ==
    /\ Concerns(t, obs) /\ obs.changed
    /\ t.from \in {Any, view[obs.entity]} /\ t.to \in {Any, obs.state}
Delivered == hand # None /\ hand' = None /\ view'[hand.entity] = hand.state
EditsSwallowNothing ==
    [][Delivered => \A x \in Loaded \ fresh :
          x[2].hold = 0 => (x \in raised' <=> Matches(x[2], hand))]_vars

\* While the observation loop runs, what slides are told of a polled entity is the
\* poller's last reading once it is received, unless that reading gave way to
\* another entity's (Poller.send, Host.entityStates).
LatestReadingArrives ==
    \A e \in Entities :
        prev[e] = Unknown \/ Pending(e) \/ hand.entity = e \/ ~loops.run
            \/ e \in overtaken \/ view[e] = prev[e]

\* A run of a rule that drops firings while it runs comes to its end, or is
\* cancelled: the second half of what a firing began is not left undone, whatever
\* the telemetry store does (resumeDelay, TickLoop).
TailsRun ==
    \A id \in {d.id : d \in AllRules} :
        LET Running == id \in DOMAIN rules /\ rules[id].def.mode = "single" /\ rules[id].run # <<>>
        IN  Running ~> ~Running
=============================================================================
