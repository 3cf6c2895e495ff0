-------------------------- MODULE AutomationProofs --------------------------
(***************************************************************************)
(* What holds of EdgeAutomation for every set of devices, states and       *)
(* generations, every capacity of the poller's channel and any number of   *)
(* disturbances: a schedule's occurrence is dispatched once, a hold is     *)
(* honest, an edit swallows no transition of a trigger it left alone, and  *)
(* the last reading of a device arrives.                                   *)
(***************************************************************************)
EXTENDS EdgeAutomation, TLAPS

USE PollerAssumption, WallAssumption, AutomationAssumption

-----------------------------------------------------------------------------
(* The shape of the state                                                  *)

\* An instance is made of its rule, a runtime for each trigger, and a run.
LEMMA InstanceShape ==
    ASSUME NEW ri \in InstanceState
    PROVE  /\ ri.def \in AllRules
           /\ ri.trig \in [ri.def.triggers -> RuntimeState]
           /\ ri.run \in Seq(Nat)
           /\ ri = [def |-> ri.def, trig |-> ri.trig, run |-> ri.run]
  BY DEF InstanceState

\* Such a record is an instance.
LEMMA InstanceMade ==
    ASSUME NEW d \in AllRules, NEW trig \in [d.triggers -> RuntimeState], NEW run \in Seq(Nat)
    PROVE  [def |-> d, trig |-> trig, run |-> run] \in InstanceState
  BY DEF InstanceState

\* The triggers of a rule are triggers of the instance.
LEMMA TriggersOf ==
    ASSUME NEW d \in AllRules, NEW t \in d.triggers
    PROVE  /\ t \in AllTriggers /\ t.hold \in 0..MaxHold /\ t.at \subseteq Nat
           /\ t.at # {} => t.kind = "time"
           /\ <<d.id, t>> \in Pairs
  <1>1. t \in AllTriggers
    BY DEF AllTriggers
  <1>2. <<d.id, t>> \in Pairs
    BY DEF Pairs
  <1>. QED BY <1>1, <1>2

\* A generation's rules are among all rules.
LEMMA RulesOf == ASSUME NEW g \in Generations, NEW d \in g PROVE d \in AllRules
  BY DEF AllRules

\* A loaded trigger is a trigger of a loaded rule.
LEMMA LoadedIs ==
    \A x : x \in Loaded <=> \E id \in DOMAIN rules : \E t \in rules[id].def.triggers : x = <<id, t>>
  BY DEF Loaded

\* Fresh instances are instances.
LEMMA FreshShape ==
    ASSUME NEW g \in Generations
    PROVE  /\ FreshRules(g) \in [{d.id : d \in g} -> InstanceState]
           /\ \A id \in {d.id : d \in g} :
                 /\ FreshRules(g)[id].def \in g /\ FreshRules(g)[id].def.id = id
                 /\ FreshRules(g)[id].trig = [t \in FreshRules(g)[id].def.triggers |-> FreshRuntime]
  <1>1. FreshRuntime \in RuntimeState
    BY DEF FreshRuntime, RuntimeState
  <1>2. ASSUME NEW d \in g PROVE FreshInstance(d) \in InstanceState
    <2>1. d \in AllRules
      BY RulesOf
    <2>2. [t \in d.triggers |-> FreshRuntime] \in [d.triggers -> RuntimeState] /\ <<>> \in Seq(Nat)
      BY <1>1
    <2>. QED BY <2>1, <2>2, InstanceMade DEF FreshInstance
  <1>3. ASSUME NEW id \in {d.id : d \in g}
        PROVE  (CHOOSE d \in g : d.id = id) \in g /\ (CHOOSE d \in g : d.id = id).id = id
    BY <1>3
  <1>. QED BY <1>2, <1>3 DEF FreshRules, FreshInstance

\* The level, the edge and the signals made of them are truth values.
LEMMA SignalsType ==
    ASSUME NEW t, NEW rt \in RuntimeState, NEW obs \in Observation, NEW s
    PROVE  /\ Bounded(t) \in BOOLEAN /\ LevelHolds(t, s) \in BOOLEAN /\ Edge(t, rt, obs) \in BOOLEAN
           /\ RawOf(t, rt, obs) \in BOOLEAN /\ SteadyRaw(t, rt) \in BOOLEAN
  <1>1. Bounded(t) \in BOOLEAN
    BY DEF Bounded
  <1>2. LevelHolds(t, s) \in BOOLEAN /\ LevelHolds(t, obs.state) \in BOOLEAN
    BY DEF LevelHolds
  <1>3. Edge(t, rt, obs) \in BOOLEAN
    BY DEF Edge
  <1>4. RawOf(t, rt, obs) \in BOOLEAN
    BY <1>2, <1>3 DEF RawOf
  <1>5. SteadyRaw(t, rt) \in BOOLEAN
    BY DEF SteadyRaw
  <1>. QED BY <1>1, <1>2, <1>3, <1>4, <1>5

\* A runtime whose field is replaced by another of its kind is one.
LEMMA Replaced ==
    ASSUME NEW rt \in RuntimeState
    PROVE  /\ \A l \in BOOLEAN : [rt EXCEPT !.level = l] \in RuntimeState
           /\ \A s \in States : [rt EXCEPT !.seen = TRUE, !.base = s] \in RuntimeState
           /\ \A n \in 0..MaxHold : [rt EXCEPT !.age = n] \in RuntimeState
  BY DEF RuntimeState

\* A hold's step, field by field.
LEMMA HoldStep ==
    ASSUME NEW t, NEW rt \in RuntimeState, NEW raw \in BOOLEAN
    PROVE  LET r == AfterHold(t, rt, raw)
           IN  /\ r \in RuntimeState
               /\ r.seen = rt.seen /\ r.base = rt.base
               /\ r.level <=> Bounded(t) /\ raw
               /\ r.armed <=> Entered(t, rt, raw) \/ (rt.armed /\ (Bounded(t) => raw) /\ (Bounded(t) \/ ~HoldFires(t, rt, raw)))
               /\ r.age = IF rt.armed /\ (Bounded(t) => raw) /\ ~Entered(t, rt, raw) THEN rt.age ELSE 0
               /\ r.fired <=> /\ rt.armed /\ (Bounded(t) => raw) /\ ~Entered(t, rt, raw) /\ Bounded(t)
                              /\ rt.fired \/ HoldFires(t, rt, raw)
  <1> DEFINE entered == Entered(t, rt, raw)
             kept    == rt.armed /\ (Bounded(t) => raw)
             fires   == HoldFires(t, rt, raw)
             l == Bounded(t) /\ raw
             a == entered \/ (kept /\ (Bounded(t) \/ ~fires))
             n == IF kept /\ ~entered THEN rt.age ELSE 0
             f == kept /\ ~entered /\ Bounded(t) /\ (rt.fired \/ fires)
  <1>1. l \in BOOLEAN /\ a \in BOOLEAN /\ f \in BOOLEAN
    OBVIOUS
  <1>2. n \in 0..MaxHold
    BY DEF RuntimeState
  <1>3. AfterHold(t, rt, raw) = [seen |-> rt.seen, base |-> rt.base, level |-> l, armed |-> a, age |-> n, fired |-> f]
    BY DEF AfterHold
  <1>. HIDE DEF l, a, n, f
  <1>4. LET r == [seen |-> rt.seen, base |-> rt.base, level |-> l, armed |-> a, age |-> n, fired |-> f]
        IN  /\ r \in RuntimeState /\ r.seen = rt.seen /\ r.base = rt.base
            /\ r.level = l /\ r.armed = a /\ r.age = n /\ r.fired = f
    BY <1>1, <1>2 DEF RuntimeState
  <1>. QED BY <1>3, <1>4 DEF l, a, n, f

\* It keeps what the trigger has seen.
LEMMA HoldKeeps ==
    ASSUME NEW t, NEW rt \in RuntimeState, NEW raw \in BOOLEAN
    PROVE  /\ AfterHold(t, rt, raw).seen = rt.seen
           /\ AfterHold(t, rt, raw).base = rt.base
  BY DEF AfterHold

\* What an observation makes of a runtime is one, seen at what was observed.
LEMMA ObservedType ==
    ASSUME NEW t \in AllTriggers, NEW rt \in RuntimeState, NEW obs \in Observation
    PROVE  /\ Seeded(t, rt, obs) \in RuntimeState
           /\ Observed(t, rt, obs) \in RuntimeState
  <1>1. Seeded(t, rt, obs) \in RuntimeState
    <2>1. LevelHolds(t, obs.state) \in BOOLEAN
      BY SignalsType
    <2>2. [rt EXCEPT !.level = LevelHolds(t, obs.state)] \in RuntimeState
      BY <2>1, Replaced
    <2>. QED BY <2>2 DEF Seeded
  <1>2. AfterHold(t, Seeded(t, rt, obs), RawOf(t, rt, obs)) \in RuntimeState
    <2>1. RawOf(t, rt, obs) \in BOOLEAN
      BY SignalsType
    <2>. HIDE DEF RuntimeState
    <2>. QED BY <1>1, <2>1, HoldStep
  <1>3. obs.state \in States
    BY DEF Observation
  <1>. QED BY <1>1, <1>2, <1>3, Replaced DEF Observed

\* A tick or a unit of time leaves a runtime.
LEMMA TickedType ==
    ASSUME NEW t \in AllTriggers, NEW rt \in RuntimeState
    PROVE  Ticked(t, rt) \in RuntimeState /\ Aged(t, rt) \in RuntimeState
  <1>1. SteadyRaw(t, rt) \in BOOLEAN
    BY DEF SteadyRaw
  <1>2. AfterHold(t, rt, SteadyRaw(t, rt)) \in RuntimeState
    BY <1>1, HoldStep
  <1>3. t.hold \in 0..MaxHold /\ (rt.age < t.hold => rt.age + 1 \in 0..MaxHold)
    BY DEF RuntimeState
  <1>4. Aged(t, rt) \in RuntimeState
    <2>1. [rt EXCEPT !.age = @ + 1] = [rt EXCEPT !.age = rt.age + 1]
      OBVIOUS
    <2>. QED BY <1>3, <2>1, Replaced DEF Aged
  <1>. QED BY <1>2, <1>4 DEF Ticked

\* What a run has left is a sequence of spans.
LEMMA RunStarts ==
    ASSUME NEW ri \in InstanceState, NEW seen, NEW n
    PROVE  AfterFirings(ri, seen, n) \in Seq(Nat)
  <1>1. ri.run \in Seq(Nat) /\ ri.def.delays \in Seq(Nat)
    BY InstanceShape
  <1>. QED BY <1>1 DEF AfterFirings

\* Nor does waiting, or resuming, make anything else of it.
LEMMA RunGoesOn ==
    ASSUME NEW run \in Seq(Nat)
    PROVE  Resumed(run) \in Seq(Nat) /\ Waited(run) \in Seq(Nat)
  <1>1. CASE run = <<>>
    BY <1>1 DEF Resumed, Waited
  <1>2. CASE run # <<>>
    <2>1. Head(run) = run[1] /\ run[1] \in Nat /\ Tail(run) \in Seq(Nat) /\ 1 \in DOMAIN run
      BY <1>2
    <2>2. run[1] > 0 => [run EXCEPT ![1] = run[1] - 1] \in Seq(Nat)
      BY <2>1
    <2>3. [run EXCEPT ![1] = @ - 1] = [run EXCEPT ![1] = run[1] - 1]
      OBVIOUS
    <2>. QED BY <1>2, <2>1, <2>2, <2>3 DEF Resumed, Waited
  <1>. QED BY <1>1, <1>2

\* The rules that are loaded stay loaded, and each of their triggers makes the step F.
SameRules ==
    /\ rules' \in [DOMAIN rules -> InstanceState]
    /\ \A id \in DOMAIN rules : rules'[id].def = rules[id].def
Evolves(F(_, _)) ==
    /\ SameRules
    /\ \A id \in DOMAIN rules : \A t \in rules[id].def.triggers :
          rules'[id].trig[t] = F(t, rules[id].trig[t])

RulesOK == rules \in [DOMAIN rules -> InstanceState]

\* An observation, a tick and a unit of time are such steps.
LEMMA ObserveEvolves ==
    ASSUME RulesOK, NEW obs \in Observation, ObserveRules(obs)
    PROVE  Evolves(LAMBDA t, rt : Observed(t, rt, obs))
  <1> DEFINE seen == [snap EXCEPT ![obs.entity] = obs.state]
             trig(id) == [t \in rules[id].def.triggers |-> Observed(t, rules[id].trig[t], obs)]
             run(id) == AfterFirings(rules[id], seen, FiringsOf(id, RaisedBy(obs)))
  <1>1. rules' = [id \in DOMAIN rules |-> [def |-> rules[id].def, trig |-> trig(id), run |-> run(id)]]
    BY DEF ObserveRules
  <1>2. ASSUME NEW id \in DOMAIN rules
        PROVE  rules[id].def \in AllRules /\ trig(id) \in [rules[id].def.triggers -> RuntimeState] /\ run(id) \in Seq(Nat)
    <2>1. rules[id] \in InstanceState
      BY DEF RulesOK
    <2>2. ASSUME NEW t \in rules[id].def.triggers PROVE Observed(t, rules[id].trig[t], obs) \in RuntimeState
      BY <2>1, InstanceShape, TriggersOf, ObservedType
    <2>3. run(id) \in Seq(Nat)
      BY <2>1, RunStarts
    <2>. QED BY <2>1, <2>2, <2>3, InstanceShape
  <1>. HIDE DEF trig, run
  <1>3. ASSUME NEW id \in DOMAIN rules PROVE rules'[id] \in InstanceState
    BY <1>1, <1>2, InstanceMade
  <1>. QED BY <1>1, <1>3 DEF SameRules, Evolves, trig

LEMMA TickEvolves ==
    ASSUME RulesOK, TickRules
    PROVE  Evolves(LAMBDA t, rt : Ticked(t, rt))
  <1> DEFINE trig(id) == [t \in rules[id].def.triggers |-> Ticked(t, rules[id].trig[t])]
             run(id) == Resumed(AfterFirings(rules[id], snap,
                                             FiringsOf(id, RaisedByTick) + FiringsOf(id, RaisedBySchedule)))
  <1>1. rules' = [id \in DOMAIN rules |-> [def |-> rules[id].def, trig |-> trig(id), run |-> run(id)]]
    BY DEF TickRules
  <1>2. ASSUME NEW id \in DOMAIN rules
        PROVE  rules[id].def \in AllRules /\ trig(id) \in [rules[id].def.triggers -> RuntimeState] /\ run(id) \in Seq(Nat)
    <2>1. rules[id] \in InstanceState
      BY DEF RulesOK
    <2>2. ASSUME NEW t \in rules[id].def.triggers PROVE Ticked(t, rules[id].trig[t]) \in RuntimeState
      BY <2>1, InstanceShape, TriggersOf, TickedType
    <2>3. run(id) \in Seq(Nat)
      BY <2>1, RunStarts, RunGoesOn
    <2>. QED BY <2>1, <2>2, <2>3, InstanceShape
  <1>. HIDE DEF trig, run
  <1>3. ASSUME NEW id \in DOMAIN rules PROVE rules'[id] \in InstanceState
    BY <1>1, <1>2, InstanceMade
  <1>. QED BY <1>1, <1>3 DEF SameRules, Evolves, trig

LEMMA ElapseEvolves ==
    ASSUME RulesOK, ElapseRules
    PROVE  Evolves(LAMBDA t, rt : Aged(t, rt))
  <1> DEFINE trig(id) == [t \in rules[id].def.triggers |-> Aged(t, rules[id].trig[t])]
             run(id) == Waited(rules[id].run)
  <1>1. rules' = [id \in DOMAIN rules |-> [def |-> rules[id].def, trig |-> trig(id), run |-> run(id)]]
    BY DEF ElapseRules
  <1>2. ASSUME NEW id \in DOMAIN rules
        PROVE  rules[id].def \in AllRules /\ trig(id) \in [rules[id].def.triggers -> RuntimeState] /\ run(id) \in Seq(Nat)
    <2>1. rules[id] \in InstanceState
      BY DEF RulesOK
    <2>2. ASSUME NEW t \in rules[id].def.triggers PROVE Aged(t, rules[id].trig[t]) \in RuntimeState
      BY <2>1, InstanceShape, TriggersOf, TickedType
    <2>3. run(id) \in Seq(Nat)
      BY <2>1, InstanceShape, RunGoesOn
    <2>. QED BY <2>1, <2>2, <2>3, InstanceShape
  <1>. HIDE DEF trig, run
  <1>3. ASSUME NEW id \in DOMAIN rules PROVE rules'[id] \in InstanceState
    BY <1>1, <1>2, InstanceMade
  <1>. QED BY <1>1, <1>3 DEF SameRules, Evolves, trig

\* A generation: of a rule that stays loaded, a trigger of both keeps its runtime;
\* every other trigger begins afresh.
LEMMA GenerationEvolves ==
    ASSUME RulesOK, \A id \in DOMAIN rules : rules[id].def.id = id,
           NEW g \in Generations, ApplyRules(g)
    PROVE  /\ rules' \in [{d.id : d \in g} -> InstanceState]
           /\ \A id \in DOMAIN rules' :
                 /\ rules'[id].def \in g /\ rules'[id].def.id = id
                 /\ \A t \in rules'[id].def.triggers :
                       rules'[id].trig[t] = IF id \in DOMAIN rules /\ t \in rules[id].def.triggers
                                            THEN rules[id].trig[t] ELSE FreshRuntime
  <1> DEFINE next == FreshRules(g)
             ids == {d.id : d \in g}
  <1>1. /\ next \in [ids -> InstanceState]
        /\ \A id \in ids : /\ next[id].def \in g /\ next[id].def.id = id
                           /\ next[id].trig = [t \in next[id].def.triggers |-> FreshRuntime]
    BY FreshShape
  <1>2. rules' = [id \in ids |-> IF id \notin DOMAIN rules THEN next[id]
                                 ELSE IF rules[id].def = next[id].def THEN rules[id]
                                 ELSE Carried(rules[id], next[id].def)]
    BY <1>1 DEF ApplyRules
  <1>. HIDE DEF next
  <1>3. ASSUME NEW id \in ids, id \in DOMAIN rules
        PROVE  LET c == Carried(rules[id], next[id].def)
               IN  /\ c \in InstanceState /\ c.def = next[id].def
                   /\ \A t \in c.def.triggers :
                         c.trig[t] = IF t \in rules[id].def.triggers THEN rules[id].trig[t] ELSE FreshRuntime
    <2> DEFINE d == next[id].def
               trig == [t \in d.triggers |-> IF t \in rules[id].def.triggers THEN rules[id].trig[t] ELSE FreshRuntime]
    <2>1. d \in AllRules /\ rules[id] \in InstanceState
      BY <1>1, <1>3, RulesOf DEF RulesOK
    <2>2. FreshRuntime \in RuntimeState /\ <<>> \in Seq(Nat)
      BY DEF FreshRuntime, RuntimeState
    <2>3. trig \in [d.triggers -> RuntimeState]
      BY <2>1, <2>2, InstanceShape
    <2>4. Carried(rules[id], d) = [def |-> d, trig |-> trig, run |-> <<>>]
      BY DEF Carried
    <2>. HIDE DEF d
    <2>5. \A t \in d.triggers : trig[t] = IF t \in rules[id].def.triggers THEN rules[id].trig[t] ELSE FreshRuntime
      OBVIOUS
    <2>. HIDE DEF trig
    <2>6. Carried(rules[id], d) \in InstanceState
      <3>1. <<>> \in Seq(Nat)
        OBVIOUS
      <3>2. [def |-> d, trig |-> trig, run |-> <<>>] \in InstanceState
        BY <2>1, <2>3, <3>1, InstanceMade
      <3>. QED BY <2>4, <3>2
    <2>7. Carried(rules[id], d).def = d /\ Carried(rules[id], d).trig = trig
      BY <2>4
    <2>. QED BY <2>5, <2>6, <2>7 DEF d
  <1>4. ASSUME NEW id \in ids
        PROVE  /\ rules'[id] \in InstanceState
               /\ rules'[id].def \in g /\ rules'[id].def.id = id
               /\ \A t \in rules'[id].def.triggers :
                     rules'[id].trig[t] = IF id \in DOMAIN rules /\ t \in rules[id].def.triggers
                                          THEN rules[id].trig[t] ELSE FreshRuntime
    <2>1. CASE id \notin DOMAIN rules
      <3>1. rules'[id] = next[id]
        BY <1>2, <2>1
      <3>2. \A t \in next[id].def.triggers : next[id].trig[t] = FreshRuntime
        <4>1. next[id].trig = [t \in next[id].def.triggers |-> FreshRuntime]
          BY <1>1, Zenon
        <4>. QED BY <4>1, Zenon
      <3>3. next[id] \in InstanceState /\ next[id].def \in g /\ next[id].def.id = id
        BY <1>1
      <3>4. \A t \in rules'[id].def.triggers : rules'[id].trig[t] = FreshRuntime
        BY <3>1, <3>2
      <3>. QED BY <2>1, <3>1, <3>3, <3>4
    <2>2. CASE id \in DOMAIN rules /\ rules[id].def = next[id].def
      BY <1>1, <1>2, <2>2 DEF RulesOK
    <2>3. CASE id \in DOMAIN rules /\ rules[id].def # next[id].def
      BY <1>1, <1>2, <1>3, <2>3
    <2>. QED BY <2>1, <2>2, <2>3
  <1>. QED BY <1>2, <1>4

-----------------------------------------------------------------------------
(* Type correctness                                                        *)

\* What TypeOK says of the loaded rules.
RulesTyped ==
    /\ defs \in Generations
    /\ rules \in [{d.id : d \in defs} -> InstanceState]
    /\ \A id \in DOMAIN rules : rules[id].def \in defs /\ rules[id].def.id = id

\* What is loaded is a trigger of a rule, under the rule's id.
LEMMA LoadedPairs == RulesTyped => RulesOK /\ Loaded \subseteq Pairs
  <1>. SUFFICES ASSUME RulesTyped PROVE RulesOK /\ Loaded \subseteq Pairs
    OBVIOUS
  <1>1. RulesOK
    BY DEF RulesTyped, RulesOK
  <1>2. ASSUME NEW id \in DOMAIN rules, NEW t \in rules[id].def.triggers PROVE <<id, t>> \in Pairs
    BY TriggersOf, RulesOf DEF RulesTyped
  <1>. QED BY <1>1, <1>2 DEF Loaded

\* The poller's steps keep its own variables' types.
LEMMA PollerTypes ==
    ASSUME PollerTypeOK
    PROVE  /\ BeginCycle \/ PollEntity => PollerTypeOK'
           /\ \A adopted \in SUBSET Entities : SetTargets(adopted) => PollerTypeOK'
           /\ PollerRestart => PollerTypeOK'
  <1>1. ASSUME BeginCycle PROVE PollerTypeOK'
    BY <1>1 DEF BeginCycle, PollerTypeOK
  <1>2. ASSUME NEW e \in cycle, NEW s \in States, cycle' = cycle \ {e},
               prev' = [prev EXCEPT ![e] = s], targets' = targets,
               IF prev[e] = s THEN UNCHANGED <<channel, overtaken>>
               ELSE Send([entity |-> e, state |-> s, changed |-> prev[e] # Unknown])
        PROVE  PollerTypeOK'
    <2> DEFINE obs == [entity |-> e, state |-> s, changed |-> prev[e] # Unknown]
    <2>1. e \in Entities
      BY DEF PollerTypeOK
    <2>2. obs \in Observation
      <3>1. (prev[e] # Unknown) \in BOOLEAN
        OBVIOUS
      <3>. QED BY <2>1, <3>1 DEF Observation
    <2>3. Room \in Seq(Observation) /\ Len(Room) < ChanSize
      BY DEF Room, PollerTypeOK
    <2>. HIDE DEF obs
    <2>4. Send(obs) => channel' \in Seq(Observation) /\ Len(channel') <= ChanSize
      BY <2>2, <2>3 DEF Send
    <2>5. Send(obs) => overtaken' \subseteq Entities
      BY DEF Send, CostOfRoom, PollerTypeOK
    <2>6. prev' \in [Entities -> States \cup {Unknown}] /\ targets' \subseteq Entities /\ cycle' \subseteq Entities
      BY <1>2, <2>1 DEF PollerTypeOK
    <2>7. CASE prev[e] = s
      BY <1>2, <2>6, <2>7 DEF PollerTypeOK
    <2>8. CASE prev[e] # s
      BY <1>2, <2>4, <2>5, <2>6, <2>8 DEF PollerTypeOK, obs
    <2>. QED BY <2>7, <2>8
  <1>3. ASSUME PollEntity PROVE PollerTypeOK'
    BY <1>2, <1>3 DEF PollEntity
  <1>4. ASSUME NEW adopted \in SUBSET Entities, SetTargets(adopted) PROVE PollerTypeOK'
    BY <1>4 DEF SetTargets, PollerTypeOK
  <1>5. ASSUME PollerRestart PROVE PollerTypeOK'
    BY <1>5 DEF PollerRestart, PollerTypeOK
  <1>. QED BY <1>1, <1>3, <1>4, <1>5

LEMMA TypeInit == Init => TypeOK
  <1>. SUFFICES ASSUME Init PROVE TypeOK
    OBVIOUS
  <1>1. RulesTyped
    BY FreshShape DEF Init, RulesInit, RulesTyped
  <1>2. fresh \subseteq Pairs
    BY <1>1, LoadedPairs DEF Init
  <1>3. PollerTypeOK
    BY DEF Init, PollerInit, PollerTypeOK
  <1>4. snap \in [Entities -> States \cup {Unknown}] /\ view \in [Entities -> States \cup {Unknown}]
    BY DEF Init, RulesInit
  <1>5. wall \in 1..MaxWall /\ lastTick \in 0..MaxWall /\ floor \in 1..MaxWall
    BY DEF Init, RulesInit
  <1>6. loops \in [run : BOOLEAN, tick : BOOLEAN] /\ left \in 0..MaxDisturbances /\ storeErr \in BOOLEAN
    <2>1. loops = [run |-> TRUE, tick |-> TRUE] /\ left = MaxDisturbances /\ storeErr = FALSE
      BY DEF Init
    <2>2. loops \in [run : BOOLEAN, tick : BOOLEAN]
      BY <2>1
    <2>3. left \in 0..MaxDisturbances
      BY <2>1
    <2>. QED BY <2>1, <2>2, <2>3
  <1>7. since \in [Entities -> 0..MaxHold] /\ quiet \in [Entities -> 0..MaxHold]
    BY DEF Init
  <1>8. raised = {} /\ spent = {} /\ hand = None
    BY DEF Init
  <1>. QED BY <1>1, <1>2, <1>3, <1>4, <1>5, <1>6, <1>7, <1>8 DEF TypeOK, RulesTyped

\* The rules that stay loaded keep their definitions, and the loaded triggers.
LEMMA SameLoaded ==
    ASSUME RulesTyped, SameRules, defs' = defs
    PROVE  RulesTyped' /\ Loaded' = Loaded
  <1>1. DOMAIN rules' = DOMAIN rules /\ \A id \in DOMAIN rules : rules'[id].def = rules[id].def
    BY DEF SameRules
  <1>2. RulesTyped'
    <2>1. DOMAIN rules = {d.id : d \in defs}
      BY DEF RulesTyped
    <2>2. rules' \in [{d.id : d \in defs'} -> InstanceState]
      BY <2>1 DEF SameRules
    <2>3. \A id \in DOMAIN rules' : rules'[id].def \in defs' /\ rules'[id].def.id = id
      BY <1>1 DEF RulesTyped
    <2>. QED BY <2>2, <2>3 DEF RulesTyped
  <1>. QED BY <1>1, <1>2 DEF Loaded

\* Poll, the device sets, the receiving of an observation, and what only notes a fault.
LEMMA QuietTypes ==
    ASSUME TypeOK, Poll \/ InstallDevices \/ Receive \/ BufferFails \/ CorrectClock
    PROVE  TypeOK'
  <1>1. RulesTyped /\ PollerTypeOK
    BY DEF TypeOK, RulesTyped
  <1>2. UNCHANGED <<rules, defs, snap, view, lastTick, floor, loops, spent, fresh, since, quiet>> /\ raised' = {}
    BY DEF Poll, InstallDevices, Receive, BufferFails, CorrectClock, StepClock, engineVars, hostVars
  <1>3. RulesTyped'
    BY <1>1, <1>2 DEF RulesTyped
  <1>4. PollerTypeOK'
    <2>1. CASE Poll
      BY <1>1, <2>1, PollerTypes DEF Poll
    <2>2. CASE InstallDevices
      BY <1>1, <2>2, PollerTypes DEF InstallDevices
    <2>3. CASE Receive
      BY <1>1, <2>3 DEF Receive, PollerTypeOK
    <2>4. CASE BufferFails \/ CorrectClock
      BY <1>1, <2>4 DEF BufferFails, CorrectClock, pollerVars, PollerTypeOK
    <2>. QED BY <2>1, <2>2, <2>3, <2>4
  <1>5. hand' \in Observation \cup {None}
    <2>1. CASE Receive
      <3>1. channel \in Seq(Observation) /\ channel # <<>>
        BY <1>1, <2>1 DEF Receive, PollerTypeOK
      <3>. QED BY <2>1, <3>1 DEF Receive
    <2>2. CASE ~Receive
      BY <2>2 DEF TypeOK, Poll, InstallDevices, BufferFails, CorrectClock, hostVars
    <2>. QED BY <2>1, <2>2
  <1>6. left' \in 0..MaxDisturbances /\ storeErr' \in BOOLEAN /\ wall' \in 1..MaxWall
    <2>. left \in 0..MaxDisturbances /\ storeErr \in BOOLEAN /\ wall \in 1..MaxWall
      BY DEF TypeOK
    <2>1. CASE Poll \/ Receive
      BY <2>1 DEF Poll, Receive, hostVars, engineVars
    <2>2. CASE InstallDevices
      BY <2>2 DEF InstallDevices, Disturb, engineVars
    <2>3. CASE BufferFails
      BY <2>3 DEF BufferFails, Disturb, engineVars
    <2>4. CASE CorrectClock
      BY <2>4 DEF CorrectClock, StepClock, Disturb
    <2>. QED BY <2>1, <2>2, <2>3, <2>4
  <1>. QED BY <1>2, <1>3, <1>4, <1>5, <1>6 DEF TypeOK, RulesTyped

\* What the loops raise is loaded.
LEMMA RaisedLoaded ==
    /\ \A obs : RaisedBy(obs) \subseteq Loaded
    /\ RaisedByTick \subseteq Loaded
    /\ \A x \in RaisedBySchedule : x[1] \in DOMAIN rules /\ x[2] \in rules[x[1]].def.triggers /\ x[3] \in ScheduleFires(x[2])
  <1>1. \A x \in RaisedBySchedule : \E y \in Loaded : \E w \in ScheduleFires(y[2]) : x = <<y[1], y[2], w>>
    BY DEF RaisedBySchedule
  <1>. QED BY <1>1, LoadedIs DEF RaisedBy, RaisedByTick

LEMMA LoopTypes ==
    ASSUME TypeOK, Observe \/ Tick \/ Elapse
    PROVE  TypeOK'
  <1>1. RulesTyped /\ RulesOK /\ PollerTypeOK /\ Loaded \subseteq Pairs
    BY LoadedPairs DEF TypeOK, RulesTyped
  <1>2. defs' = defs /\ UNCHANGED pollerVars /\ PollerTypeOK'
    BY <1>1 DEF Observe, Tick, Elapse, hostVars, pollerVars, PollerTypeOK
  <1>3. SameRules
    <2>1. CASE Observe
      <3>1. hand \in Observation
        BY <2>1 DEF Observe, TypeOK
      <3>. QED BY <1>1, <2>1, <3>1, ObserveEvolves DEF Observe, Evolves
    <2>2. CASE Tick
      BY <1>1, <2>2, TickEvolves DEF Tick, Evolves
    <2>3. CASE Elapse
      BY <1>1, <2>3, ElapseEvolves DEF Elapse, Evolves
    <2>. QED BY <2>1, <2>2, <2>3
  <1>4. RulesTyped'
    BY <1>1, <1>2, <1>3, SameLoaded
  <1>5. raised' \subseteq Pairs
    <2>1. raised' \subseteq Loaded
      BY RaisedLoaded DEF Observe, Tick, Elapse
    <2>. QED BY <1>1, <2>1
  <1>6. spent' \subseteq Pairs /\ fresh' \subseteq Pairs
    <2>1. CASE Observe
      BY <1>5, <2>1 DEF TypeOK, Observe
    <2>2. CASE Tick
      BY <1>5, <2>2 DEF TypeOK, Tick
    <2>3. CASE Elapse
      BY <2>3 DEF TypeOK, Elapse
    <2>. QED BY <2>1, <2>2, <2>3
  <1>7. left' \in 0..MaxDisturbances /\ storeErr' \in BOOLEAN
    <2>. left \in 0..MaxDisturbances /\ storeErr \in BOOLEAN
      BY DEF TypeOK
    <2>1. CASE Observe
      <3>1. PICK failed \in BOOLEAN : Recorded(raised', snap', failed)
        BY <2>1 DEF Observe
      <3>2. left' = left \/ Disturb
        BY <3>1 DEF Recorded
      <3>3. storeErr' \in BOOLEAN
        BY <2>1 DEF Observe
      <3>. QED BY <3>2, <3>3 DEF Disturb
    <2>2. CASE Tick
      <3>1. PICK failed \in BOOLEAN : Recorded(raised' \cup RaisedBySchedule, snap, failed)
        BY <2>2 DEF Tick
      <3>2. left' = left \/ Disturb
        BY <3>1 DEF Recorded
      <3>3. storeErr' \in BOOLEAN
        BY <2>2 DEF Tick
      <3>. QED BY <3>2, <3>3 DEF Disturb
    <2>3. CASE Elapse
      BY <2>3 DEF Elapse, hostVars
    <2>. QED BY <2>1, <2>2, <2>3
  <1>8. loops' \in [run : BOOLEAN, tick : BOOLEAN]
    <2>1. CASE Observe
      <3>1. \E b \in BOOLEAN : loops' = [loops EXCEPT !.run = b]
        BY <2>1 DEF Observe, RunSurvives
      <3>. QED BY <3>1 DEF TypeOK
    <2>2. CASE Tick
      <3>1. loops' = [loops EXCEPT !.tick = loops.tick]
        BY <2>2 DEF Tick, TickSurvives
      <3>. QED BY <3>1 DEF TypeOK
    <2>3. CASE Elapse
      BY <2>3 DEF TypeOK, Elapse, hostVars
    <2>. QED BY <2>1, <2>2, <2>3
  <1>9. since' \in [Entities -> 0..MaxHold] /\ quiet' \in [Entities -> 0..MaxHold]
    <2>. since \in [Entities -> 0..MaxHold] /\ quiet \in [Entities -> 0..MaxHold] /\ 0 \in 0..MaxHold
      BY DEF TypeOK
    <2>1. CASE Observe
      <3>1. \E m, n \in 0..MaxHold : /\ since' = [since EXCEPT ![hand.entity] = m]
                                     /\ quiet' = [quiet EXCEPT ![hand.entity] = n]
        <4>1. hand.entity \in Entities
          BY <2>1 DEF Observe, TypeOK, Observation
        <4>2. since[hand.entity] \in 0..MaxHold /\ quiet[hand.entity] \in 0..MaxHold
          BY <4>1
        <4>. QED BY <2>1, <4>2 DEF Observe
      <3>. QED BY <3>1
    <2>2. CASE Tick
      BY <2>2 DEF Tick
    <2>3. CASE Elapse
      BY <2>3 DEF Elapse
    <2>. QED BY <2>1, <2>2, <2>3
  <1>10. hand' \in Observation \cup {None}
    BY DEF TypeOK, Observe, Tick, Elapse, hostVars
  <1>11. snap' \in [Entities -> States \cup {Unknown}] /\ view' \in [Entities -> States \cup {Unknown}]
    <2>1. CASE Observe
      <3>1. hand \in Observation
        BY <2>1 DEF Observe, TypeOK
      <3>2. hand.entity \in Entities /\ hand.state \in States
        BY <3>1 DEF Observation
      <3>. QED BY <2>1, <3>2 DEF TypeOK, Observe, ObserveRules
    <2>2. CASE Tick \/ Elapse
      BY <2>2 DEF TypeOK, Tick, Elapse, TickRules, ElapseRules, hostVars
    <2>. QED BY <2>1, <2>2
  <1>12. wall' \in 1..MaxWall /\ lastTick' \in 0..MaxWall /\ floor' \in 1..MaxWall
    <2>1. CASE Observe
      BY <2>1 DEF TypeOK, Observe, ObserveRules
    <2>2. CASE Tick
      BY <2>2 DEF TypeOK, Tick, TickRules, TickCursor
    <2>3. CASE Elapse
      BY <2>3 DEF TypeOK, Elapse, ElapseRules
    <2>. QED BY <2>1, <2>2, <2>3
  <1>. QED BY <1>2, <1>4, <1>5, <1>6, <1>7, <1>8, <1>9, <1>10, <1>11, <1>12 DEF TypeOK, RulesTyped

LEMMA GenerationTypes ==
    ASSUME TypeOK, ApplyGeneration
    PROVE  TypeOK'
  <1>1. PICK g \in Generations : ApplyRules(g) /\ defs' = g
    BY DEF ApplyGeneration
  <1>2. RulesTyped /\ RulesOK /\ PollerTypeOK
    BY LoadedPairs DEF TypeOK, RulesTyped
  <1>3. \A id \in DOMAIN rules : rules[id].def.id = id
    BY <1>2 DEF RulesTyped
  <1>4. RulesTyped'
    BY <1>1, <1>2, <1>3, GenerationEvolves DEF RulesTyped
  <1>5. fresh' \subseteq Pairs
    <2>1. fresh' \subseteq Loaded'
      BY DEF ApplyGeneration
    <2>2. Loaded' \subseteq Pairs
      <3>1. ASSUME NEW id \in DOMAIN rules', NEW t \in rules'[id].def.triggers PROVE <<id, t>> \in Pairs
        BY <1>4, TriggersOf, RulesOf DEF RulesTyped
      <3>. QED BY <3>1 DEF Loaded
    <2>. QED BY <2>1, <2>2
  <1>6. PollerTypeOK'
    BY <1>2 DEF ApplyGeneration, pollerVars, PollerTypeOK
  <1>7. left' \in 0..MaxDisturbances
    BY DEF TypeOK, ApplyGeneration, Disturb
  <1>8. UNCHANGED <<snap, wall, lastTick, floor, hand, view, loops, storeErr, since, quiet, spent>> /\ raised' = {}
    BY <1>1 DEF ApplyGeneration, ApplyRules
  <1>. QED BY <1>4, <1>5, <1>6, <1>7, <1>8 DEF TypeOK, RulesTyped

LEMMA RestartTypes ==
    ASSUME TypeOK, Restart
    PROVE  TypeOK'
  <1>1. RulesTyped'
    BY FreshShape DEF TypeOK, Restart, BootRules, RulesTyped
  <1>2. fresh' \subseteq Pairs
    <2>1. ASSUME NEW id \in DOMAIN rules', NEW t \in rules'[id].def.triggers PROVE <<id, t>> \in Pairs
      BY <1>1, TriggersOf, RulesOf DEF RulesTyped
    <2>. QED BY <2>1 DEF Loaded, Restart
  <1>3. PollerTypeOK'
    BY PollerTypes DEF Restart, TypeOK
  <1>4. left' \in 0..MaxDisturbances
    BY DEF TypeOK, Restart, Disturb
  <1>5. snap' \in [Entities -> States \cup {Unknown}] /\ view' \in [Entities -> States \cup {Unknown}]
    BY DEF Restart, BootRules
  <1>6. wall' \in 1..MaxWall /\ lastTick' \in 0..MaxWall /\ floor' \in 1..MaxWall
    BY DEF Restart, BootRules
  <1>7. loops' \in [run : BOOLEAN, tick : BOOLEAN]
    BY DEF Restart
  <1>8. since' \in [Entities -> 0..MaxHold] /\ quiet' \in [Entities -> 0..MaxHold]
    BY DEF Restart
  <1>9. storeErr' \in BOOLEAN /\ hand' = None /\ raised' = {} /\ spent' = {}
    BY DEF Restart
  <1>. QED BY <1>1, <1>2, <1>3, <1>4, <1>5, <1>6, <1>7, <1>8, <1>9 DEF TypeOK, RulesTyped

LEMMA TypeInductive == TypeOK /\ [Next]_vars => TypeOK'
  <1>. SUFFICES ASSUME TypeOK, [Next]_vars PROVE TypeOK'
    OBVIOUS
  <1>1. CASE Poll \/ InstallDevices \/ Receive \/ BufferFails \/ CorrectClock
    BY <1>1, QuietTypes
  <1>2. CASE Observe \/ Tick \/ Elapse
    BY <1>2, LoopTypes
  <1>3. CASE ApplyGeneration
    BY <1>3, GenerationTypes
  <1>4. CASE Restart
    BY <1>4, RestartTypes
  <1>5. CASE UNCHANGED vars
    <2>1. PollerTypeOK'
      BY <1>5 DEF TypeOK, PollerTypeOK, vars, pollerVars
    <2>2. UNCHANGED <<engineVars, hostVars, historyVars>>
      BY <1>5 DEF vars
    <2>. QED BY <2>1, <2>2 DEF TypeOK, engineVars, hostVars, historyVars
  <1>. QED BY <1>1, <1>2, <1>3, <1>4, <1>5 DEF Next

\* Every variable of the poller, the engine and the host keeps its type, every
\* loaded instance its rule's shape, and no age of a hold passes the longest span.
THEOREM TypeCorrect == Spec => []TypeOK
  <1>. QED BY TypeInit, TypeInductive, PTL DEF Spec

-----------------------------------------------------------------------------
(* A schedule's occurrence is dispatched once                              *)

\* No dispatched occurrence is ahead of the cursor.
OnceInv == twice = {} /\ \A x \in once : x[3] \in 0..lastTick

\* What a tick dispatches is ahead of the cursor it finds and not of the one it leaves.
LEMMA DispatchedIsNext ==
    ASSUME TypeOK, TickRules, NEW x \in RaisedBySchedule
    PROVE  x[3] \in Nat /\ lastTick < x[3] /\ x[3] <= lastTick'
  <1>1. x[1] \in DOMAIN rules /\ x[2] \in rules[x[1]].def.triggers /\ x[3] \in ScheduleFires(x[2])
    BY RaisedLoaded
  <1>2. x[2].at \subseteq Nat /\ (x[2].at # {} => x[2].kind = "time")
    BY <1>1, TriggersOf, RulesOf DEF TypeOK
  <1>3. x[3] \in Due(x[2])
    BY <1>1 DEF ScheduleFires, Missed
  <1>4. x[3] \in Nat /\ TickFrom < x[3] /\ x[3] <= wall /\ x[2].kind = "time"
    BY <1>2, <1>3 DEF Due
  <1>5. HasSchedule
    BY <1>1, <1>4 DEF HasSchedule
  <1>6. lastTick \in Nat /\ floor \in Nat /\ wall \in Nat
    BY DEF TypeOK
  <1>7. lastTick < x[3]
    BY <1>4, <1>6 DEF TickFrom
  <1>. QED BY <1>4, <1>5, <1>6, <1>7 DEF TickRules, TickCursor

LEMMA OnceInductive == TypeOK /\ OnceInv /\ [Next]_vars => OnceInv'
  <1>. SUFFICES ASSUME TypeOK, OnceInv, [Next]_vars PROVE OnceInv'
    OBVIOUS
  <1>1. CASE Tick
    <2>1. \A x \in RaisedBySchedule : x[3] \in Nat /\ lastTick < x[3] /\ x[3] <= lastTick'
      BY <1>1, DispatchedIsNext DEF Tick
    <2>2. lastTick \in Nat /\ lastTick' \in Nat /\ lastTick <= lastTick'
      BY <1>1 DEF Tick, TickRules, TickCursor, TypeOK
    <2>3. once \cap RaisedBySchedule = {}
      BY <2>1, <2>2 DEF OnceInv
    <2>. QED BY <1>1, <2>1, <2>2, <2>3 DEF Tick, OnceInv
  <1>2. CASE Restart
    BY <1>2 DEF Restart, OnceInv
  <1>3. CASE Poll \/ InstallDevices \/ Receive \/ Observe \/ Elapse \/ CorrectClock \/ BufferFails
               \/ ApplyGeneration \/ UNCHANGED vars
    <2>1. UNCHANGED <<once, twice, lastTick>>
      BY <1>3 DEF Poll, InstallDevices, Receive, Observe, ObserveRules, Elapse, ElapseRules, CorrectClock,
                  StepClock, BufferFails, ApplyGeneration, ApplyRules, engineVars, vars, historyVars
    <2>. QED BY <2>1 DEF OnceInv
  <1>. QED BY <1>1, <1>2, <1>3 DEF Next

\* However often the clock is corrected, forward or back, and whatever is edited
\* between two ticks, no occurrence is dispatched twice in the life of a process:
\* the cursor of dispatchSchedule only moves forward, and what is due is beyond it.
THEOREM OccurrencesOnce == Spec => []OncePerInstant
  <1>1. Init => OnceInv
    BY DEF Init, OnceInv
  <1>2. OnceInv => OncePerInstant
    BY DEF OnceInv, OncePerInstant
  <1>. QED BY <1>1, <1>2, OnceInductive, TypeCorrect, PTL DEF Spec

-----------------------------------------------------------------------------
(* An edit swallows no transition                                          *)

\* What a trigger remembers, once it has seen anything, is what slides are told.
BaseInv ==
    \A id \in DOMAIN rules : \A t \in rules[id].def.triggers :
        t.kind = "state" /\ <<id, t>> \notin fresh =>
            rules[id].trig[t].seen /\ rules[id].trig[t].base = view[t.entity]

\* What an observation, a tick and a unit of time leave of what a trigger remembers.
LEMMA Remembers ==
    ASSUME NEW t \in AllTriggers, NEW rt \in RuntimeState
    PROVE  /\ \A obs \in Observation :
                 IF Concerns(t, obs)
                 THEN Observed(t, rt, obs).seen /\ Observed(t, rt, obs).base = obs.state
                 ELSE Observed(t, rt, obs) = rt
           /\ Ticked(t, rt).seen = rt.seen /\ Ticked(t, rt).base = rt.base
           /\ Aged(t, rt).seen = rt.seen /\ Aged(t, rt).base = rt.base
  <1>1. ASSUME NEW obs \in Observation
        PROVE  IF Concerns(t, obs)
               THEN Observed(t, rt, obs).seen /\ Observed(t, rt, obs).base = obs.state
               ELSE Observed(t, rt, obs) = rt
    <2>1. \A r \in RuntimeState : [r EXCEPT !.seen = TRUE, !.base = obs.state].seen
                                /\ [r EXCEPT !.seen = TRUE, !.base = obs.state].base = obs.state
      BY DEF RuntimeState
    <2>2. Seeded(t, rt, obs) \in RuntimeState /\ RawOf(t, rt, obs) \in BOOLEAN
      BY ObservedType, SignalsType
    <2>3. AfterHold(t, Seeded(t, rt, obs), RawOf(t, rt, obs)) \in RuntimeState
      BY <2>2, HoldStep
    <2>. QED BY <2>1, <2>3 DEF Observed
  <1>4. Ticked(t, rt).seen = rt.seen /\ Ticked(t, rt).base = rt.base
    <2>1. SteadyRaw(t, rt) \in BOOLEAN
      BY DEF SteadyRaw
    <2>2. /\ AfterHold(t, rt, SteadyRaw(t, rt)).seen = rt.seen
          /\ AfterHold(t, rt, SteadyRaw(t, rt)).base = rt.base
      BY <2>1, HoldKeeps
    <2>. QED BY <2>2 DEF Ticked
  <1>5. Aged(t, rt).seen = rt.seen /\ Aged(t, rt).base = rt.base
    BY DEF Aged, RuntimeState
  <1>. QED BY <1>1, <1>4, <1>5

LEMMA BaseInductive == TypeOK /\ BaseInv /\ [Next]_vars => BaseInv'
  <1>. SUFFICES ASSUME TypeOK, BaseInv, [Next]_vars PROVE BaseInv'
    OBVIOUS
  <1>1. RulesTyped /\ RulesOK
    BY LoadedPairs DEF TypeOK, RulesTyped
  <1>2. ASSUME NEW id \in DOMAIN rules, NEW t \in rules[id].def.triggers
        PROVE  rules[id].trig[t] \in RuntimeState /\ t \in AllTriggers
    BY <1>1, InstanceShape, TriggersOf DEF RulesOK
  <1>3. CASE Observe
    <2>1. hand \in Observation
      BY <1>3 DEF Observe, TypeOK
    <2>2. Evolves(LAMBDA t, rt : Observed(t, rt, hand))
      BY <1>1, <1>3, <2>1, ObserveEvolves DEF Observe
    <2>3. DOMAIN rules' = DOMAIN rules /\ \A id \in DOMAIN rules : rules'[id].def = rules[id].def
      BY <2>2 DEF Evolves, SameRules
    <2>4. hand.entity \in Entities /\ view' = [view EXCEPT ![hand.entity] = hand.state]
          /\ fresh' = {x \in fresh : x[2].entity # hand.entity} /\ view \in [Entities -> States \cup {Unknown}]
      BY <1>3, <2>1 DEF Observe, Observation, TypeOK
    <2>. SUFFICES ASSUME NEW id \in DOMAIN rules, NEW t \in rules[id].def.triggers,
                         t.kind = "state", <<id, t>> \notin fresh'
                  PROVE  rules'[id].trig[t].seen /\ rules'[id].trig[t].base = view'[t.entity]
      BY <2>3 DEF BaseInv
    <2>5. rules'[id].trig[t] = Observed(t, rules[id].trig[t], hand)
      BY <2>2 DEF Evolves
    <2>6. CASE t.entity = hand.entity
      BY <1>2, <2>1, <2>4, <2>5, <2>6, Remembers DEF Concerns
    <2>7. CASE t.entity # hand.entity
      <3>1. <<id, t>> \notin fresh
        BY <2>4, <2>7
      <3>2. rules'[id].trig[t] = rules[id].trig[t]
        BY <1>2, <2>1, <2>5, <2>7, Remembers DEF Concerns
      <3>3. view'[t.entity] = view[t.entity]
        BY <2>4, <2>7
      <3>. QED BY <3>1, <3>2, <3>3 DEF BaseInv
    <2>. QED BY <2>6, <2>7
  <1>4. CASE Tick \/ Elapse
    <2>1. UNCHANGED <<view, fresh>>
      BY <1>4 DEF Tick, Elapse, hostVars
    <2>2. Evolves(LAMBDA t, rt : Ticked(t, rt)) \/ Evolves(LAMBDA t, rt : Aged(t, rt))
      BY <1>1, <1>4, TickEvolves, ElapseEvolves DEF Tick, Elapse
    <2>3. DOMAIN rules' = DOMAIN rules /\ \A id \in DOMAIN rules : rules'[id].def = rules[id].def
      BY <2>2 DEF Evolves, SameRules
    <2>4. ASSUME NEW id \in DOMAIN rules, NEW t \in rules[id].def.triggers
          PROVE  /\ rules'[id].trig[t].seen = rules[id].trig[t].seen
                 /\ rules'[id].trig[t].base = rules[id].trig[t].base
      <3>1. rules'[id].trig[t] \in {Ticked(t, rules[id].trig[t]), Aged(t, rules[id].trig[t])}
        BY <2>2 DEF Evolves
      <3>. QED BY <1>2, <3>1, Remembers
    <2>. QED BY <2>1, <2>3, <2>4 DEF BaseInv
  <1>5. CASE ApplyGeneration
    <2>1. PICK g \in Generations : ApplyRules(g)
      BY <1>5 DEF ApplyGeneration
    <2>2. \A id \in DOMAIN rules : rules[id].def.id = id
      BY <1>1 DEF RulesTyped
    <2>3. \A id \in DOMAIN rules' : \A t \in rules'[id].def.triggers :
             id \in DOMAIN rules /\ t \in rules[id].def.triggers => rules'[id].trig[t] = rules[id].trig[t]
      BY <1>1, <2>1, <2>2, GenerationEvolves
    <2>4. view' = view /\ fresh' = {x \in Loaded' : x \in fresh \/ x \notin Loaded}
      BY <1>5 DEF ApplyGeneration
    <2>. SUFFICES ASSUME NEW id \in DOMAIN rules', NEW t \in rules'[id].def.triggers,
                         t.kind = "state", <<id, t>> \notin fresh'
                  PROVE  rules'[id].trig[t].seen /\ rules'[id].trig[t].base = view'[t.entity]
      BY DEF BaseInv
    <2>5. <<id, t>> \in Loaded'
      BY DEF Loaded
    <2>6. <<id, t>> \in Loaded /\ <<id, t>> \notin fresh
      BY <2>4, <2>5
    <2>7. id \in DOMAIN rules /\ t \in rules[id].def.triggers
      BY <2>6, LoadedIs
    <2>. QED BY <2>3, <2>4, <2>6, <2>7 DEF BaseInv
  <1>6. CASE Restart
    <2>1. \A id \in DOMAIN rules' : \A t \in rules'[id].def.triggers : <<id, t>> \in fresh'
      BY <1>6 DEF Restart, Loaded
    <2>. QED BY <2>1 DEF BaseInv
  <1>7. CASE Poll \/ InstallDevices \/ Receive \/ CorrectClock \/ BufferFails \/ UNCHANGED vars
    <2>1. UNCHANGED <<rules, view, fresh>>
      BY <1>7 DEF Poll, InstallDevices, Receive, CorrectClock, StepClock, BufferFails,
                  engineVars, hostVars, historyVars, vars
    <2>. QED BY <2>1 DEF BaseInv
  <1>. QED BY <1>3, <1>4, <1>5, <1>6, <1>7 DEF Next

\* Only Observe delivers: a restart forgets what it had in hand.
LEMMA OnlyObserveDelivers == TypeOK /\ [Next]_vars /\ Delivered => Observe
  <1>. SUFFICES ASSUME TypeOK, [Next]_vars, Delivered PROVE Observe
    OBVIOUS
  <1>1. hand \in Observation /\ hand # None /\ hand' = None
    BY DEF Delivered, TypeOK
  <1>2. ~Restart
    <2>1. hand.entity \in Entities /\ hand.state \in States
      BY <1>1 DEF Observation
    <2>2. Restart => view'[hand.entity] = Unknown
      BY <2>1 DEF Restart
    <2>. QED BY <2>1, <2>2 DEF Delivered
  <1>. QED BY <1>1, <1>2 DEF Next, Poll, InstallDevices, Receive, Tick, Elapse, CorrectClock, BufferFails,
                             ApplyGeneration, hostVars, vars

\* Whatever else of its rule an edit changes, a trigger it left alone keeps what it
\* last saw, so the next transition fires it when it matches and only then
\* (carryUnchangedTriggers).
THEOREM EditsKeepTriggers == Spec => EditsSwallowNothing
  <1>1. Init => BaseInv
    BY LoadedIs DEF Init, BaseInv
  <1>2. TypeOK /\ BaseInv /\ [Next]_vars =>
          (Delivered => \A x \in Loaded \ fresh : x[2].hold = 0 => (x \in raised' <=> Matches(x[2], hand)))
    <2>. SUFFICES ASSUME TypeOK, BaseInv, [Next]_vars, Delivered, NEW x \in Loaded \ fresh, x[2].hold = 0
                  PROVE  x \in raised' <=> Matches(x[2], hand)
      OBVIOUS
    <2>1. Observe
      BY OnlyObserveDelivers
    <2>2. PICK id \in DOMAIN rules : \E t \in rules[id].def.triggers : x = <<id, t>>
      BY LoadedIs
    <2>3. PICK t \in rules[id].def.triggers : x = <<id, t>>
      BY <2>2
    <2>4. x \in raised' <=> FiresOn(t, rules[id].trig[t], hand)
      BY <2>1, <2>3 DEF Observe, RaisedBy, Runtime
    <2>5. Concerns(t, hand) => rules[id].trig[t].seen /\ rules[id].trig[t].base = view[hand.entity]
      BY <2>3 DEF BaseInv, Concerns
    <2>6. FiresOn(t, rules[id].trig[t], hand) <=> Concerns(t, hand) /\ Edge(t, rules[id].trig[t], hand)
      BY <2>3 DEF FiresOn
    <2>. QED BY <2>3, <2>4, <2>5, <2>6 DEF Edge, Matches
  <1>. QED BY <1>1, <1>2, BaseInductive, TypeCorrect, PTL DEF Spec, EditsSwallowNothing

-----------------------------------------------------------------------------
(* Holds are honest                                                        *)

\* What a hold knows of the entity it is about, whose state is s, has been for m
\* units, and was last observed to change q units ago.
HoldOK(t, rt, s, m, q) ==
    /\ ~rt.seen => ~rt.armed /\ ~rt.level
    /\ rt.seen => t.kind = "state" /\ t.entity \in Entities
    /\ Bounded(t) => /\ rt.level => LevelHolds(t, s)
                     /\ rt.armed => rt.level /\ t.to # Any /\ rt.age <= m
                     /\ t.to = Any /\ rt.seen => rt.level
    /\ ~Bounded(t) /\ rt.armed => rt.age <= q

\* A hold that has fired since its level was entered, or its entity changed, waits
\* for the next time.
SpentOK(t, rt) ==
    IF Bounded(t) THEN (rt.seen => rt.level) /\ (rt.armed => rt.fired) ELSE ~rt.armed

HoldInv ==
    \A id \in DOMAIN rules : \A t \in rules[id].def.triggers : t.hold > 0 =>
        /\ HoldOK(t, rules[id].trig[t], view[t.entity], since[t.entity], quiet[t.entity])
        /\ <<id, t>> \in spent => SpentOK(t, rules[id].trig[t])

\* The fields of a runtime.
LEMMA Fields ==
    ASSUME NEW rt \in RuntimeState
    PROVE  /\ rt.seen \in BOOLEAN /\ rt.level \in BOOLEAN /\ rt.armed \in BOOLEAN /\ rt.fired \in BOOLEAN
           /\ rt.age \in 0..MaxHold
  BY DEF RuntimeState

\* What the first observation of a bounded hold makes of it before the step.
LEMMA SeededFields ==
    ASSUME NEW t, NEW rt \in RuntimeState, NEW obs \in Observation
    PROVE  /\ Seeded(t, rt, obs).seen = rt.seen /\ Seeded(t, rt, obs).armed = rt.armed
           /\ Seeded(t, rt, obs).age = rt.age /\ Seeded(t, rt, obs).fired = rt.fired
           /\ Seeded(t, rt, obs).level = IF rt.seen \/ ~Bounded(t) THEN rt.level ELSE LevelHolds(t, obs.state)
  BY DEF Seeded, RuntimeState

\* What an observation of its entity makes of a hold.
LEMMA ObservedFields ==
    ASSUME NEW t \in AllTriggers, NEW rt \in RuntimeState, NEW obs \in Observation, Concerns(t, obs), t.hold > 0
    PROVE  LET before == Seeded(t, rt, obs)
               raw    == RawOf(t, rt, obs)
               r      == Observed(t, rt, obs)
           IN  /\ r.seen
               /\ r.level = AfterHold(t, before, raw).level /\ r.armed = AfterHold(t, before, raw).armed
               /\ r.age = AfterHold(t, before, raw).age /\ r.fired = AfterHold(t, before, raw).fired
  <1> DEFINE h == AfterHold(t, Seeded(t, rt, obs), RawOf(t, rt, obs))
  <1>1. h \in RuntimeState
    <2>1. Seeded(t, rt, obs) \in RuntimeState /\ RawOf(t, rt, obs) \in BOOLEAN
      BY ObservedType, SignalsType
    <2>. QED BY <2>1, HoldStep
  <1>2. t.hold # 0
    BY TriggersOf DEF AllTriggers
  <1>3. Observed(t, rt, obs) = [h EXCEPT !.seen = TRUE, !.base = obs.state]
    BY <1>2 DEF Observed
  <1>. HIDE DEF h
  <1>4. LET r == [h EXCEPT !.seen = TRUE, !.base = obs.state]
        IN  r.seen /\ r.level = h.level /\ r.armed = h.armed /\ r.age = h.age /\ r.fired = h.fired
    BY <1>1 DEF RuntimeState
  <1>. QED BY <1>3, <1>4 DEF h

\* An observation of its entity: the hold fires when it has been owed, and is left
\* in order.
LEMMA ObserveHold ==
    ASSUME NEW t \in AllTriggers, NEW rt \in RuntimeState, NEW obs \in Observation,
           Concerns(t, obs), t.hold > 0,
           NEW s, NEW m \in 0..MaxHold, NEW q \in 0..MaxHold, HoldOK(t, rt, s, m, q)
    PROVE  LET after == Observed(t, rt, obs)
               fires == FiresOn(t, rt, obs)
               m2    == IF s = obs.state THEN m ELSE 0
               q2    == IF obs.changed THEN 0 ELSE q
           IN  /\ HoldOK(t, after, obs.state, m2, q2)
               /\ fires => /\ ~SpentOK(t, rt) /\ SpentOK(t, after)
                           /\ IF Bounded(t) THEN LevelHolds(t, obs.state) /\ m2 >= t.hold ELSE q2 >= t.hold
               /\ SpentOK(t, rt) /\ (IF Bounded(t) THEN LevelHolds(t, obs.state) ELSE ~obs.changed)
                     => SpentOK(t, after)
  <1> DEFINE before == Seeded(t, rt, obs)
             raw    == RawOf(t, rt, obs)
             r      == Observed(t, rt, obs)
             m2     == IF s = obs.state THEN m ELSE 0
             q2     == IF obs.changed THEN 0 ELSE q
  <1>1. before \in RuntimeState /\ raw \in BOOLEAN
    BY ObservedType, SignalsType
  <1>2. /\ before.seen = rt.seen /\ before.armed = rt.armed /\ before.age = rt.age /\ before.fired = rt.fired
        /\ before.level = IF rt.seen \/ ~Bounded(t) THEN rt.level ELSE LevelHolds(t, obs.state)
    BY SeededFields
  <1>3. LET h == AfterHold(t, before, raw)
        IN  /\ h.level <=> Bounded(t) /\ raw
            /\ h.armed <=> Entered(t, before, raw) \/ (before.armed /\ (Bounded(t) => raw) /\ (Bounded(t) \/ ~HoldFires(t, before, raw)))
            /\ h.age = IF before.armed /\ (Bounded(t) => raw) /\ ~Entered(t, before, raw) THEN before.age ELSE 0
            /\ h.fired <=> /\ before.armed /\ (Bounded(t) => raw) /\ ~Entered(t, before, raw) /\ Bounded(t)
                           /\ before.fired \/ HoldFires(t, before, raw)
    BY <1>1, HoldStep
  <1>4. r.seen /\ LET h == AfterHold(t, before, raw)
                  IN  r.level = h.level /\ r.armed = h.armed /\ r.age = h.age /\ r.fired = h.fired
    BY ObservedFields
  <1>5. FiresOn(t, rt, obs) <=> HoldFires(t, before, raw)
    BY DEF FiresOn
  <1>6. t.kind = "state" /\ t.entity \in Entities /\ t.hold \in Nat /\ m2 \in Nat /\ q2 \in Nat /\ rt.age \in Nat
    BY Fields DEF Concerns, Observation
  <1>7. r \in RuntimeState
    BY ObservedType
  <1>8. CASE Bounded(t)
    <2>1. raw <=> LevelHolds(t, obs.state)
      BY <1>8 DEF RawOf
    <2>. HIDE DEF before, raw, r
    <2>2. HoldFires(t, before, raw) <=> rt.armed /\ ~rt.fired /\ rt.age >= t.hold /\ raw /\ before.level
      BY <1>1, <1>2, <1>8 DEF HoldFires, Entered
    <2>3. Entered(t, before, raw) <=> raw /\ ~before.level
      BY <1>8 DEF Entered
    <2>4. rt.armed => rt.seen /\ rt.level /\ before.level /\ t.to # Any /\ rt.age <= m /\ LevelHolds(t, s)
      BY <1>2, <1>8, Fields DEF HoldOK
    <2>5. raw /\ rt.armed => s = obs.state
      BY <2>1, <2>4 DEF LevelHolds
    <2>6. r.level <=> raw
      BY <1>3, <1>4, <1>7, <1>8, Fields
    <2>7. r.armed <=> raw /\ (~before.level \/ rt.armed)
      BY <1>2, <1>3, <1>4, <1>7, <1>8, <2>3, Fields
    <2>8. r.age = IF rt.armed /\ raw /\ before.level THEN rt.age ELSE 0
      BY <1>2, <1>3, <1>4, <1>8, <2>3
    <2>9. r.fired <=> rt.armed /\ raw /\ before.level /\ (rt.fired \/ HoldFires(t, before, raw))
      BY <1>2, <1>3, <1>4, <1>7, <1>8, <2>3, Fields
    <2>10. t.to = Any => raw /\ before.level
      BY <1>2, <1>8, <2>1 DEF LevelHolds, HoldOK
    <2>11. r.age <= m2
      <3>1. CASE rt.armed /\ raw /\ before.level
        BY <2>4, <2>5, <2>8, <3>1
      <3>2. CASE ~(rt.armed /\ raw /\ before.level)
        BY <1>6, <2>8, <3>2
      <3>. QED BY <3>1, <3>2
    <2>12. HoldOK(t, r, obs.state, m2, q2)
      BY <1>4, <1>6, <1>8, <2>1, <2>4, <2>6, <2>7, <2>10, <2>11 DEF HoldOK
    <2>13. ASSUME FiresOn(t, rt, obs)
           PROVE  ~SpentOK(t, rt) /\ SpentOK(t, r) /\ LevelHolds(t, obs.state) /\ m2 >= t.hold
      <3>1. rt.armed /\ ~rt.fired /\ rt.age >= t.hold /\ raw /\ before.level
        BY <1>5, <2>2, <2>13
      <3>2. m2 >= t.hold
        BY <1>6, <2>4, <2>5, <3>1
      <3>. QED BY <1>5, <1>8, <2>1, <2>6, <2>9, <2>13, <3>1, <3>2 DEF SpentOK
    <2>14. ASSUME SpentOK(t, rt), LevelHolds(t, obs.state) PROVE SpentOK(t, r)
      <3>1. raw /\ before.level /\ (rt.armed => rt.fired)
        BY <1>2, <1>8, <2>1, <2>14 DEF SpentOK
      <3>. QED BY <1>8, <2>6, <2>7, <2>9, <3>1 DEF SpentOK
    <2>. QED BY <1>8, <2>12, <2>13, <2>14 DEF r
  <1>9. CASE ~Bounded(t)
    <2>1. raw <=> rt.seen /\ obs.changed
      BY <1>9 DEF RawOf, Edge, Bounded
    <2>. HIDE DEF before, raw, r
    <2>2. HoldFires(t, before, raw) <=> rt.armed /\ ~rt.fired /\ rt.age >= t.hold /\ ~raw
      BY <1>1, <1>2, <1>9 DEF HoldFires, Entered, Bounded
    <2>3. Entered(t, before, raw) <=> raw
      BY <1>9 DEF Entered
    <2>4. rt.armed => rt.seen /\ rt.age <= q
      BY <1>9 DEF HoldOK
    <2>5. r.armed <=> raw \/ (rt.armed /\ ~HoldFires(t, before, raw))
      BY <1>2, <1>3, <1>4, <1>7, <1>9, <2>3, Fields
    <2>6. r.age = IF rt.armed /\ ~raw THEN rt.age ELSE 0
      BY <1>2, <1>3, <1>4, <1>9, <2>3
    <2>7. rt.armed /\ ~raw => q2 = q
      BY <2>1, <2>4
    <2>8. r.age <= q2
      <3>1. CASE rt.armed /\ ~raw
        BY <2>4, <2>6, <2>7, <3>1
      <3>2. CASE ~(rt.armed /\ ~raw)
        BY <1>6, <2>6, <3>2
      <3>. QED BY <3>1, <3>2
    <2>9. HoldOK(t, r, obs.state, m2, q2)
      BY <1>4, <1>6, <1>9, <2>8 DEF HoldOK
    <2>10. ASSUME FiresOn(t, rt, obs)
           PROVE  ~SpentOK(t, rt) /\ SpentOK(t, r) /\ q2 >= t.hold
      <3>1. rt.armed /\ rt.age >= t.hold /\ ~raw /\ HoldFires(t, before, raw)
        BY <1>5, <2>2, <2>10
      <3>2. q2 >= t.hold
        BY <1>6, <2>4, <2>7, <3>1
      <3>. QED BY <1>9, <2>5, <3>1, <3>2 DEF SpentOK
    <2>11. ASSUME SpentOK(t, rt), ~obs.changed PROVE SpentOK(t, r)
      BY <1>9, <2>1, <2>5, <2>11 DEF SpentOK
    <2>. QED BY <1>9, <2>9, <2>10, <2>11 DEF r
  <1>. QED BY <1>8, <1>9

\* A tick: the same, with the level the hold is at and nothing observed.
LEMMA TickHold ==
    ASSUME NEW t \in AllTriggers, NEW rt \in RuntimeState, t.hold > 0, NEW s, NEW m, NEW q, HoldOK(t, rt, s, m, q),
           t.entity \in Entities => m \in 0..MaxHold /\ q \in 0..MaxHold
    PROVE  LET after == Ticked(t, rt)
               fires == FiresOnTick(t, rt)
           IN  /\ HoldOK(t, after, s, m, q)
               /\ fires => /\ ~SpentOK(t, rt) /\ SpentOK(t, after)
                           /\ IF Bounded(t) THEN LevelHolds(t, s) /\ m >= t.hold ELSE q >= t.hold
               /\ SpentOK(t, rt) => SpentOK(t, after)
  <1> DEFINE raw == SteadyRaw(t, rt)
             r   == AfterHold(t, rt, raw)
  <1>1. raw \in BOOLEAN /\ (raw <=> Bounded(t) /\ rt.level)
    BY DEF SteadyRaw
  <1>2. /\ r \in RuntimeState
        /\ r.level <=> Bounded(t) /\ raw
        /\ r.armed <=> Entered(t, rt, raw) \/ (rt.armed /\ (Bounded(t) => raw) /\ (Bounded(t) \/ ~HoldFires(t, rt, raw)))
        /\ r.age = IF rt.armed /\ (Bounded(t) => raw) /\ ~Entered(t, rt, raw) THEN rt.age ELSE 0
        /\ r.fired <=> /\ rt.armed /\ (Bounded(t) => raw) /\ ~Entered(t, rt, raw) /\ Bounded(t)
                       /\ rt.fired \/ HoldFires(t, rt, raw)
    BY <1>1, HoldStep
  <1>3. r.seen = rt.seen
    BY <1>1, HoldKeeps
  <1>4. Ticked(t, rt) = r
    <2>1. t.hold # 0
      BY TriggersOf DEF AllTriggers
    <2>. QED BY <2>1 DEF Ticked
  <1>5. FiresOnTick(t, rt) <=> HoldFires(t, rt, raw)
    BY DEF FiresOnTick
  <1>6. t.hold \in Nat /\ rt.age \in Nat
    BY Fields
  <1>7. rt.armed => rt.seen /\ t.entity \in Entities
    BY Fields DEF HoldOK
  <1>. HIDE DEF raw, r
  <1>8. ~Entered(t, rt, raw)
    BY <1>1 DEF Entered
  <1>9. CASE Bounded(t)
    <2>1. HoldFires(t, rt, raw) <=> rt.armed /\ ~rt.fired /\ rt.age >= t.hold /\ rt.level
      BY <1>1, <1>8, <1>9 DEF HoldFires
    <2>2. rt.armed => rt.level /\ t.to # Any /\ rt.age <= m
      BY <1>9 DEF HoldOK
    <2>3. r.level <=> rt.level
      BY <1>1, <1>2, <1>9, Fields
    <2>4. r.armed <=> rt.armed
      BY <1>1, <1>2, <1>8, <1>9, <2>2, Fields
    <2>5. rt.armed => r.age = rt.age
      BY <1>1, <1>2, <1>8, <1>9, <2>2
    <2>6. r.fired <=> rt.armed /\ rt.level /\ (rt.fired \/ HoldFires(t, rt, raw))
      BY <1>1, <1>2, <1>8, <1>9, Fields
    <2>7. HoldOK(t, r, s, m, q)
      BY <1>3, <1>9, <2>2, <2>3, <2>4, <2>5 DEF HoldOK
    <2>8. ASSUME FiresOnTick(t, rt)
          PROVE  ~SpentOK(t, rt) /\ SpentOK(t, r) /\ LevelHolds(t, s) /\ m >= t.hold
      <3>1. rt.armed /\ ~rt.fired /\ rt.age >= t.hold /\ rt.level
        BY <1>5, <2>1, <2>8
      <3>2. m >= t.hold
        BY <1>6, <1>7, <2>2, <3>1
      <3>3. LevelHolds(t, s)
        BY <1>9, <3>1 DEF HoldOK
      <3>. QED BY <1>5, <1>9, <2>3, <2>6, <2>8, <3>1, <3>2, <3>3 DEF SpentOK
    <2>9. SpentOK(t, rt) => SpentOK(t, r)
      BY <1>3, <1>9, <2>2, <2>3, <2>4, <2>6 DEF SpentOK
    <2>. QED BY <1>4, <1>9, <2>7, <2>8, <2>9
  <1>10. CASE ~Bounded(t)
    <2>1. HoldFires(t, rt, raw) => rt.armed /\ rt.age >= t.hold
      BY DEF HoldFires
    <2>2. r.armed <=> rt.armed /\ ~HoldFires(t, rt, raw)
      BY <1>2, <1>8, <1>10, Fields
    <2>3. rt.armed => r.age = rt.age /\ rt.age <= q
      BY <1>2, <1>8, <1>10 DEF HoldOK
    <2>4. ~r.level
      BY <1>2, <1>10, Fields
    <2>5. HoldOK(t, r, s, m, q)
      BY <1>3, <1>10, <2>2, <2>3, <2>4 DEF HoldOK
    <2>6. ASSUME FiresOnTick(t, rt) PROVE ~SpentOK(t, rt) /\ SpentOK(t, r) /\ q >= t.hold
      <3>1. rt.armed /\ rt.age >= t.hold /\ HoldFires(t, rt, raw)
        BY <1>5, <2>1, <2>6
      <3>2. q >= t.hold
        BY <1>6, <1>7, <2>3, <3>1
      <3>. QED BY <1>10, <2>2, <3>1, <3>2 DEF SpentOK
    <2>7. SpentOK(t, rt) => SpentOK(t, r)
      BY <1>10, <2>2 DEF SpentOK
    <2>. QED BY <1>4, <1>10, <2>5, <2>6, <2>7
  <1>. QED BY <1>9, <1>10

\* A unit of time: an armed hold ages no faster than what it is about.
LEMMA ElapseHold ==
    ASSUME NEW t \in AllTriggers, NEW rt \in RuntimeState, t.hold \in 0..MaxHold, t.hold > 0,
           NEW s, NEW m, NEW q, HoldOK(t, rt, s, m, q), NEW m2, NEW q2,
           t.entity \in Entities => /\ m \in 0..MaxHold /\ m2 = IF m < MaxHold THEN m + 1 ELSE MaxHold
                                    /\ q \in 0..MaxHold /\ q2 = IF q < MaxHold THEN q + 1 ELSE MaxHold
    PROVE  HoldOK(t, Aged(t, rt), s, m2, q2) /\ (SpentOK(t, rt) => SpentOK(t, Aged(t, rt)))
  <1>1. /\ Aged(t, rt).seen = rt.seen /\ Aged(t, rt).level = rt.level
        /\ Aged(t, rt).armed = rt.armed /\ Aged(t, rt).fired = rt.fired
        /\ Aged(t, rt).age = IF rt.armed /\ rt.age < t.hold THEN rt.age + 1 ELSE rt.age
    BY DEF Aged, RuntimeState
  <1>2. rt.armed => t.entity \in Entities
    BY Fields DEF HoldOK
  <1>3. rt.age \in 0..MaxHold /\ MaxHold \in Nat
    BY Fields
  <1>4. ASSUME rt.armed, NEW n \in 0..MaxHold, rt.age <= n
        PROVE  Aged(t, rt).age <= IF n < MaxHold THEN n + 1 ELSE MaxHold
    BY <1>1, <1>3, <1>4
  <1>5. Bounded(t) /\ rt.armed => Aged(t, rt).age <= m2
    BY <1>2, <1>4 DEF HoldOK
  <1>6. ~Bounded(t) /\ rt.armed => Aged(t, rt).age <= q2
    BY <1>2, <1>4 DEF HoldOK
  <1>. QED BY <1>1, <1>5, <1>6 DEF HoldOK, SpentOK

\* A runtime nothing was observed for is in order, whatever has fired before it.
LEMMA FreshHold == ASSUME NEW t, NEW s, NEW m, NEW q
                   PROVE  HoldOK(t, FreshRuntime, s, m, q) /\ SpentOK(t, FreshRuntime)
  BY DEF HoldOK, SpentOK, FreshRuntime

\* A step that neither observes nor ticks leaves the holds in order.
LEMMA HoldsLeft ==
    ASSUME TypeOK, HoldInv, Poll \/ InstallDevices \/ Receive \/ Elapse \/ CorrectClock \/ BufferFails
                            \/ ApplyGeneration \/ Restart \/ UNCHANGED vars
    PROVE  HoldInv'
  <1>1. RulesTyped /\ RulesOK
    BY LoadedPairs DEF TypeOK, RulesTyped
  <1>2. CASE Elapse
    <2>1. Evolves(LAMBDA t, rt : Aged(t, rt))
      BY <1>1, <1>2, ElapseEvolves DEF Elapse
    <2>2. /\ view' = view /\ spent' = spent
          /\ since' = [e \in Entities |-> IF since[e] < MaxHold THEN since[e] + 1 ELSE MaxHold]
          /\ quiet' = [e \in Entities |-> IF quiet[e] < MaxHold THEN quiet[e] + 1 ELSE MaxHold]
      BY <1>2 DEF Elapse, hostVars
    <2>3. DOMAIN rules' = DOMAIN rules /\ \A id \in DOMAIN rules : rules'[id].def = rules[id].def
      BY <2>1 DEF Evolves, SameRules
    <2>. SUFFICES ASSUME NEW id \in DOMAIN rules, NEW t \in rules[id].def.triggers, t.hold > 0
                  PROVE  /\ HoldOK(t, rules'[id].trig[t], view'[t.entity], since'[t.entity], quiet'[t.entity])
                         /\ <<id, t>> \in spent' => SpentOK(t, rules'[id].trig[t])
      BY <2>3 DEF HoldInv
    <2>4. rules'[id].trig[t] = Aged(t, rules[id].trig[t])
      BY <2>1 DEF Evolves
    <2>5. rules[id].trig[t] \in RuntimeState /\ t \in AllTriggers /\ t.hold \in 0..MaxHold
      BY <1>1, InstanceShape, TriggersOf DEF RulesOK
    <2>6. t.entity \in Entities =>
             /\ since[t.entity] \in 0..MaxHold /\ quiet[t.entity] \in 0..MaxHold
             /\ since'[t.entity] = IF since[t.entity] < MaxHold THEN since[t.entity] + 1 ELSE MaxHold
             /\ quiet'[t.entity] = IF quiet[t.entity] < MaxHold THEN quiet[t.entity] + 1 ELSE MaxHold
      BY <2>2 DEF TypeOK
    <2>7. HoldOK(t, rules[id].trig[t], view[t.entity], since[t.entity], quiet[t.entity])
          /\ (<<id, t>> \in spent => SpentOK(t, rules[id].trig[t]))
      BY DEF HoldInv
    <2>8. HoldOK(t, Aged(t, rules[id].trig[t]), view[t.entity], since'[t.entity], quiet'[t.entity])
          /\ (SpentOK(t, rules[id].trig[t]) => SpentOK(t, Aged(t, rules[id].trig[t])))
      BY <2>5, <2>6, <2>7, ElapseHold
    <2>. QED BY <2>2, <2>4, <2>7, <2>8
  <1>3. CASE ApplyGeneration
    <2>1. PICK g \in Generations : ApplyRules(g)
      BY <1>3 DEF ApplyGeneration
    <2>2. \A id \in DOMAIN rules : rules[id].def.id = id
      BY <1>1 DEF RulesTyped
    <2>3. \A id \in DOMAIN rules' : \A t \in rules'[id].def.triggers :
             rules'[id].trig[t] = IF id \in DOMAIN rules /\ t \in rules[id].def.triggers
                                  THEN rules[id].trig[t] ELSE FreshRuntime
      BY <1>1, <2>1, <2>2, GenerationEvolves
    <2>4. UNCHANGED <<view, since, quiet, spent>>
      BY <1>3 DEF ApplyGeneration
    <2>. QED BY <2>3, <2>4, FreshHold DEF HoldInv
  <1>4. CASE Restart
    <2>1. \A id \in DOMAIN rules' : \A t \in rules'[id].def.triggers : rules'[id].trig[t] = FreshRuntime
      <3>1. rules' = FreshRules(defs) /\ defs \in Generations
        BY <1>4 DEF Restart, BootRules, TypeOK
      <3>2. DOMAIN rules' = {d.id : d \in defs}
            /\ \A id \in {d.id : d \in defs} : rules'[id].trig = [t \in rules'[id].def.triggers |-> FreshRuntime]
        BY <3>1, FreshShape
      <3>3. ASSUME NEW id \in DOMAIN rules', NEW t \in rules'[id].def.triggers
            PROVE  rules'[id].trig[t] = FreshRuntime
        <4>1. rules'[id].trig = [u \in rules'[id].def.triggers |-> FreshRuntime]
          BY <3>2, Zenon
        <4>. QED BY <4>1, Zenon
      <3>. QED BY <3>3
    <2>. QED BY <2>1, FreshHold DEF HoldInv
  <1>5. CASE Poll \/ InstallDevices \/ Receive \/ CorrectClock \/ BufferFails \/ UNCHANGED vars
    <2>1. UNCHANGED <<rules, view, since, quiet, spent>>
      BY <1>5 DEF Poll, InstallDevices, Receive, CorrectClock, StepClock, BufferFails,
                  engineVars, hostVars, historyVars, vars
    <2>. QED BY <2>1 DEF HoldInv
  <1>. QED BY <1>2, <1>3, <1>4, <1>5

\* What the holds that fire must have been through.
HonestHold(x) ==
    /\ x \notin spent
    /\ IF Bounded(x[2]) THEN LevelHolds(x[2], view'[x[2].entity]) /\ since'[x[2].entity] >= x[2].hold
       ELSE quiet'[x[2].entity] >= x[2].hold

\* An observation, received while the loop runs.
LEMMA ObserveHolds ==
    ASSUME TypeOK, HoldInv, Observe
    PROVE  HoldInv' /\ \A x \in raised' : x[2].hold > 0 => HonestHold(x)
  <1>1. RulesTyped /\ RulesOK
    BY LoadedPairs DEF TypeOK, RulesTyped
  <1>2. hand \in Observation /\ hand.entity \in Entities /\ hand.state \in States
    BY DEF Observe, TypeOK, Observation
  <1>3. Evolves(LAMBDA t, rt : Observed(t, rt, hand))
    BY <1>1, <1>2, ObserveEvolves DEF Observe
  <1>4. DOMAIN rules' = DOMAIN rules /\ \A id \in DOMAIN rules : rules'[id].def = rules[id].def
    BY <1>3 DEF Evolves, SameRules
  <1>5. /\ view' = [view EXCEPT ![hand.entity] = hand.state]
        /\ since' = [since EXCEPT ![hand.entity] = IF view[hand.entity] = hand.state THEN since[hand.entity] ELSE 0]
        /\ quiet' = [quiet EXCEPT ![hand.entity] = IF hand.changed THEN 0 ELSE quiet[hand.entity]]
        /\ view \in [Entities -> States \cup {Unknown}]
        /\ since \in [Entities -> 0..MaxHold] /\ quiet \in [Entities -> 0..MaxHold]
    BY DEF Observe, TypeOK
  <1>6. /\ spent' = {x \in spent : \/ x[2].entity # hand.entity
                                   \/ Bounded(x[2]) /\ LevelHolds(x[2], hand.state)
                                   \/ ~Bounded(x[2]) /\ ~hand.changed}
                    \cup {x \in raised' : x[2].hold > 0}
        /\ raised' = RaisedBy(hand)
    BY DEF Observe
  <1>7. ASSUME NEW id \in DOMAIN rules, NEW t \in rules[id].def.triggers, t.hold > 0
        PROVE  /\ HoldOK(t, rules'[id].trig[t], view'[t.entity], since'[t.entity], quiet'[t.entity])
               /\ <<id, t>> \in spent' => SpentOK(t, rules'[id].trig[t])
               /\ <<id, t>> \in raised' => HonestHold(<<id, t>>)
    <2> DEFINE rt == rules[id].trig[t]
    <2>1. rt \in RuntimeState /\ t \in AllTriggers
      BY <1>1, InstanceShape, TriggersOf DEF RulesOK
    <2>2. rules'[id].trig[t] = Observed(t, rt, hand)
      BY <1>3 DEF Evolves
    <2>3. HoldOK(t, rt, view[t.entity], since[t.entity], quiet[t.entity])
          /\ (<<id, t>> \in spent => SpentOK(t, rt))
      BY <1>7 DEF HoldInv
    <2>4. <<id, t>> \in raised' <=> FiresOn(t, rt, hand)
      BY <1>6, LoadedIs DEF RaisedBy, Runtime
    <2>5. <<id, t>> \in spent' <=>
             \/ /\ <<id, t>> \in spent
                /\ \/ t.entity # hand.entity
                   \/ Bounded(t) /\ LevelHolds(t, hand.state)
                   \/ ~Bounded(t) /\ ~hand.changed
             \/ FiresOn(t, rt, hand)
      BY <1>6, <1>7, <2>4
    <2>. HIDE DEF rt
    <2>6. CASE Concerns(t, hand)
      <3>1. t.entity = hand.entity
        BY <2>6 DEF Concerns
      <3>2. view'[t.entity] = hand.state
        BY <1>2, <1>5, <3>1
      <3>3. since'[t.entity] = IF view[t.entity] = hand.state THEN since[t.entity] ELSE 0
        BY <1>2, <1>5, <3>1
      <3>4. quiet'[t.entity] = IF hand.changed THEN 0 ELSE quiet[t.entity]
        BY <1>2, <1>5, <3>1
      <3>5. since[t.entity] \in 0..MaxHold /\ quiet[t.entity] \in 0..MaxHold
        BY <1>2, <1>5, <3>1
      <3>6. /\ HoldOK(t, Observed(t, rt, hand), hand.state, since'[t.entity], quiet'[t.entity])
            /\ FiresOn(t, rt, hand) =>
                  /\ ~SpentOK(t, rt) /\ SpentOK(t, Observed(t, rt, hand))
                  /\ IF Bounded(t) THEN LevelHolds(t, hand.state) /\ since'[t.entity] >= t.hold
                     ELSE quiet'[t.entity] >= t.hold
            /\ SpentOK(t, rt) /\ (IF Bounded(t) THEN LevelHolds(t, hand.state) ELSE ~hand.changed)
                  => SpentOK(t, Observed(t, rt, hand))
        BY <1>2, <1>7, <2>1, <2>3, <2>6, <3>3, <3>4, <3>5, ObserveHold
      <3>7. <<id, t>> \in spent' => SpentOK(t, Observed(t, rt, hand))
        BY <2>3, <2>5, <3>1, <3>6
      <3>8. <<id, t>> \in raised' => HonestHold(<<id, t>>)
        BY <2>3, <2>4, <3>2, <3>6 DEF HonestHold
      <3>. QED BY <2>2, <3>2, <3>6, <3>7, <3>8
    <2>7. CASE ~Concerns(t, hand)
      <3>1. Observed(t, rt, hand) = rt /\ ~FiresOn(t, rt, hand)
        BY <2>7 DEF Observed, FiresOn
      <3>2. <<id, t>> \in spent' => SpentOK(t, rt)
        BY <2>3, <2>5, <3>1
      <3>3. CASE t.entity # hand.entity
        BY <1>5, <2>2, <2>3, <2>4, <3>1, <3>2, <3>3
      <3>4. CASE t.entity = hand.entity
        \* A trigger of another kind sees nothing, and its hold knows nothing.
        <4>1. ~rt.seen
          BY <2>3, <2>7, <3>4 DEF Concerns, HoldOK
        <4>2. HoldOK(t, rt, view'[t.entity], since'[t.entity], quiet'[t.entity])
          BY <2>3, <4>1 DEF HoldOK
        <4>. QED BY <2>2, <2>4, <3>1, <3>2, <4>2
      <3>. QED BY <3>3, <3>4
    <2>. QED BY <2>6, <2>7
  <1>8. \A x \in raised' : \E id \in DOMAIN rules : \E t \in rules[id].def.triggers : x = <<id, t>>
    BY <1>6, RaisedLoaded, LoadedIs
  <1>. QED BY <1>4, <1>7, <1>8 DEF HoldInv

\* A tick.
LEMMA TickHolds ==
    ASSUME TypeOK, HoldInv, Tick
    PROVE  HoldInv' /\ \A x \in raised' : x[2].hold > 0 => HonestHold(x)
  <1>1. RulesTyped /\ RulesOK
    BY LoadedPairs DEF TypeOK, RulesTyped
  <1>2. Evolves(LAMBDA t, rt : Ticked(t, rt))
    BY <1>1, TickEvolves DEF Tick
  <1>3. DOMAIN rules' = DOMAIN rules /\ \A id \in DOMAIN rules : rules'[id].def = rules[id].def
    BY <1>2 DEF Evolves, SameRules
  <1>4. UNCHANGED <<view, since, quiet>> /\ spent' = spent \cup raised' /\ raised' = RaisedByTick
        /\ since \in [Entities -> 0..MaxHold] /\ quiet \in [Entities -> 0..MaxHold]
    BY DEF Tick, TypeOK
  <1>5. ASSUME NEW id \in DOMAIN rules, NEW t \in rules[id].def.triggers, t.hold > 0
        PROVE  /\ HoldOK(t, rules'[id].trig[t], view'[t.entity], since'[t.entity], quiet'[t.entity])
               /\ <<id, t>> \in spent' => SpentOK(t, rules'[id].trig[t])
               /\ <<id, t>> \in raised' => HonestHold(<<id, t>>)
    <2> DEFINE rt == rules[id].trig[t]
    <2>1. rt \in RuntimeState /\ t \in AllTriggers
      BY <1>1, InstanceShape, TriggersOf DEF RulesOK
    <2>2. rules'[id].trig[t] = Ticked(t, rt)
      BY <1>2 DEF Evolves
    <2>3. HoldOK(t, rt, view[t.entity], since[t.entity], quiet[t.entity])
          /\ (<<id, t>> \in spent => SpentOK(t, rt))
      BY <1>5 DEF HoldInv
    <2>4. <<id, t>> \in raised' <=> FiresOnTick(t, rt)
      BY <1>4, LoadedIs DEF RaisedByTick, Runtime
    <2>. HIDE DEF rt
    <2>5. t.entity \in Entities => since[t.entity] \in 0..MaxHold /\ quiet[t.entity] \in 0..MaxHold
      BY <1>4
    <2>6. /\ HoldOK(t, Ticked(t, rt), view[t.entity], since[t.entity], quiet[t.entity])
          /\ FiresOnTick(t, rt) =>
                /\ ~SpentOK(t, rt) /\ SpentOK(t, Ticked(t, rt))
                /\ IF Bounded(t) THEN LevelHolds(t, view[t.entity]) /\ since[t.entity] >= t.hold
                   ELSE quiet[t.entity] >= t.hold
          /\ SpentOK(t, rt) => SpentOK(t, Ticked(t, rt))
      BY <1>5, <2>1, <2>3, <2>5, TickHold
    <2>7. <<id, t>> \in spent' => SpentOK(t, Ticked(t, rt))
      BY <1>4, <2>3, <2>4, <2>6
    <2>8. <<id, t>> \in raised' => HonestHold(<<id, t>>)
      BY <1>4, <2>3, <2>4, <2>6 DEF HonestHold
    <2>. QED BY <1>4, <2>2, <2>6, <2>7, <2>8
  <1>6. \A x \in raised' : \E id \in DOMAIN rules : \E t \in rules[id].def.triggers : x = <<id, t>>
    BY <1>4, RaisedLoaded, LoadedIs
  <1>. QED BY <1>3, <1>5, <1>6 DEF HoldInv

\* Nothing but an observation or a tick raises anything.
LEMMA OthersRaiseNothing ==
    Poll \/ InstallDevices \/ Receive \/ Elapse \/ CorrectClock \/ BufferFails \/ ApplyGeneration \/ Restart
        => raised' = {}
  BY DEF Poll, InstallDevices, Receive, Elapse, CorrectClock, BufferFails, ApplyGeneration, Restart

LEMMA HoldInductive == TypeOK /\ HoldInv /\ [Next]_vars => HoldInv'
  <1>. SUFFICES ASSUME TypeOK, HoldInv, [Next]_vars PROVE HoldInv'
    OBVIOUS
  <1>1. CASE Observe
    BY <1>1, ObserveHolds
  <1>2. CASE Tick
    BY <1>2, TickHolds
  <1>3. CASE ~Observe /\ ~Tick
    BY <1>3, HoldsLeft DEF Next
  <1>. QED BY <1>1, <1>2, <1>3

\* No edit, tick, restart or clock correction makes a hold fire early, or a second
\* time for one unbroken span: its age never exceeds the time its level has held,
\* and one that fired stays quiet until the level is left (Hold.Step).
THEOREM HoldsHonest == Spec => HoldsAreHonest
  <1>1. Init => HoldInv
    <2>. SUFFICES ASSUME Init PROVE HoldInv
      OBVIOUS
    <2>1. ASSUME NEW id \in DOMAIN rules, NEW t \in rules[id].def.triggers
          PROVE  rules[id].trig[t] = FreshRuntime
      <3>1. rules = FreshRules(defs) /\ defs \in Generations
        BY DEF Init, RulesInit
      <3>2. DOMAIN rules = {d.id : d \in defs}
            /\ \A i \in {d.id : d \in defs} : rules[i].trig = [u \in rules[i].def.triggers |-> FreshRuntime]
        BY <3>1, FreshShape
      <3>3. rules[id].trig = [u \in rules[id].def.triggers |-> FreshRuntime]
        BY <3>2, Zenon
      <3>. QED BY <3>3, Zenon
    <2>. QED BY <2>1, FreshHold DEF HoldInv
  <1>2. TypeOK /\ HoldInv /\ [Next]_vars =>
          [\A x \in raised' : x[2].hold > 0 => HonestHold(x)]_vars
    BY ObserveHolds, TickHolds, OthersRaiseNothing DEF Next
  <1>3. HoldsAreHonest <=> [][\A x \in raised' : x[2].hold > 0 => HonestHold(x)]_vars
    BY DEF HoldsAreHonest, HonestHold
  <1>. QED BY <1>1, <1>2, <1>3, HoldInductive, TypeCorrect, PTL DEF Spec

-----------------------------------------------------------------------------
(* The last reading arrives                                                *)

\* The last observation of e on its way, in the channel, in hand or delivered, says s.
LastPending(e, s) ==
    \E i \in 1..Len(channel) : /\ channel[i].entity = e /\ channel[i].state = s
                               /\ \A j \in (i + 1)..Len(channel) : channel[j].entity # e
LastWord(e, s) ==
    \/ LastPending(e, s)
    \/ ~Pending(e) /\ hand.entity = e /\ hand.state = s
    \/ ~Pending(e) /\ hand.entity # e /\ view[e] = s

ArriveInv ==
    \A e \in Entities : prev[e] = Unknown \/ e \in overtaken \/ ~loops.run \/ LastWord(e, prev[e])

\* An observation sent to the channel.
LEMMA SendArrives ==
    ASSUME TypeOK, NEW obs \in Observation, Send(obs), UNCHANGED <<hand, view>>
    PROVE  /\ LastPending(obs.entity, obs.state)'
           /\ \A e \in Entities \ {obs.entity} : \A s :
                 LastWord(e, s) => LastWord(e, s)' \/ e \in overtaken'
  <1>1. channel \in Seq(Observation) /\ Len(channel) \in Nat
    BY DEF TypeOK, PollerTypeOK
  <1>2. Room \in Seq(Observation) /\ channel' = Append(Room, obs)
    <2>1. ChanSize \in Nat \ {0} /\ Len(channel) <= ChanSize
      BY DEF TypeOK, PollerTypeOK
    <2>. QED BY <1>1, <2>1 DEF Room, Send
  <1>3. /\ Len(channel') = Len(Room) + 1 /\ Len(Room) \in Nat /\ channel'[Len(Room) + 1] = obs
        /\ \A i \in 1..Len(Room) : channel'[i] = Room[i]
    BY <1>2
  <1>4. LastPending(obs.entity, obs.state)'
    BY <1>3 DEF LastPending
  <1>. SUFFICES ASSUME NEW e \in Entities \ {obs.entity}, NEW s, LastWord(e, s), e \notin overtaken'
                PROVE  LastWord(e, s)'
    BY <1>4
  <1>5. e \notin CostOfRoom
    BY DEF Send
  <1>6. CASE LastPending(e, s)
    <2>1. PICK i \in 1..Len(channel) : /\ channel[i].entity = e /\ channel[i].state = s
                                       /\ \A j \in (i + 1)..Len(channel) : channel[j].entity # e
      BY <1>6 DEF LastPending
    <2>2. CASE Len(channel) < ChanSize
      <3>1. Room = channel
        BY <2>2 DEF Room
      <3>2. i \in 1..Len(channel') /\ channel'[i] = channel[i]
        BY <1>3, <3>1
      <3>3. ASSUME NEW j \in (i + 1)..Len(channel')
            PROVE  channel'[j].entity # e
        <4>1. CASE j = Len(Room) + 1
          BY <1>3, <4>1
        <4>2. CASE j # Len(Room) + 1
          <5>1. j \in (i + 1)..Len(channel) /\ j \in 1..Len(Room)
            BY <1>1, <1>3, <3>1, <4>2
          <5>2. channel'[j] = channel[j]
            BY <1>3, <3>1, <5>1
          <5>. QED BY <2>1, <5>1, <5>2
        <4>. QED BY <4>1, <4>2
      <3>. QED BY <2>1, <3>2, <3>3 DEF LastWord, LastPending
    <2>3. CASE ~(Len(channel) < ChanSize)
      <3>1. Room = Tail(channel) /\ channel # <<>>
        BY <1>1, <2>1, <2>3 DEF Room
      <3>2. Len(Room) = Len(channel) - 1 /\ \A k \in 1..Len(Room) : Room[k] = channel[k + 1]
        BY <1>1, <3>1
      <3>3. PICK k \in 1..Len(Room) : Room[k].entity = e
        BY <1>5, <2>1 DEF CostOfRoom, Pending
      <3>4. k + 1 \in 1..Len(channel) /\ channel[k + 1].entity = e
        BY <1>1, <3>2, <3>3
      <3>5. k + 1 <= i
        BY <1>1, <2>1, <3>4
      <3>6. i - 1 \in 1..Len(channel') /\ channel'[i - 1] = channel[i]
        BY <1>1, <1>3, <3>2, <3>3, <3>5
      <3>7. \A j \in ((i - 1) + 1)..Len(channel') : channel'[j].entity # e
        BY <1>1, <1>3, <2>1, <3>2, <3>5
      <3>. QED BY <2>1, <3>6, <3>7 DEF LastWord, LastPending
    <2>. QED BY <2>2, <2>3
  <1>7. CASE ~LastPending(e, s)
    <2>1. ~Pending(e)
      BY <1>7 DEF LastWord
    <2>2. \A k \in 1..Len(Room) : Room[k].entity # e
      <3>1. CASE Len(channel) < ChanSize
        BY <2>1, <3>1 DEF Room, Pending
      <3>2. CASE ~(Len(channel) < ChanSize)
        <4>1. Room = Tail(channel) /\ channel # <<>>
          BY <1>1, <3>2 DEF Room
        <4>. QED BY <1>1, <2>1, <4>1 DEF Pending
      <3>. QED BY <3>1, <3>2
    <2>3. ~Pending(e)'
      BY <1>3, <2>2 DEF Pending
    <2>. QED BY <1>7, <2>3 DEF LastWord
  <1>. QED BY <1>6, <1>7

\* The loop receives the head of the channel.
LEMMA ReceiveArrives ==
    ASSUME TypeOK, Receive, NEW e \in Entities, NEW s, LastWord(e, s)
    PROVE  LastWord(e, s)'
  <1>1. /\ channel \in Seq(Observation) /\ channel # <<>> /\ channel' = Tail(channel)
        /\ hand = None /\ hand' = Head(channel) /\ view' = view
    BY DEF TypeOK, PollerTypeOK, Receive
  <1>2. /\ Len(channel) \in Nat \ {0} /\ Len(channel') = Len(channel) - 1 /\ hand' = channel[1]
        /\ \A k \in 1..Len(channel') : channel'[k] = channel[k + 1]
    BY <1>1
  <1>3. hand.entity # e
    BY <1>1 DEF None
  <1>4. CASE LastPending(e, s)
    <2>1. PICK i \in 1..Len(channel) : /\ channel[i].entity = e /\ channel[i].state = s
                                       /\ \A j \in (i + 1)..Len(channel) : channel[j].entity # e
      BY <1>4 DEF LastPending
    <2>2. CASE i = 1
      <3>1. ~Pending(e)'
        BY <1>2, <2>1, <2>2 DEF Pending
      <3>. QED BY <1>2, <2>1, <2>2, <3>1 DEF LastWord
    <2>3. CASE i # 1
      <3>1. i - 1 \in 1..Len(channel') /\ channel'[i - 1] = channel[i]
        BY <1>2, <2>1, <2>3
      <3>2. \A j \in ((i - 1) + 1)..Len(channel') : channel'[j].entity # e
        BY <1>2, <2>1
      <3>. QED BY <2>1, <3>1, <3>2 DEF LastWord, LastPending
    <2>. QED BY <2>2, <2>3
  <1>5. CASE ~LastPending(e, s)
    <2>1. ~Pending(e) /\ view[e] = s
      BY <1>3, <1>5 DEF LastWord
    <2>2. ~Pending(e)' /\ hand'.entity # e
      BY <1>2, <2>1 DEF Pending
    <2>. QED BY <1>1, <2>1, <2>2 DEF LastWord
  <1>. QED BY <1>4, <1>5

LEMMA ArriveInductive == TypeOK /\ ArriveInv /\ [Next]_vars => ArriveInv'
  <1>. SUFFICES ASSUME TypeOK, ArriveInv, [Next]_vars PROVE ArriveInv'
    OBVIOUS
  <1>1. CASE Poll
    <2>1. UNCHANGED <<hand, view, loops>>
      BY <1>1 DEF Poll, hostVars
    <2>2. CASE BeginCycle
      BY <2>1, <2>2 DEF BeginCycle, ArriveInv, LastWord, LastPending, Pending
    <2>3. CASE PollEntity
      <3>1. PICK e \in cycle, s \in States :
               /\ prev' = [prev EXCEPT ![e] = s]
               /\ IF prev[e] = s THEN UNCHANGED <<channel, overtaken>>
                  ELSE Send([entity |-> e, state |-> s, changed |-> prev[e] # Unknown])
        BY <2>3 DEF PollEntity
      <3>2. e \in Entities /\ prev \in [Entities -> States \cup {Unknown}]
        BY DEF TypeOK, PollerTypeOK
      <3>3. CASE prev[e] = s
        <4>1. prev' = prev /\ UNCHANGED <<channel, overtaken>>
          BY <3>1, <3>2, <3>3
        <4>. QED BY <2>1, <4>1 DEF ArriveInv, LastWord, LastPending, Pending
      <3>4. CASE prev[e] # s
        <4> DEFINE obs == [entity |-> e, state |-> s, changed |-> prev[e] # Unknown]
        <4>1. obs \in Observation
          <5>1. (prev[e] # Unknown) \in BOOLEAN
            OBVIOUS
          <5>. QED BY <3>2, <5>1 DEF Observation
        <4>2. obs.entity = e /\ obs.state = s /\ Send(obs)
          BY <3>1, <3>4
        <4>. HIDE DEF obs
        <4>3. LastPending(e, s)' /\ \A f \in Entities \ {e} : \A w : LastWord(f, w) => LastWord(f, w)' \/ f \in overtaken'
          BY <2>1, <4>1, <4>2, SendArrives
        <4>4. prev'[e] = s /\ \A f \in Entities \ {e} : prev'[f] = prev[f]
          BY <3>1, <3>2
        <4>5. ASSUME NEW f \in Entities
              PROVE  prev'[f] = Unknown \/ f \in overtaken' \/ ~loops'.run \/ LastWord(f, prev[f])'
          <5>1. CASE f = e
            BY <4>3, <4>4, <5>1 DEF LastWord
          <5>2. CASE f # e
            <6>1. prev[f] = Unknown \/ f \in overtaken \/ ~loops.run \/ LastWord(f, prev[f])
              BY DEF ArriveInv
            <6>2. f \in overtaken => f \in overtaken'
              BY <4>2, <5>2 DEF Send
            <6>. QED BY <2>1, <4>3, <4>4, <5>2, <6>1, <6>2
          <5>. QED BY <5>1, <5>2
        <4>. QED BY <4>5 DEF ArriveInv
      <3>. QED BY <3>3, <3>4
    <2>. QED BY <1>1, <2>2, <2>3 DEF Poll
  <1>2. CASE Receive
    <2>1. UNCHANGED <<prev, overtaken, loops>>
      BY <1>2 DEF Receive
    <2>. QED BY <1>2, <2>1, ReceiveArrives DEF ArriveInv
  <1>3. CASE Observe
    <2>1. hand \in Observation /\ hand' = None /\ view' = [view EXCEPT ![hand.entity] = hand.state]
          /\ view \in [Entities -> States \cup {Unknown}] /\ loops.run
      BY <1>3 DEF Observe, TypeOK
    <2>2. UNCHANGED <<channel, prev, overtaken>>
      BY <1>3 DEF Observe, pollerVars
    <2>3. ASSUME NEW e \in Entities, NEW s, LastWord(e, s) PROVE LastWord(e, s)'
      <3>1. hand'.entity # e
        BY <2>1 DEF None
      <3>2. CASE hand.entity = e
        BY <2>1, <2>2, <2>3, <3>1, <3>2 DEF LastWord, LastPending, Pending
      <3>3. CASE hand.entity # e
        BY <2>1, <2>2, <2>3, <3>1, <3>3 DEF LastWord, LastPending, Pending
      <3>. QED BY <3>2, <3>3
    <2>. QED BY <2>1, <2>2, <2>3 DEF ArriveInv
  <1>4. CASE InstallDevices
    <2>1. UNCHANGED <<channel, overtaken, hand, view, loops>>
          /\ \A e \in Entities : prev'[e] \in {prev[e], Unknown}
      BY <1>4 DEF InstallDevices, SetTargets
    <2>. QED BY <2>1 DEF ArriveInv, LastWord, LastPending, Pending
  <1>5. CASE Restart
    <2>1. \A e \in Entities : prev'[e] = Unknown
      BY <1>5 DEF Restart, PollerRestart
    <2>. QED BY <2>1 DEF ArriveInv
  <1>6. CASE Tick \/ Elapse \/ CorrectClock \/ BufferFails \/ ApplyGeneration \/ UNCHANGED vars
    <2>1. UNCHANGED <<channel, prev, overtaken, hand, view>>
      BY <1>6 DEF Tick, Elapse, CorrectClock, BufferFails, ApplyGeneration, hostVars, pollerVars, vars
    <2>2. loops'.run = loops.run
      <3>1. CASE Tick
        <4>1. \E b : loops' = [loops EXCEPT !.tick = b]
          BY <3>1 DEF Tick
        <4>. QED BY <4>1 DEF TypeOK
      <3>2. CASE ~Tick
        BY <1>6, <3>2 DEF Elapse, CorrectClock, BufferFails, ApplyGeneration, hostVars, vars
      <3>. QED BY <3>1, <3>2
    <2>. QED BY <2>1, <2>2 DEF ArriveInv, LastWord, LastPending, Pending
  <1>. QED BY <1>1, <1>2, <1>3, <1>4, <1>5, <1>6 DEF Next

\* However small the channel, and whatever is adopted or released in the middle of a
\* cycle, the last reading of a device is in the channel, in hand, or what slides
\* are told, unless it gave way to another device's (Poller.send).
THEOREM LatestArrives == Spec => []LatestReadingArrives
  <1>1. Init => ArriveInv
    BY DEF Init, PollerInit, ArriveInv
  <1>2. TypeOK /\ ArriveInv => LatestReadingArrives
    BY DEF ArriveInv, LatestReadingArrives, LastWord, LastPending, Pending
  <1>. QED BY <1>1, <1>2, ArriveInductive, TypeCorrect, PTL DEF Spec
=============================================================================
