---------------------------- MODULE StatePoller ----------------------------
(* The relay's device poller (internal/relay/ecppoll): it reads every polled
   entity once per cycle, compares the reading with the one it remembers, and
   puts what changed on a bounded channel whose oldest element gives way. *)
EXTENDS Naturals, Sequences, FiniteSets

CONSTANTS Entities,   \* the entities a relay can be told to poll
          States,     \* canonical states a reading derives to
          ChanSize    \* the channel's capacity (16 in the code)

\* Entity ids are ordered: a cycle reads them in sorted order.
ASSUME PollerAssumption ==
    /\ Entities \subseteq Nat /\ IsFiniteSet(Entities)
    /\ ChanSize \in Nat \ {0}

Unknown == "unknown"
Observation == [entity : Entities, state : States, changed : BOOLEAN]

VARIABLES targets,    \* the polled set, replaced by SetTargets
          cycle,      \* what the running cycle has still to read
          prev,       \* the reading remembered of each entity
          channel,    \* observations sent and not yet received
          overtaken   \* history: entities whose latest observation gave way to another's

pollerVars == <<targets, cycle, prev, channel, overtaken>>

PollerTypeOK ==
    /\ targets \subseteq Entities /\ cycle \subseteq Entities /\ overtaken \subseteq Entities
    /\ prev \in [Entities -> States \cup {Unknown}]
    /\ channel \in Seq(Observation) /\ Len(channel) <= ChanSize

PollerInit ==
    /\ targets \in SUBSET Entities
    /\ cycle = {} /\ overtaken = {}
    /\ prev = [e \in Entities |-> Unknown]
    /\ channel = <<>>

Pending(e) == \E i \in 1..Len(channel) : channel[i].entity = e

\* What is left of the channel when room is made for one more, and the entity
\* whose last word that may cost.
Room == IF Len(channel) < ChanSize THEN channel ELSE Tail(channel)
CostOfRoom ==
    {e \in Entities : Pending(e) /\ \A i \in 1..Len(Room) : Room[i].entity # e}

SendOrDrop(obs) ==
    /\ channel' = IF Len(channel) < ChanSize THEN Append(channel, obs) ELSE channel
    /\ overtaken' = overtaken \ {obs.entity}
Send(obs) ==
    /\ channel' = Append(Room, obs)
    /\ overtaken' = (overtaken \cup CostOfRoom) \ {obs.entity}

BeginCycle ==
    /\ cycle = {} /\ targets # {}
    /\ cycle' = targets
    /\ UNCHANGED <<targets, prev, channel, overtaken>>

\* One reading arrives, of an entity of the set the cycle began with; the first
\* ever is sent as a transition of the state into itself.
PollEntity ==
    \E e \in cycle, s \in States :
        /\ \A other \in cycle : e <= other
        /\ cycle' = cycle \ {e}
        /\ prev' = [prev EXCEPT ![e] = s]
        /\ IF prev[e] = s THEN UNCHANGED <<channel, overtaken>>
           ELSE Send([entity |-> e, state |-> s, changed |-> prev[e] # Unknown])
        /\ UNCHANGED targets

\* The adopted set is replaced, in the middle of a cycle as well.
SetTargets(adopted) ==
    /\ targets' = adopted
    /\ prev' = [e \in Entities |-> IF e \in adopted THEN prev[e] ELSE Unknown]
    /\ UNCHANGED <<cycle, channel, overtaken>>

PollerRestart ==
    /\ cycle' = {} /\ overtaken' = {}
    /\ prev' = [e \in Entities |-> Unknown]
    /\ channel' = <<>>
    /\ UNCHANGED targets
=============================================================================
