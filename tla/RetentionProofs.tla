-------------------------- MODULE RetentionProofs --------------------------
(***************************************************************************)
(* The sweep never takes what is in use, nor anything before re-mints fail *)
(* when its window is longer than theirs, for every fleet, every set of    *)
(* assets and uploads, and every choice of the windows.                    *)
(***************************************************************************)
EXTENDS ContentRetention, TLAPS

(***************************************************************************)
(* What the proof needs of the types; marks, ages and the ghosts do not    *)
(* matter.                                                                 *)
(***************************************************************************)
Shape == /\ rows \subseteq Assets /\ gen \in Nat /\ checked \subseteq Assets
         /\ items \in [Assets -> Nat \cup {None}] /\ files \in [Assets -> Nat \cup {None}]
         /\ uploads \in [Uploads -> [pc : {"none", "write", "publish"}, asset : Assets \cup {None}]]
         /\ sweep \in [pc : {"idle", "ask", "lock", "removing"}, asked : Nat, converged : BOOLEAN,
                       doomed : SUBSET Assets, left : Int]
         /\ acks \in [Relays -> Nat \cup {None}] /\ ackWire \in [Relays -> Nat \cup {None}]
         /\ durable \in [Relays -> [gen : Nat, prog : SUBSET Assets]]
         /\ pull \in [Relays -> [pc : {"none", "asked", "answered", "orphaned"}, since : Nat,
                                 gen : Nat, prog : SUBSET Assets]]

\* An upload that is about to publish has its file, and knows its asset.
UploadsOnDisk == \A u \in Uploads :
                   /\ At(u, "publish") => uploads[u].asset \in Assets /\ files[uploads[u].asset] # None
                   /\ At(u, "write") => uploads[u].asset \in Assets

\* A relay is never ahead of the store, and a program of the current generation
\* names nothing the rows do not.
ProgramsFollow == \A r \in Relays :
                    /\ durable[r].gen <= gen
                    /\ durable[r].gen = gen => durable[r].prog \subseteq rows
                    /\ Arrived(r) => /\ pull[r].gen <= gen
                                     /\ pull[r].gen = gen => pull[r].prog \subseteq rows

\* An ack never names a generation that is not persisted.
AcksArePersisted == \A r \in Relays :
                      /\ acks[r] # None => acks[r] <= durable[r].gen
                      /\ ackWire[r] # None => ackWire[r] <= durable[r].gen

\* What the sweep learned stays true: no relay falls below the generation it
\* was asked about, and while it removes, that is the current one.
SweepKnows == /\ sweep.converged => \A r \in Relays : durable[r].gen >= sweep.asked
              /\ sweep.doomed # {} => sweep.pc = "removing" /\ sweep.converged /\ sweep.asked = gen
              /\ sweep.doomed \cap rows = {}

Inv == /\ Shape /\ UploadsOnDisk /\ ProgramsFollow /\ AcksArePersisted /\ SweepKnows
       /\ ReferencedIsHeld /\ AppliedIsHeld /\ AdvertisedIsOnDisk

USE DEF Pull, NoPull, NoUpload, Sweep, NoSweep, Has, Locked, At, PullAt, Arrived

LEMMA InitInv == Init => Inv
<1> SUFFICES ASSUME Init PROVE Inv
  OBVIOUS
<1> USE RetentionAssumption DEF Init
<1>1. Shape
  BY DEF Shape
<1>2. UploadsOnDisk /\ ProgramsFollow /\ AcksArePersisted /\ SweepKnows
  BY DEF UploadsOnDisk, ProgramsFollow, AcksArePersisted, SweepKnows
<1>3. ReferencedIsHeld /\ AppliedIsHeld /\ AdvertisedIsOnDisk
  BY DEF ReferencedIsHeld, AppliedIsHeld, AdvertisedIsOnDisk
<1> QED
  BY <1>1, <1>2, <1>3 DEF Inv

LEMMA AuthoringKeepsInv ==
  ASSUME Inv, NEW a \in Assets, Check(a) \/ Commit(a) \/ Unreference(a) \/ Remint
  PROVE  Inv'
<1> USE RetentionAssumption DEF Inv, Shape, UploadsOnDisk, ProgramsFollow, AcksArePersisted, SweepKnows,
      ReferencedIsHeld, AppliedIsHeld, AdvertisedIsOnDisk, store, origin, relays, clock
<1>1. CASE Check(a)
  BY <1>1 DEF Check
<1>2. CASE Commit(a)
  BY <1>2 DEF Commit
<1>3. CASE Unreference(a)
  BY <1>3 DEF Unreference
<1>4. CASE Remint
  BY <1>4 DEF Remint
<1> QED
  BY <1>1, <1>2, <1>3, <1>4

LEMMA UploadKeepsInv == ASSUME Inv, NEW u \in Uploads, UploadStep(u) PROVE Inv'
<1> USE RetentionAssumption DEF Inv, Shape, UploadsOnDisk, ProgramsFollow, AcksArePersisted, SweepKnows,
      ReferencedIsHeld, AppliedIsHeld, AdvertisedIsOnDisk, store, relays, clock, Uploading
<1>1. ASSUME NEW a \in Assets, AddBegin(u, a) PROVE Inv'
  BY <1>1 DEF AddBegin
<1>2. CASE AddWrite(u)
  BY <1>2 DEF AddWrite
<1>3. CASE AddFails(u)
  BY <1>3 DEF AddFails
<1>4. CASE AddPublish(u)
  BY <1>4 DEF AddPublish
<1> QED
  BY <1>1, <1>2, <1>3, <1>4 DEF UploadStep

LEMMA SweepKeepsInv == ASSUME Inv, SweepStep PROVE Inv'
<1> USE RetentionAssumption DEF Inv, Shape, UploadsOnDisk, ProgramsFollow, AcksArePersisted, SweepKnows,
      ReferencedIsHeld, AppliedIsHeld, AdvertisedIsOnDisk, store, origin, relays, clock, Sweeping, Removing
<1>1. CASE SweepReadsGeneration
  BY <1>1 DEF SweepReadsGeneration
<1>2. CASE SweepAsksFleet
  BY <1>2 DEF SweepAsksFleet, FleetConverged
<1>3. CASE SweepDecides
  BY <1>3 DEF SweepDecides, Reclaimable
<1>4. ASSUME NEW a \in Assets, sweep.pc = "removing", Remove(a), Sweeping, UNCHANGED clock PROVE Inv'
  <2>1. /\ a \notin rows /\ sweep.asked = gen
        /\ \A r \in Relays : durable[r].gen = gen /\ durable[r].prog \subseteq rows
    BY <1>4 DEF Remove
  <2>2. \A r \in Relays : Arrived(r) /\ pull[r].gen >= durable[r].gen => a \notin pull[r].prog
    BY <2>1
  <2>3. AppliedIsHeld'
    BY <1>4, <2>1, <2>2 DEF Remove
  <2>4. UploadsOnDisk' /\ AdvertisedIsOnDisk'
    BY <1>4 DEF Remove, Adding
  <2>5. Shape' /\ ProgramsFollow' /\ AcksArePersisted' /\ SweepKnows' /\ ReferencedIsHeld'
    BY <1>4 DEF Remove
  <2> QED
    BY <2>3, <2>4, <2>5
<1>5. ASSUME NEW a \in Assets, sweep.pc = "removing", RemoveFails(a), Sweeping, UNCHANGED clock PROVE Inv'
  BY <1>5 DEF RemoveFails
<1>6. CASE SweepEnds
  BY <1>6 DEF SweepEnds
<1>7. CASE SweepFails
  BY <1>7 DEF SweepFails
<1> QED
  BY <1>1, <1>2, <1>3, <1>4, <1>5, <1>6, <1>7 DEF SweepStep, SweepRemoves

LEMMA RelayKeepsInv == ASSUME Inv, NEW r \in Relays, RelayStep(r) PROVE Inv'
<1> USE RetentionAssumption DEF Inv, Shape, UploadsOnDisk, ProgramsFollow, AcksArePersisted, SweepKnows,
      ReferencedIsHeld, AppliedIsHeld, AdvertisedIsOnDisk, store, origin, clock, Relaying
<1>1. CASE Connect(r)
  BY <1>1 DEF Connect
<1>2. CASE Disconnect(r)
  <2>1. PICK p \in Orphan(r) : pull' = [pull EXCEPT ![r] = p]
    BY <1>2 DEF Disconnect
  <2>2. CASE Arrived(r) /\ p = Pull("orphaned", 0, pull[r].gen, pull[r].prog)
    BY <1>2, <2>1, <2>2 DEF Disconnect
  <2>3. CASE Arrived(r) /\ p = pull[r]
    BY <1>2, <2>1, <2>3 DEF Disconnect
  <2>4. CASE p = NoPull
    BY <1>2, <2>1, <2>4 DEF Disconnect
  <2> QED
    BY <2>1, <2>2, <2>3, <2>4 DEF Orphan
<1>3. CASE PullAsks(r)
  BY <1>3 DEF PullAsks
<1>4. CASE PullAnswered(r)
  <2>1. CASE pull[r].since = gen
    <3>1. pull' = [pull EXCEPT ![r] = NoPull]
      BY <1>4, <2>1 DEF PullAnswered
    <3> QED
      BY <1>4, <3>1 DEF PullAnswered
  <2>2. CASE pull[r].since # gen
    <3>1. pull' = [pull EXCEPT ![r] = Pull("answered", 0, gen, rows)]
      BY <1>4, <2>2 DEF PullAnswered
    <3> QED
      BY <1>4, <3>1 DEF PullAnswered
  <2> QED
    BY <2>1, <2>2
<1>5. CASE Persist(r)
  <2>1. CASE /\ pull[r].gen >= durable[r].gen
             /\ durable' = [durable EXCEPT ![r] = [gen |-> pull[r].gen, prog |-> pull[r].prog]]
             /\ SendsAck(r, pull[r].gen)
    <3>1. Shape'
      BY <1>5, <2>1 DEF Persist, SendsAck
    <3>2. UploadsOnDisk' /\ ReferencedIsHeld' /\ AdvertisedIsOnDisk'
      BY <1>5, <2>1 DEF Persist
    <3>3. ProgramsFollow'
      BY <1>5, <2>1 DEF Persist
    <3>4. AcksArePersisted'
      BY <1>5, <2>1 DEF Persist, SendsAck
    <3>5. SweepKnows' /\ AppliedIsHeld'
      BY <1>5, <2>1 DEF Persist
    <3> QED
      BY <3>1, <3>2, <3>3, <3>4, <3>5
  <2>2. CASE SendsAck(r, durable[r].gen) /\ UNCHANGED durable
    BY <1>5, <2>2 DEF Persist, SendsAck
  <2> QED
    BY <1>5, <2>1, <2>2 DEF Persist
<1>6. CASE AckHandled(r)
  <2>1. AcksArePersisted'
    BY <1>6 DEF AckHandled
  <2>2. Shape' /\ UploadsOnDisk' /\ ReferencedIsHeld' /\ AdvertisedIsOnDisk'
    BY <1>6 DEF AckHandled
  <2>3. ProgramsFollow' /\ SweepKnows' /\ AppliedIsHeld'
    BY <1>6 DEF AckHandled
  <2> QED
    BY <2>1, <2>2, <2>3
<1>7. CASE AckLost(r)
  BY <1>7 DEF AckLost
<1>8. CASE RelayRestarts(r)
  BY <1>8 DEF RelayRestarts
<1> QED
  BY <1>1, <1>2, <1>3, <1>4, <1>5, <1>6, <1>7, <1>8 DEF RelayStep

LEMMA RestartAndTickKeepInv == ASSUME Inv, FeederRestarts \/ Tick PROVE Inv'
<1> USE RetentionAssumption DEF Inv, Shape, UploadsOnDisk, ProgramsFollow, AcksArePersisted, SweepKnows,
      ReferencedIsHeld, AppliedIsHeld, AdvertisedIsOnDisk, store, relays
<1>1. CASE FeederRestarts
  <2>1. PICK left \in [Relays -> UNION {Orphan(r) : r \in Relays}] :
          (\A r \in Relays : left[r] \in Orphan(r)) /\ pull' = left
    BY <1>1 DEF FeederRestarts
  <2>2. \A r \in Relays : \/ pull'[r] = NoPull
                         \/ /\ Arrived(r)
                            /\ pull'[r].pc = "orphaned" /\ pull'[r].since \in Nat
                            /\ pull'[r].gen = pull[r].gen /\ pull'[r].prog = pull[r].prog
    BY <2>1 DEF Orphan
  <2>3. pull' \in [Relays -> [pc : {"none", "asked", "answered", "orphaned"}, since : Nat,
                              gen : Nat, prog : SUBSET Assets]]
    <3>1. \A r \in Relays : Orphan(r) \subseteq
            [pc : {"none", "asked", "answered", "orphaned"}, since : Nat, gen : Nat, prog : SUBSET Assets]
      BY DEF Orphan
    <3> QED
      BY <2>1, <3>1
  <2>4. Shape'
    BY <1>1, <2>3 DEF FeederRestarts
  <2>5. ProgramsFollow'
    <3>1. UNCHANGED <<rows, gen, durable>>
      BY <1>1 DEF FeederRestarts
    <3>2. ASSUME NEW r \in Relays, Arrived(r)'
          PROVE  pull'[r].gen <= gen /\ (pull'[r].gen = gen => pull'[r].prog \subseteq rows)
      BY <2>2, <3>2
    <3> QED
      BY <3>1, <3>2
  <2>6. \A a \in Assets : Has(a) => Has(a)'
    BY <1>1 DEF FeederRestarts
  <2>7. AppliedIsHeld'
    <3>1. durable' = durable
      BY <1>1 DEF FeederRestarts
    <3>2. \A r \in Relays : durable[r].prog \subseteq Assets /\ pull[r].prog \subseteq Assets
      OBVIOUS
    <3>3. ASSUME NEW r \in Relays, Arrived(r)', pull'[r].gen >= durable[r].gen,
                 NEW a \in pull'[r].prog
          PROVE  Has(a)
      BY <2>2, <3>3
    <3>4. ASSUME NEW r \in Relays PROVE \A a \in pull'[r].prog : a \in Assets
      BY <2>3, <3>4
    <3> QED
      BY <2>6, <3>1, <3>2, <3>3, <3>4
  <2>8. UploadsOnDisk' /\ AcksArePersisted' /\ SweepKnows' /\ ReferencedIsHeld' /\ AdvertisedIsOnDisk'
    BY <1>1 DEF FeederRestarts
  <2> QED
    BY <2>4, <2>5, <2>7, <2>8
<1>2. CASE Tick
  BY <1>2 DEF Tick, Older
<1> QED
  BY <1>1, <1>2

LEMMA NextKeepsInv == ASSUME Inv, [Next]_vars PROVE Inv'
<1>1. CASE UNCHANGED vars
  BY <1>1 DEF vars, store, origin, relays, Inv, Shape, UploadsOnDisk, ProgramsFollow, AcksArePersisted,
      SweepKnows, ReferencedIsHeld, AppliedIsHeld, AdvertisedIsOnDisk
<1>2. CASE Remint
  <2>1. CASE Assets = {}
    BY <1>2, <2>1, RetentionAssumption
    DEF Remint, Inv, Shape, UploadsOnDisk, ProgramsFollow, AcksArePersisted, SweepKnows,
      ReferencedIsHeld, AppliedIsHeld, AdvertisedIsOnDisk, origin, relays
  <2>2. CASE Assets # {}
    BY <1>2, <2>2, AuthoringKeepsInv
  <2> QED
    BY <2>1, <2>2
<1>3. CASE Next /\ ~Remint
  BY <1>3, AuthoringKeepsInv, UploadKeepsInv, SweepKeepsInv, RelayKeepsInv, RestartAndTickKeepInv DEF Next
<1> QED
  BY <1>1, <1>2, <1>3

\* No stored row references reclaimed bytes, no relay has persisted or is about
\* to persist a program that needs them, and nothing is advertised that a
\* restart would not find: for every fleet, every window and any number of
\* faults, crashes of both processes included.
THEOREM InUseIsNeverReclaimed ==
  Spec => [](ReferencedIsHeld /\ AppliedIsHeld /\ AdvertisedIsOnDisk)
<1>1. Init => Inv
  BY InitInv
<1>2. Inv /\ [Next]_vars => Inv'
  BY NextKeepsInv
<1>3. Inv => ReferencedIsHeld /\ AppliedIsHeld /\ AdvertisedIsOnDisk
  BY DEF Inv
<1> QED
  BY <1>1, <1>2, <1>3, PTL DEF Spec

\* The generations are in step: an ack, handled or on its way, names at most
\* what its relay has persisted, and a relay that has persisted the current
\* generation serves nothing the rows do not name.
THEOREM AcksAreHonest == Spec => [](AcksArePersisted /\ ProgramsFollow)
<1>1. Init => Inv
  BY InitInv
<1>2. Inv /\ [Next]_vars => Inv'
  BY NextKeepsInv
<1>3. Inv => AcksArePersisted /\ ProgramsFollow
  BY DEF Inv
<1> QED
  BY <1>1, <1>2, <1>3, PTL DEF Spec

\* No row names reclaimed bytes, whatever uploads, writes and sweeps overlap.
THEOREM RowsHaveTheirBytes == Spec => []ReferencedIsHeld
  BY InUseIsNeverReclaimed, PTL

\* What the origin lists is on disk: a restart finds it again.
THEOREM AdvertisedSurvives == Spec => []AdvertisedIsOnDisk
  BY InUseIsNeverReclaimed, PTL

-----------------------------------------------------------------------------
(***************************************************************************)
(* The window.  A mark is of the generation it was taken at and of bytes   *)
(* that are held, so nothing can have named its asset since; what a sweep  *)
(* has doomed keeps its age while the store is locked.                     *)
(***************************************************************************)
Idle(a) == past.idle[a]

Ghosts == [idle : [Assets -> Nat \cup {None}], unminted : Nat, faults : Nat]

MarksAreOfHeld ==
  /\ past \in Ghosts
  /\ \A a \in Assets : marks[a] # None =>
       /\ marks[a].age \in 0 .. MinUnreferencedAge
       /\ marks[a].generation \in 0 .. gen
       /\ Has(a)

MarksAreYoung == \A a \in Assets : Marked(a) /\ Idle(a) # None => Idle(a) >= marks[a].age

DoomedAreOld == \A a \in sweep.doomed : Has(a) /\ (Idle(a) # None => Idle(a) >= MinUnreferencedAge)

WindowInv == /\ marks = [a \in Assets |-> marks[a]]
             /\ MarksAreOfHeld /\ MarksAreYoung /\ DoomedAreOld /\ UnnamedForTheWindow

\* A step that touches neither marks nor the ages of idleness, and takes nothing away.
LEMMA AsideKeepsWindow ==
  ASSUME Inv, Inv', WindowInv, UNCHANGED marks, sweep'.doomed \subseteq sweep.doomed,
         past'.idle = past.idle, past' \in Ghosts,
         gen' \in Nat, gen' >= gen, \A a \in Assets : Has(a) => Has(a)'
  PROVE  WindowInv'
<1> USE RetentionAssumption DEF WindowInv
<1>1. MarksAreOfHeld'
  BY DEF MarksAreOfHeld, Inv, Shape
<1>2. \A a \in Assets : Marked(a)' => Marked(a)
  <2> SUFFICES ASSUME NEW a \in Assets, Marked(a)' PROVE Marked(a)
    OBVIOUS
  <2>1. marks[a] # None /\ marks[a].generation = gen'
    BY DEF Marked
  <2>2. marks[a].generation \in 0 .. gen /\ gen \in Nat
    BY <2>1 DEF MarksAreOfHeld, Inv, Shape
  <2> QED
    BY <2>1, <2>2 DEF Marked
<1>3. MarksAreYoung'
  BY <1>2 DEF MarksAreYoung, Idle
<1>4. DoomedAreOld'
  BY DEF DoomedAreOld, Idle, Inv, Shape
<1>5. UnnamedForTheWindow'
  BY DEF UnnamedForTheWindow
<1> QED
  BY <1>1, <1>3, <1>4, <1>5
\* A write or an upload that names an asset anew.
LEMMA TouchKeepsWindow ==
  ASSUME Inv, Inv', WindowInv, UNCHANGED <<marks, sweep>>, NEW a \in Assets, Touched(a),
         gen' \in Nat, gen' >= gen, \A b \in Assets : Has(b) => Has(b)',
         ~Marked(a)' /\ a \notin sweep.doomed /\ Has(a)'
  PROVE  WindowInv'
<1> USE RetentionAssumption DEF WindowInv
<1>1. /\ past' \in Ghosts
      /\ past'.idle = [past.idle EXCEPT ![a] = 0]
  BY DEF Touched, MarksAreOfHeld, Ghosts
<1>2. Idle(a)' = 0 /\ \A b \in Assets \ {a} : Idle(b)' = Idle(b)
  BY <1>1 DEF MarksAreOfHeld, Ghosts, Idle
<1>3. MarksAreOfHeld'
  BY <1>1 DEF MarksAreOfHeld, Inv, Shape
<1>4. \A b \in Assets : Marked(b)' => b # a /\ Marked(b)
  <2> SUFFICES ASSUME NEW b \in Assets, Marked(b)' PROVE b # a /\ Marked(b)
    OBVIOUS
  <2>1. marks[b] # None /\ marks[b].generation = gen'
    BY DEF Marked
  <2>2. marks[b].generation \in 0 .. gen /\ gen \in Nat
    BY <2>1 DEF MarksAreOfHeld, Inv, Shape
  <2> QED
    BY <2>1, <2>2 DEF Marked
<1>5. MarksAreYoung'
  BY <1>2, <1>4 DEF MarksAreYoung
<1>6. DoomedAreOld'
  <2> SUFFICES ASSUME NEW b \in sweep.doomed
               PROVE  Has(b)' /\ (Idle(b)' # None => Idle(b)' >= MinUnreferencedAge)
    BY DEF DoomedAreOld
  <2>1. b \in Assets /\ b # a /\ Has(b)
    BY DEF Inv, Shape, DoomedAreOld
  <2> QED
    BY <1>2, <2>1 DEF DoomedAreOld
<1>7. UnnamedForTheWindow'
  BY <1>2 DEF UnnamedForTheWindow, Idle
<1> QED
  BY <1>3, <1>5, <1>6, <1>7

\* The other steps leave the ages of idleness alone.
LEMMA IdleKept ==
  ASSUME WindowInv, Fault \/ Unminted \/ UNCHANGED past
  PROVE  past' \in Ghosts /\ past'.idle = past.idle
<1>1. past \in Ghosts
  BY DEF WindowInv, MarksAreOfHeld
<1>2. CASE Fault \/ Unminted
  <2>1. /\ past = [idle |-> past.idle, unminted |-> past.unminted, faults |-> past.faults]
        /\ past.unminted + 1 \in Nat /\ past.faults + 1 \in Nat
    BY <1>1 DEF Ghosts
  <2>2. CASE Fault
    <3>1. past' = [idle |-> past.idle, unminted |-> past.unminted, faults |-> past.faults + 1]
      BY <2>1, <2>2 DEF Fault
    <3> QED
      BY <1>1, <2>1, <3>1 DEF Ghosts
  <2>3. CASE Unminted
    <3>1. past' = [idle |-> past.idle, unminted |-> past.unminted + 1, faults |-> past.faults + 1]
      BY <2>1, <2>3 DEF Unminted
    <3> QED
      BY <1>1, <2>1, <3>1 DEF Ghosts
  <2> QED
    BY <1>2, <2>2, <2>3
<1>3. CASE UNCHANGED past
  BY <1>1, <1>3
<1> QED
  BY <1>2, <1>3

LEMMA WindowInit == Init => WindowInv
  BY RetentionAssumption
  DEF Init, WindowInv, MarksAreOfHeld, Ghosts, MarksAreYoung, DoomedAreOld, UnnamedForTheWindow, Marked, Idle

LEMMA SweepKeepsWindow == ASSUME Inv, Inv', WindowInv, SweepStep PROVE WindowInv'
<1> USE RetentionAssumption DEF WindowInv, Sweeping, store, origin
<1>f. Fault \/ Unminted \/ UNCHANGED past =>
        past' \in Ghosts /\ past'.idle = past.idle
  BY IdleKept
<1>g. gen \in Nat /\ sweep.doomed \subseteq Assets
  BY DEF Inv, Shape
<1>1. CASE SweepReadsGeneration
  BY <1>1, <1>f, <1>g, AsideKeepsWindow DEF SweepReadsGeneration
<1>2. CASE SweepAsksFleet
  <2>1. past' \in Ghosts /\ past'.idle = past.idle
    BY <1>2, <1>f DEF SweepAsksFleet
  <2> QED
    BY <1>2, <1>g, <2>1, AsideKeepsWindow DEF SweepAsksFleet
<1>3. CASE SweepDecides
  <2>1. UNCHANGED <<gen, rows, items, past>> /\ marks' = TakeMarks
        /\ sweep'.doomed = {a \in Assets : Reclaimable(a)}
    BY <1>3 DEF SweepDecides
  <2>2. \A a \in Assets : marks'[a] # None => Has(a) /\ (marks'[a] = marks[a] \/ marks'[a] = [age |-> 0, generation |-> gen])
    BY <2>1 DEF TakeMarks
  <2>3. MarksAreOfHeld'
    <3> SUFFICES ASSUME NEW a \in Assets, marks'[a] # None
                 PROVE  marks'[a].age \in 0 .. MinUnreferencedAge /\ marks'[a].generation \in 0 .. gen /\ Has(a)
      BY <2>1 DEF MarksAreOfHeld
    <3> QED
      BY <1>g, <2>2 DEF MarksAreOfHeld
  <2>4. MarksAreYoung'
    <3> SUFFICES ASSUME NEW a \in Assets, Marked(a)', Idle(a) # None
                 PROVE  Idle(a) >= marks'[a].age
      BY <2>1 DEF MarksAreYoung, Idle
    <3>1. Idle(a) \in Nat /\ marks'[a] # None /\ marks'[a].generation = gen
      BY <2>1 DEF MarksAreOfHeld, Ghosts, Idle, Marked
    <3> QED
      BY <2>2, <3>1 DEF MarksAreYoung, Marked
  <2>5. DoomedAreOld'
    <3> SUFFICES ASSUME NEW a \in Assets, Reclaimable(a), Idle(a) # None PROVE Idle(a) >= MinUnreferencedAge
      BY <2>1 DEF DoomedAreOld, Reclaimable, Idle
    <3>1. Idle(a) >= marks[a].age /\ marks[a].age >= MinUnreferencedAge /\ marks[a].age \in Nat /\ Idle(a) \in Nat
      BY DEF Reclaimable, MarksAreYoung, MarksAreOfHeld, Ghosts, Marked, Idle
    <3> QED
      BY <3>1
  <2>6. UnnamedForTheWindow'
    BY <2>1 DEF UnnamedForTheWindow
  <2> QED
    BY <2>1, <2>3, <2>4, <2>5, <2>6 DEF TakeMarks
<1>4. ASSUME NEW a \in Assets, Remove(a), Sweeping PROVE WindowInv'
  <2>1. /\ a \in sweep.doomed /\ UNCHANGED past
        /\ items' = [items EXCEPT ![a] = None] /\ marks' = [marks EXCEPT ![a] = None]
        /\ sweep'.doomed = sweep.doomed \ {a} /\ UNCHANGED gen
    BY <1>4 DEF Remove, Removing
  <2>2. ~Has(a)' /\ \A b \in Assets \ {a} : Has(b)' = Has(b) /\ marks'[b] = marks[b]
    BY <2>1 DEF Inv, Shape
  <2>3. marks'[a] = None
    BY <2>1
  <2>4. MarksAreOfHeld' /\ MarksAreYoung'
    BY <2>1, <2>2, <2>3 DEF MarksAreOfHeld, MarksAreYoung, Marked, Idle
  <2>5. DoomedAreOld'
    BY <1>g, <2>1, <2>2 DEF DoomedAreOld, Idle
  <2>6. UnnamedForTheWindow'
    BY <2>1, <2>2 DEF UnnamedForTheWindow, DoomedAreOld, Idle, MarksAreOfHeld, Ghosts
  <2>7. marks' = [b \in Assets |-> marks'[b]]
    BY <2>1
  <2> QED
    BY <2>4, <2>5, <2>6, <2>7
<1>5. ASSUME NEW a \in Assets, RemoveFails(a), Sweeping PROVE WindowInv'
  <2>1. past' \in Ghosts /\ past'.idle = past.idle
    BY <1>5, <1>f DEF RemoveFails
  <2> QED
    BY <1>5, <1>g, <2>1, AsideKeepsWindow DEF RemoveFails, Removing
<1>6. CASE SweepEnds
  BY <1>6, <1>f, <1>g, AsideKeepsWindow DEF SweepEnds
<1>7. CASE SweepFails
  BY <1>7, <1>f, <1>g, AsideKeepsWindow DEF SweepFails
<1> QED
  BY <1>1, <1>2, <1>3, <1>4, <1>5, <1>6, <1>7 DEF SweepStep, SweepRemoves

\* The ages grow together; idleness is capped above the window.
LEMMA TickKeepsWindow == ASSUME MinUnreferencedAge <= Horizon, Inv, Inv', WindowInv, Tick PROVE WindowInv'
<1> USE RetentionAssumption DEF WindowInv
<1>1. /\ UNCHANGED <<gen, sweep>>
      /\ \A a \in Assets : Has(a)' <=> Has(a)
      /\ marks' = [a \in Assets |-> IF marks[a] = None THEN None
                     ELSE [age |-> Older(marks[a].age, MinUnreferencedAge), generation |-> marks[a].generation]]
      /\ past' = [past EXCEPT !.idle = [a \in Assets |-> Older(past.idle[a], Horizon)]]
  BY DEF Tick, PastOlder, store, Older, Inv, Shape
<1>2. \A n \in Nat, cap \in Nat : Older(n, cap) = IF n < cap THEN n + 1 ELSE n
  BY DEF Older
<1>3. \A a \in Assets : Idle(a)' = Older(Idle(a), Horizon) /\ Idle(a) \in Nat \cup {None}
  BY <1>1 DEF Idle, MarksAreOfHeld, Ghosts
<1>4. \A a \in Assets : /\ Idle(a)' # None => Idle(a) # None /\ Idle(a) \in Nat /\ Idle(a)' \in Nat
                                             /\ Idle(a)' = (IF Idle(a) < Horizon THEN Idle(a) + 1 ELSE Idle(a))
  BY <1>2, <1>3 DEF Older
<1>5. past' \in Ghosts
  <2>1. \A a \in Assets : Older(past.idle[a], Horizon) \in Nat \cup {None}
    BY <1>2, <1>3 DEF Idle, Older
  <2> QED
    BY <1>1, <2>1 DEF MarksAreOfHeld, Ghosts
<1>6. \A a \in Assets : marks'[a] # None =>
        /\ marks[a] # None /\ marks'[a].generation = marks[a].generation
        /\ marks[a].age \in 0 .. MinUnreferencedAge
        /\ marks'[a].age = IF marks[a].age < MinUnreferencedAge THEN marks[a].age + 1 ELSE marks[a].age
  BY <1>1, <1>2 DEF MarksAreOfHeld
<1>7. MarksAreOfHeld'
  BY <1>1, <1>5, <1>6 DEF MarksAreOfHeld
<1>8. MarksAreYoung'
  <2> SUFFICES ASSUME NEW a \in Assets, Marked(a)', Idle(a)' # None PROVE Idle(a)' >= marks'[a].age
    BY DEF MarksAreYoung
  <2>1. Marked(a) /\ marks'[a] # None
    BY <1>1, <1>6 DEF Marked
  <2>2. Idle(a) >= marks[a].age /\ Idle(a) \in Nat
    BY <1>4, <2>1 DEF MarksAreYoung
  <2> QED
    BY <1>4, <1>6, <2>1, <2>2
<1>9. DoomedAreOld'
  <2> SUFFICES ASSUME NEW a \in sweep.doomed, Idle(a)' # None PROVE Has(a) /\ Idle(a)' >= MinUnreferencedAge
    BY <1>1 DEF DoomedAreOld, Inv, Shape
  <2>1. a \in Assets
    BY DEF Inv, Shape
  <2> QED
    BY <1>4, <2>1 DEF DoomedAreOld
<1>10. UnnamedForTheWindow'
  <2> SUFFICES ASSUME NEW a \in Assets, Idle(a)' # None, Idle(a)' < MinUnreferencedAge PROVE Has(a)
    BY <1>1 DEF UnnamedForTheWindow, Idle
  <2>1. Idle(a) # None /\ Idle(a) < MinUnreferencedAge
    BY <1>4
  <2> QED
    BY <2>1 DEF UnnamedForTheWindow, Idle
<1> QED
  BY <1>1, <1>7, <1>8, <1>9, <1>10

LEMMA WindowInductive == ASSUME MinUnreferencedAge <= Horizon PROVE Inv /\ WindowInv /\ [Next]_vars => WindowInv'
<1> SUFFICES ASSUME Inv, WindowInv, [Next]_vars PROVE WindowInv'
  OBVIOUS
<1> USE RetentionAssumption
<1>i. Inv'
  BY NextKeepsInv
<1>f. Fault \/ Unminted \/ UNCHANGED past =>
        past' \in Ghosts /\ past'.idle = past.idle
  BY IdleKept
<1>g. gen \in Nat /\ sweep.doomed \subseteq Assets /\ gen' \in Nat
  BY <1>i DEF Inv, Shape
<1>1. ASSUME NEW a \in Assets, Check(a) PROVE WindowInv'
  BY <1>1, <1>i, <1>f, <1>g, AsideKeepsWindow DEF Check, origin
<1>2. ASSUME NEW a \in Assets, Commit(a) PROVE WindowInv'
  <2>1. CASE Has(a)
    <3>1. Touched(a) /\ gen' = gen + 1 /\ sweep.pc # "removing" /\ UNCHANGED <<marks, sweep, items>>
      BY <1>2, <2>1 DEF Commit, origin
    <3>2. ~Marked(a)' /\ a \notin sweep.doomed /\ Has(a)'
      BY <1>g, <2>1, <3>1 DEF Marked, WindowInv, MarksAreOfHeld, Inv, SweepKnows
    <3> QED
      BY <1>i, <1>g, <3>1, <3>2, TouchKeepsWindow
  <2>2. CASE ~Has(a)
    BY <1>2, <1>i, <1>f, <1>g, <2>2, AsideKeepsWindow DEF Commit, origin
  <2> QED
    BY <2>1, <2>2
<1>3. ASSUME NEW a \in Assets, Unreference(a) PROVE WindowInv'
  <2>1. Touched(a) /\ gen' = gen + 1 /\ sweep.pc # "removing" /\ UNCHANGED <<marks, sweep, items>> /\ Has(a)
    BY <1>3 DEF Unreference, origin, Inv, ReferencedIsHeld
  <2>2. ~Marked(a)' /\ a \notin sweep.doomed /\ Has(a)'
    BY <1>g, <2>1 DEF Marked, WindowInv, MarksAreOfHeld, Inv, SweepKnows
  <2> QED
    BY <1>i, <1>g, <2>1, <2>2, TouchKeepsWindow
<1>4. CASE Remint
  <2>1. UNCHANGED <<marks, sweep, items>> /\ gen' >= gen /\ (UNCHANGED past \/ Unminted)
    BY <1>4, <1>g DEF Remint, origin
  <2> QED
    BY <1>i, <1>f, <1>g, <2>1, AsideKeepsWindow
<1>5. ASSUME NEW u \in Uploads, UploadStep(u) PROVE WindowInv'
  <2> USE DEF Uploading, store
  <2>1. ASSUME NEW a \in Assets, AddBegin(u, a) PROVE WindowInv'
    BY <2>1, <1>i, <1>f, <1>g, AsideKeepsWindow DEF AddBegin
  <2>2. CASE AddWrite(u)
    BY <2>2, <1>i, <1>f, <1>g, AsideKeepsWindow DEF AddWrite
  <2>3. CASE AddFails(u)
    BY <2>3, <1>i, <1>f, <1>g, AsideKeepsWindow DEF AddFails
  <2>4. CASE AddPublish(u)
    <3>1. PICK a \in Assets : /\ Accepted(a) /\ UNCHANGED <<marks, sweep, gen>>
                              /\ items' = [items EXCEPT ![a] = IF Has(a) THEN items[a] ELSE 0]
      BY <2>4 DEF AddPublish, Inv, UploadsOnDisk
    <3>2. Has(a)' /\ \A b \in Assets : Has(b) => Has(b)'
      <4>1. items \in [Assets -> Nat \cup {None}]
        BY DEF Inv, Shape
      <4>2. items'[a] # None /\ \A b \in Assets \ {a} : items'[b] = items[b]
        BY <3>1, <4>1
      <4> QED
        BY <4>2
    <3>3. CASE Has(a)
      BY <1>i, <1>f, <1>g, <3>1, <3>2, <3>3, AsideKeepsWindow DEF Accepted
    <3>4. CASE ~Has(a)
      <4>1. ~Marked(a)' /\ a \notin sweep.doomed
        BY <3>1, <3>4 DEF Marked, WindowInv, MarksAreOfHeld, DoomedAreOld
      <4> QED
        BY <1>i, <1>g, <3>1, <3>2, <3>4, <4>1, TouchKeepsWindow DEF Accepted
    <3> QED
      BY <3>3, <3>4
  <2> QED
    BY <1>5, <2>1, <2>2, <2>3, <2>4 DEF UploadStep
<1>6. CASE SweepStep
  BY <1>6, <1>i, SweepKeepsWindow
<1>7. ASSUME NEW r \in Relays, RelayStep(r) PROVE WindowInv'
  <2>1. UNCHANGED <<marks, sweep, gen, items>> /\ (UNCHANGED past \/ Fault)
    BY <1>7 DEF RelayStep, Connect, Disconnect, PullAsks, PullAnswered, Persist, AckHandled, AckLost,
                RelayRestarts, Relaying, store, origin
  <2> QED
    BY <1>i, <1>f, <1>g, <2>1, AsideKeepsWindow
<1>8. CASE FeederRestarts
  <2>1. /\ marks' = [a \in Assets |-> None] /\ sweep'.doomed = {} /\ gen' = gen /\ Fault
        /\ \A a \in Assets : Has(a) => Has(a)'
    BY <1>8 DEF FeederRestarts, Inv, AdvertisedIsOnDisk
  <2>2. UnnamedForTheWindow'
    BY <1>f, <2>1 DEF WindowInv, UnnamedForTheWindow
  <2> QED
    BY <1>f, <2>1, <2>2 DEF WindowInv, MarksAreOfHeld, MarksAreYoung, DoomedAreOld, Marked
<1>9. CASE Tick
  BY <1>9, <1>i, TickKeepsWindow
<1>10. CASE UNCHANGED vars
  BY <1>10, <1>i, <1>f, <1>g, AsideKeepsWindow DEF vars, store, origin
<1> QED
  BY <1>1, <1>2, <1>3, <1>4, <1>5, <1>6, <1>7, <1>8, <1>9, <1>10 DEF Next

(***************************************************************************)
(* What the sweep takes had not been named for the whole window, however   *)
(* writes, re-mints, restarts and failed removals fall between two of its  *)
(* passes.  The ghost has to count as far as the window.                   *)
(***************************************************************************)
THEOREM WindowIsObserved ==
  ASSUME MinUnreferencedAge <= Horizon
  PROVE  Spec => []UnnamedForTheWindow
<1>1. Init => Inv /\ WindowInv
  BY InitInv, WindowInit
<1>2. Inv /\ [Next]_vars => Inv'
  BY NextKeepsInv
<1>3. Inv /\ WindowInv /\ [Next]_vars => WindowInv'
  BY WindowInductive
<1>4. WindowInv => UnnamedForTheWindow
  BY DEF WindowInv
<1> QED
  BY <1>1, <1>2, <1>3, <1>4, PTL DEF Spec

-----------------------------------------------------------------------------
(***************************************************************************)
(* Why nothing is reclaimed while the re-mints run.  A mark of the current *)
(* generation is younger than the last re-mint that succeeded: since then  *)
(* one interval has run, and another for every re-mint that has failed.    *)
(***************************************************************************)
Budget(n) == RemintInterval * (n + 1)

MarksAwaitRemint ==
  /\ remintIn \in 0 .. RemintInterval
  /\ \A a \in Assets : Marked(a) => marks[a].age + remintIn <= Budget(past.unminted)

RemintInv == MarksAwaitRemint /\ ReclaimsOnlyUnminted

\* A failed re-mint buys one interval more.
LEMMA BudgetGrows ==
  ASSUME NEW n \in Nat
  PROVE  /\ Budget(n) \in Nat /\ Budget(n) >= RemintInterval
         /\ Budget(n + 1) = Budget(n) + RemintInterval
<1>1. RemintInterval \in Nat /\ RemintInterval * n \in Nat
  BY RetentionAssumption
<1>2. RemintInterval * (n + 1) = RemintInterval * n + RemintInterval
  BY <1>1
<1>3. RemintInterval * (n + 1 + 1) = RemintInterval * n + RemintInterval + RemintInterval
  BY <1>1
<1> QED
  BY <1>1, <1>2, <1>3 DEF Budget

\* A step that leaves the clock, the marks and the doomed alone.
LEMMA AsideKeepsRemint ==
  ASSUME Inv, Inv', WindowInv, RemintInv, UNCHANGED <<marks, remintIn>>, sweep'.doomed \subseteq sweep.doomed,
         gen' >= gen, past.unminted \in Nat, past'.unminted = past.unminted
  PROVE  RemintInv'
<1>1. ASSUME NEW a \in Assets, Marked(a)' PROVE Marked(a)
  <2>1. marks[a] # None /\ marks[a].generation = gen' /\ gen \in Nat /\ gen' \in Nat
    BY <1>1 DEF Marked, Inv, Shape
  <2>2. marks[a].generation \in 0 .. gen
    BY <2>1 DEF WindowInv, MarksAreOfHeld
  <2> QED
    BY <2>1, <2>2 DEF Marked
<1>2. MarksAwaitRemint'
  BY <1>1 DEF RemintInv, MarksAwaitRemint
<1>3. ReclaimsOnlyUnminted'
  BY DEF RemintInv, ReclaimsOnlyUnminted
<1> QED
  BY <1>2, <1>3 DEF RemintInv

\* What is left of the ghost by the steps that are not a re-mint.
LEMMA UnmintedKept ==
  ASSUME WindowInv, Fault \/ UNCHANGED past \/ \E a \in Assets : Touched(a)
  PROVE  past.unminted \in Nat /\ past'.unminted = past.unminted
  BY DEF WindowInv, MarksAreOfHeld, Ghosts, Fault, Touched

\* Marks age as the ticker runs down, and a re-mint that succeeds voids them all.
LEMMA RemintInductive == Inv /\ WindowInv /\ RemintInv /\ [Next]_vars => RemintInv'
<1> SUFFICES ASSUME Inv, WindowInv, RemintInv, [Next]_vars PROVE RemintInv'
  OBVIOUS
<1> USE RetentionAssumption
<1>i. Inv'
  BY NextKeepsInv
<1>g. /\ gen \in Nat /\ gen' \in Nat /\ past.unminted \in Nat /\ remintIn \in 0 .. RemintInterval
      /\ \A a \in Assets : marks[a] # None => /\ marks[a].age \in 0 .. MinUnreferencedAge
                                              /\ marks[a].generation \in 0 .. gen
  BY <1>i DEF Inv, Shape, WindowInv, MarksAreOfHeld, Ghosts, RemintInv, MarksAwaitRemint
<1>1. ASSUME UNCHANGED <<marks, clock>>, sweep'.doomed \subseteq sweep.doomed, gen' >= gen,
             Fault \/ UNCHANGED past \/ \E a \in Assets : Touched(a)
      PROVE  RemintInv'
  BY <1>1, <1>i, AsideKeepsRemint, UnmintedKept DEF clock
<1>2. ASSUME NEW a \in Assets, Check(a) \/ Commit(a) \/ Unreference(a) PROVE RemintInv'
  BY <1>1, <1>2, <1>g DEF Check, Commit, Unreference
<1>3. CASE Remint
  <2>1. UNCHANGED <<marks, sweep>> /\ remintIn = 0 /\ remintIn' = RemintInterval
    BY <1>3 DEF Remint
  <2>2. CASE gen' = gen + 1 /\ UNCHANGED past
    <3>1. \A a \in Assets : ~Marked(a)'
      BY <1>g, <2>1, <2>2 DEF Marked
    <3> QED
      BY <2>1, <2>2, <3>1 DEF RemintInv, MarksAwaitRemint, ReclaimsOnlyUnminted
  <2>3. CASE gen' = gen /\ Unminted
    <3>1. past'.unminted = past.unminted + 1
      BY <2>3 DEF Unminted, WindowInv, MarksAreOfHeld, Ghosts
    <3>2. /\ Budget(past.unminted) \in Nat
          /\ Budget(past'.unminted) = Budget(past.unminted) + RemintInterval
      BY <1>g, <3>1, BudgetGrows
    <3>3. MarksAwaitRemint'
      <4>1. \A a \in Assets : Marked(a)' => Marked(a) /\ marks'[a].age = marks[a].age
        BY <2>1, <2>3 DEF Marked
      <4> QED
        BY <1>g, <2>1, <3>2, <4>1 DEF RemintInv, MarksAwaitRemint, Marked
    <3>4. ReclaimsOnlyUnminted'
      BY <1>g, <2>1, <3>2 DEF RemintInv, ReclaimsOnlyUnminted, Budget
    <3> QED
      BY <3>3, <3>4 DEF RemintInv
  <2> QED
    BY <1>3, <2>2, <2>3 DEF Remint
<1>4. ASSUME NEW u \in Uploads, UploadStep(u) PROVE RemintInv'
  <2>1. Fault \/ UNCHANGED past \/ \E a \in Assets : Touched(a)
    BY <1>4 DEF UploadStep, AddBegin, AddWrite, AddFails, AddPublish, Accepted, Inv, UploadsOnDisk
  <2> QED
    BY <1>1, <1>4, <1>g, <2>1 DEF UploadStep, AddBegin, AddWrite, AddFails, AddPublish, Uploading, store
<1>5. CASE SweepStep
  <2> USE DEF Sweeping, store
  <2>1. CASE SweepReadsGeneration
    BY <1>1, <1>g, <2>1 DEF SweepReadsGeneration
  <2>2. CASE SweepAsksFleet
    BY <1>1, <1>g, <2>2 DEF SweepAsksFleet
  <2>3. CASE SweepDecides
    <3>1. /\ UNCHANGED <<gen, past, remintIn>> /\ marks' = TakeMarks
          /\ sweep'.doomed = {a \in Assets : Reclaimable(a)}
      BY <2>3 DEF SweepDecides, clock
    <3>2. Budget(past.unminted) \in Nat /\ Budget(past.unminted) >= RemintInterval
      BY <1>g, BudgetGrows
    <3>3. MarksAwaitRemint'
      <4> SUFFICES ASSUME NEW a \in Assets, Marked(a)'
                   PROVE  marks'[a].age + remintIn <= Budget(past.unminted)
        BY <1>g, <3>1 DEF MarksAwaitRemint
      <4>1. (Marked(a) /\ marks'[a] = marks[a]) \/ marks'[a] = [age |-> 0, generation |-> gen]
        BY <3>1 DEF Marked, TakeMarks
      <4>2. CASE Marked(a) /\ marks'[a] = marks[a]
        BY <4>2 DEF RemintInv, MarksAwaitRemint
      <4>3. CASE marks'[a] = [age |-> 0, generation |-> gen]
        BY <1>g, <3>2, <4>3
      <4> QED
        BY <4>1, <4>2, <4>3
    <3>4. ReclaimsOnlyUnminted'
      <4> SUFFICES ASSUME NEW a \in Assets, Reclaimable(a)
                   PROVE  Budget(past.unminted) >= MinUnreferencedAge
        BY <3>1 DEF ReclaimsOnlyUnminted, Budget
      <4>1. Marked(a) /\ marks[a] # None /\ marks[a].age >= MinUnreferencedAge
        BY DEF Reclaimable, Marked
      <4>2. marks[a].age + remintIn <= Budget(past.unminted)
        BY <4>1 DEF RemintInv, MarksAwaitRemint
      <4> QED
        BY <1>g, <3>2, <4>1, <4>2
    <3> QED
      BY <3>3, <3>4 DEF RemintInv
  <2>4. ASSUME NEW a \in Assets, Remove(a), Sweeping, UNCHANGED clock PROVE RemintInv'
    <3>1. /\ marks' = [marks EXCEPT ![a] = None] /\ sweep'.doomed \subseteq sweep.doomed
          /\ UNCHANGED <<gen, past, remintIn>>
      BY <2>4 DEF Remove, Removing, clock
    <3>2. \A b \in Assets : Marked(b)' => Marked(b) /\ marks'[b] = marks[b]
      BY <3>1 DEF Marked, WindowInv
    <3> QED
      BY <3>1, <3>2 DEF RemintInv, MarksAwaitRemint, ReclaimsOnlyUnminted
  <2>5. ASSUME NEW a \in Assets, RemoveFails(a), Sweeping, UNCHANGED clock PROVE RemintInv'
    BY <1>1, <1>g, <2>5 DEF RemoveFails, Removing
  <2>6. CASE SweepEnds \/ SweepFails
    <3>1. /\ UNCHANGED <<gen, marks, remintIn>> /\ sweep'.doomed = {} /\ (Fault \/ UNCHANGED past)
      BY <2>6 DEF SweepEnds, SweepFails
    <3> QED
      BY <1>i, <1>g, <3>1, AsideKeepsRemint, UnmintedKept
  <2> QED
    BY <1>5, <2>1, <2>2, <2>3, <2>4, <2>5, <2>6 DEF SweepStep, SweepRemoves
<1>6. ASSUME NEW r \in Relays, RelayStep(r) PROVE RemintInv'
  BY <1>1, <1>6, <1>g DEF RelayStep, Connect, Disconnect, PullAsks, PullAnswered, Persist, AckHandled, AckLost,
                          RelayRestarts, Relaying, store
<1>7. CASE FeederRestarts
  <2>1. /\ marks' = [a \in Assets |-> None] /\ sweep'.doomed = {} /\ remintIn' = RemintInterval
    BY <1>7 DEF FeederRestarts
  <2> QED
    BY <2>1 DEF RemintInv, MarksAwaitRemint, ReclaimsOnlyUnminted, Marked
<1>8. CASE Tick
  <2>1. /\ UNCHANGED <<gen, sweep>> /\ remintIn > 0 /\ remintIn' = remintIn - 1
        /\ past'.unminted = past.unminted
        /\ marks' = [a \in Assets |-> IF marks[a] = None THEN None
                       ELSE [age |-> Older(marks[a].age, MinUnreferencedAge), generation |-> marks[a].generation]]
    BY <1>8 DEF Tick, PastOlder, store, WindowInv, MarksAreOfHeld, Ghosts
  <2>2. ASSUME NEW a \in Assets, Marked(a)' PROVE marks'[a].age + remintIn' <= Budget(past.unminted)
    <3>1. Marked(a) /\ marks'[a].age = Older(marks[a].age, MinUnreferencedAge)
      BY <2>1, <2>2 DEF Marked
    <3>2. marks[a].age \in Nat /\ marks'[a].age \in Nat /\ marks'[a].age <= marks[a].age + 1
      BY <1>g, <3>1 DEF Older, Marked
    <3>3. marks[a].age + remintIn <= Budget(past.unminted) /\ Budget(past.unminted) \in Nat
      BY <1>g, <3>1, BudgetGrows DEF RemintInv, MarksAwaitRemint
    <3> QED
      BY <1>g, <2>1, <3>2, <3>3
  <2> QED
    BY <1>g, <2>1, <2>2 DEF RemintInv, MarksAwaitRemint, ReclaimsOnlyUnminted
<1>9. CASE UNCHANGED vars
  BY <1>1, <1>9, <1>g DEF vars, store
<1> QED
  BY <1>2, <1>3, <1>4, <1>5, <1>6, <1>7, <1>8, <1>9 DEF Next

(***************************************************************************)
(* remintLoop against the sweeper's marks: each re-mint moves the          *)
(* generation and voids every mark, so what a sweep dooms has outlived as  *)
(* many re-mints that failed as the window has intervals.                  *)
(***************************************************************************)
THEOREM RemintsForestallReclaim ==
  ASSUME MinUnreferencedAge <= Horizon
  PROVE  Spec => []ReclaimsOnlyUnminted
<1>1. Init => Inv /\ WindowInv
  BY InitInv, WindowInit
<1>2. Init => RemintInv
  BY RetentionAssumption DEF Init, RemintInv, MarksAwaitRemint, ReclaimsOnlyUnminted, Marked
<1>3. Inv /\ [Next]_vars => Inv'
  BY NextKeepsInv
<1>4. Inv /\ WindowInv /\ [Next]_vars => WindowInv'
  BY WindowInductive
<1>5. Inv /\ WindowInv /\ RemintInv /\ [Next]_vars => RemintInv'
  BY RemintInductive
<1>6. RemintInv => ReclaimsOnlyUnminted
  BY DEF RemintInv
<1> QED
  BY <1>1, <1>2, <1>3, <1>4, <1>5, <1>6, PTL DEF Spec

\* As shipped, a window longer than the re-mint interval: a feeder none of whose
\* re-mints has failed reclaims nothing.
THEOREM ShippedReclaimsNothing ==
  ASSUME MinUnreferencedAge <= Horizon, RemintInterval < MinUnreferencedAge
  PROVE  Spec => [](past.unminted = 0 => sweep.doomed = {})
<1>1. ReclaimsOnlyUnminted => (past.unminted = 0 => sweep.doomed = {})
  BY RetentionAssumption DEF ReclaimsOnlyUnminted
<1> QED
  BY <1>1, RemintsForestallReclaim, PTL
=============================================================================
