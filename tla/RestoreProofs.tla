--------------------------- MODULE RestoreProofs ---------------------------
(***************************************************************************)
(* The restore swap keeps its promises for every set of workspaces, every  *)
(* write callback and any number of restore jobs.  What the jobs stage is  *)
(* a whole archive in every behaviour in which they take turns.            *)
(***************************************************************************)
EXTENDS RestoreSwap, TLAPS

(***************************************************************************)
(* The inductive invariant: which files are on disk at each point of       *)
(* Adopt.  It says nothing of what the staged file holds, so it does not   *)
(* depend on how many jobs write it.                                       *)
(***************************************************************************)
AdoptWhere ==
  /\ boot \in {"clearPrevious", "moveAside", "carry", "clearLive", "swap"} =>
       marker /\ exists("incoming", "db")
  /\ boot \in {"clearPrevious", "moveAside", "clearStale", "unmark", "open", "up"} =>
       exists("live", "db")
  /\ boot \in {"carry", "clearLive", "swap"} => ~exists("live", "db")
  /\ boot \in {"clearStale", "unmark"} => ~exists("incoming", "db")
  /\ boot = "swap" => NoSidecars("live")
  /\ boot # "up" => openBy = {} /\ \A j \in Stagers : stager[j] = Idle

\* What has been taken out of the live slot is the pre-restore copy, except
\* while the next swap, certain to come, makes room for a newer one.
KeptUntilNextSwap ==
  replaced # Absent /\ fs["previous"]["db"] # replaced =>
    /\ boot \in {"off", "adopt", "clearPrevious", "moveAside"}
    /\ marker /\ exists("incoming", "db") /\ exists("live", "db")

MissingIsReplaced == ~exists("live", "db") => replaced = fs["previous"]["db"]

SwapInv == /\ TypeOK /\ StoreNeverMissing /\ CompanionsBelong
           /\ AdoptWhere /\ KeptUntilNextSwap /\ MissingIsReplaced

USE DEF Slots, sidecarSuffixes, carriedSuffixes, Parts, Contents, BootPCs, StagePCs, Idle

LEMMA InitSwapInv == Init => SwapInv
<1> SUFFICES ASSUME Init PROVE SwapInv
  OBVIOUS
<1> USE RestoreAssumption DEF Init, exists, NoSidecars
<1>1. TypeOK
  BY DEF TypeOK
<1>2. StoreNeverMissing /\ CompanionsBelong
  BY DEF StoreNeverMissing, CompanionsBelong
<1>3. AdoptWhere
  BY DEF AdoptWhere
<1>4. KeptUntilNextSwap /\ MissingIsReplaced
  BY DEF KeptUntilNextSwap, MissingIsReplaced
<1> QED
  BY <1>1, <1>2, <1>3, <1>4 DEF SwapInv

LEMMA AdoptKeepsSwapInv == SwapInv /\ (Start \/ AdoptStep \/ Open) => SwapInv'
<1> SUFFICES ASSUME SwapInv, Start \/ AdoptStep \/ Open PROVE SwapInv'
  OBVIOUS
<1> USE RestoreAssumption DEF SwapInv, TypeOK, StoreNeverMissing, CompanionsBelong,
      AdoptWhere, KeptUntilNextSwap, MissingIsReplaced, exists, Gone, NoSidecars, Swapping
<1>1. CASE Start
  BY <1>1 DEF Start
<1>2. CASE AdoptDecide
  BY <1>2 DEF AdoptDecide
<1>3. CASE AdoptClearStale
  BY <1>3 DEF AdoptClearStale
<1>4. CASE AdoptClearPrevious
  BY <1>4 DEF AdoptClearPrevious, removeStoreFile, Put
<1>5. CASE AdoptMoveAside
  BY <1>5 DEF AdoptMoveAside, Move
<1>6. CASE AdoptCarry
  BY <1>6 DEF AdoptCarry, Move
<1>7. CASE AdoptClearLive
  BY <1>7 DEF AdoptClearLive, Put
<1>8. CASE AdoptSwap
  BY <1>8 DEF AdoptSwap, Move
<1>9. CASE AdoptUnmark
  BY <1>9 DEF AdoptUnmark
<1>10. CASE Open
  BY <1>10 DEF Open, Put
<1> QED
  BY <1>1, <1>2, <1>3, <1>4, <1>5, <1>6, <1>7, <1>8, <1>9, <1>10 DEF AdoptStep

LEMMA ServingKeepsSwapInv == SwapInv /\ (Write \/ Close \/ Crash) => SwapInv'
<1> SUFFICES ASSUME SwapInv, Write \/ Close \/ Crash PROVE SwapInv'
  OBVIOUS
<1> USE RestoreAssumption DEF SwapInv, TypeOK, StoreNeverMissing, CompanionsBelong,
      AdoptWhere, KeptUntilNextSwap, MissingIsReplaced, exists, Gone, NoSidecars, Swapping
<1>1. CASE Write
  BY <1>1 DEF Write
<1>2. CASE Close
  BY <1>2 DEF Close
<1>3. CASE Crash
  BY <1>3 DEF Crash
<1> QED
  BY <1>1, <1>2, <1>3

\* A job's step, whatever the other jobs are doing, happens while the feeder is
\* up: it leaves the live and the previous slot alone.
LEMMA StageStaysAside ==
  ASSUME SwapInv, NEW j \in Stagers, StageBegin(j) \/ StageStep(j) \/ DiscardUnmark(j)
  PROVE  /\ boot = "up" /\ boot' = "up" /\ UNCHANGED replaced
         /\ fs'["live"] = fs["live"] /\ fs'["previous"] = fs["previous"]
         /\ TypeOK'
<1> USE RestoreAssumption DEF SwapInv, TypeOK, Staging, At, Goto, Finish
<1>1. CASE StageBegin(j)
  BY <1>1 DEF StageBegin
<1>2. CASE StageUnmark(j)
  BY <1>2 DEF StageUnmark
<1>3. CASE StageFails(j)
  BY <1>3 DEF StageFails
<1>4. CASE StageMarkFails(j)
  BY <1>4 DEF StageMarkFails
<1>5. CASE StageAborts(j)
  BY <1>5 DEF StageAborts
<1>6. CASE StageCheck(j)
  BY <1>6 DEF StageCheck
<1>7. CASE StageSync(j)
  BY <1>7 DEF StageSync
<1>8. CASE StageMark(j)
  BY <1>8 DEF StageMark
<1>9. CASE DiscardUnmark(j)
  BY <1>9 DEF DiscardUnmark
<1>10. CASE StageClear(j)
  <2>1. CASE ClearIncoming /\ UNCHANGED stager
    BY <1>10, <2>1 DEF StageClear, ClearIncoming, removeStoreFile, Put
  <2>2. CASE Gone("incoming") /\ Goto(j, "unmark") /\ UNCHANGED <<fs, openBy>>
    BY <1>10, <2>2 DEF StageClear
  <2> QED
    BY <1>10, <2>1, <2>2 DEF StageClear
<1>11. CASE StageCleanup(j)
  <2>1. CASE ClearIncoming /\ UNCHANGED stager
    BY <1>11, <2>1 DEF StageCleanup, ClearIncoming, removeStoreFile, Put
  <2>2. CASE Gone("incoming") /\ Finish(j) /\ UNCHANGED <<fs, openBy>>
    BY <1>11, <2>2 DEF StageCleanup
  <2> QED
    BY <1>11, <2>1, <2>2 DEF StageCleanup
<1>12. CASE StageWrite(j)
  BY <1>12 DEF StageWrite, Put
<1>13. CASE StageWritten(j)
  BY <1>13 DEF StageWritten
<1> QED
  BY <1>1, <1>2, <1>3, <1>4, <1>5, <1>6, <1>7, <1>8, <1>9, <1>10, <1>11, <1>12, <1>13 DEF StageStep

LEMMA StageKeepsSwapInv ==
  ASSUME SwapInv, NEW j \in Stagers, StageBegin(j) \/ StageStep(j) \/ DiscardUnmark(j)
  PROVE  SwapInv'
  BY StageStaysAside
  DEF SwapInv, StoreNeverMissing, CompanionsBelong, AdoptWhere, KeptUntilNextSwap,
      MissingIsReplaced, exists, NoSidecars

LEMMA NextKeepsSwapInv == SwapInv /\ [Next]_vars => SwapInv'
<1> SUFFICES ASSUME SwapInv, [Next]_vars PROVE SwapInv'
  OBVIOUS
<1>1. CASE UNCHANGED vars
  BY <1>1 DEF vars, SwapInv, TypeOK, StoreNeverMissing, CompanionsBelong,
      AdoptWhere, KeptUntilNextSwap, MissingIsReplaced, exists, NoSidecars
<1>2. CASE Next
  BY <1>2, AdoptKeepsSwapInv, ServingKeepsSwapInv, StageKeepsSwapInv DEF Next
<1> QED
  BY <1>1, <1>2

LEMMA SwapInvHolds == Spec => []SwapInv
  BY InitSwapInv, NextKeepsSwapInv, PTL DEF Spec

LEMMA SwapInvGivesKept == SwapInv => ReplacedIsKept
  BY DEF SwapInv, KeptUntilNextSwap, ReplacedIsKept

\* For every set of workspaces, every write callback, any number of restore jobs
\* however they overlap, and every sequence of crashes of Stage, Discard, Adopt
\* and the serving process: the live slot is empty only while a boot can finish
\* the swap, no database is opened beside another's journal files, and the
\* replaced workspace is kept.
THEOREM SwapIsCrashSafe == Spec => [](StoreNeverMissing /\ CompanionsBelong /\ ReplacedIsKept)
<1>1. SwapInv => StoreNeverMissing /\ CompanionsBelong /\ ReplacedIsKept
  BY SwapInvGivesKept DEF SwapInv
<1> QED
  BY <1>1, SwapInvHolds, PTL

\* No boot, whenever it was cut off, opens a database beside journal or index
\* files of another workspace (Adopt's removeSidecars).
THEOREM CompanionsStayTogether == Spec => []CompanionsBelong
BY SwapIsCrashSafe, PTL

\* What a swap takes out of the live slot stays in the previous slot until the
\* next swap replaces it (ARC-107).
THEOREM ReplacedStays == Spec => []ReplacedIsKept
BY SwapIsCrashSafe, PTL

\* The type invariant: which files there can be and where each actor is.
THEOREM RestoreTypeCorrect == Spec => []TypeOK
<1>1. SwapInv => TypeOK
  BY DEF SwapInv
<1> QED
  BY <1>1, SwapInvHolds, PTL

-----------------------------------------------------------------------------
(* The swap is one step                                                    *)

SwapsInOneStep == Cur' # Cur => Pen # Absent /\ Cur' = Pen /\ Pen' = Absent

LEMMA AdoptRefines == ASSUME SwapInv, Start \/ AdoptStep \/ Open
                      PROVE  Promise!Adopt \/ UNCHANGED <<Cur, Pen>>
<1> USE RestoreAssumption DEF SwapInv, TypeOK, StoreNeverMissing,
      AdoptWhere, exists, Gone, NoSidecars, Swapping, Cur, Pen
<1>1. CASE Start \/ AdoptDecide
  BY <1>1 DEF Start, AdoptDecide
<1>2. CASE AdoptClearStale
  BY <1>2 DEF AdoptClearStale
<1>3. CASE AdoptClearPrevious
  BY <1>3 DEF AdoptClearPrevious, removeStoreFile, Put
<1>4. CASE AdoptMoveAside
  BY <1>4 DEF AdoptMoveAside, Move
<1>5. CASE AdoptCarry
  BY <1>5 DEF AdoptCarry, Move
<1>6. CASE AdoptClearLive
  BY <1>6 DEF AdoptClearLive, Put
<1>7. CASE AdoptSwap
  BY <1>7 DEF AdoptSwap, Move, Promise!Adopt
<1>8. CASE AdoptUnmark
  BY <1>8 DEF AdoptUnmark
<1>9. CASE Open
  BY <1>9 DEF Open, Put
<1> QED
  BY <1>1, <1>2, <1>3, <1>4, <1>5, <1>6, <1>7, <1>8, <1>9 DEF AdoptStep

LEMMA ServingMovesNothing == ASSUME SwapInv, Write \/ Close \/ Crash PROVE UNCHANGED <<Cur, Pen>>
  BY RestoreAssumption
  DEF SwapInv, TypeOK, AdoptWhere, exists, Swapping, Cur, Pen, Write, Close, Crash

\* The workspace the next boot opens changes only from the one that was live to
\* the file that was pending, in the step after which nothing is pending: no
\* crash point of Adopt shows a mixture of the two, and restore jobs, however
\* they overlap, change only what is pending (ARC-107).
THEOREM SwapIsAtomic == Spec => [][SwapsInOneStep]_vars
<1>1. SwapInv /\ [Next]_vars => [SwapsInOneStep]_vars
  <2> SUFFICES ASSUME SwapInv, Next PROVE SwapsInOneStep
    OBVIOUS
  <2>1. CASE Start \/ AdoptStep \/ Open
    BY <2>1, AdoptRefines DEF SwapsInOneStep, Promise!Adopt
  <2>2. CASE Write \/ Close \/ Crash
    BY <2>2, ServingMovesNothing DEF SwapsInOneStep
  <2>3. CASE \E j \in Stagers : StageBegin(j) \/ StageStep(j) \/ DiscardUnmark(j)
    BY <2>3, StageStaysAside DEF SwapsInOneStep, Cur, exists
  <2> QED
    BY <2>1, <2>2, <2>3 DEF Next
<1> QED
  BY <1>1, SwapInvHolds, PTL DEF Spec

-----------------------------------------------------------------------------
(* What is pending, when the jobs take turns                               *)

StageWhere == \A j \in Stagers :
  /\ stager[j].pc \notin {"idle", "cleanup"} => stager[j].ws \in Workspaces
  /\ stager[j].pc \in {"write", "writing", "check", "sync", "mark"} => ~marker
  /\ stager[j].pc \in {"unmark", "write"} => Gone("incoming")
  /\ stager[j].pc = "writing" => openBy = {j}
  /\ stager[j].pc \in {"check", "sync", "mark"} => fs["incoming"]["db"] \in Workspaces
  /\ stager[j].pc \in {"sync", "mark"} => NoSidecars("incoming")
  /\ stager[j].pc # "writing" => j \notin openBy

LiveWhole == fs["live"]["db"] # Torn

WholeInv == SwapInv /\ LiveWhole /\ PendingIsWhole /\ StageWhere

LEMMA InitWholeInv == Init => WholeInv
<1>1. Init => LiveWhole /\ PendingIsWhole
  BY RestoreAssumption DEF Init, LiveWhole, PendingIsWhole, exists
<1>2. Init => StageWhere
  BY DEF Init, StageWhere
<1> QED
  BY <1>1, <1>2, InitSwapInv DEF WholeInv

LEMMA AdoptKeepsWholeInv ==
  ASSUME WholeInv, Start \/ AdoptStep \/ Open
  PROVE  LiveWhole' /\ PendingIsWhole' /\ StageWhere'
<1> USE RestoreAssumption DEF WholeInv, SwapInv, TypeOK, LiveWhole, PendingIsWhole, StoreNeverMissing,
      AdoptWhere, StageWhere, exists, Gone, NoSidecars, Swapping
<1>1. CASE Start
  BY <1>1 DEF Start
<1>2. CASE AdoptDecide
  BY <1>2 DEF AdoptDecide
<1>3. CASE AdoptClearStale
  BY <1>3 DEF AdoptClearStale
<1>4. CASE AdoptClearPrevious
  BY <1>4 DEF AdoptClearPrevious, removeStoreFile, Put
<1>5. CASE AdoptMoveAside
  BY <1>5 DEF AdoptMoveAside, Move
<1>6. CASE AdoptCarry
  BY <1>6 DEF AdoptCarry, Move
<1>7. CASE AdoptClearLive
  BY <1>7 DEF AdoptClearLive, Put
<1>8. CASE AdoptSwap
  BY <1>8 DEF AdoptSwap, Move
<1>9. CASE AdoptUnmark
  BY <1>9 DEF AdoptUnmark
<1>10. CASE Open
  BY <1>10 DEF Open, Put
<1> QED
  BY <1>1, <1>2, <1>3, <1>4, <1>5, <1>6, <1>7, <1>8, <1>9, <1>10 DEF AdoptStep

LEMMA ServingKeepsWholeInv ==
  ASSUME WholeInv, Write \/ Close \/ Crash
  PROVE  LiveWhole' /\ PendingIsWhole' /\ StageWhere'
<1> USE RestoreAssumption DEF WholeInv, SwapInv, TypeOK, LiveWhole, PendingIsWhole,
      AdoptWhere, StageWhere, exists, Gone, NoSidecars, Swapping
<1>1. CASE Write
  BY <1>1 DEF Write
<1>2. CASE Close
  BY <1>2 DEF Close
<1>3. CASE Crash
  BY <1>3 DEF Crash
<1> QED
  BY <1>1, <1>2, <1>3

\* A job that takes a step is the only one inside Stage or Discard.
LEMMA StageKeepsWholeInv ==
  ASSUME WholeInv, JobsTakeTurns, JobsTakeTurns',
         NEW j \in Stagers, StageBegin(j) \/ StageStep(j) \/ DiscardUnmark(j)
  PROVE  PendingIsWhole' /\ StageWhere'
<1> USE RestoreAssumption DEF WholeInv, SwapInv, TypeOK, JobsTakeTurns, LiveWhole, PendingIsWhole,
      AdoptWhere, StageWhere, exists, Gone, NoSidecars, Staging, At, Goto, Finish
<1>1. CASE StageBegin(j)
  BY <1>1 DEF StageBegin
<1>2. CASE StageUnmark(j)
  BY <1>2 DEF StageUnmark
<1>3. CASE StageFails(j)
  BY <1>3 DEF StageFails
<1>4. CASE StageMarkFails(j)
  BY <1>4 DEF StageMarkFails
<1>5. CASE StageAborts(j)
  BY <1>5 DEF StageAborts
<1>6. CASE StageCheck(j)
  BY <1>6 DEF StageCheck
<1>7. CASE StageSync(j)
  BY <1>7 DEF StageSync
<1>8. CASE StageMark(j)
  BY <1>8 DEF StageMark
<1>9. CASE DiscardUnmark(j)
  BY <1>9 DEF DiscardUnmark
<1>10. CASE StageClear(j)
  <2>1. CASE ClearIncoming /\ UNCHANGED stager
    BY <1>10, <2>1 DEF StageClear, ClearIncoming, removeStoreFile, Put
  <2>2. CASE Gone("incoming") /\ Goto(j, "unmark") /\ UNCHANGED <<fs, openBy>>
    BY <1>10, <2>2 DEF StageClear
  <2> QED
    BY <1>10, <2>1, <2>2 DEF StageClear
<1>11. CASE StageCleanup(j)
  <2>1. CASE ClearIncoming /\ UNCHANGED stager
    BY <1>11, <2>1 DEF StageCleanup, ClearIncoming, removeStoreFile, Put
  <2>2. CASE Gone("incoming") /\ Finish(j) /\ UNCHANGED <<fs, openBy>>
    BY <1>11, <2>2 DEF StageCleanup
  <2> QED
    BY <1>11, <2>1, <2>2 DEF StageCleanup
<1>12. CASE StageWrite(j)
  BY <1>12 DEF StageWrite, Put
<1>13. CASE StageWritten(j)
  BY <1>13 DEF StageWritten
<1> QED
  BY <1>1, <1>2, <1>3, <1>4, <1>5, <1>6, <1>7, <1>8, <1>9, <1>10, <1>11, <1>12, <1>13 DEF StageStep

LEMMA NextKeepsWholeInv ==
  ASSUME WholeInv, JobsTakeTurns, JobsTakeTurns', [Next]_vars
  PROVE  WholeInv'
<1>1. SwapInv'
  BY NextKeepsSwapInv DEF WholeInv
<1>2. CASE UNCHANGED vars
  BY <1>1, <1>2 DEF vars, WholeInv, LiveWhole, PendingIsWhole, StageWhere, exists, Gone, NoSidecars
<1>3. CASE Start \/ AdoptStep \/ Open
  BY <1>1, <1>3, AdoptKeepsWholeInv DEF WholeInv
<1>4. CASE Write \/ Close \/ Crash
  BY <1>1, <1>4, ServingKeepsWholeInv DEF WholeInv
<1>5. CASE \E j \in Stagers : StageBegin(j) \/ StageStep(j) \/ DiscardUnmark(j)
  BY <1>1, <1>5, StageKeepsWholeInv, StageStaysAside DEF WholeInv, LiveWhole
<1> QED
  BY <1>2, <1>3, <1>4, <1>5 DEF Next

LEMMA WholeInvHolds == Spec /\ []JobsTakeTurns => []WholeInv
  BY InitWholeInv, NextKeepsWholeInv, PTL DEF Spec

\* In every behaviour in which no two restore jobs are at the staging path at
\* once, whatever crashes, the store a marker stands for is one complete file
\* with nothing beside it ("the marker is written LAST in Stage").
THEOREM TurnsKeepPendingWhole == Spec /\ []JobsTakeTurns => []PendingIsWhole
<1>1. WholeInv => PendingIsWhole
  BY DEF WholeInv
<1> QED
  BY <1>1, WholeInvHolds, PTL

-----------------------------------------------------------------------------
(* Refinement of AtomicRestore                                             *)

LEMMA StageRefines ==
  ASSUME WholeInv, NEW j \in Stagers, StageBegin(j) \/ StageStep(j) \/ DiscardUnmark(j)
  PROVE  \/ \E w \in Workspaces : Promise!Accept(w)
         \/ Promise!Withdraw
         \/ UNCHANGED <<Cur, Pen>>
<1> USE RestoreAssumption DEF WholeInv, SwapInv, TypeOK, PendingIsWhole, AdoptWhere, StageWhere,
      exists, Gone, NoSidecars, Staging, At, Goto, Finish, Cur, Pen
<1>1. CASE StageBegin(j) \/ StageFails(j) \/ StageAborts(j) \/ StageCheck(j) \/ StageSync(j)
  BY <1>1 DEF StageBegin, StageFails, StageAborts, StageCheck, StageSync
<1>2. CASE StageClear(j)
  BY <1>2 DEF StageClear, ClearIncoming, removeStoreFile, Put, Promise!Withdraw
<1>3. CASE StageUnmark(j)
  BY <1>3 DEF StageUnmark
<1>4. CASE StageWrite(j)
  BY <1>4 DEF StageWrite, Put
<1>5. CASE StageWritten(j)
  BY <1>5 DEF StageWritten
<1>6. CASE StageMark(j)
  <2>1. fs["incoming"]["db"] \in Workspaces /\ Promise!Accept(fs["incoming"]["db"])
    BY <1>6 DEF StageMark, Promise!Accept
  <2> QED
    BY <2>1
<1>7. CASE StageCleanup(j)
  BY <1>7 DEF StageCleanup, ClearIncoming, removeStoreFile, Put, Promise!Withdraw
<1>8. CASE DiscardUnmark(j)
  BY <1>8 DEF DiscardUnmark, Promise!Withdraw
<1>9. CASE StageMarkFails(j)
  <2>1. fs["incoming"]["db"] \in Workspaces /\ Promise!Accept(fs["incoming"]["db"])
    BY <1>9 DEF StageMarkFails, Promise!Accept
  <2> QED
    BY <2>1
<1> QED
  BY <1>1, <1>2, <1>3, <1>4, <1>5, <1>6, <1>7, <1>8, <1>9 DEF StageStep

\* The whole swap, several renames and removals long and interrupted anywhere,
\* is one atomic change to a complete archive (ARC-107): every behaviour of Spec
\* in which the restore jobs take turns, however many there are, implements
\* AtomicRestore.
THEOREM RestoreIsAtomic == Spec /\ []JobsTakeTurns => ImplementsAtomicRestore
<1>1. Init => Promise!Init
  BY RestoreAssumption DEF Init, Promise!Init, Cur, Pen, exists
<1>2. WholeInv /\ [Next]_vars => [Promise!Next]_<<Cur, Pen>>
  <2> SUFFICES ASSUME WholeInv, [Next]_vars PROVE Promise!Next \/ UNCHANGED <<Cur, Pen>>
    OBVIOUS
  <2>1. CASE UNCHANGED vars
    BY <2>1 DEF vars, Cur, Pen, exists
  <2>2. CASE Next
    BY <2>2, AdoptRefines, ServingMovesNothing, StageRefines DEF Next, Promise!Next, WholeInv
  <2> QED
    BY <2>1, <2>2
<1> QED
  BY <1>1, <1>2, WholeInvHolds, PTL DEF Spec, ImplementsAtomicRestore, Promise!Spec
=============================================================================
