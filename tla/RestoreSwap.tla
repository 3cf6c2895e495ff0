---------------------------- MODULE RestoreSwap ----------------------------
(***************************************************************************)
(* The offline restore swap (internal/app/restoreswap): Stage, run by      *)
(* restore jobs of the serving feeder, builds the incoming store beside    *)
(* the live one; Adopt, run by the next boot before the store is opened,   *)
(* renames it into place.  One action is one file operation, and the       *)
(* process may die between any two of them.  Directory operations take     *)
(* effect in the order they are issued (a journalled filesystem); a file   *)
(* operation that returns an error during Adopt is fatal to the boot, so   *)
(* it is a Crash at that point.                                            *)
(***************************************************************************)
EXTENDS FiniteSets

CONSTANTS Workspaces,        \* identities of workspace contents
          First,             \* the workspace the live store holds at the start
          Stagers,           \* the restore jobs that may run Stage at a time
          WriterCompanions,  \* what the write callback may leave beside its file
          Absent,            \* there is no such file
          Torn               \* a store file that is not completely written

Slots == {"live", "incoming", "previous"}
sidecarSuffixes == {"wal", "shm", "journal"}
carriedSuffixes == {"wal", "journal"}
Parts == {"db"} \cup sidecarSuffixes

ASSUME RestoreAssumption ==
         /\ First \in Workspaces
         /\ Absent \notin Workspaces /\ Torn \notin Workspaces /\ Absent # Torn
         /\ WriterCompanions \subseteq SUBSET sidecarSuffixes
         /\ {} \in WriterCompanions

VARIABLES
  fs,        \* fs[slot][part]: the workspace a file belongs to, or Absent, or Torn
  marker,    \* <live>.restore-pending exists
  boot,      \* where the feeder process is: off, inside Adopt, or up
  stager,    \* stager[j]: where restore job j is inside Stage, and what it writes
  openBy,    \* the jobs writing into the file now at the staging path
  owed,      \* ghost: the archive the last completed Stage made pending
  replaced   \* ghost: the workspace the last swap took out of the live slot

vars == <<fs, marker, boot, stager, openBy, owed, replaced>>

Idle == [pc |-> "idle", ws |-> Absent]

Init == /\ fs = [s \in Slots |-> [p \in Parts |->
                   IF s = "live" /\ p = "db" THEN First ELSE Absent]]
        /\ marker = FALSE
        /\ boot = "off"
        /\ stager = [j \in Stagers |-> Idle]
        /\ openBy = {}
        /\ owed = Absent
        /\ replaced = Absent

exists(s, p) == fs[s][p] # Absent

Put(s, p, c) == fs' = [fs EXCEPT ![s][p] = c]

\* os.Rename of one file of a store from slot s to slot t
Move(s, t, p) == fs' = [fs EXCEPT ![t][p] = fs[s][p], ![s][p] = Absent]

\* One os.Remove of removeStoreFiles: the database goes last.
removeStoreFile(s, p) == /\ exists(s, p)
                         /\ p = "db" => \A q \in sidecarSuffixes : ~exists(s, q)
                         /\ Put(s, p, Absent)

Gone(s) == \A p \in Parts : ~exists(s, p)
NoSidecars(s) == \A p \in sidecarSuffixes : ~exists(s, p)

-----------------------------------------------------------------------------
(* Adopt, at boot                                                          *)

Swapping == UNCHANGED <<stager, openBy, owed>>

Start == /\ boot = "off"
         /\ boot' = "adopt"
         /\ Swapping /\ UNCHANGED <<fs, marker, replaced>>

\* Bug: a resumed swap clears the pre-restore copy it has just made.
AdoptDecideClearsAgain == /\ boot = "adopt"
                          /\ boot' = CASE ~marker -> "open"
                                       [] marker /\ ~exists("incoming", "db") -> "clearStale"
                                       [] marker /\ exists("incoming", "db") -> "clearPrevious"
                          /\ Swapping /\ UNCHANGED <<fs, marker, replaced>>

\* The marker and the two existence checks decide the branch.  A marker with
\* neither store is ErrIncomplete, which is fatal.
AdoptDecide == /\ boot = "adopt"
               /\ boot' = CASE ~marker -> "open"
                            [] marker /\ ~exists("incoming", "db") /\ ~exists("live", "db") -> "off"
                            [] marker /\ ~exists("incoming", "db") /\ exists("live", "db") -> "clearStale"
                            [] marker /\ exists("incoming", "db") /\ exists("live", "db") -> "clearPrevious"
                            [] marker /\ exists("incoming", "db") /\ ~exists("live", "db") -> "clearLive"
               /\ Swapping /\ UNCHANGED <<fs, marker, replaced>>

\* Bug: the boot that finds the swap done reclaims the pre-restore copy.
AdoptClearStaleReclaims == /\ boot = "clearStale"
                           /\ marker' = FALSE
                           /\ boot' = "open"
                           /\ fs' = [fs EXCEPT !["previous"] = [p \in Parts |-> Absent]]
                           /\ Swapping /\ UNCHANGED replaced

\* marker, no staged, live: "the adoption already happened"
AdoptClearStale == /\ boot = "clearStale"
                   /\ marker' = FALSE
                   /\ boot' = "open"
                   /\ Swapping /\ UNCHANGED <<fs, replaced>>

AdoptClearPrevious == /\ boot = "clearPrevious"
                      /\ \/ /\ \E p \in Parts : removeStoreFile("previous", p)
                            /\ UNCHANGED boot
                         \/ /\ Gone("previous")
                            /\ boot' = "moveAside"
                            /\ UNCHANGED fs
                      /\ Swapping /\ UNCHANGED <<marker, replaced>>

AdoptMoveAside == /\ boot = "moveAside"
                  /\ exists("live", "db")
                  /\ Move("live", "previous", "db")
                  /\ replaced' = fs["live"]["db"]
                  /\ boot' = "carry"
                  /\ Swapping /\ UNCHANGED marker

AdoptCarry == /\ boot = "carry"
              /\ \/ /\ \E p \in carriedSuffixes : exists("live", p) /\ Move("live", "previous", p)
                    /\ UNCHANGED boot
                 \/ /\ \A p \in carriedSuffixes : ~exists("live", p)
                    /\ boot' = "clearLive"
                    /\ UNCHANGED fs
              /\ Swapping /\ UNCHANGED <<marker, replaced>>

\* Bug: the live slot is not cleared before the staged store moves in.
AdoptClearLiveSkipped == /\ boot = "clearLive"
                         /\ boot' = "swap"
                         /\ Swapping /\ UNCHANGED <<fs, marker, replaced>>

AdoptClearLive == /\ boot = "clearLive"
                  /\ \/ /\ \E p \in sidecarSuffixes : exists("live", p) /\ Put("live", p, Absent)
                        /\ UNCHANGED boot
                     \/ /\ NoSidecars("live")
                        /\ boot' = "swap"
                        /\ UNCHANGED fs
                  /\ Swapping /\ UNCHANGED <<marker, replaced>>

\* Bug: the marker goes before the staged store has moved in.
AdoptSwapUnmarksFirst == /\ boot = "swap"
                         /\ IF marker THEN marker' = FALSE /\ UNCHANGED <<fs, boot>>
                                      ELSE Move("incoming", "live", "db") /\ boot' = "unmark" /\ UNCHANGED marker
                         /\ Swapping /\ UNCHANGED replaced

AdoptSwap == /\ boot = "swap"
             /\ Move("incoming", "live", "db")
             /\ boot' = "unmark"
             /\ Swapping /\ UNCHANGED <<marker, replaced>>

AdoptUnmark == /\ boot = "unmark"
               /\ marker' = FALSE
               /\ boot' = "open"
               /\ Swapping /\ UNCHANGED <<fs, replaced>>

AdoptStep == \/ AdoptDecide \/ AdoptClearStale \/ AdoptClearPrevious
             \/ AdoptMoveAside \/ AdoptCarry \/ AdoptClearLive
             \/ AdoptSwap \/ AdoptUnmark

-----------------------------------------------------------------------------
(* The store, open                                                         *)

\* store.Open: SQLite recovers whatever companions it finds, and creates an
\* empty database where it finds none.
Open == /\ boot = "open"
        /\ boot' = "up"
        /\ IF exists("live", "db") THEN UNCHANGED fs ELSE Put("live", "db", Torn)
        /\ Swapping /\ UNCHANGED <<marker, replaced>>

\* A write: WAL mode grows -wal and -shm; the first write to a restored store,
\* still in rollback mode, grows a -journal.
Write == /\ boot = "up"
         /\ \E ps \in {{"wal", "shm"}, {"journal"}} :
              /\ \E p \in ps : ~exists("live", p)
              /\ fs' = [fs EXCEPT !["live"] = [p \in Parts |->
                          IF p \in ps THEN fs["live"]["db"] ELSE fs["live"][p]]]
         /\ Swapping /\ UNCHANGED <<marker, boot, replaced>>

\* A clean close checkpoints and unlinks the companions.  Shutdown waits for the
\* jobs, but not forever: a job may be cut short.
Close == /\ boot = "up"
         /\ boot' = "off"
         /\ stager' = [j \in Stagers |-> Idle]
         /\ openBy' = {}
         /\ fs' = [fs EXCEPT !["live"] = [p \in Parts |->
                     IF p = "db" THEN fs["live"]["db"] ELSE Absent]]
         /\ UNCHANGED <<marker, owed, replaced>>

\* The process dies: its jobs die with it, the files stay as they are.
Crash == /\ boot # "off"
         /\ boot' = "off"
         /\ stager' = [j \in Stagers |-> Idle]
         /\ openBy' = {}
         /\ UNCHANGED <<fs, marker, owed, replaced>>

-----------------------------------------------------------------------------
(* Stage and Discard, in the serving process                               *)

At(j, pc) == boot = "up" /\ stager[j].pc = pc
Goto(j, pc) == stager' = [stager EXCEPT ![j] = [pc |-> pc, ws |-> stager[j].ws]]
Finish(j) == stager' = [stager EXCEPT ![j] = Idle]
Staging == UNCHANGED <<boot, replaced>>

StageBegin(j) == /\ At(j, "idle")
                 /\ \E w \in Workspaces : stager' = [stager EXCEPT ![j] = [pc |-> "clear", ws |-> w]]
                 /\ Staging /\ UNCHANGED <<fs, marker, openBy, owed>>

\* removeStoreFiles(staged), a file at a time: the removed file's writers keep
\* writing into an unlinked inode.
ClearIncoming == /\ \E p \in Parts :
                      /\ removeStoreFile("incoming", p)
                      /\ openBy' = IF p = "db" THEN {} ELSE openBy

StageClear(j) == /\ At(j, "clear")
                 /\ \/ ClearIncoming /\ UNCHANGED stager
                    \/ Gone("incoming") /\ Goto(j, "unmark") /\ UNCHANGED <<fs, openBy>>
                 /\ Staging /\ UNCHANGED <<marker, owed>>

StageUnmark(j) == /\ At(j, "unmark")
                  /\ marker' = FALSE
                  /\ Goto(j, "write")
                  /\ Staging /\ UNCHANGED <<fs, openBy, owed>>

\* os.WriteFile opens the staging path and truncates it ...
StageWrite(j) == /\ At(j, "write")
                 /\ Put("incoming", "db", Torn)
                 /\ openBy' = openBy \cup {j}
                 /\ Goto(j, "writing")
                 /\ Staging /\ UNCHANGED <<marker, owed>>

\* ... and completes, unless another job still writes into the same file; bytes
\* written into a file that has been unlinked reach nobody.
StageWritten(j) == /\ At(j, "writing")
                   /\ \E cs \in WriterCompanions :
                        fs' = [fs EXCEPT !["incoming"] = [p \in Parts |->
                                 CASE p = "db" /\ openBy = {j} -> stager[j].ws
                                   [] p \in cs -> stager[j].ws
                                   [] OTHER -> fs["incoming"][p]]]
                   /\ openBy' = openBy \ {j}
                   /\ Goto(j, "check")
                   /\ Staging /\ UNCHANGED <<marker, owed>>

\* The write fails, or fsync does, or the marker cannot be written.
StageFails(j) == /\ At(j, "writing") \/ At(j, "sync") \/ At(j, "mark")
                 /\ openBy' = openBy \ {j}
                 /\ Goto(j, "cleanup")
                 /\ Staging /\ UNCHANGED <<fs, marker, owed>>

\* os.WriteFile has created the marker when its write fails.
StageMarkFails(j) == /\ At(j, "mark")
                     /\ marker' = TRUE
                     /\ Goto(j, "cleanup")
                     /\ Staging /\ UNCHANGED <<fs, openBy, owed>>

\* An os.Remove fails: Stage returns with what is left.
StageAborts(j) == /\ At(j, "clear") \/ At(j, "unmark") \/ At(j, "cleanup")
                  /\ Finish(j)
                  /\ Staging /\ UNCHANGED <<fs, marker, openBy, owed>>

StageCheck(j) == /\ At(j, "check")
                 /\ Goto(j, IF NoSidecars("incoming") THEN "sync" ELSE "cleanup")
                 /\ Staging /\ UNCHANGED <<fs, marker, openBy, owed>>

StageSync(j) == /\ At(j, "sync")
                /\ exists("incoming", "db")
                /\ Goto(j, "mark")
                /\ Staging /\ UNCHANGED <<fs, marker, openBy, owed>>

StageMark(j) == /\ At(j, "mark")
                /\ marker' = TRUE
                /\ owed' = stager[j].ws
                /\ Finish(j)
                /\ Staging /\ UNCHANGED <<fs, openBy>>

StageCleanup(j) == /\ At(j, "cleanup")
                   /\ \/ ClearIncoming /\ UNCHANGED stager
                      \/ Gone("incoming") /\ Finish(j) /\ UNCHANGED <<fs, openBy>>
                   /\ Staging /\ UNCHANGED <<marker, owed>>

\* Discard: the marker first, then the staged store's files.
DiscardUnmark(j) == /\ At(j, "idle") /\ marker
                    /\ marker' = FALSE
                    /\ Goto(j, "cleanup")
                    /\ Staging /\ UNCHANGED <<fs, openBy, owed>>

StageStep(j) == \/ StageClear(j) \/ StageUnmark(j) \/ StageWrite(j)
                \/ StageWritten(j) \/ StageFails(j) \/ StageMarkFails(j) \/ StageCheck(j)
                \/ StageSync(j) \/ StageMark(j) \/ StageCleanup(j) \/ StageAborts(j)

Next == \/ Start \/ AdoptStep \/ Open \/ Write \/ Close \/ Crash
        \/ \E j \in Stagers : StageBegin(j) \/ StageStep(j) \/ DiscardUnmark(j)

Spec == Init /\ [][Next]_vars

-----------------------------------------------------------------------------
(* Properties                                                              *)

Contents == Workspaces \cup {Absent, Torn}
BootPCs == {"off", "adopt", "clearStale", "clearPrevious", "moveAside", "carry",
            "clearLive", "swap", "unmark", "open", "up"}
StagePCs == {"idle", "clear", "unmark", "write", "writing", "check", "sync", "mark", "cleanup"}

\* The shape of the state: which files there can be, and where each actor is.
TypeOK == /\ fs \in [Slots -> [Parts -> Contents]]
          /\ marker \in BOOLEAN
          /\ boot \in BootPCs
          /\ stager \in [Stagers -> [pc : StagePCs, ws : Workspaces \cup {Absent}]]
          /\ openBy \subseteq Stagers
          /\ owed \in Workspaces \cup {Absent}
          /\ replaced \in Contents

\* "The marker is written LAST in Stage, so a crash mid-write leaves a partial
\* staged file with no marker" (restoreswap.go): the store a marker stands for
\* is one complete file with nothing beside it.  It holds while restore jobs take
\* turns; nothing makes them, and two that overlap break it.
PendingIsWhole == marker /\ exists("incoming", "db") =>
                    fs["incoming"]["db"] \in Workspaces /\ NoSidecars("incoming")

\* ErrIncomplete is not reachable by crashing, or by restore jobs that overlap:
\* while the live slot is empty the marker, a staged store and the pre-restore
\* copy are all on disk, so the next boot finishes the swap and never opens a
\* fresh empty store.
StoreNeverMissing == ~exists("live", "db") =>
                       marker /\ exists("incoming", "db") /\ exists("previous", "db")

\* SQLite never recovers one workspace's -wal, -shm or -journal into another's
\* database: every companion beside the live store was written by that store.
CompanionsBelong == exists("live", "db") =>
                      \A p \in sidecarSuffixes :
                        exists("live", p) => fs["live"][p] = fs["live"]["db"]

\* "The live store is RENAMED aside rather than deleted": once a swap is over,
\* the workspace it took out of the live slot is the pre-restore copy.
ReplacedIsKept == boot \in {"unmark", "open", "up"} /\ replaced # Absent =>
                    fs["previous"]["db"] = replaced

\* What Adopt's table says of marker, no staged, live: "the adoption ALREADY
\* happened", so the boot reports an adopted restore only if the live store is
\* the archive that was pending.
ReportedMeansAdopted == boot = "clearStale" => fs["live"]["db"] = owed

Cur == IF exists("live", "db") THEN fs["live"]["db"] ELSE fs["previous"]["db"]
Pen == IF marker THEN fs["incoming"]["db"] ELSE Absent

\* At no moment do two jobs use the staging path.  Nothing in the code sees to
\* it: it is a fact about a behaviour, the condition of what rests on it.
JobsTakeTurns == \A i, j \in Stagers :
                   stager[i].pc # "idle" /\ stager[j].pc # "idle" => i = j

\* The swap of several files is one atomic step from the old workspace to the
\* whole archive, whatever crashes (ARC-107).
Promise == INSTANCE AtomicRestore WITH current <- Cur, pending <- Pen, Nothing <- Absent
ImplementsAtomicRestore == Promise!Spec
=============================================================================
