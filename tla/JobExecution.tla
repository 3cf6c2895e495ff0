---------------------------- MODULE JobExecution ----------------------------
(***************************************************************************)
(* Accepted work of the app peer: the job record (store/jobs.go over the   *)
(* state machine of shared/apijob), the runner that executes it            *)
(* (api/jobrun.go) and what a restart makes of it (API-111 to API-116).    *)
(*                                                                         *)
(* A bulk enable or disable walks its target rows: it commits `running`,   *)
(* reads the row, writes it against the revision read, and commits the     *)
(* outcome, each in a transaction of its own; jobs run beside one another  *)
(* and beside the operator's edits.  A workspace job has one target and    *)
(* cannot be applied again: what a stop cuts of it is reconciled.          *)
(***************************************************************************)
EXTENDS Naturals, FiniteSets

CONSTANTS
    Jobs,        \* job ids, in the order they are accepted
    Rows,        \* the automations, in the order a job lists them
    MaxEdits,    \* bound: edits and deletions by the operator
    MaxFaults,   \* bound: failed reads and writes of the store
    MaxStops     \* bound: crashes and shutdowns

ASSUME JobAssumption ==
    /\ Jobs \subseteq Nat \ {0} /\ Rows \subseteq Nat \ {0}
    /\ MaxEdits \in Nat /\ MaxFaults \in Nat /\ MaxStops \in Nat

Workspace == 0
Resume == 0
Workers == Jobs \union {Resume}
Pairs == Jobs \X (Rows \union {Workspace})

VARIABLES
    row,      \* the automations: [rev, enabled], rev 0 once deleted
    op,       \* the operation each job was accepted with
    state,    \* the state of each target of each job
    phase,    \* the process: "down", "built", "serving", "draining", "canceled"
    work,     \* the executions in flight, one per job and one of the resume
    used,     \* [edits, faults, stops] so far
    applied,  \* history: how often the work of each target has landed
    cut,      \* history: how often the process ended with the target running
    dropped   \* history: running targets this process will not look at again

record == <<op, state>>
history == <<applied, cut, dropped>>
vars == <<row, record, phase, work, used, history>>

Holding(left) == [left |-> left, at |-> "claim", rev |-> 0, ok |-> FALSE]
Idle == Holding({})

TypeOK ==
    /\ row \in [Rows -> [rev : Nat, enabled : BOOLEAN]]
    /\ op \in [Jobs -> {"none", "enable", "disable", "once"}]
    /\ state \in [Pairs -> {"none", "pending", "running", "succeeded", "failed"}]
    /\ phase \in {"down", "built", "serving", "draining", "canceled"}
    /\ work \in [Workers -> [left : SUBSET Pairs, at : {"claim", "read", "write", "outcome"},
                             rev : Nat, ok : BOOLEAN]]
    /\ used \in [edits : 0..MaxEdits, faults : 0..MaxFaults, stops : 0..MaxStops]
    /\ applied \in [Pairs -> Nat] /\ cut \in [Pairs -> 0..MaxStops]
    /\ dropped \subseteq Pairs

Init ==
    /\ row = [r \in Rows |-> [rev |-> 1, enabled |-> TRUE]]
    /\ op = [j \in Jobs |-> "none"]
    /\ state = [p \in Pairs |-> "none"]
    /\ phase = "down"
    /\ work = [w \in Workers |-> Idle]
    /\ used = [edits |-> 0, faults |-> 0, stops |-> 0]
    /\ applied = [p \in Pairs |-> 0] /\ cut = [p \in Pairs |-> 0] /\ dropped = {}

Reappliable(j) == op[j] \in {"enable", "disable"}
Wanted(j) == op[j] = "enable"
Stranded == {p \in Pairs : state[p] = "running"}
Unfinished == {w \in Workers : work[w].left # {}}

Faults == /\ used.faults < MaxFaults
          /\ used' = [used EXCEPT !.faults = @ + 1]
-----------------------------------------------------------------------------
(***************************************************************************)
(* The operator.  A job is recorded whole before it is handed to the       *)
(* runner, which refuses it once it is shutting down.                      *)
(***************************************************************************)
Answering == phase \in {"serving", "draining"}

Accept(j, kind, targets) ==
    /\ Answering /\ op[j] = "none"
    /\ \A i \in Jobs : i < j => op[i] # "none"
    /\ op' = [op EXCEPT ![j] = kind]
    /\ state' = [p \in Pairs |-> IF p[1] = j /\ p[2] \in targets THEN "pending" ELSE state[p]]
    /\ work' = IF phase = "serving" THEN [work EXCEPT ![j] = Holding({j} \X targets)] ELSE work
    /\ UNCHANGED <<row, phase, used, history>>

AcceptBulk(j) ==
    \E kind \in {"enable", "disable"}, targets \in SUBSET {r \in Rows : row[r].rev > 0} :
        targets # {} /\ Accept(j, kind, targets)
AcceptWorkspace(j) == Accept(j, "once", {Workspace})

\* Any edit moves the revision, one of `enabled` or one that leaves it alone.
Edit(r) ==
    /\ Answering /\ row[r].rev > 0 /\ used.edits < MaxEdits
    /\ used' = [used EXCEPT !.edits = @ + 1]
    /\ \E enabled \in BOOLEAN : row' = [row EXCEPT ![r] = [rev |-> @.rev + 1, enabled |-> enabled]]
    /\ UNCHANGED <<record, phase, work, history>>

Delete(r) ==
    /\ Answering /\ row[r].rev > 0 /\ used.edits < MaxEdits
    /\ used' = [used EXCEPT !.edits = @ + 1]
    /\ row' = [row EXCEPT ![r].rev = 0]
    /\ UNCHANGED <<record, phase, work, history>>
-----------------------------------------------------------------------------
(***************************************************************************)
(* An execution, at the least of the targets it has left.                  *)
(***************************************************************************)
Before(p, q) == p[1] < q[1] \/ (p[1] = q[1] /\ p[2] <= q[2])
Current(w) == CHOOSE p \in work[w].left : \A q \in work[w].left : Before(p, q)
AtStep(w, at) == phase \in {"serving", "draining", "canceled"} /\ w \in Unfinished /\ work[w].at = at

Moves(w, fields) == work' = [work EXCEPT ![w] = fields]
StepsPast(w) == Moves(w, Holding(work[w].left \ {Current(w)}))
Carries(w, at, rev, ok) == Moves(w, [left |-> work[w].left, at |-> at, rev |-> rev, ok |-> ok])

\* What AdvanceJob makes of a target when the transition is legal.
Advances(p, to) == state' = [state EXCEPT ![p] = to]

\* Bug: the target is claimed when its outcome is known.
ClaimsNothing(p) == UNCHANGED state
Claims(p) == Advances(p, "running")

\* A fresh execution claims what is pending, the resume what is still running; what
\* is not so is refused, which one execution to a target never meets.
Claimable(w) == state[Current(w)] = IF w = Resume THEN "running" ELSE "pending"

\* An expired drain stops an execution at a target's boundary.
EndWalk(w) ==
    /\ AtStep(w, "claim") /\ phase = "canceled"
    /\ Moves(w, Idle)
    /\ UNCHANGED <<row, record, phase, used, history>>

ClaimFails(w) ==
    /\ AtStep(w, "claim") /\ phase # "canceled" /\ Claimable(w) /\ Faults
    /\ StepsPast(w)
    /\ dropped' = IF w = Resume THEN dropped \union {Current(w)} ELSE dropped
    /\ UNCHANGED <<row, record, phase, applied, cut>>

StartTarget(w) ==
    /\ AtStep(w, "claim") /\ phase # "canceled" /\ w # Resume /\ Claimable(w)
    /\ Claims(Current(w))
    /\ Carries(w, "read", 0, FALSE)
    /\ UNCHANGED <<row, op, phase, used, history>>

\* Bug: a job whose operation is not known is passed over.
ResumesOrSkips(w) ==
    /\ AtStep(w, "claim") /\ phase # "canceled" /\ w = Resume /\ Claimable(w)
    /\ IF Reappliable(Current(w)[1]) THEN Carries(w, "read", 0, FALSE) ELSE StepsPast(w)
    /\ UNCHANGED <<row, record, phase, used, history>>
\* A target that can be applied again is; another is failed, its outcome unknown.
ResumeTarget(w) ==
    /\ AtStep(w, "claim") /\ phase # "canceled" /\ w = Resume /\ Claimable(w)
    /\ IF Reappliable(Current(w)[1])
         THEN Carries(w, "read", 0, FALSE) /\ UNCHANGED state
         ELSE StepsPast(w) /\ Advances(Current(w), "failed")
    /\ UNCHANGED <<row, op, phase, used, history>>

\* The row's revision is read; a row that is gone or cannot be read is a failure.
Get(w) ==
    LET p == Current(w) IN
    /\ AtStep(w, "read") /\ Reappliable(p[1]) /\ phase # "canceled"
    /\ IF row[p[2]].rev > 0 THEN Carries(w, "write", row[p[2]].rev, FALSE)
                            ELSE Carries(w, "outcome", 0, FALSE)
    /\ UNCHANGED <<row, record, phase, used, history>>

\* The write lands only on the revision that was read.
Update(w) ==
    LET p == Current(w) IN
    /\ AtStep(w, "write") /\ phase # "canceled"
    /\ IF row[p[2]].rev = work[w].rev
         THEN /\ row' = [row EXCEPT ![p[2]] = [rev |-> @.rev + 1, enabled |-> Wanted(p[1])]]
              /\ applied' = [applied EXCEPT ![p] = @ + 1]
              /\ Carries(w, "outcome", 0, TRUE)
         ELSE Carries(w, "outcome", 0, FALSE) /\ UNCHANGED <<row, applied>>
    /\ UNCHANGED <<record, phase, used, cut, dropped>>

\* An export, a restore or a delete runs, and does what it is for or fails.
Perform(w) ==
    LET p == Current(w) IN
    /\ AtStep(w, "read") /\ ~Reappliable(p[1])
    /\ \E ok \in BOOLEAN :
         /\ Carries(w, "outcome", 0, ok)
         /\ applied' = IF ok THEN [applied EXCEPT ![p] = @ + 1] ELSE applied
    /\ UNCHANGED <<row, record, phase, used, cut, dropped>>

\* The store refuses the read or the write: a failure, and the only outcome of a canceled one.
StoreFails(w) ==
    /\ (AtStep(w, "read") /\ Reappliable(Current(w)[1])) \/ AtStep(w, "write")
    /\ IF phase = "canceled" THEN UNCHANGED used ELSE Faults
    /\ Carries(w, "outcome", 0, FALSE)
    /\ UNCHANGED <<row, record, phase, history>>

Outcome(w) ==
    LET p == Current(w) IN
    /\ AtStep(w, "outcome") /\ phase # "canceled"
    /\ IF state[p] = "running"
         THEN Advances(p, IF work[w].ok THEN "succeeded" ELSE "failed")
         ELSE UNCHANGED state
    /\ StepsPast(w)
    /\ UNCHANGED <<row, op, phase, used, history>>

\* An outcome that cannot be committed is not reported: the target stays running.
OutcomeFails(w) ==
    /\ AtStep(w, "outcome")
    /\ IF phase = "canceled" THEN UNCHANGED used ELSE Faults
    /\ StepsPast(w)
    /\ dropped' = dropped \union {Current(w)}
    /\ UNCHANGED <<row, record, phase, applied, cut>>

Executes(w) ==
    \/ EndWalk(w) \/ ClaimFails(w) \/ StartTarget(w) \/ ResumeTarget(w)
    \/ Get(w) \/ Update(w) \/ Perform(w) \/ StoreFails(w) \/ Outcome(w) \/ OutcomeFails(w)
-----------------------------------------------------------------------------
(***************************************************************************)
(* The process.                                                            *)
(***************************************************************************)
Stops == used.stops < MaxStops /\ used' = [used EXCEPT !.stops = @ + 1]

Ends ==
    /\ phase' = "down"
    /\ work' = [w \in Workers |-> Idle]
    /\ cut' = [p \in Pairs |-> IF p \in Stranded THEN cut[p] + 1 ELSE cut[p]]
    /\ UNCHANGED <<row, record, applied, dropped>>

\* The inventory of what an earlier process left running is read before the first request.
Boot ==
    /\ phase = "down" /\ phase' = "built"
    /\ \/ /\ work' = [work EXCEPT ![Resume] = Holding(Stranded)]
          /\ dropped' = {} /\ UNCHANGED used
       \/ /\ Stranded # {} /\ Faults
          /\ dropped' = Stranded /\ UNCHANGED work
    /\ UNCHANGED <<row, record, applied, cut>>

Start ==
    /\ phase = "built" /\ phase' = "serving"
    /\ UNCHANGED <<row, record, work, used, history>>

Crash == phase # "down" /\ Stops /\ Ends

Shutdown ==
    /\ phase = "serving" /\ Stops
    /\ phase' = "draining"
    /\ UNCHANGED <<row, record, work, history>>

DrainExpires ==
    /\ phase = "draining" /\ Unfinished # {}
    /\ phase' = "canceled"
    /\ UNCHANGED <<row, record, work, used, history>>

Exit ==
    /\ phase = "canceled" \/ (phase = "draining" /\ Unfinished = {})
    /\ Ends /\ UNCHANGED used

Next ==
    \/ \E j \in Jobs : AcceptBulk(j) \/ AcceptWorkspace(j)
    \/ \E r \in Rows : Edit(r) \/ Delete(r)
    \/ \E w \in Workers : Executes(w)
    \/ Boot \/ Start \/ Crash \/ Shutdown \/ DrainExpires \/ Exit

Spec == Init /\ [][Next]_vars

\* The goroutines run, the drain has a budget, and a supervisor starts the next process.
Fairness ==
    /\ \A w \in Workers : WF_vars(Executes(w))
    /\ WF_vars(Boot) /\ WF_vars(Start) /\ WF_vars(DrainExpires \/ Exit)
FairSpec == Spec /\ Fairness
-----------------------------------------------------------------------------
\* API-116, and the order of applyBulkEnableTarget's commits: a pending target is untouched;
\* one that succeeded was applied; one that failed was applied only if a stop has cut it, and
\* nothing is applied again but by a resume, and never what cannot be.
RecordIsHonest ==
    \A p \in Pairs :
        /\ state[p] \in {"none", "pending"} => applied[p] = 0
        /\ state[p] = "succeeded" => applied[p] > 0
        /\ state[p] = "failed" /\ applied[p] > 0 => cut[p] > 0
        /\ applied[p] <= IF Reappliable(p[1]) THEN cut[p] + 1 ELSE 1

\* A pending target no execution holds.
Orphaned(p) == state[p] = "pending" /\ \A w \in Workers : p \notin work[w].left

\* API-112: polling comes to an end.  A target is carried to its outcome, unless the process
\* that accepted it ended before its turn, or could not commit what became of it; a running
\* one is then taken up again by the next process.
Settles ==
    \A p \in Pairs :
        state[p] \in {"pending", "running"} ~>
            (state[p] \in {"succeeded", "failed"} \/ p \in dropped \/ Orphaned(p))

\* "applying it twice lands exactly what applying it once lands" (jobrun.go): a resumed write
\* of what had landed leaves the flag as it is.
ReapplyIsHarmless ==
    [][\A p \in Pairs : applied[p] > 0 /\ applied'[p] > applied[p] =>
          \A r \in Rows : row'[r].enabled = row[r].enabled]_vars
=============================================================================
