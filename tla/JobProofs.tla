----------------------------- MODULE JobProofs -----------------------------
(***************************************************************************)
(* What holds of JobExecution for every set of jobs and rows and any       *)
(* number of edits, failed store accesses, crashes and shutdowns: the      *)
(* record of a job never says more than was done.                          *)
(***************************************************************************)
EXTENDS JobExecution, WellFoundedInduction, TLAPS

USE JobAssumption DEF Workspace, Resume, Workers, Pairs

-----------------------------------------------------------------------------
(* The order in which an execution takes its targets                       *)

\* A set of numbers has a least.
LEMMA LeastOfNat ==
    ASSUME NEW S \in SUBSET Nat, S # {}
    PROVE  \E x \in S : \A y \in S : x <= y
<1>1. PICK x \in S : \A y \in S : ~(<<y, x>> \in OpToRel(<, Nat))
  BY NatLessThanWellFounded, WFMin
<1>2. \A y \in S : ~(y < x)
  BY <1>1 DEF OpToRel
<1> QED BY <1>2

\* So has a set of targets.
LEMMA CurrentIsLeft ==
    ASSUME NEW w \in Workers, work[w].left \in SUBSET Pairs, work[w].left # {}
    PROVE  Current(w) \in work[w].left
<1> DEFINE L == work[w].left
           J == {p[1] : p \in L}
<1>1. J \in SUBSET Nat /\ J # {}
  OBVIOUS
<1>2. PICK j \in J : \A i \in J : j <= i
  BY <1>1, LeastOfNat
<1> DEFINE R == {p[2] : p \in {q \in L : q[1] = j}}
<1>3. R \in SUBSET Nat /\ R # {}
  <2>1. PICK q \in L : q[1] = j
    BY <1>2
  <2>2. q[2] \in R
    BY <2>1
  <2>3. \A q1 \in L : q1[2] \in Nat
    <3>1. \A q1 \in Jobs \X (Rows \union {0}) : q1[2] \in Rows \union {0}
      OBVIOUS
    <3>2. Rows \union {0} \subseteq Nat
      OBVIOUS
    <3> QED BY <3>1, <3>2
  <2> QED BY <2>2, <2>3
<1>4. PICK r \in R : \A i \in R : r <= i
  BY <1>3, LeastOfNat
<1>5. PICK p \in L : p[1] = j /\ p[2] = r
  OBVIOUS
<1>6. \A q \in L : Before(p, q)
  <2> TAKE q \in L
  <2>1. j <= q[1] /\ (q[1] = j => r <= q[2]) /\ q[1] \in Nat /\ j \in Nat
    BY <1>1, <1>2, <1>4
  <2> QED BY <1>5, <2>1 DEF Before
<1> QED BY <1>6 DEF Current

-----------------------------------------------------------------------------
(* The inductive invariant                                                 *)

\* The target an execution has begun, if it has.
Begun(w, p) == p \in work[w].left /\ p = Current(w) /\ work[w].at # "claim"

\* An execution with nothing left is at rest, and there is none while the process is down.
AtRest ==
    /\ \A w \in Workers : work[w].left = {} => work[w] = Idle
    /\ phase = "down" => \A w \in Workers : work[w].left = {}

\* An execution has its own job's targets, and the resume those of nobody.
Separate ==
    /\ \A w \in Jobs : \A p \in work[w].left : p[1] = w
    /\ \A w \in Jobs : work[w].left \intersect work[Resume].left = {}

\* The operation of a job with targets is known, and what is done to a workspace is not to a row.
Operated ==
    \A p \in Pairs : state[p] # "none" =>
        op[p[1]] # "none" /\ (p[2] = Workspace => op[p[1]] = "once")

\* Only what can be applied again is read and written by a resume, or written at all.
Shaped ==
    \A w \in Workers : \A p \in work[w].left : Begun(w, p) =>
        /\ w = Resume => Reappliable(p[1])
        /\ work[w].at = "write" => Reappliable(p[1])

\* What an execution has left is pending until it is begun; the resume's was running, and a
\* stop had cut it.
Held ==
    /\ \A w \in Jobs : \A p \in work[w].left :
          state[p] = IF Begun(w, p) THEN "running" ELSE "pending"
    /\ \A w \in Jobs : \A p \in work[w].left : cut[p] = 0
    /\ \A p \in work[Resume].left : state[p] = "running" /\ cut[p] > 0

\* Until the work of a target has landed in this life, it has landed at most once for each
\* stop that cut it; what is not held by an execution may have landed once more.
Landed ==
    /\ \A w \in Workers : \A p \in work[w].left :
          IF Begun(w, p) /\ work[w].at = "outcome" /\ work[w].ok
            THEN applied[p] > 0 ELSE applied[p] <= cut[p]
    /\ \A p \in Pairs : state[p] \in {"none", "pending"} => applied[p] = 0 /\ cut[p] = 0

\* A process starts with what has been cut.
CutIsKnown ==
    phase = "down" => \A p \in Stranded : cut[p] > 0 /\ applied[p] <= cut[p]

\* The stops counted against each target are stops.
CutIsBounded ==
    \A p \in Pairs : cut[p] + (IF phase \in {"draining", "canceled"} THEN 1 ELSE 0) <= used.stops

IInv ==
    /\ TypeOK /\ AtRest /\ Separate /\ Operated /\ Shaped /\ Held /\ Landed
    /\ CutIsKnown /\ CutIsBounded /\ RecordIsHonest

\* An execution at a step has a target there, which is one of its own.
LEMMA AtTarget ==
    ASSUME IInv, NEW w \in Workers, NEW at, AtStep(w, at)
    PROVE  /\ Current(w) \in work[w].left /\ Current(w) \in Pairs
           /\ phase # "down" /\ work[w].at = at
           /\ work[w].left \in SUBSET Pairs
<1>1. work[w].left \in SUBSET Pairs
  BY DEF IInv, TypeOK
<1>2. work[w].left # {}
  BY DEF AtStep, Unfinished
<1> QED BY <1>1, <1>2, CurrentIsLeft DEF AtStep

\* What a step past a target does to the executions.
LEMMA Past ==
    ASSUME IInv, NEW w \in Workers, NEW at, AtStep(w, at), StepsPast(w)
    PROVE  /\ work' \in [Workers -> [left : SUBSET Pairs, at : {"claim", "read", "write", "outcome"},
                                     rev : Nat, ok : BOOLEAN]]
           /\ work'[w].left = work[w].left \ {Current(w)} /\ work'[w].at = "claim"
           /\ work'[w].left = {} => work'[w] = Idle
           /\ \A u \in Workers \ {w} : work'[u] = work[u]
           /\ \A u \in Workers : \A q \in Pairs : Begun(u, q)' <=> u # w /\ Begun(u, q)
<1>1. work \in [Workers -> [left : SUBSET Pairs, at : {"claim", "read", "write", "outcome"},
                            rev : Nat, ok : BOOLEAN]]
  BY DEF IInv, TypeOK
<1>3. work' = [work EXCEPT ![w] = [left |-> work[w].left \ {Current(w)}, at |-> "claim", rev |-> 0, ok |-> FALSE]]
  BY DEF StepsPast, Moves, Holding
<1>4. ASSUME NEW u \in Workers, NEW q \in Pairs PROVE Begun(u, q)' <=> u # w /\ Begun(u, q)
  <2>1. CASE u = w
    BY <1>1, <1>3, <2>1 DEF Begun
  <2>2. CASE u # w
    <3>1. work'[u] = work[u]
      BY <1>1, <1>3, <2>2
    <3>2. Current(u)' = Current(u)
      BY <3>1 DEF Current
    <3> QED BY <2>2, <3>1, <3>2 DEF Begun
  <2> QED BY <2>1, <2>2
<1> QED BY <1>1, <1>3, <1>4 DEF Idle, Holding

\* What a step on a target does to them.
LEMMA Carry ==
    ASSUME IInv, NEW w \in Workers, NEW from, AtStep(w, from),
           NEW at \in {"read", "write", "outcome"}, NEW rev \in Nat, NEW ok \in BOOLEAN,
           Carries(w, at, rev, ok)
    PROVE  /\ work' \in [Workers -> [left : SUBSET Pairs, at : {"claim", "read", "write", "outcome"},
                                     rev : Nat, ok : BOOLEAN]]
           /\ work'[w].left = work[w].left /\ work'[w].left # {}
           /\ work'[w].at = at /\ work'[w].ok = ok
           /\ \A u \in Workers \ {w} : work'[u] = work[u]
           /\ \A u \in Workers : \A q \in Pairs : Begun(u, q)' <=> (u # w /\ Begun(u, q)) \/ (u = w /\ q = Current(w))
<1>1. work \in [Workers -> [left : SUBSET Pairs, at : {"claim", "read", "write", "outcome"},
                            rev : Nat, ok : BOOLEAN]]
  BY DEF IInv, TypeOK
<1>2. work' = [work EXCEPT ![w] = [left |-> work[w].left, at |-> at, rev |-> rev, ok |-> ok]]
  BY DEF Carries, Moves
<1>3. Current(w) \in work[w].left
  BY AtTarget
<1>4. ASSUME NEW u \in Workers, NEW q \in Pairs
      PROVE  Begun(u, q)' <=> (u # w /\ Begun(u, q)) \/ (u = w /\ q = Current(w))
  <2>1. work'[u].left = work[u].left
    BY <1>1, <1>2
  <2>2. Current(u)' = Current(u)
    BY <2>1 DEF Current
  <2>3. u # w => work'[u] = work[u]
    BY <1>1, <1>2
  <2>4. u = w => work'[u].at = at
    BY <1>1, <1>2
  <2> QED BY <1>3, <2>1, <2>2, <2>3, <2>4 DEF Begun
<1> QED BY <1>1, <1>2, <1>3, <1>4

\* A target is of one execution.
LEMMA OneHolder ==
    ASSUME IInv, NEW w \in Workers, NEW p \in work[w].left, NEW u \in Workers, p \in work[u].left
    PROVE  u = w
  BY DEF IInv, Separate
-----------------------------------------------------------------------------
(* One execution                                                           *)

\* A step past a target, whose outcome is the one that its work came to.
LEMMA PassKeeps ==
    ASSUME IInv, NEW w \in Workers, NEW at, AtStep(w, at), StepsPast(w), TypeOK',
           NEW s \in {state[Current(w)], "succeeded", "failed"},
           state' = [state EXCEPT ![Current(w)] = s],
           s = "succeeded" => applied[Current(w)] > 0 /\ state[Current(w)] # "none",
           s = "failed" => state[Current(w)] # "none",
           s = "failed" /\ applied[Current(w)] > 0 => cut[Current(w)] > 0,
           UNCHANGED <<op, phase, applied, cut>>, used'.stops = used.stops
    PROVE  IInv'
<1> DEFINE p == Current(w)
<1>1. /\ p \in work[w].left /\ p \in Pairs /\ work[w].left \in SUBSET Pairs /\ phase # "down"
  BY AtTarget
<1>2. /\ work'[w].left = work[w].left \ {p}
      /\ work'[w].left = {} => work'[w] = Idle
      /\ \A u \in Workers \ {w} : work'[u] = work[u]
      /\ \A u \in Workers : \A q \in Pairs : Begun(u, q)' <=> u # w /\ Begun(u, q)
  BY Past
<1>3. \A u \in Workers : \A q \in work'[u].left : q # p /\ q \in work[u].left /\ q \in Pairs
  BY <1>1, <1>2, OneHolder DEF IInv, TypeOK
<1>4. \A q \in Pairs : state'[q] = IF q = p THEN s ELSE state[q]
  BY <1>1 DEF IInv, TypeOK
<1>5. p[1] \in Jobs /\ \A q \in Pairs : q[1] \in Jobs
  BY <1>1
<1>6. s # "none" \/ s = state[p]
  OBVIOUS
<1> HIDE DEF p
<1>7. AtRest'
  BY <1>1, <1>2 DEF IInv, AtRest
<1>8. Separate' /\ Operated'
  <2>1. Separate'
    BY <1>1, <1>2 DEF IInv, Separate
  <2>2. Operated'
    BY <1>4, <1>5, <1>6 DEF IInv, Operated, p
  <2> QED BY <2>1, <2>2
<1>9. Shaped'
  BY <1>2, <1>3 DEF IInv, Shaped, Reappliable
<1>10. Held'
  <2>1. \A u \in Jobs : \A q \in work'[u].left : state'[q] = IF Begun(u, q)' THEN "running" ELSE "pending"
    <3> TAKE u \in Jobs
    <3> TAKE q \in work'[u].left
    <3>1. Begun(u, q)' <=> Begun(u, q)
      BY <1>2, <1>3 DEF Begun, p
    <3>2. state[q] = IF Begun(u, q) THEN "running" ELSE "pending"
      BY <1>3 DEF IInv, Held
    <3> QED BY <1>3, <1>4, <3>1, <3>2
  <2> QED BY <1>3, <1>4, <2>1 DEF IInv, Held
<1>11. Landed'
  <2>1. \A u \in Workers : \A q \in work'[u].left :
          IF Begun(u, q)' /\ work'[u].at = "outcome" /\ work'[u].ok THEN applied'[q] > 0 ELSE applied'[q] <= cut'[q]
    <3> TAKE u \in Workers
    <3> TAKE q \in work'[u].left
    <3>1. CASE u # w
      <4>1. work'[u] = work[u] /\ (Begun(u, q)' <=> Begun(u, q)) /\ q \in work[u].left
        BY <1>2, <1>3, <3>1
      <4>2. IF Begun(u, q) /\ work[u].at = "outcome" /\ work[u].ok THEN applied[q] > 0 ELSE applied[q] <= cut[q]
        BY <4>1 DEF IInv, Landed
      <4> QED BY <4>1, <4>2
    <3>2. CASE u = w
      <4>1. ~Begun(u, q)' /\ q \in work[w].left /\ q # p /\ ~Begun(w, q)
        BY <1>2, <1>3, <3>2 DEF Begun, p
      <4> QED BY <4>1, <3>2 DEF IInv, Landed
    <3> QED BY <3>1, <3>2
  <2>2. \A q \in Pairs : state'[q] \in {"none", "pending"} => applied'[q] = 0 /\ cut'[q] = 0
    BY <1>4 DEF IInv, Landed, p
  <2> QED BY <2>1, <2>2 DEF Landed
<1>12. CutIsKnown' /\ CutIsBounded'
  BY <1>1 DEF IInv, CutIsKnown, CutIsBounded
<1>13. RecordIsHonest'
  <2> USE DEF RecordIsHonest
  <2> TAKE q \in Pairs
  <2>1. CASE q # p
    BY <1>4, <2>1 DEF IInv, RecordIsHonest, Reappliable
  <2>2. CASE q = p
    BY <1>4, <2>2 DEF IInv, RecordIsHonest, Reappliable, p
  <2> QED BY <2>1, <2>2
<1> QED BY <1>7, <1>8, <1>9, <1>10, <1>11, <1>12, <1>13 DEF IInv

\* A step on a target: the target is running, and its work has landed n times.
LEMMA CarryKeeps ==
    ASSUME IInv, NEW w \in Workers, NEW from, AtStep(w, from), TypeOK',
           NEW at \in {"read", "write", "outcome"}, NEW rev \in Nat, NEW ok \in BOOLEAN,
           Carries(w, at, rev, ok),
           state' = [state EXCEPT ![Current(w)] = "running"], state[Current(w)] # "none",
           NEW n \in Nat, applied' = [applied EXCEPT ![Current(w)] = n],
           IF at = "outcome" /\ ok THEN n > 0 ELSE n <= cut[Current(w)],
           n <= IF Reappliable(Current(w)[1]) THEN cut[Current(w)] + 1 ELSE 1,
           w = Resume \/ at = "write" => Reappliable(Current(w)[1]),
           UNCHANGED <<op, phase, cut>>, used'.stops = used.stops
    PROVE  IInv'
<1> DEFINE p == Current(w)
<1>1. /\ p \in work[w].left /\ p \in Pairs /\ work[w].left \in SUBSET Pairs /\ phase # "down"
  BY AtTarget
<1>2. /\ work'[w].left = work[w].left /\ work'[w].left # {}
      /\ work'[w].at = at /\ work'[w].ok = ok
      /\ \A u \in Workers \ {w} : work'[u] = work[u]
      /\ \A u \in Workers : \A q \in Pairs : Begun(u, q)' <=> (u # w /\ Begun(u, q)) \/ (u = w /\ q = p)
  BY Carry
<1>3. \A u \in Workers : \A q \in work'[u].left : q \in work[u].left /\ q \in Pairs /\ (q = p => u = w)
  BY <1>1, <1>2, OneHolder DEF IInv, TypeOK
<1>4. /\ \A q \in Pairs : state'[q] = IF q = p THEN "running" ELSE state[q]
      /\ \A q \in Pairs : applied'[q] = IF q = p THEN n ELSE applied[q]
  BY <1>1 DEF IInv, TypeOK
<1>5. p[1] \in Jobs /\ \A q \in Pairs : q[1] \in Jobs
  BY <1>1
<1>6. \A u \in Workers : \A q \in work'[u].left : q # p => (Begun(u, q)' <=> Begun(u, q))
  BY <1>1, <1>2, <1>3 DEF Begun, p
<1>7. \A q \in work[w].left : Begun(w, q) => q = p
  BY DEF Begun, p
<1> HIDE DEF p
<1>8. AtRest'
  BY <1>1, <1>2 DEF IInv, AtRest
<1>9. Separate' /\ Operated'
  <2>1. Separate'
    BY <1>1, <1>2 DEF IInv, Separate
  <2>2. Operated'
    BY <1>1, <1>4, <1>5 DEF IInv, Operated, p
  <2> QED BY <2>1, <2>2
<1>10. Shaped'
  <2> USE DEF Shaped
  <2> TAKE u \in Workers
  <2> TAKE q \in work'[u].left
  <2>1. CASE q = p
    BY <1>2, <1>3, <2>1 DEF Reappliable, p
  <2>2. CASE q # p
    <3>1. Begun(u, q)' => Begun(u, q) /\ u # w
      BY <1>3, <1>6, <1>7, <2>2
    <3> QED BY <1>2, <1>3, <3>1 DEF IInv, Reappliable
  <2> QED BY <2>1, <2>2
<1>11. Held'
  <2>1. \A u \in Jobs : \A q \in work'[u].left : state'[q] = IF Begun(u, q)' THEN "running" ELSE "pending"
    <3> TAKE u \in Jobs
    <3> TAKE q \in work'[u].left
    <3>1. CASE q = p
      BY <1>1, <1>2, <1>3, <1>4, <3>1
    <3>2. CASE q # p
      <4>1. state[q] = IF Begun(u, q) THEN "running" ELSE "pending"
        BY <1>3 DEF IInv, Held
      <4> QED BY <1>3, <1>4, <1>6, <3>2, <4>1
    <3> QED BY <3>1, <3>2
  <2> QED BY <1>3, <1>4, <2>1 DEF IInv, Held
<1>12. Landed'
  <2>1. \A u \in Workers : \A q \in work'[u].left :
          IF Begun(u, q)' /\ work'[u].at = "outcome" /\ work'[u].ok THEN applied'[q] > 0 ELSE applied'[q] <= cut'[q]
    <3> TAKE u \in Workers
    <3> TAKE q \in work'[u].left
    <3>1. CASE q = p
      BY <1>1, <1>2, <1>3, <1>4, <3>1 DEF p
    <3>2. CASE q # p
      <4>1. IF Begun(u, q) /\ work[u].at = "outcome" /\ work[u].ok THEN applied[q] > 0 ELSE applied[q] <= cut[q]
        BY <1>3 DEF IInv, Landed
      <4>2. u = w => ~Begun(u, q) /\ ~Begun(u, q)'
        BY <1>3, <1>6, <1>7, <3>2
      <4>3. u # w => work'[u] = work[u]
        BY <1>2
      <4>4. applied'[q] = applied[q] /\ cut'[q] = cut[q]
        BY <1>3, <1>4, <3>2
      <4> QED BY <1>6, <3>2, <4>1, <4>2, <4>3, <4>4
    <3> QED BY <3>1, <3>2
  <2>2. \A q \in Pairs : state'[q] \in {"none", "pending"} => applied'[q] = 0 /\ cut'[q] = 0
    BY <1>4 DEF IInv, Landed, p
  <2> QED BY <2>1, <2>2 DEF Landed
<1>13. CutIsKnown' /\ CutIsBounded'
  BY <1>1 DEF IInv, CutIsKnown, CutIsBounded
<1>14. RecordIsHonest'
  <2> USE DEF RecordIsHonest
  <2> TAKE q \in Pairs
  <2>1. CASE q # p
    BY <1>4, <2>1 DEF IInv, Reappliable
  <2>2. CASE q = p
    BY <1>4, <2>2 DEF Reappliable, p
  <2> QED BY <2>1, <2>2
<1> QED BY <1>8, <1>9, <1>10, <1>11, <1>12, <1>13, <1>14 DEF IInv

\* What the invariant says of the target an execution is at.
LEMMA TargetFacts ==
    ASSUME IInv, NEW w \in Workers, NEW at, AtStep(w, at)
    PROVE  LET p == Current(w) IN
           /\ at = "claim" => state[p] = IF w = Resume THEN "running" ELSE "pending"
           /\ at # "claim" => state[p] = "running"
           /\ at # "claim" /\ w = Resume => Reappliable(p[1])
           /\ at = "write" => Reappliable(p[1])
           /\ w = Resume => cut[p] > 0
           /\ w # Resume => cut[p] = 0
           /\ IF at = "outcome" /\ work[w].ok THEN applied[p] > 0 ELSE applied[p] <= cut[p]
           /\ applied[p] <= IF Reappliable(p[1]) THEN cut[p] + 1 ELSE 1
           /\ p \in Pairs /\ applied[p] \in Nat /\ cut[p] \in Nat
           /\ state[p] # "none" /\ (Reappliable(p[1]) => p[2] \in Rows)
<1> DEFINE p == Current(w)
<1>1. p \in work[w].left /\ p \in Pairs /\ work[w].at = at
  BY AtTarget
<1>2. Begun(w, p) <=> at # "claim"
  BY <1>1 DEF Begun
<1>3. cut[p] \in Nat /\ applied[p] \in Nat
  BY <1>1 DEF IInv, TypeOK
<1> HIDE DEF p
<1>4. state[p] = IF w # Resume /\ at = "claim" THEN "pending" ELSE "running"
  BY <1>1, <1>2 DEF IInv, Held
<1>5. /\ at # "claim" /\ w = Resume => Reappliable(p[1])
      /\ at = "write" => Reappliable(p[1])
  BY <1>1, <1>2 DEF IInv, Shaped
<1>6. (w = Resume => cut[p] > 0) /\ (w # Resume => cut[p] = 0)
  BY <1>1 DEF IInv, Held
<1>7. IF at = "outcome" /\ work[w].ok THEN applied[p] > 0 ELSE applied[p] <= cut[p]
  BY <1>1, <1>2 DEF IInv, Landed
<1>8. applied[p] <= IF Reappliable(p[1]) THEN cut[p] + 1 ELSE 1
  BY <1>1 DEF IInv, RecordIsHonest
<1>9. Reappliable(p[1]) => p[2] \in Rows
  <2>1. p[2] # Workspace => p[2] \in Rows
    BY <1>1
  <2> QED BY <1>1, <1>4, <2>1 DEF IInv, Operated, Reappliable
<1> QED BY <1>1, <1>3, <1>4, <1>5, <1>6, <1>7, <1>8, <1>9 DEF p

\* The boundary at which an expired drain stops.
LEMMA EndWalkKeeps == ASSUME IInv, NEW w \in Workers, EndWalk(w) PROVE IInv'
<1>1. work' = [work EXCEPT ![w] = Idle] /\ UNCHANGED <<row, op, state, phase, used, applied, cut, dropped>>
  BY DEF EndWalk, Moves, record, history
<1>2. phase # "down"
  BY DEF EndWalk, AtStep
<1>3. TypeOK'
  BY <1>1 DEF IInv, TypeOK, Idle, Holding
<1>4. /\ work'[w] = Idle /\ work'[w].left = {}
      /\ \A u \in Workers \ {w} : work'[u] = work[u]
      /\ \A u \in Workers : work'[u].left \subseteq work[u].left /\ work[u].left \subseteq Pairs
  BY <1>1 DEF IInv, TypeOK, Idle, Holding
<1>5. \A u \in Workers : \A q \in work'[u].left : u # w /\ q \in Pairs /\ (Begun(u, q)' <=> Begun(u, q))
  BY <1>4 DEF Begun, Current
<1>6. AtRest' /\ Separate' /\ Operated'
  BY <1>1, <1>2, <1>4 DEF IInv, AtRest, Separate, Operated
<1>7. Shaped' /\ Held'
  BY <1>1, <1>4, <1>5 DEF IInv, Shaped, Held, Reappliable
<1>8. Landed'
  BY <1>1, <1>4, <1>5 DEF IInv, Landed
<1>9. CutIsKnown' /\ CutIsBounded' /\ RecordIsHonest'
  BY <1>1, <1>2 DEF IInv, CutIsKnown, CutIsBounded, RecordIsHonest, Reappliable
<1> QED BY <1>3, <1>6, <1>7, <1>8, <1>9 DEF IInv

\* An execution keeps the invariant, at each of its steps.
LEMMA ExecutionKeeps == ASSUME IInv, NEW w \in Workers, Executes(w) PROVE IInv'
<1> DEFINE p == Current(w)
<1>0. /\ row \in [Rows -> [rev : Nat, enabled : BOOLEAN]]
      /\ state \in [Pairs -> {"none", "pending", "running", "succeeded", "failed"}]
      /\ applied \in [Pairs -> Nat] /\ cut \in [Pairs -> 0..MaxStops] /\ dropped \subseteq Pairs
      /\ used \in [edits : 0..MaxEdits, faults : 0..MaxFaults, stops : 0..MaxStops]
  BY DEF IInv, TypeOK
<1>f. Faults => /\ used' \in [edits : 0..MaxEdits, faults : 0..MaxFaults, stops : 0..MaxStops]
                /\ used'.stops = used.stops
  BY <1>0 DEF Faults
<1>1. CASE EndWalk(w)
  BY <1>1, EndWalkKeeps
<1>2. CASE ClaimFails(w)
  <2>1. AtStep(w, "claim") /\ StepsPast(w) /\ p \in Pairs
    BY <1>2, AtTarget DEF ClaimFails
  <2>2. TypeOK'
    BY <1>0, <1>2, <1>f, <2>1, Past DEF ClaimFails, IInv, TypeOK, record
  <2>3. state' = [state EXCEPT ![p] = state[p]]
    BY <1>0, <1>2, <2>1 DEF ClaimFails, record
  <2>4. UNCHANGED <<op, phase, applied, cut>> /\ used'.stops = used.stops
    BY <1>2, <1>f DEF ClaimFails, record
  <2> QED BY <2>1, <2>2, <2>3, <2>4, TargetFacts, PassKeeps
<1>3. CASE StartTarget(w)
  <2>1. AtStep(w, "claim") /\ Carries(w, "read", 0, FALSE) /\ p \in Pairs /\ w # Resume
    BY <1>3, AtTarget DEF StartTarget
  <2>2. state' = [state EXCEPT ![p] = "running"] /\ applied' = [applied EXCEPT ![p] = applied[p]]
    BY <1>0, <1>3, <2>1 DEF StartTarget, Claims, Advances, history
  <2>3. TypeOK'
    BY <1>0, <1>3, <2>1, <2>2, Carry DEF StartTarget, IInv, TypeOK, history
  <2>4. UNCHANGED <<op, phase, cut>> /\ used'.stops = used.stops
    BY <1>3 DEF StartTarget, history
  <2> QED BY <2>1, <2>2, <2>3, <2>4, TargetFacts, CarryKeeps
<1>4. CASE ResumeTarget(w)
  <2>1. AtStep(w, "claim") /\ p \in Pairs /\ w = Resume
    BY <1>4, AtTarget DEF ResumeTarget
  <2>2. UNCHANGED <<op, phase, applied, cut>> /\ used'.stops = used.stops
    BY <1>4 DEF ResumeTarget, history
  <2>3. CASE Reappliable(p[1])
    <3>1. Carries(w, "read", 0, FALSE)
      BY <1>4, <2>3 DEF ResumeTarget
    <3>2. state' = [state EXCEPT ![p] = "running"] /\ applied' = [applied EXCEPT ![p] = applied[p]]
      BY <1>0, <1>4, <2>1, <2>3, TargetFacts DEF ResumeTarget, history
    <3>3. TypeOK'
      BY <1>0, <1>4, <2>1, <3>1, <3>2, Carry DEF ResumeTarget, IInv, TypeOK, history
    <3> QED BY <2>1, <2>2, <2>3, <3>1, <3>2, <3>3, TargetFacts, CarryKeeps
  <2>4. CASE ~Reappliable(p[1])
    <3>1. StepsPast(w) /\ state' = [state EXCEPT ![p] = "failed"]
      BY <1>4, <2>4 DEF ResumeTarget, Advances
    <3>2. TypeOK'
      BY <1>0, <1>4, <2>1, <3>1, Past DEF ResumeTarget, IInv, TypeOK, history
    <3> QED BY <2>1, <2>2, <3>1, <3>2, TargetFacts, PassKeeps
  <2> QED BY <2>3, <2>4
<1>5. CASE Get(w)
  <2>1. AtStep(w, "read") /\ p \in Pairs /\ Reappliable(p[1]) /\ p[2] \in Rows
    BY <1>5, TargetFacts DEF Get
  <2>2. row[p[2]].rev \in Nat
    BY <1>0, <2>1
  <2>3. PICK at \in {"write", "outcome"}, rev \in Nat : Carries(w, at, rev, FALSE)
    BY <1>5, <2>2 DEF Get
  <2>4. state' = [state EXCEPT ![p] = "running"] /\ applied' = [applied EXCEPT ![p] = applied[p]]
    BY <1>0, <1>5, <2>1, TargetFacts DEF Get, record, history
  <2>5. TypeOK'
    BY <1>0, <1>5, <2>1, <2>3, Carry DEF Get, IInv, TypeOK, record, history
  <2>6. UNCHANGED <<op, phase, cut>> /\ used'.stops = used.stops
    BY <1>5 DEF Get, record, history
  <2>7. /\ state[p] # "none" /\ applied[p] \in Nat /\ applied[p] <= cut[p]
        /\ applied[p] <= IF Reappliable(p[1]) THEN cut[p] + 1 ELSE 1
    BY <2>1, TargetFacts
  <2> QED BY <2>1, <2>3, <2>4, <2>5, <2>6, <2>7, CarryKeeps
<1>6. CASE Update(w)
  <2>1. AtStep(w, "write") /\ p \in Pairs /\ Reappliable(p[1]) /\ p[2] \in Rows
    BY <1>6, TargetFacts DEF Update
  <2>2. UNCHANGED <<op, state, phase, cut, dropped>> /\ used' = used
    BY <1>6 DEF Update, record
  <2>3. state' = [state EXCEPT ![p] = "running"]
    BY <1>0, <2>1, <2>2, TargetFacts
  <2>4. row' \in [Rows -> [rev : Nat, enabled : BOOLEAN]]
    <3>1. Wanted(p[1]) \in BOOLEAN
      BY DEF Wanted
    <3>2. row[p[2]] \in [rev : Nat, enabled : BOOLEAN]
      BY <1>0, <2>1
    <3>3. row' = row \/ row' = [row EXCEPT ![p[2]] = [rev |-> row[p[2]].rev + 1, enabled |-> Wanted(p[1])]]
      BY <1>6 DEF Update
    <3>4. [rev |-> row[p[2]].rev + 1, enabled |-> Wanted(p[1])] \in [rev : Nat, enabled : BOOLEAN]
      BY <3>1, <3>2
    <3> QED BY <1>0, <3>3, <3>4
  <2>5. PICK ok \in BOOLEAN : Carries(w, "outcome", 0, ok)
                             /\ applied' = [applied EXCEPT ![p] = IF ok THEN applied[p] + 1 ELSE applied[p]]
    <3>1. CASE row[p[2]].rev = work[w].rev
      BY <1>6, <3>1 DEF Update
    <3>2. CASE row[p[2]].rev # work[w].rev
      BY <1>0, <1>6, <2>1, <3>2 DEF Update
    <3> QED BY <3>1, <3>2
  <2>6. TypeOK'
    BY <1>0, <2>1, <2>2, <2>4, <2>5, Carry DEF IInv, TypeOK
  <2>7. /\ state[p] # "none" /\ applied[p] \in Nat /\ cut[p] \in Nat /\ applied[p] <= cut[p]
        /\ applied[p] + 1 <= IF Reappliable(p[1]) THEN cut[p] + 1 ELSE 1
    BY <2>1, TargetFacts
  <2>8. CASE ok
    <3>1. Carries(w, "outcome", 0, TRUE) /\ applied' = [applied EXCEPT ![p] = applied[p] + 1]
      BY <2>5, <2>8
    <3>2. UNCHANGED <<op, phase, cut>> /\ used'.stops = used.stops
      BY <2>2
    <3>3. PICK n \in Nat : n = applied[p] + 1
      BY <2>7
    <3>4. n > 0 /\ n <= IF Reappliable(p[1]) THEN cut[p] + 1 ELSE 1
      BY <2>7, <3>3
    <3>5. applied' = [applied EXCEPT ![p] = n] /\ state[p] # "none"
      BY <2>7, <3>1, <3>3
    <3>6. Carries(w, "outcome", 0, TRUE)
      BY <3>1
    <3> QED BY <2>1, <2>3, <2>6, <3>2, <3>4, <3>5, <3>6, CarryKeeps
  <2>9. CASE ~ok
    <3>1. Carries(w, "outcome", 0, FALSE) /\ applied' = [applied EXCEPT ![p] = applied[p]]
      BY <2>5, <2>9
    <3>2. UNCHANGED <<op, phase, cut>> /\ used'.stops = used.stops
      BY <2>2
    <3> QED BY <2>1, <2>3, <2>6, <2>7, <3>1, <3>2, TargetFacts, CarryKeeps
  <2> QED BY <2>8, <2>9
<1>7. CASE Perform(w)
  <2>1. AtStep(w, "read") /\ p \in Pairs /\ ~Reappliable(p[1]) /\ w # Resume
    BY <1>7, TargetFacts DEF Perform
  <2>2. UNCHANGED <<row, op, state, phase, cut, dropped>> /\ used' = used
    BY <1>7 DEF Perform, record
  <2>3. state' = [state EXCEPT ![p] = "running"]
    BY <1>0, <2>1, <2>2, TargetFacts
  <2>4. PICK ok \in BOOLEAN : Carries(w, "outcome", 0, ok)
                             /\ applied' = [applied EXCEPT ![p] = IF ok THEN applied[p] + 1 ELSE applied[p]]
    BY <1>0, <1>7, <2>1 DEF Perform
  <2>5. TypeOK'
    BY <1>0, <2>1, <2>2, <2>4, Carry DEF IInv, TypeOK
  <2>6. /\ state[p] # "none" /\ applied[p] \in Nat /\ cut[p] \in Nat /\ applied[p] <= cut[p]
        /\ applied[p] + 1 <= IF Reappliable(p[1]) THEN cut[p] + 1 ELSE 1
    BY <2>1, TargetFacts
  <2>7. CASE ok
    <3>1. Carries(w, "outcome", 0, TRUE) /\ applied' = [applied EXCEPT ![p] = applied[p] + 1]
      BY <2>4, <2>7
    <3>2. UNCHANGED <<op, phase, cut>> /\ used'.stops = used.stops
      BY <2>2
    <3>3. PICK n \in Nat : n = applied[p] + 1
      BY <2>6
    <3>4. n > 0 /\ n <= IF Reappliable(p[1]) THEN cut[p] + 1 ELSE 1
      BY <2>6, <3>3
    <3>5. applied' = [applied EXCEPT ![p] = n] /\ state[p] # "none"
      BY <2>6, <3>1, <3>3
    <3>6. Carries(w, "outcome", 0, TRUE)
      BY <3>1
    <3> QED BY <2>1, <2>3, <2>5, <3>2, <3>4, <3>5, <3>6, CarryKeeps
  <2>8. CASE ~ok
    <3>1. Carries(w, "outcome", 0, FALSE) /\ applied' = [applied EXCEPT ![p] = applied[p]]
      BY <2>4, <2>8
    <3>2. UNCHANGED <<op, phase, cut>> /\ used'.stops = used.stops
      BY <2>2
    <3> QED BY <2>1, <2>3, <2>5, <2>6, <3>1, <3>2, TargetFacts, CarryKeeps
  <2> QED BY <2>7, <2>8
<1>8. CASE StoreFails(w)
  <2>1. PICK at \in {"read", "write"} : AtStep(w, at)
    BY <1>8 DEF StoreFails
  <2>2. p \in Pairs /\ Carries(w, "outcome", 0, FALSE)
    BY <1>8, <2>1, AtTarget DEF StoreFails
  <2>3. state' = [state EXCEPT ![p] = "running"] /\ applied' = [applied EXCEPT ![p] = applied[p]]
    BY <1>0, <1>8, <2>1, <2>2, TargetFacts DEF StoreFails, record, history
  <2>4. UNCHANGED <<row, op, phase, cut, dropped>> /\ used'.stops = used.stops
        /\ used' \in [edits : 0..MaxEdits, faults : 0..MaxFaults, stops : 0..MaxStops]
    BY <1>0, <1>8, <1>f DEF StoreFails, record, history
  <2>5. TypeOK'
    BY <1>0, <2>1, <2>2, <2>3, <2>4, Carry DEF IInv, TypeOK
  <2> QED BY <2>1, <2>2, <2>3, <2>4, <2>5, TargetFacts, CarryKeeps
<1>9. CASE Outcome(w)
  <2>1. AtStep(w, "outcome") /\ p \in Pairs /\ StepsPast(w) /\ state[p] = "running"
    BY <1>9, TargetFacts DEF Outcome
  <2>2. state' = [state EXCEPT ![p] = IF work[w].ok THEN "succeeded" ELSE "failed"]
    BY <1>9, <2>1 DEF Outcome, Advances
  <2>3. UNCHANGED <<row, op, phase, used, applied, cut, dropped>>
    BY <1>9 DEF Outcome, history
  <2>4. TypeOK'
    BY <1>0, <2>1, <2>2, <2>3, Past DEF IInv, TypeOK
  <2>5. /\ work[w].ok => applied[p] > 0
        /\ ~work[w].ok => applied[p] <= cut[p] /\ applied[p] \in Nat /\ cut[p] \in Nat
    BY <2>1, TargetFacts
  <2>6. CASE work[w].ok
    BY <2>1, <2>2, <2>3, <2>4, <2>5, <2>6, PassKeeps
  <2>7. CASE ~work[w].ok
    <3>1. state' = [state EXCEPT ![p] = "failed"]
      BY <2>2, <2>7
    <3>2. applied[p] > 0 => cut[p] > 0
      BY <2>5, <2>7
    <3> QED BY <2>1, <2>3, <2>4, <3>1, <3>2, PassKeeps
  <2> QED BY <2>6, <2>7
<1>10. CASE OutcomeFails(w)
  <2>1. AtStep(w, "outcome") /\ StepsPast(w) /\ p \in Pairs
    BY <1>10, AtTarget DEF OutcomeFails
  <2>2. UNCHANGED <<row, op, phase, applied, cut>> /\ used'.stops = used.stops
        /\ used' \in [edits : 0..MaxEdits, faults : 0..MaxFaults, stops : 0..MaxStops]
    BY <1>0, <1>10, <1>f DEF OutcomeFails, record
  <2>3. TypeOK'
    BY <1>0, <1>10, <2>1, <2>2, Past DEF OutcomeFails, IInv, TypeOK, record
  <2>4. state' = [state EXCEPT ![p] = state[p]]
    BY <1>0, <1>10, <2>1 DEF OutcomeFails, record
  <2> QED BY <2>1, <2>2, <2>3, <2>4, TargetFacts, PassKeeps
<1> QED BY <1>1, <1>2, <1>3, <1>4, <1>5, <1>6, <1>7, <1>8, <1>9, <1>10 DEF Executes

-----------------------------------------------------------------------------
(* The operator and the process                                            *)

\* A job is accepted with targets nobody has worked on.
LEMMA AcceptKeeps ==
    ASSUME IInv, NEW j \in Jobs, NEW kind \in {"enable", "disable", "once"},
           NEW targets \in SUBSET (Rows \union {Workspace}),
           Workspace \in targets => kind = "once", targets # {}, Accept(j, kind, targets)
    PROVE  IInv'
<1>0. /\ op \in [Jobs -> {"none", "enable", "disable", "once"}]
      /\ state \in [Pairs -> {"none", "pending", "running", "succeeded", "failed"}]
      /\ \A u \in Workers : work[u].left \in SUBSET Pairs
  BY DEF IInv, TypeOK
<1>1. /\ phase \in {"serving", "draining"} /\ op[j] = "none"
      /\ op' = [op EXCEPT ![j] = kind]
      /\ UNCHANGED <<row, phase, used, applied, cut, dropped>>
  BY DEF Accept, Answering, history
<1>2. \A q \in Pairs : state'[q] = IF q[1] = j /\ q[2] \in targets THEN "pending" ELSE state[q]
  BY DEF Accept
<1>3. \A q \in Pairs : q[1] = j => state[q] = "none" /\ applied[q] = 0 /\ cut[q] = 0
  BY <1>1 DEF IInv, Operated, Landed
<1>4. work[j].left = {}
  <2> SUFFICES ASSUME NEW q \in work[j].left PROVE FALSE
    OBVIOUS
  <2>1. q \in Pairs /\ q[1] = j
    BY <1>0 DEF IInv, Separate
  <2>2. state[q] # "none"
    BY DEF IInv, Held
  <2> QED BY <1>3, <2>1, <2>2
<1>5. work[j] = Idle
  BY <1>4 DEF IInv, AtRest
<1>6. \A u \in Workers : \A q \in work[u].left : q \in Pairs /\ q[1] # j
  <2> TAKE u \in Workers
  <2> TAKE q \in work[u].left
  <2>1. state[q] # "none"
    BY DEF IInv, Held
  <2> QED BY <1>0, <1>3, <2>1
<1>7. /\ \A u \in Workers \ {j} : work'[u] = work[u]
      /\ work'[j].left \in {{}, {j} \X targets}
      /\ work'[j].at = "claim"
      /\ work'[j].left = {} => work'[j] = Idle
      /\ work' \in [Workers -> [left : SUBSET Pairs, at : {"claim", "read", "write", "outcome"},
                                 rev : Nat, ok : BOOLEAN]]
  <2>1. work \in [Workers -> [left : SUBSET Pairs, at : {"claim", "read", "write", "outcome"},
                             rev : Nat, ok : BOOLEAN]]
    BY DEF IInv, TypeOK
  <2>2. CASE phase = "serving"
    <3>1. {j} \X targets \in SUBSET Pairs /\ {j} \X targets # {}
      <4>1. PICK t \in targets : TRUE
        OBVIOUS
      <4>2. <<j, t>> \in {j} \X targets
        BY <4>1
      <4> QED BY <4>2
    <3>2. work' = [work EXCEPT ![j] = [left |-> {j} \X targets, at |-> "claim", rev |-> 0, ok |-> FALSE]]
      BY <2>2 DEF Accept, Holding
    <3> QED BY <2>1, <3>1, <3>2
  <2>3. CASE phase # "serving"
    BY <1>5, <2>1, <2>3 DEF Accept, Idle, Holding
  <2> QED BY <2>2, <2>3
<1>8. TypeOK'
  <2>1. state' \in [Pairs -> {"none", "pending", "running", "succeeded", "failed"}]
    BY <1>0 DEF Accept
  <2> QED BY <1>1, <1>7, <2>1 DEF IInv, TypeOK
<1>9. /\ \A u \in Workers \ {j} : \A q \in work'[u].left :
            /\ q \in work[u].left /\ q \in Pairs /\ q[1] # j /\ (Begun(u, q)' <=> Begun(u, q))
            /\ state'[q] = state[q] /\ op'[q[1]] = op[q[1]]
      /\ \A q \in work'[j].left :
            q \in Pairs /\ q[1] = j /\ ~Begun(j, q)' /\ state'[q] = "pending"
  <2>1. \A u \in Workers \ {j} : \A q \in work'[u].left :
            /\ q \in work[u].left /\ q \in Pairs /\ q[1] # j /\ q[1] \in Jobs
            /\ (Begun(u, q)' <=> Begun(u, q))
    BY <1>6, <1>7 DEF Begun, Current
  <2>2. \A q \in work'[j].left : q \in Pairs /\ q[1] = j /\ q[2] \in targets /\ ~Begun(j, q)'
    BY <1>7 DEF Begun
  <2> QED BY <1>0, <1>1, <1>2, <2>1, <2>2
<1>10. AtRest'
  BY <1>1, <1>7 DEF IInv, AtRest
<1>11. Separate'
  BY <1>6, <1>7, <1>9 DEF IInv, Separate
<1>12. Operated'
  <2> USE DEF Operated
  <2> TAKE q \in Pairs
  <2>1. CASE q[1] = j
    BY <1>0, <1>1, <1>2, <1>3, <2>1
  <2>2. CASE q[1] # j
    BY <1>0, <1>1, <1>2, <2>2 DEF IInv
  <2> QED BY <2>1, <2>2
<1>13. Shaped'
  BY <1>7, <1>9 DEF IInv, Shaped, Reappliable
<1>14. Held'
  <2>1. \A u \in Jobs : \A q \in work'[u].left :
          state'[q] = (IF Begun(u, q)' THEN "running" ELSE "pending") /\ cut'[q] = 0
    <3> TAKE u \in Jobs
    <3> TAKE q \in work'[u].left
    <3>1. CASE u = j
      BY <1>1, <1>3, <1>9, <3>1
    <3>2. CASE u # j
      <4>1. state[q] = (IF Begun(u, q) THEN "running" ELSE "pending") /\ cut[q] = 0
        BY <1>9, <3>2 DEF IInv, Held
      <4> QED BY <1>1, <1>9, <3>2, <4>1
    <3> QED BY <3>1, <3>2
  <2>2. \A q \in work'[Resume].left : state'[q] = "running" /\ cut'[q] > 0
    BY <1>1, <1>9 DEF IInv, Held
  <2> QED BY <2>1, <2>2 DEF Held
<1>15. Landed'
  <2>1. \A u \in Workers : \A q \in work'[u].left :
          IF Begun(u, q)' /\ work'[u].at = "outcome" /\ work'[u].ok THEN applied'[q] > 0 ELSE applied'[q] <= cut'[q]
    BY <1>1, <1>3, <1>7, <1>9 DEF IInv, Landed
  <2>2. \A q \in Pairs : state'[q] \in {"none", "pending"} => applied'[q] = 0 /\ cut'[q] = 0
    BY <1>1, <1>2, <1>3 DEF IInv, Landed
  <2> QED BY <2>1, <2>2 DEF Landed
<1>16. CutIsKnown' /\ CutIsBounded'
  BY <1>1 DEF IInv, CutIsKnown, CutIsBounded
<1>17. RecordIsHonest'
  <2> USE DEF RecordIsHonest
  <2> TAKE q \in Pairs
  <2>1. CASE q[1] = j
    BY <1>1, <1>2, <1>3, <2>1
  <2>2. CASE q[1] # j
    BY <1>0, <1>1, <1>2, <2>2 DEF IInv, Reappliable
  <2> QED BY <2>1, <2>2
<1> QED BY <1>8, <1>10, <1>11, <1>12, <1>13, <1>14, <1>15, <1>16, <1>17 DEF IInv

\* What moves only rows, counters and the phase of a process that is up.
LEMMA AsideKeeps ==
    ASSUME IInv, TypeOK', UNCHANGED <<op, state, work, applied, cut>>,
           phase' = "down" => phase = "down",
           \A p \in Pairs : cut[p] + (IF phase' \in {"draining", "canceled"} THEN 1 ELSE 0) <= used'.stops
    PROVE  IInv'
<1>1. \A w \in Workers : \A p : Begun(w, p)' <=> Begun(w, p)
  BY DEF Begun, Current
<1>2. AtRest' /\ Separate' /\ Operated'
  BY DEF IInv, AtRest, Separate, Operated
<1>3. Shaped' /\ Held' /\ Landed'
  BY <1>1 DEF IInv, Shaped, Held, Landed, Reappliable
<1>4. CutIsKnown' /\ CutIsBounded' /\ RecordIsHonest'
  BY DEF IInv, CutIsKnown, CutIsBounded, RecordIsHonest, Reappliable, Stranded
<1> QED BY <1>2, <1>3, <1>4 DEF IInv

\* The process ends: what it was running has been cut once more, by a stop.
LEMMA EndsKeeps ==
    ASSUME IInv, Ends, phase # "down", used' \in [edits : 0..MaxEdits, faults : 0..MaxFaults, stops : 0..MaxStops],
           IF phase \in {"draining", "canceled"} THEN used'.stops >= used.stops ELSE used'.stops = used.stops + 1
    PROVE  IInv'
<1>1. /\ phase' = "down" /\ work' = [w \in Workers |-> Idle]
      /\ cut' = [p \in Pairs |-> IF p \in Stranded THEN cut[p] + 1 ELSE cut[p]]
      /\ UNCHANGED <<row, op, state, applied, dropped>>
  BY DEF Ends, record
<1>2. \A p \in Pairs : cut'[p] <= used'.stops /\ cut'[p] \in Nat /\ cut'[p] >= cut[p] /\ cut[p] \in Nat
  BY <1>1 DEF IInv, TypeOK, CutIsBounded
<1>3. TypeOK'
  <2>1. Idle \in [left : SUBSET Pairs, at : {"claim", "read", "write", "outcome"}, rev : Nat, ok : BOOLEAN]
    BY DEF Idle, Holding
  <2>2. cut' \in [Pairs -> 0..MaxStops]
    <3>1. used'.stops <= MaxStops /\ used'.stops \in Nat
      OBVIOUS
    <3>2. \A p \in Pairs : cut'[p] \in 0..MaxStops
      BY <1>2, <3>1
    <3> QED BY <1>1, <3>2
  <2> QED BY <1>1, <2>1, <2>2 DEF IInv, TypeOK
<1>4. AtRest' /\ Separate' /\ Shaped' /\ Held' /\ Operated'
  BY <1>1 DEF IInv, AtRest, Separate, Shaped, Held, Operated, Idle, Holding, Begun
<1>5. Landed'
  BY <1>1 DEF IInv, Landed, Idle, Holding, Begun, Stranded
<1>6. CutIsKnown'
  <2>1. \A p \in Stranded : cut'[p] = cut[p] + 1 /\ cut[p] \in Nat /\ applied[p] \in Nat /\ applied[p] <= cut[p] + 1
    <3> TAKE p \in Stranded
    <3>1. p \in Pairs /\ cut[p] \in Nat /\ applied[p] \in Nat
      BY DEF Stranded, IInv, TypeOK
    <3>2. applied[p] <= IF Reappliable(p[1]) THEN cut[p] + 1 ELSE 1
      BY <3>1 DEF IInv, RecordIsHonest
    <3> QED BY <1>1, <3>1, <3>2
  <2>2. Stranded' = Stranded
    BY <1>1 DEF Stranded
  <2>3. \A p \in Stranded' : cut'[p] > 0 /\ applied'[p] <= cut'[p]
    <3> TAKE p \in Stranded'
    <3>1. p \in Stranded
      BY <2>2
    <3>2. cut'[p] = cut[p] + 1 /\ cut[p] \in Nat /\ applied[p] \in Nat /\ applied[p] <= cut[p] + 1
      BY <2>1, <3>1
    <3>3. applied'[p] = applied[p]
      BY <1>1
    <3> QED BY <3>2, <3>3
  <2> QED BY <2>3 DEF CutIsKnown
<1>7. CutIsBounded'
  <2>1. \A p \in Pairs : cut'[p] + 0 <= used'.stops
    BY <1>2
  <2> QED BY <1>1, <2>1 DEF CutIsBounded
<1>8. RecordIsHonest'
  BY <1>1, <1>2 DEF IInv, TypeOK, RecordIsHonest, Reappliable
<1> QED BY <1>3, <1>4, <1>5, <1>6, <1>7, <1>8 DEF IInv

\* A process is built with an inventory of what was cut, or without one.
LEMMA BootKeeps == ASSUME IInv, Boot PROVE IInv'
<1>1. /\ phase = "down" /\ phase' = "built" /\ UNCHANGED <<row, op, state, applied, cut>>
      /\ \A w \in Workers : work[w] = Idle
  BY DEF Boot, record, IInv, AtRest
<1>2. used' \in [edits : 0..MaxEdits, faults : 0..MaxFaults, stops : 0..MaxStops] /\ used'.stops = used.stops
  BY DEF Boot, Faults, IInv, TypeOK
<1>3. /\ work' \in [Workers -> [left : SUBSET Pairs, at : {"claim", "read", "write", "outcome"},
                                 rev : Nat, ok : BOOLEAN]]
      /\ \A w \in Jobs : work'[w] = Idle
      /\ work'[Resume].left \subseteq Stranded /\ work'[Resume].at = "claim"
      /\ work'[Resume].left = {} => work'[Resume] = Idle
  <2>1. work \in [Workers -> [left : SUBSET Pairs, at : {"claim", "read", "write", "outcome"},
                             rev : Nat, ok : BOOLEAN]]
    BY DEF IInv, TypeOK
  <2>2. Stranded \in SUBSET Pairs
    BY DEF Stranded
  <2>3. CASE work' = [work EXCEPT ![Resume] = Holding(Stranded)]
    <3>1. [left |-> Stranded, at |-> "claim", rev |-> 0, ok |-> FALSE]
            \in [left : SUBSET Pairs, at : {"claim", "read", "write", "outcome"}, rev : Nat, ok : BOOLEAN]
      BY <2>2
    <3>2. work' = [work EXCEPT ![Resume] = [left |-> Stranded, at |-> "claim", rev |-> 0, ok |-> FALSE]]
      BY <2>3 DEF Holding
    <3> QED BY <1>1, <2>1, <3>1, <3>2 DEF Idle, Holding
  <2>4. CASE work' = work
    BY <1>1, <2>1, <2>4 DEF Idle, Holding
  <2> QED BY <2>3, <2>4 DEF Boot
<1>4. TypeOK'
  <2>1. dropped' \subseteq Pairs
    BY DEF Boot, Stranded
  <2> QED BY <1>1, <1>2, <1>3, <2>1 DEF IInv, TypeOK
<1>5. \A w \in Jobs : work'[w].left = {}
  BY <1>3 DEF Idle, Holding
<1>6. \A w \in Workers : \A p \in work'[w].left :
        w = Resume /\ p \in Stranded /\ p \in Pairs /\ ~Begun(w, p)'
  BY <1>3, <1>5 DEF Begun, Stranded
<1>7. AtRest' /\ Separate' /\ Operated' /\ Shaped'
  BY <1>1, <1>3, <1>5, <1>6 DEF IInv, AtRest, Separate, Operated, Shaped
<1>8. \A p \in Stranded : state[p] = "running" /\ cut[p] > 0 /\ applied[p] <= cut[p]
  BY <1>1 DEF IInv, CutIsKnown, Stranded
<1>9. Held'
  BY <1>1, <1>5, <1>6, <1>8 DEF Held
<1>10. Landed'
  BY <1>1, <1>6, <1>8 DEF IInv, Landed
<1>11. CutIsKnown' /\ RecordIsHonest'
  BY <1>1 DEF IInv, CutIsKnown, RecordIsHonest, Reappliable
<1>12. CutIsBounded'
  BY <1>1, <1>2 DEF IInv, CutIsBounded
<1> QED BY <1>4, <1>7, <1>9, <1>10, <1>11, <1>12 DEF IInv

-----------------------------------------------------------------------------
(* The theorems                                                            *)

LEMMA Initially == Init => IInv
<1> SUFFICES ASSUME Init PROVE IInv
  OBVIOUS
<1>1. TypeOK
  BY DEF Init, TypeOK, Idle, Holding
<1>2. AtRest /\ Separate /\ Operated /\ Shaped /\ Held /\ Landed
  BY DEF Init, AtRest, Separate, Operated, Shaped, Held, Landed, Idle, Holding
<1>3. CutIsKnown /\ CutIsBounded /\ RecordIsHonest
  BY DEF Init, CutIsKnown, CutIsBounded, RecordIsHonest, Stranded
<1> QED BY <1>1, <1>2, <1>3 DEF IInv

LEMMA Inductive == IInv /\ [Next]_vars => IInv'
<1> SUFFICES ASSUME IInv, [Next]_vars PROVE IInv'
  OBVIOUS
<1>0. /\ used \in [edits : 0..MaxEdits, faults : 0..MaxFaults, stops : 0..MaxStops]
      /\ row \in [Rows -> [rev : Nat, enabled : BOOLEAN]]
      /\ \A p \in Pairs : cut[p] \in Nat
  BY DEF IInv, TypeOK
<1>b. \A p \in Pairs : cut[p] + (IF phase \in {"draining", "canceled"} THEN 1 ELSE 0) <= used.stops
  BY DEF IInv, CutIsBounded
<1>1. ASSUME NEW j \in Jobs, AcceptBulk(j) PROVE IInv'
  <2>1. PICK kind \in {"enable", "disable"}, targets \in SUBSET Rows : targets # {} /\ Accept(j, kind, targets)
    BY <1>1 DEF AcceptBulk
  <2>2. Workspace \notin targets
    OBVIOUS
  <2> QED BY <2>1, <2>2, AcceptKeeps
<1>2. ASSUME NEW j \in Jobs, AcceptWorkspace(j) PROVE IInv'
  BY <1>2, AcceptKeeps DEF AcceptWorkspace
<1>3. ASSUME NEW r \in Rows, Edit(r) PROVE IInv'
  <2>1. used' \in [edits : 0..MaxEdits, faults : 0..MaxFaults, stops : 0..MaxStops] /\ used'.stops = used.stops
    BY <1>0, <1>3 DEF Edit
  <2>2. row' \in [Rows -> [rev : Nat, enabled : BOOLEAN]]
    BY <1>0, <1>3 DEF Edit
  <2>3. UNCHANGED <<op, state, work, phase, applied, cut, dropped>>
    BY <1>3 DEF Edit, record, history
  <2>4. TypeOK'
    BY <2>1, <2>2, <2>3 DEF IInv, TypeOK
  <2> QED BY <1>b, <2>1, <2>3, <2>4, AsideKeeps
<1>4. ASSUME NEW r \in Rows, Delete(r) PROVE IInv'
  <2>1. used' \in [edits : 0..MaxEdits, faults : 0..MaxFaults, stops : 0..MaxStops] /\ used'.stops = used.stops
    BY <1>0, <1>4 DEF Delete
  <2>2. row' \in [Rows -> [rev : Nat, enabled : BOOLEAN]]
    BY <1>0, <1>4 DEF Delete
  <2>3. UNCHANGED <<op, state, work, phase, applied, cut, dropped>>
    BY <1>4 DEF Delete, record, history
  <2>4. TypeOK'
    BY <2>1, <2>2, <2>3 DEF IInv, TypeOK
  <2> QED BY <1>b, <2>1, <2>3, <2>4, AsideKeeps
<1>5. ASSUME NEW w \in Workers, Executes(w) PROVE IInv'
  BY <1>5, ExecutionKeeps
<1>6. CASE Boot
  BY <1>6, BootKeeps
<1>7. CASE Start
  <2>1. phase = "built" /\ phase' = "serving" /\ UNCHANGED <<row, op, state, work, used, applied, cut, dropped>>
    BY <1>7 DEF Start, record, history
  <2>2. TypeOK'
    BY <2>1 DEF IInv, TypeOK
  <2>3. \A p \in Pairs : cut[p] + (IF phase' \in {"draining", "canceled"} THEN 1 ELSE 0) <= used'.stops
    BY <1>b, <2>1
  <2> QED BY <2>1, <2>2, <2>3, AsideKeeps
<1>8. CASE Crash
  <2>1. /\ used' \in [edits : 0..MaxEdits, faults : 0..MaxFaults, stops : 0..MaxStops]
        /\ used'.stops = used.stops + 1 /\ used.stops \in Nat
    BY <1>0, <1>8 DEF Crash, Stops
  <2> QED BY <1>8, <2>1, EndsKeeps DEF Crash
<1>9. CASE Shutdown
  <2>1. phase = "serving" /\ phase' = "draining" /\ UNCHANGED <<row, op, state, work, applied, cut, dropped>>
    BY <1>9 DEF Shutdown, record, history
  <2>2. /\ used' \in [edits : 0..MaxEdits, faults : 0..MaxFaults, stops : 0..MaxStops]
        /\ used'.stops = used.stops + 1 /\ used.stops \in Nat
    BY <1>0, <1>9 DEF Shutdown, Stops
  <2>3. TypeOK'
    BY <2>1, <2>2 DEF IInv, TypeOK
  <2>4. \A p \in Pairs : cut[p] <= used.stops
    BY <1>0, <1>b, <2>1
  <2>5. \A p \in Pairs : cut[p] + (IF phase' \in {"draining", "canceled"} THEN 1 ELSE 0) <= used'.stops
    BY <1>0, <2>1, <2>2, <2>4
  <2> QED BY <2>1, <2>3, <2>5, AsideKeeps
<1>10. CASE DrainExpires
  <2>1. phase = "draining" /\ phase' = "canceled" /\ UNCHANGED <<row, op, state, work, used, applied, cut, dropped>>
    BY <1>10 DEF DrainExpires, record, history
  <2>2. TypeOK'
    BY <2>1 DEF IInv, TypeOK
  <2>3. \A p \in Pairs : cut[p] + (IF phase' \in {"draining", "canceled"} THEN 1 ELSE 0) <= used'.stops
    BY <1>b, <2>1
  <2> QED BY <2>1, <2>2, <2>3, AsideKeeps
<1>11. CASE Exit
  <2>1. phase \in {"draining", "canceled"} /\ Ends /\ used' = used /\ used.stops \in Nat
    BY <1>0, <1>11 DEF Exit
  <2> QED BY <1>0, <2>1, EndsKeeps
<1>12. CASE UNCHANGED vars
  <2>1. UNCHANGED <<row, op, state, phase, work, used, applied, cut, dropped>>
    BY <1>12 DEF vars, record, history
  <2>2. TypeOK'
    BY <2>1 DEF IInv, TypeOK
  <2> QED BY <1>b, <2>1, <2>2, AsideKeeps
<1> QED BY <1>1, <1>2, <1>3, <1>4, <1>5, <1>6, <1>7, <1>8, <1>9, <1>10, <1>11, <1>12 DEF Next

LEMMA Invariance == Spec => []IInv
  BY Initially, Inductive, PTL DEF Spec

\* The job records, the executions and the counters keep their types.
THEOREM TypeCorrect == Spec => []TypeOK
<1>1. IInv => TypeOK
  BY DEF IInv
<1> QED BY Invariance, <1>1, PTL

\* API-116 for any number of jobs, rows, edits, failures and stops: the record of a job never
\* says more than was done, and nothing is done twice but by a resume.
THEOREM RecordStaysHonest == Spec => []RecordIsHonest
<1>1. IInv => RecordIsHonest
  BY DEF IInv
<1> QED BY Invariance, <1>1, PTL
=============================================================================
