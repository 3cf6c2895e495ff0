---------------------------- MODULE EventProofs ----------------------------
(***************************************************************************)
(* What holds of the two readers of the event log, for every set of        *)
(* producers and shapes, every cap and any number of events.               *)
(*                                                                         *)
(* The live stream (EventStream), over any number of connections: it loses *)
(* nothing silently by itself, sends nothing twice or out of order, and    *)
(* its markers name what the client may read.  The webhooks                *)
(* (WebhookDelivery), for every budget and threshold and any number of     *)
(* secrets, enables and failures: no event of the endpoint's is skipped    *)
(* without account, first deliveries come in id order, and the endpoint is *)
(* disabled only for deliveries that failed.                               *)
(***************************************************************************)
EXTENDS EventStream, WebhookDelivery, FiniteSetTheorems, WellFoundedInduction, TLAPS

USE EventLogAssumption DEF Ids, None

-----------------------------------------------------------------------------
(* The log                                                                 *)

\* An id is appended at most once: it is held by one producer until then.
MintedIsFresh ==
    /\ \A i \in appended : i <= lastId
    /\ \A p \in Producers : minted[p] <= lastId /\ minted[p] \notin appended
    /\ \A p, q \in Producers : minted[p] = minted[q] /\ minted[p] # None => p = q

\* A sweep notes no more than it evicted.
SweepIsRecorded == sweeping <= evictedThrough

\* What was evicted from above a retained id is known as that.
StrandedComplete == \A i \in appended \ log, j \in log : j < i => i \in stranded

LogInv == LogTypeOK /\ MintedIsFresh /\ SweepIsRecorded /\ StrandedComplete

LogMoves == LogSteps \/ LogReopens

\* A set of numbers has a least.
LEMMA LeastOfNat ==
    ASSUME NEW S \in SUBSET Nat, S # {}
    PROVE  \E x \in S : \A y \in S : x <= y
  <1>1. PICK x \in S : \A y \in S : ~(<<y, x>> \in OpToRel(<, Nat))
    BY NatLessThanWellFounded, WFMin
  <1>2. \A y \in S : ~(y < x)
    BY <1>1 DEF OpToRel
  <1> QED BY <1>2

\* Sets of ids are finite, and have a least and a greatest.
LEMMA IdSets ==
    ASSUME NEW S \in SUBSET (Ids \union {None})
    PROVE  /\ S \in SUBSET Int /\ IsFiniteSet(S)
           /\ S # {} => /\ Max(S) \in S /\ \A x \in S : x <= Max(S)
                        /\ Min(S) \in S /\ \A x \in S : Min(S) <= x
  <1>1. S \in SUBSET (0..MaxId)
    OBVIOUS
  <1>2. IsFiniteSet(S)
    <2>1. IsFiniteSet(0..MaxId)
      BY FS_Interval
    <2> QED BY <1>1, <2>1, FS_Subset
  <1>3. ASSUME S # {} PROVE Max(S) \in S /\ \A x \in S : x <= Max(S)
    <2> DEFINE D == {MaxId - x : x \in S}
    <2>1. \A x \in S : x \in Nat /\ MaxId - x \in Nat /\ MaxId \in Nat
      BY <1>1
    <2>2. D \in SUBSET Nat /\ D # {}
      BY <1>3, <2>1
    <2>3. PICK a \in S : \A e \in D : MaxId - a <= e
      <3>1. PICK d \in D : \A e \in D : d <= e
        <4> HIDE DEF D
        <4> QED BY <2>2, LeastOfNat
      <3>2. PICK a \in S : d = MaxId - a
        OBVIOUS
      <3> QED BY <3>1, <3>2
    <2>4. \A y \in S : MaxId - a <= MaxId - y
      BY <2>3
    <2>5. \A y \in S : a >= y
      BY <2>1, <2>4
    <2> QED BY <2>5 DEF Max
  <1>4. ASSUME S # {} PROVE Min(S) \in S /\ \A x \in S : Min(S) <= x
    <2>1. \E x \in S : \A y \in S : x <= y
      BY <1>1, <1>4, LeastOfNat
    <2> QED BY <2>1 DEF Min
  <1> QED BY <1>1, <1>2, <1>3, <1>4

\* The greater, and the lesser, of two numbers.
LEMMA MaxOfTwo == ASSUME NEW a \in Int, NEW b \in Int PROVE Max({a, b}) = IF a >= b THEN a ELSE b
  BY DEF Max
LEMMA MinOfTwo == ASSUME NEW a \in Int, NEW b \in Int PROVE Min({a, b}) = IF a <= b THEN a ELSE b
  BY DEF Min

\* The greatest id of a set, or none.
LEMMA MaxOr0Type ==
    ASSUME NEW S \in SUBSET Ids
    PROVE  MaxOr0(S) \in Ids \union {None} /\ \A x \in S : x <= MaxOr0(S)
  BY IdSets DEF MaxOr0

\* The greater of two ids.
LEMMA MaxPair ==
    ASSUME NEW a \in Ids \union {None}, NEW b \in Ids \union {None}
    PROVE  Max({a, b}) \in Ids \union {None} /\ a <= Max({a, b}) /\ b <= Max({a, b})
  BY MaxOfTwo

\* An id that is new to the log leaves it the same among those appended before.
LEMMA NewToLog ==
    ASSUME NEW A, NEW B, A \subseteq B, NEW x, x \notin B
    PROVE  (A \union {x}) \intersect B = A
  OBVIOUS

\* What a cap takes was there.
LEMMA OverCapType ==
    ASSUME NEW rows, NEW i, NEW class
    PROVE  OverCap(rows, i, class) \subseteq rows
  BY DEF OverCap

\* An eviction, of whichever rows, accounts for what it takes.
LEMMA EvictsSound ==
    ASSUME LogInv, NEW rows \in SUBSET Ids, NEW cut \in SUBSET rows, Evicts(rows, cut),
           log \subseteq rows, rows \intersect appended = log
    PROVE  /\ log' \subseteq appended' /\ appended' \subseteq Ids
           /\ appended' = appended \union rows /\ log' = rows \ cut
           /\ evictedThrough' \in Ids \union {None} /\ evictedThrough <= evictedThrough'
           /\ MaxOr0(cut) <= evictedThrough'
           /\ stranded \subseteq stranded' /\ stranded' \subseteq appended' \ log'
           /\ StrandedComplete'
  <1>. USE DEF LogInv, LogTypeOK
  <1>1. MaxOr0(cut) \in Ids \union {None} /\ evictedThrough \in Ids \union {None}
    BY MaxOr0Type
  <1>2. /\ appended' = appended \union rows /\ log' = rows \ cut
        /\ evictedThrough' = Max({evictedThrough, MaxOr0(cut)})
        /\ stranded' = stranded \union {i \in appended' \ log' : \E j \in log' : j < i}
    BY DEF Evicts
  <1>3. /\ evictedThrough' \in Ids \union {None} /\ evictedThrough <= evictedThrough'
        /\ MaxOr0(cut) <= evictedThrough'
    BY <1>1, <1>2, MaxPair
  <1>4. stranded \subseteq appended' \ log'
    BY <1>2
  <1>. QED BY <1>2, <1>3, <1>4 DEF StrandedComplete

\* Every step of the log keeps what is known of it.
LEMMA LogInductive == LogInv /\ (LogMoves \/ UNCHANGED logVars) => LogInv'
  <1>. SUFFICES ASSUME LogInv, LogMoves \/ UNCHANGED logVars PROVE LogInv'
    OBVIOUS
  <1>. USE DEF LogInv, LogTypeOK, MintedIsFresh, SweepIsRecorded, StrandedComplete
  <1>1. ASSUME NEW p \in Producers, Mint(p) PROVE LogInv'
    <2>1. lastId + 1 \in Ids /\ UNCHANGED <<shape, log, evictedThrough, watermark, sweeping, logHistory>>
          /\ lastId' = lastId + 1 /\ minted' = [minted EXCEPT ![p] = lastId + 1]
      BY <1>1 DEF Mint
    <2>2. minted' \in [Producers -> Ids \union {None}]
      BY <2>1
    <2>3. LogTypeOK'
      BY <2>1, <2>2 DEF logHistory
    <2>4. \A q \in Producers : minted'[q] = IF q = p THEN lastId + 1 ELSE minted[q]
      BY <2>1
    <2>5. MintedIsFresh'
      BY <2>1, <2>2, <2>4 DEF logHistory
    <2>. QED BY <2>1, <2>3, <2>5 DEF logHistory
  <1>2. ASSUME NEW p \in Producers, AppendFails(p) PROVE LogInv'
    <2>1. /\ UNCHANGED <<lastId, shape, log, evictedThrough, watermark, sweeping, logHistory>>
          /\ minted' \in [Producers -> Ids \union {None}]
          /\ \A q \in Producers : minted'[q] = IF q = p THEN None ELSE minted[q]
      BY <1>2 DEF AppendFails
    <2>. QED BY <2>1 DEF logHistory
  <1>3. ASSUME NEW p \in Producers, NEW s \in Shapes, LogAppends(p, s) PROVE LogInv'
    <2>. DEFINE i == minted[p]
                rows == log \union {i}
                cut == OverCap(rows, i, s.class)
    <2>1. i \in Ids /\ i \notin appended /\ i <= lastId
      BY <1>3 DEF LogAppends
    <2>2. /\ Evicts(rows, cut) /\ minted' = [minted EXCEPT ![p] = None]
          /\ shape' = [shape EXCEPT ![i] = s] /\ watermark' = Max({watermark, MaxOr0(cut)})
          /\ late' = IF \E j \in appended : j > i THEN late \union {i} ELSE late
          /\ UNCHANGED <<lastId, sweeping>>
      BY <1>3 DEF LogAppends
    <2>3. cut \subseteq rows /\ rows \subseteq Ids /\ rows \intersect appended = log /\ log \subseteq rows
      <3>1. cut \subseteq rows
        BY OverCapType
      <3>. HIDE DEF cut, i
      <3>2. log \subseteq appended /\ appended \subseteq Ids
        OBVIOUS
      <3>3. rows \intersect appended = log
        BY <2>1, <3>2, NewToLog
      <3>. QED BY <2>1, <3>1, <3>2, <3>3
    <2>. HIDE DEF i, rows, cut
    <2>4. /\ log' \subseteq appended' /\ appended' \subseteq Ids
          /\ appended' = appended \union rows
          /\ evictedThrough' \in Ids \union {None} /\ evictedThrough <= evictedThrough'
          /\ MaxOr0(cut) <= evictedThrough'
          /\ stranded' \subseteq appended' \ log' /\ StrandedComplete'
      BY <2>2, <2>3, EvictsSound
    <2>5. MaxOr0(cut) \in Ids \union {None}
      BY <2>3, MaxOr0Type
    <2>6. watermark' \in Ids \union {None} /\ watermark' <= evictedThrough'
      <3>1. watermark \in Ids \union {None} /\ evictedThrough \in Ids \union {None}
        OBVIOUS
      <3>2. watermark <= evictedThrough'
        BY <2>4, <3>1
      <3>3. watermark' = watermark \/ watermark' = MaxOr0(cut)
        <4>1. watermark \in Int /\ MaxOr0(cut) \in Int
          BY <2>5, <3>1
        <4>2. Max({watermark, MaxOr0(cut)}) \in {watermark, MaxOr0(cut)}
          BY <4>1, MaxOfTwo
        <4>. QED BY <2>2, <4>2
      <3>. QED BY <2>4, <2>5, <3>1, <3>2, <3>3
    <2>7. appended' = appended \union {i}
      BY <2>4 DEF rows
    <2>8. /\ shape' \in [Ids -> Shapes \union {NoShape}] /\ minted' \in [Producers -> Ids \union {None}]
          /\ \A q \in Producers : minted'[q] = IF q = p THEN None ELSE minted[q]
      BY <2>1, <2>2
    <2>9. LogTypeOK'
      <3>1. late' \subseteq appended'
        BY <2>2, <2>7
      <3>2. lastId' \in Ids \union {None} /\ sweeping' \in Ids \union {None}
        BY <2>2
      <3>. QED BY <2>4, <2>6, <2>8, <3>1, <3>2
    <2>10. \A q \in Producers : q # p => minted[q] # i
      BY <2>1 DEF i
    <2>11. MintedIsFresh'
      BY <2>1, <2>2, <2>7, <2>8, <2>10
    <2>. QED BY <2>2, <2>4, <2>9, <2>11
  <1>4. CASE PruneCommits
    <2>1. PICK cut \in Expirable \ {{}} : Evicts(log, cut) /\ sweeping' = Max(cut)
      BY <1>4 DEF PruneCommits
    <2>2. cut \subseteq log /\ cut # {} /\ log \subseteq Ids /\ log \intersect appended = log
      BY <2>1 DEF Expirable
    <2>3. /\ log' \subseteq appended' /\ appended' = appended
          /\ evictedThrough' \in Ids \union {None} /\ evictedThrough <= evictedThrough'
          /\ MaxOr0(cut) <= evictedThrough'
          /\ stranded' \subseteq appended' \ log' /\ StrandedComplete'
      <3>1. appended \union log = appended
        OBVIOUS
      <3>. QED BY <2>1, <2>2, <3>1, EvictsSound
    <2>4. sweeping' \in cut /\ sweeping' <= MaxOr0(cut) /\ MaxOr0(cut) \in Ids \union {None}
      BY <2>1, <2>2, IdSets, MaxOr0Type
    <2>. QED BY <1>4, <2>2, <2>3, <2>4 DEF PruneCommits
  <1>5. CASE PruneNotes
    <2>1. watermark' \in Ids \union {None} /\ watermark' <= evictedThrough
      <3>1. watermark \in Int /\ sweeping \in Int /\ watermark' = Max({watermark, sweeping})
        BY <1>5 DEF PruneNotes
      <3>2. watermark' \in {watermark, sweeping}
        BY <3>1, MaxOfTwo
      <3>. QED BY <3>2
    <2>. QED BY <1>5, <2>1 DEF PruneNotes, logHistory
  <1>6. CASE LogReopens
    <2>1. PICK cut \in Expirable : Evicts(log, cut)
      BY <1>6 DEF LogReopens
    <2>2. cut \subseteq log /\ log \subseteq Ids /\ log \intersect appended = log
      BY <2>1 DEF Expirable
    <2>3. /\ log' \subseteq appended' /\ appended' = appended
          /\ evictedThrough' \in Ids \union {None}
          /\ stranded' \subseteq appended' \ log' /\ StrandedComplete'
      <3>1. appended \union log = appended
        OBVIOUS
      <3>. QED BY <2>1, <2>2, <3>1, EvictsSound
    <2>. QED BY <1>6, <2>3 DEF LogReopens
  <1>7. CASE UNCHANGED logVars
    BY <1>7 DEF logVars, logHistory
  <1>. QED BY <1>1, <1>2, <1>3, <1>4, <1>5, <1>6, <1>7 DEF LogMoves, LogSteps

\* What is appended stays so and keeps its shape; what comes in behind a higher id is
\* late; and nothing evicted comes back.
LEMMA LogGrows ==
    ASSUME LogInv, LogMoves \/ UNCHANGED logVars
    PROVE  /\ appended \subseteq appended' /\ late \subseteq late' /\ stranded \subseteq stranded'
           /\ \A i \in appended : shape'[i] = shape[i]
           /\ \A i \in appended' \ appended : (\E j \in appended : j > i) => i \in late'
           /\ log' \intersect appended \subseteq log
  <1>. USE DEF LogInv, LogTypeOK
  <1>. DEFINE Grows ==
           /\ appended \subseteq appended' /\ late \subseteq late' /\ stranded \subseteq stranded'
           /\ \A i \in appended : shape'[i] = shape[i]
           /\ \A i \in appended' \ appended : (\E j \in appended : j > i) => i \in late'
           /\ log' \intersect appended \subseteq log
  <1>1. ASSUME NEW p \in Producers, Mint(p) \/ AppendFails(p) PROVE Grows
    BY <1>1 DEF Mint, AppendFails, logHistory
  <1>2. ASSUME NEW p \in Producers, NEW s \in Shapes, LogAppends(p, s) PROVE Grows
    <2>. DEFINE i == minted[p]
    <2>1. i \notin appended /\ shape' = [shape EXCEPT ![i] = s]
          /\ late' = IF \E j \in appended : j > i THEN late \union {i} ELSE late
      BY <1>2 DEF LogAppends, MintedIsFresh
    <2>2. appended' = appended \union (log \union {i}) /\ stranded \subseteq stranded'
          /\ log' \subseteq log \union {i}
      BY <1>2 DEF LogAppends, Evicts
    <2>. HIDE DEF i
    <2>. QED BY <2>1, <2>2
  <1>3. CASE PruneCommits
    BY <1>3 DEF PruneCommits, Evicts
  <1>4. CASE PruneNotes
    BY <1>4 DEF PruneNotes, logHistory
  <1>5. CASE LogReopens
    BY <1>5 DEF LogReopens, Evicts
  <1>6. CASE UNCHANGED logVars
    BY <1>6 DEF logVars, logHistory
  <1>. QED BY <1>1, <1>2, <1>3, <1>4, <1>5, <1>6 DEF LogMoves, LogSteps

-----------------------------------------------------------------------------
(* A block of frames, in the order of the ids they name                    *)

\* A finite set of numbers has an element of every rank.
LEMMA RankExists ==
    ASSUME NEW n \in Nat
    PROVE  \A S \in SUBSET (0..(n - 1)) : \A k \in 1..Cardinality(S) :
               \E i \in S : Cardinality({j \in S : j < i}) = k - 1
  <1>. DEFINE Ranked(S) == \A k \in 1..Cardinality(S) : \E i \in S : Cardinality({j \in S : j < i}) = k - 1
              Bad == {m \in Nat : \E S \in SUBSET (0..(m - 1)) : ~Ranked(S)}
  <1>1. SUFFICES ASSUME Bad # {} PROVE FALSE
    <2>1. n \notin Bad => \A S \in SUBSET (0..(n - 1)) : Ranked(S)
      OBVIOUS
    <2>. QED BY <1>1, <2>1
  <1>2. PICK m \in Bad : \A x \in Bad : m <= x
    <2>1. Bad \in SUBSET Nat
      OBVIOUS
    <2>. HIDE DEF Bad
    <2>. QED BY <1>1, <2>1, LeastOfNat
  <1>3. PICK S \in SUBSET (0..(m - 1)) : ~Ranked(S)
    OBVIOUS
  <1>4. m \in Nat /\ \A T : T \in SUBSET (0..(m - 2)) /\ m > 0 => Ranked(T)
    <2>1. (m - 1 \in Nat /\ m - 1 \notin Bad) \/ m = 0
      BY <1>2
    <2>. QED BY <2>1
  <1>. HIDE DEF Bad
  <1>5. IsFiniteSet(S) /\ \A T \in SUBSET S : IsFiniteSet(T) /\ Cardinality(T) \in Nat
    <2>1. IsFiniteSet(0..(m - 1))
      BY <1>4, FS_Interval
    <2>. QED BY <2>1, FS_Subset, FS_CardinalityType
  <1>6. m > 0
    <2>1. SUFFICES ASSUME m = 0 PROVE FALSE
      BY <1>4
    <2>2. S = {}
      BY <2>1
    <2>3. Cardinality(S) = 0
      BY <2>2, FS_EmptySet
    <2>. QED BY <1>3, <2>3
  <1>7. CASE m - 1 \notin S
    <2>1. S \in SUBSET (0..(m - 2))
      BY <1>4, <1>7
    <2>. HIDE DEF Ranked
    <2>. QED BY <1>3, <1>4, <1>6, <2>1
  <1>8. CASE m - 1 \in S
    <2>. DEFINE T == S \ {m - 1}
    <2>1. T \in SUBSET (0..(m - 2)) /\ \A j \in T : j < m - 1 /\ j \in Int
      BY <1>4
    <2>2. Ranked(T)
      BY <1>4, <1>6, <2>1
    <2>3. Cardinality(T) = Cardinality(S) - 1
      BY <1>5, <1>8, FS_RemoveElement
    <2>4. ASSUME NEW k \in 1..Cardinality(S) PROVE \E i \in S : Cardinality({j \in S : j < i}) = k - 1
      <3>1. CASE k \in 1..Cardinality(T)
        <4>1. PICK i \in T : Cardinality({j \in T : j < i}) = k - 1
          BY <2>2, <3>1
        <4>2. {j \in T : j < i} = {j \in S : j < i}
          BY <1>4, <2>1
        <4>. QED BY <4>1, <4>2
      <3>2. CASE k = Cardinality(S)
        <4>1. {j \in S : j < m - 1} = T
          <5>1. \A j \in S : j # m - 1 => j < m - 1
            BY <2>1
          <5>2. ~(m - 1 < m - 1)
            BY <1>4
          <5>. HIDE DEF T
          <5>. QED BY <2>1, <5>1, <5>2 DEF T
        <4>. QED BY <1>8, <2>3, <3>2, <4>1
      <3>3. Cardinality(S) \in Nat
        BY <1>5
      <3>. QED BY <2>3, <2>4, <3>1, <3>2, <3>3
    <2>. QED BY <1>3, <2>4
  <1>. QED BY <1>7, <1>8

\* Ascending is the enumeration of a set of numbers from the least to the greatest.
LEMMA AscendingSound ==
    ASSUME NEW n \in Nat, NEW S \in SUBSET (0..n)
    PROVE  /\ Cardinality(S) \in Nat /\ DOMAIN Ascending(S) = 1..Cardinality(S)
           /\ \A k \in DOMAIN Ascending(S) : Ascending(S)[k] \in S
           /\ \A k \in DOMAIN Ascending(S) : \A m \in 1..(k - 1) : Ascending(S)[m] < Ascending(S)[k]
           /\ \A i \in S : \E k \in DOMAIN Ascending(S) : Ascending(S)[k] = i
  <1>. DEFINE Below(i) == {j \in S : j < i}
              A == Ascending(S)
  <1>0. S \in SUBSET Int
    OBVIOUS
  <1>1. IsFiniteSet(S) /\ \A T \in SUBSET S : IsFiniteSet(T) /\ Cardinality(T) \in Nat
    <2>1. IsFiniteSet(0..n)
      BY FS_Interval
    <2>. QED BY <2>1, FS_Subset, FS_CardinalityType
  <1>2. Cardinality(S) \in Nat /\ DOMAIN A = 1..Cardinality(S)
    BY <1>1 DEF Ascending
  <1>3. \A k \in 1..Cardinality(S) : A[k] \in S /\ Cardinality(Below(A[k])) = k - 1
    <2>1. ASSUME NEW k \in 1..Cardinality(S) PROVE A[k] \in S /\ Cardinality(Below(A[k])) = k - 1
      <3>1. A[k] = CHOOSE i \in S : Cardinality({j \in S : j < i}) = k - 1
        BY DEF Ascending
      <3>2. S \in SUBSET (0..((n + 1) - 1)) /\ n + 1 \in Nat
        OBVIOUS
      <3>3. \E i \in S : Cardinality({j \in S : j < i}) = k - 1
        BY <3>2, RankExists
      <3>. QED BY <3>1, <3>3
    <2>. QED BY <2>1
  <1>. HIDE DEF A
  <1>4. ASSUME NEW i \in S, NEW j \in S, i < j PROVE Cardinality(Below(i)) < Cardinality(Below(j))
    <2>1. Below(i) \in SUBSET Below(j) /\ Below(j) \in SUBSET S /\ i \in Below(j) /\ i \notin Below(i)
      <3>1. \A x \in S : x \in Int
        BY <1>0
      <3>2. \A x \in S : x < i => x < j
        BY <1>4, <3>1
      <3>3. ~(i < i)
        BY <3>1
      <3>. QED BY <1>4, <3>2, <3>3
    <2>. HIDE DEF Below
    <2>2. /\ Below(i) # Below(j) /\ IsFiniteSet(Below(j))
          /\ Cardinality(Below(i)) \in Nat /\ Cardinality(Below(j)) \in Nat
      BY <1>1, <2>1
    <2>3. /\ Cardinality(Below(i)) <= Cardinality(Below(j))
          /\ Cardinality(Below(i)) # Cardinality(Below(j))
      BY <2>1, <2>2, FS_Subset
    <2>. QED BY <2>2, <2>3
  <1>. HIDE DEF Below
  <1>5. \A k \in 1..Cardinality(S) : \A m \in 1..(k - 1) : A[m] < A[k]
    <2>1. ASSUME NEW k \in 1..Cardinality(S), NEW m \in 1..(k - 1) PROVE A[m] < A[k]
      <3>1. m \in 1..Cardinality(S) /\ m < k /\ k \in Nat /\ m \in Nat
        BY <1>2
      <3>2. A[m] \in S /\ A[k] \in S /\ Cardinality(Below(A[m])) = m - 1 /\ Cardinality(Below(A[k])) = k - 1
        BY <1>3, <3>1
      <3>3. A[m] # A[k]
        BY <3>1, <3>2
      <3>4. ~(A[k] < A[m])
        <4>1. SUFFICES ASSUME A[k] < A[m] PROVE FALSE
          OBVIOUS
        <4>2. k - 1 < m - 1
          BY <1>4, <3>2, <4>1
        <4>. QED BY <3>1, <4>2
      <3>5. A[m] \in Int /\ A[k] \in Int
        BY <1>0, <3>2
      <3>. QED BY <3>3, <3>4, <3>5
    <2>. QED BY <2>1
  <1>6. ASSUME NEW i \in S PROVE \E k \in 1..Cardinality(S) : A[k] = i
    <2>. DEFINE c == Cardinality(Below(i))
    <2>1. Below(i) \in SUBSET S /\ i \notin Below(i)
      BY DEF Below
    <2>2. c \in Nat /\ c < Cardinality(S)
      <3>1. Below(i) # S
        BY <2>1
      <3>. QED BY <1>1, <2>1, <3>1, FS_Subset
    <2>3. c + 1 \in 1..Cardinality(S)
      BY <1>2, <2>2
    <2>4. A[c + 1] \in S /\ Cardinality(Below(A[c + 1])) = c
      BY <1>3, <2>2, <2>3
    <2>5. A[c + 1] \in Int /\ i \in Int
      BY <1>0, <2>4
    <2>6. ~(c < c)
      BY <2>2
    <2>7. ~(A[c + 1] < i)
      BY <1>4, <2>4, <2>6
    <2>8. ~(i < A[c + 1])
      BY <1>4, <2>4, <2>6
    <2>. HIDE DEF c
    <2>. QED BY <2>3, <2>5, <2>7, <2>8
  <1>. QED BY <1>2, <1>3, <1>5, <1>6 DEF A

\* What lies before in a stream: a lower id, or the marker that names this one.
Follows(f, g) == f.to < g.to \/ (f.to = g.to /\ f.frame = "gap" /\ g.frame = "event")
Ordered(w) == \A k \in DOMAIN w : \A m \in 1..(k - 1) : Follows(w[m], w[k])

\* The frames of a tail: every wanted id of it, and the marker, in order.
Block(w, tail, from, named) ==
    /\ w \in Seq(Frames) /\ Ordered(w)
    /\ \A k \in DOMAIN w :
           \/ w[k] = Event(w[k].to) /\ w[k].to \in tail /\ Wanted(w[k].to)
           \/ w[k] = Gap(from, w[k].to) /\ w[k].to \in named
    /\ \A i \in tail : Wanted(i) => \E k \in DOMAIN w : w[k] = Event(i)
    /\ \A i \in named : \E k \in DOMAIN w : w[k] = Gap(from, i)

\* An event's code is odd and a marker's even.
LEMMA Parity ==
    \A i \in Nat : /\ (2 * i + 1) % 2 = 1 /\ (2 * i + 1) \div 2 = i
                   /\ (2 * i) % 2 = 0 /\ (2 * i) \div 2 = i
  OBVIOUS

\* What deliverBacklog and drainOnce write is a block.
LEMMA WrittenSound ==
    ASSUME NEW tail \in SUBSET Ids, NEW from \in Ids \union {None}, NEW named \in SUBSET Ids
    PROVE  Block(Written(tail, from, named), tail, from, named)
  <1>. DEFINE wanted == {j \in tail : Wanted(j)}
              codes == {2 * i + 1 : i \in wanted} \union {2 * i : i \in named}
              Frame(c) == IF c % 2 = 1 THEN Event(c \div 2) ELSE Gap(from, c \div 2)
              order == Ascending(codes)
              w == Written(tail, from, named)
  <1>0. PICK n \in Nat : n = 2 * MaxId + 1
    OBVIOUS
  <1>1. wanted \in SUBSET Ids /\ \A i \in Ids : i \in Nat /\ 2 * i + 1 \in 0..n /\ 2 * i \in 0..n
    <2>1. \A i \in Ids : i \in Nat /\ 2 * i + 1 \in 0..n /\ 2 * i \in 0..n
      <3>. HIDE DEF codes, Frame, order, w, wanted
      <3>. QED BY <1>0
    <2>2. wanted \in SUBSET Ids
      OBVIOUS
    <2>. QED BY <2>1, <2>2
  <1>2. codes \in SUBSET (0..n)
    BY <1>1
  <1>3. w = [k \in DOMAIN order |-> Frame(order[k])]
    BY DEF Written
  <1>4. \A i \in Ids : Frame(2 * i + 1) = Event(i) /\ Frame(2 * i) = Gap(from, i)
    BY <1>1, Parity
  <1>5. \A c \in codes : \/ \E i \in wanted : c = 2 * i + 1 /\ Frame(c) = Event(i)
                         \/ \E i \in named : c = 2 * i /\ Frame(c) = Gap(from, i)
    BY <1>1, <1>4
  <1>6. \A i \in wanted : 2 * i + 1 \in codes
    OBVIOUS
  <1>7. \A i \in named : 2 * i \in codes
    OBVIOUS
  <1>. HIDE DEF codes, Frame, wanted
  <1>8. /\ Cardinality(codes) \in Nat /\ DOMAIN order = 1..Cardinality(codes)
        /\ \A k \in DOMAIN order : order[k] \in codes
        /\ \A k \in DOMAIN order : \A m \in 1..(k - 1) : order[m] < order[k]
        /\ \A i \in codes : \E k \in DOMAIN order : order[k] = i
    <2>. HIDE DEF w
    <2>. QED BY <1>2, AscendingSound
  <1>. HIDE DEF order
  <1>9. DOMAIN w = 1..Cardinality(codes) /\ \A k \in DOMAIN w : w[k] = Frame(order[k]) /\ order[k] \in codes
    BY <1>3, <1>8
  <1>. HIDE DEF w
  <1>10. \A k \in DOMAIN w : \/ \E i \in wanted : order[k] = 2 * i + 1 /\ w[k] = Event(i)
                             \/ \E i \in named : order[k] = 2 * i /\ w[k] = Gap(from, i)
    BY <1>5, <1>9
  <1>11. \A i \in Ids : /\ Event(i) \in Frames /\ Event(i).to = i /\ Event(i).frame = "event"
                        /\ Gap(from, i) \in Frames /\ Gap(from, i).to = i /\ Gap(from, i).frame = "gap"
    BY DEF Event, Gap, Frames
  <1>12. \A k \in DOMAIN w : w[k] \in Frames
    BY <1>1, <1>10, <1>11
  <1>13. w \in Seq(Frames)
    <2>1. w = [k \in 1..Cardinality(codes) |-> w[k]]
      BY <1>3, <1>8, <1>9 DEF w
    <2>2. w \in [1..Cardinality(codes) -> Frames]
      BY <1>9, <1>12, <2>1
    <2>. QED BY <1>8, <2>2
  <1>14. ASSUME NEW k \in DOMAIN w, NEW m \in 1..(k - 1) PROVE Follows(w[m], w[k])
    <2>1. m \in DOMAIN w /\ order[m] < order[k]
      BY <1>8, <1>9
    <2>2. CASE \E i \in wanted : order[m] = 2 * i + 1 /\ w[m] = Event(i)
      BY <1>1, <1>10, <1>11, <2>1, <2>2 DEF Follows
    <2>3. CASE \E i \in named : order[m] = 2 * i /\ w[m] = Gap(from, i)
      BY <1>1, <1>10, <1>11, <2>1, <2>3 DEF Follows
    <2>. QED BY <1>10, <2>1, <2>2, <2>3
  <1>15. \A k \in DOMAIN w : \/ w[k] = Event(w[k].to) /\ w[k].to \in tail /\ Wanted(w[k].to)
                             \/ w[k] = Gap(from, w[k].to) /\ w[k].to \in named
    BY <1>1, <1>10, <1>11 DEF wanted
  <1>16. \A i \in tail : Wanted(i) => \E k \in DOMAIN w : w[k] = Event(i)
    <2>1. SUFFICES ASSUME NEW i \in tail, Wanted(i) PROVE \E k \in DOMAIN w : w[k] = Event(i)
      OBVIOUS
    <2>2. i \in wanted /\ i \in Ids
      BY <2>1 DEF wanted
    <2>3. PICK k \in DOMAIN order : order[k] = 2 * i + 1
      BY <1>6, <1>8, <2>2
    <2>. QED BY <1>4, <1>8, <1>9, <2>2, <2>3
  <1>17. \A i \in named : \E k \in DOMAIN w : w[k] = Gap(from, i)
    <2>1. SUFFICES ASSUME NEW i \in named PROVE \E k \in DOMAIN w : w[k] = Gap(from, i)
      OBVIOUS
    <2>2. PICK k \in DOMAIN order : order[k] = 2 * i
      BY <1>7, <1>8
    <2>. QED BY <1>4, <1>8, <1>9, <2>2
  <1>. QED BY <1>13, <1>14, <1>15, <1>16, <1>17 DEF Block, Ordered, w

\* A block of higher ids goes after what is on the wire.
LEMMA BlockGoesLast ==
    ASSUME NEW v \in Seq(Frames), Ordered(v), NEW w \in Seq(Frames), Ordered(w), NEW c \in Ids \union {None},
           \A k \in DOMAIN v : v[k].to <= c, \A k \in DOMAIN w : c < w[k].to
    PROVE  /\ v \o w \in Seq(Frames) /\ Ordered(v \o w)
           /\ DOMAIN (v \o w) = 1..(Len(v) + Len(w))
           /\ \A k \in DOMAIN v : (v \o w)[k] = v[k] /\ k \in DOMAIN (v \o w)
           /\ \A k \in DOMAIN w : (v \o w)[Len(v) + k] = w[k] /\ Len(v) + k \in DOMAIN (v \o w)
           /\ \A k \in DOMAIN (v \o w) : k \in DOMAIN v \/ k - Len(v) \in DOMAIN w
  <1>1. DOMAIN v = 1..Len(v) /\ DOMAIN w = 1..Len(w) /\ Len(v) \in Nat /\ Len(w) \in Nat
    OBVIOUS
  <1>2. v \o w \in Seq(Frames) /\ Len(v \o w) = Len(v) + Len(w)
    OBVIOUS
  <1>3. DOMAIN (v \o w) = 1..(Len(v) + Len(w))
    BY <1>1, <1>2
  <1>4. \A k \in DOMAIN v : (v \o w)[k] = v[k] /\ k \in DOMAIN (v \o w)
    BY <1>1, <1>3
  <1>5. \A k \in DOMAIN w : (v \o w)[Len(v) + k] = w[k] /\ Len(v) + k \in DOMAIN (v \o w)
    BY <1>1, <1>3
  <1>6. \A k \in DOMAIN (v \o w) : k \in DOMAIN v \/ k - Len(v) \in DOMAIN w
    BY <1>1, <1>3
  <1>7. \A k \in DOMAIN v : v[k].to \in Int
    <2>1. \A k \in DOMAIN v : v[k] \in Frames
      OBVIOUS
    <2>. QED BY <2>1 DEF Frames
  <1>8. \A k \in DOMAIN w : w[k].to \in Int
    <2>1. \A k \in DOMAIN w : w[k] \in Frames
      OBVIOUS
    <2>. QED BY <2>1 DEF Frames
  <1>9. ASSUME NEW k \in DOMAIN (v \o w), NEW m \in 1..(k - 1) PROVE Follows((v \o w)[m], (v \o w)[k])
    <2>1. m \in DOMAIN (v \o w) /\ m < k /\ k \in Nat /\ m \in Nat
      BY <1>3
    <2>2. CASE k \in DOMAIN v
      <3>1. m \in DOMAIN v
        BY <1>1, <2>1, <2>2
      <3>2. (v \o w)[m] = v[m] /\ (v \o w)[k] = v[k]
        BY <1>4, <2>2, <3>1
      <3>. QED BY <2>2, <3>2 DEF Ordered
    <2>3. CASE k \notin DOMAIN v /\ m \in DOMAIN v
      <3>1. k - Len(v) \in DOMAIN w /\ (v \o w)[k] = w[k - Len(v)] /\ (v \o w)[m] = v[m]
        <4>1. k - Len(v) \in DOMAIN w
          BY <1>6, <2>3
        <4>2. k = Len(v) + (k - Len(v))
          BY <1>1, <2>1
        <4>. QED BY <1>4, <1>5, <2>3, <4>1, <4>2
      <3>2. v[m].to <= c /\ c < w[k - Len(v)].to
        BY <2>3, <3>1
      <3>. QED BY <1>7, <1>8, <2>3, <3>1, <3>2 DEF Follows
    <2>4. CASE k \notin DOMAIN v /\ m \notin DOMAIN v
      <3>. DEFINE kk == k - Len(v)
                  mm == m - Len(v)
      <3>1. kk \in DOMAIN w /\ mm \in DOMAIN w
        BY <1>6, <2>1, <2>4
      <3>2. k = Len(v) + kk /\ m = Len(v) + mm /\ mm \in 1..(kk - 1)
        BY <1>1, <2>1, <3>1
      <3>. HIDE DEF kk, mm
      <3>3. (v \o w)[k] = w[kk] /\ (v \o w)[m] = w[mm]
        BY <1>5, <3>1, <3>2
      <3>. QED BY <3>1, <3>2, <3>3 DEF Ordered
    <2>. QED BY <2>2, <2>3, <2>4
  <1>. QED BY <1>2, <1>3, <1>4, <1>5, <1>6, <1>9 DEF Ordered

-----------------------------------------------------------------------------
(* What a connection and its client know of each other                     *)

(***************************************************************************)
(* Ids that were never appended are of nothing, and an eviction shows in   *)
(* the watermark or will when its sweep is noted.                          *)
(***************************************************************************)
LogNoted ==
    /\ \A i \in Ids : i \notin appended => shape[i] = NoShape
    /\ \A i \in appended \ log : i <= watermark \/ i <= sweeping

Recorded == appended \union {None}
Seen == {i \in appended : Visible(i)}
Liked == {i \in appended : Wanted(i)}

StreamShape == StreamTypeOK /\ LogInv /\ LogNoted

(***************************************************************************)
(* The points of both sides, and the ids markers name, are ids of the log  *)
(* that the client may read; what is on the wire is in order, ahead of     *)
(* what the client has and not ahead of what the server has considered.    *)
(***************************************************************************)
PointsReadable ==
    /\ sub.considered \in Recorded
    /\ {sub.delivered, sub.anchor, sub.pendingFrom, client.last} \subseteq Seen \union {None}
    /\ sub.delivered <= sub.considered
    /\ sub.anchor <= sub.considered
    /\ sub.pendingFrom <= sub.considered

FrameReadable(f) ==
    \/ f.frame = "event" /\ f = Event(f.to) /\ f.to \in Liked
    \/ f.frame = "gap" /\ f.to \in Seen /\ f.from \in Seen \union {None} /\ f.from < f.to

WireAhead ==
    /\ \A k \in DOMAIN wire :
           /\ client.last <= wire[k].to
           /\ wire[k].frame = "event" => \A j \in client.got : j < wire[k].to
           /\ sub.open => wire[k].to <= sub.considered
    /\ \A j \in client.got : j <= client.last
    /\ sub.open => client.last <= sub.considered

WireInv == PointsReadable /\ (\A k \in DOMAIN wire : FrameReadable(wire[k])) /\ Ordered(wire) /\ WireAhead

\* The log's steps that a connection does not take part in, and the ways it ends.
Quiets ==
    /\ LogMoves \/ UNCHANGED logVars
    /\ \/ UNCHANGED <<sub, wire>>
       \/ sub' = Closed /\ wire' \in {wire, <<>>}
    /\ UNCHANGED <<client, unnoted>>

\* Every step of the log keeps its account.
LEMMA LogAccounts == LogInv /\ LogNoted /\ (LogMoves \/ UNCHANGED logVars) => LogNoted'
  <1>. SUFFICES ASSUME LogInv, LogNoted, LogMoves \/ UNCHANGED logVars PROVE LogNoted'
    OBVIOUS
  <1>. USE DEF LogInv, LogTypeOK, LogNoted, SweepIsRecorded
  <1>1. ASSUME NEW p \in Producers, Mint(p) \/ AppendFails(p) PROVE LogNoted'
    BY <1>1 DEF Mint, AppendFails, logHistory
  <1>2. ASSUME NEW p \in Producers, NEW s \in Shapes, LogAppends(p, s) PROVE LogNoted'
    <2>. DEFINE i == minted[p]
                cut == OverCap(log \union {i}, i, s.class)
    <2>1. i \in Ids /\ cut \subseteq log \union {i}
      BY <1>2, OverCapType DEF LogAppends
    <2>2. /\ Evicts(log \union {i}, cut) /\ shape' = [shape EXCEPT ![i] = s]
          /\ watermark' = Max({watermark, MaxOr0(cut)}) /\ sweeping' = sweeping
      BY <1>2 DEF LogAppends
    <2>. HIDE DEF i, cut
    <2>3. log' = (log \union {i}) \ cut /\ appended' = appended \union (log \union {i})
      BY <2>2 DEF Evicts
    <2>4. cut \in SUBSET Ids /\ watermark \in Ids \union {None}
      BY <2>1
    <2>5. MaxOr0(cut) \in Ids \union {None} /\ \A j \in cut : j <= MaxOr0(cut)
      BY <2>4, MaxOr0Type
    <2>6. watermark <= watermark' /\ MaxOr0(cut) <= watermark' /\ watermark' \in Int
      BY <2>2, <2>4, <2>5, MaxPair
    <2>7. ASSUME NEW j \in appended' \ log' PROVE j <= watermark' \/ j <= sweeping'
      <3>1. j \in cut \/ j \in appended \ log
        BY <2>3, <2>7
      <3>2. j \in Int
        <4>1. j \in Ids
          BY <2>4, <3>1
        <4>. QED BY <4>1
      <3>3. sweeping \in Int /\ watermark \in Int /\ MaxOr0(cut) \in Int
        BY <2>4, <2>5
      <3>. QED BY <2>2, <2>5, <2>6, <3>1, <3>2, <3>3
    <2>8. \A j \in Ids : j \notin appended' => shape'[j] = NoShape
      BY <2>1, <2>2, <2>3
    <2>. QED BY <2>7, <2>8
  <1>3. CASE PruneCommits
    <2>1. PICK cut \in Expirable \ {{}} : Evicts(log, cut) /\ sweeping' = Max(cut)
      BY <1>3 DEF PruneCommits
    <2>2. cut \subseteq log /\ log' = log \ cut /\ appended' = appended /\ \A j \in cut : j <= sweeping'
      <3>1. cut \subseteq log /\ cut # {} /\ cut \in SUBSET (Ids \union {None})
        BY <2>1 DEF Expirable
      <3>2. appended \union log = appended
        OBVIOUS
      <3>. QED BY <2>1, <3>1, <3>2, IdSets DEF Evicts
    <2>3. sweeping = None /\ UNCHANGED <<shape, watermark>>
      BY <1>3 DEF PruneCommits
    <2>. QED BY <2>2, <2>3
  <1>4. CASE PruneNotes
    <2>1. watermark' = Max({watermark, sweeping}) /\ UNCHANGED <<shape, log, appended>>
      BY <1>4 DEF PruneNotes, logHistory
    <2>2. watermark <= watermark' /\ sweeping <= watermark' /\ watermark' \in Int
      BY <2>1, MaxPair
    <2>3. \A j \in appended \ log : j \in Int /\ watermark \in Int /\ sweeping \in Int
      OBVIOUS
    <2>. QED BY <2>1, <2>2, <2>3
  <1>5. CASE LogReopens
    <2>1. PICK cut \in Expirable : Evicts(log, cut)
      BY <1>5 DEF LogReopens
    <2>2. cut \subseteq log /\ log' = log \ cut /\ appended' = appended /\ UNCHANGED shape
          /\ watermark' = evictedThrough' /\ log \subseteq Ids /\ log \intersect appended = log
      <3>1. appended \union log = appended
        OBVIOUS
      <3>. QED BY <1>5, <2>1, <3>1 DEF Evicts, Expirable, LogReopens
    <2>3. evictedThrough <= watermark' /\ MaxOr0(cut) <= watermark' /\ watermark' \in Int
      <3>1. cut \in SUBSET log /\ log \in SUBSET Ids /\ log \subseteq log
        BY <2>2
      <3>2. /\ evictedThrough <= evictedThrough' /\ MaxOr0(cut) <= evictedThrough'
            /\ evictedThrough' \in Ids \union {None}
        BY <2>1, <2>2, <3>1, EvictsSound
      <3>. QED BY <2>2, <3>2
    <2>4. MaxOr0(cut) \in Ids \union {None} /\ \A j \in cut : j <= MaxOr0(cut)
      BY <2>2, MaxOr0Type
    <2>5. ASSUME NEW j \in appended' \ log' PROVE j <= watermark'
      <3>1. j \in cut \/ j \in appended \ log
        BY <2>2, <2>5
      <3>2. j \in Int /\ sweeping \in Int /\ watermark \in Int /\ evictedThrough \in Int /\ MaxOr0(cut) \in Int
        BY <2>2, <2>4, <3>1
      <3>. QED BY <2>3, <2>4, <3>1, <3>2
    <2>. QED BY <2>2, <2>5
  <1>6. CASE UNCHANGED logVars
    BY <1>6 DEF logVars, logHistory
  <1>. QED BY <1>1, <1>2, <1>3, <1>4, <1>5, <1>6 DEF LogMoves, LogSteps

\* What was appended stays as readable and as wanted as it is.
LEMMA SeenStays ==
    ASSUME LogInv, LogMoves \/ UNCHANGED logVars
    PROVE  /\ appended \subseteq appended' /\ Seen \subseteq Seen' /\ Liked \subseteq Liked'
           /\ Liked' \intersect appended \subseteq Liked
  BY LogGrows DEF Seen, Liked, Visible, Wanted

LEMMA SeenSame ==
    ASSUME UNCHANGED logVars
    PROVE  /\ appended' = appended /\ log' = log /\ late' = late /\ stranded' = stranded /\ shape' = shape
           /\ Seen' = Seen /\ Liked' = Liked /\ Recorded' = Recorded
  BY DEF logVars, logHistory, Seen, Liked, Recorded, Visible, Wanted

LEMMA LikedIsSeen == Liked \subseteq Seen /\ Seen \subseteq appended /\ Seen \subseteq Recorded
  BY DEF Liked, Seen, Recorded, Wanted, Visible

\* A connection once a backlog has been written to it.
LEMMA OpensSound ==
    ASSUME NEW anchor \in Ids \union {None}, NEW considered \in Ids \union {None}, NEW backlog \in SUBSET Ids,
           NEW from \in Ids \union {None}, NEW named \in SUBSET Ids,
           Opens(anchor, considered, backlog, from, named)
    PROVE  /\ sub' \in Subs /\ sub'.open = TRUE /\ sub'.pending = FALSE /\ sub'.pendingFrom = None
           /\ sub'.anchor = anchor
           /\ sub'.considered = (IF backlog = {} THEN considered ELSE Max(backlog))
           /\ sub'.delivered = MaxOr0({i \in backlog : Wanted(i)}) /\ sub'.delivered <= sub'.considered
           /\ sub'.delivered # None => sub'.delivered \in backlog /\ Wanted(sub'.delivered)
           /\ Block(wire', backlog, from, named) /\ wake' = FALSE
  <1>. DEFINE wanted == {i \in backlog : Wanted(i)}
              c == IF backlog = {} THEN considered ELSE Max(backlog)
              d == MaxOr0(wanted)
  <1>1. c \in Ids \union {None} /\ \A i \in backlog : i <= c
    BY IdSets
  <1>2. wanted \in SUBSET Ids /\ wanted \subseteq backlog
    OBVIOUS
  <1>. HIDE DEF wanted
  <1>3. d \in Ids \union {None} /\ d \in wanted \union {None}
    <2>1. wanted \union {None} \in SUBSET (Ids \union {None}) /\ wanted \union {None} # {}
      BY <1>2
    <2>. QED BY <1>2, <2>1, IdSets, MaxOr0Type DEF MaxOr0
  <1>4. d <= c
    BY <1>1, <1>2, <1>3
  <1>5. /\ sub' = [Closed EXCEPT !.open = TRUE, !.anchor = anchor, !.considered = c, !.delivered = d]
        /\ wire' = Written(backlog, from, named) /\ wake' = FALSE
    BY DEF Opens, wanted
  <1>. HIDE DEF c, d
  <1>6. sub' = [open |-> TRUE, considered |-> c, delivered |-> d, anchor |-> anchor, pending |-> FALSE,
                pendingFrom |-> None]
    BY <1>5 DEF Closed
  <1>7. sub' \in Subs
    BY <1>1, <1>3, <1>6 DEF Subs
  <1>8. /\ sub'.open = TRUE /\ sub'.pending = FALSE /\ sub'.pendingFrom = None /\ sub'.anchor = anchor
        /\ sub'.considered = c /\ sub'.delivered = d
    BY <1>6
  <1>9. Block(wire', backlog, from, named)
    BY <1>5, WrittenSound
  <1>10. d # None => d \in backlog /\ Wanted(d)
    BY <1>2, <1>3 DEF wanted
  <1>. QED BY <1>4, <1>5, <1>7, <1>8, <1>9, <1>10 DEF c, d, wanted

\* The id a drain's marker names, if it writes one.
Marked == IF MarksLoss /\ Readable(Unsent) # {} THEN {Min(Readable(Unsent))} ELSE {}

\* A connection once the log's tail has been written to it.
LEMMA DrainSound ==
    ASSUME StreamTypeOK, Drain
    PROVE  /\ Unsent \in SUBSET Ids /\ Marked \in SUBSET Unsent /\ MarkFrom \in Ids \union {None}
           /\ \A i \in Marked : MarksLoss /\ Visible(i) /\ \A j \in Unsent : Visible(j) => i <= j
           /\ MarksLoss /\ Marked = {} => \A j \in Unsent : ~Visible(j)
           /\ sub' \in Subs /\ sub'.open = TRUE /\ sub'.anchor = sub.anchor
           /\ sub.considered <= sub'.considered /\ \A i \in Unsent : i <= sub'.considered
           /\ sub'.considered \in Unsent \union {sub.considered}
           /\ sub'.delivered <= sub'.considered
           /\ sub'.delivered # sub.delivered => sub'.delivered \in Unsent /\ Wanted(sub'.delivered)
           /\ sub'.pending <=> MarksLoss /\ Marked = {}
           /\ sub'.pendingFrom = IF MarksLoss /\ Marked = {} THEN MarkFrom ELSE None
           /\ \E w \in Seq(Frames) : wire' = wire \o w /\ Block(w, Unsent, MarkFrom, Marked)
  <1>. DEFINE tail == Unsent
              wanted == {i \in tail : Wanted(i)}
              named == Marked
              defers == MarksLoss /\ named = {}
              c == Max({sub.considered, MaxOr0(tail)})
              d == Max({sub.delivered, MaxOr0(wanted)})
              pf == IF defers THEN MarkFrom ELSE None
  <1>1. /\ tail \in SUBSET Ids /\ wanted \in SUBSET tail /\ Readable(tail) \in SUBSET tail
    BY DEF StreamTypeOK, LogTypeOK, Unsent, After, Readable
  <1>2. /\ sub \in Subs /\ sub.considered \in Ids \union {None} /\ sub.delivered \in Ids \union {None}
        /\ sub.anchor \in Ids \union {None} /\ sub.pendingFrom \in Ids \union {None}
        /\ sub.delivered <= sub.considered
    BY DEF StreamTypeOK, Subs
  <1>3. MarkFrom \in Ids \union {None}
    BY <1>2 DEF MarkFrom, LastKnownPoint
  <1>4. /\ sub.open = TRUE /\ wire' = wire \o Written(tail, MarkFrom, named)
        /\ sub' = [sub EXCEPT !.considered = c, !.delivered = d, !.pending = defers, !.pendingFrom = pf]
    <2>1. sub.open \in BOOLEAN
      BY <1>2 DEF Subs
    <2>. QED BY <2>1 DEF Drain, Marked
  <1>. HIDE DEF wanted
  <1>5. /\ \A i \in named : MarksLoss /\ i \in Readable(tail) /\ \A j \in Readable(tail) : i <= j
        /\ MarksLoss /\ named = {} => Readable(tail) = {}
    <2>1. Readable(tail) \in SUBSET (Ids \union {None})
      BY <1>1
    <2>. QED BY <2>1, IdSets DEF Marked, tail
  <1>6. named \in SUBSET tail
    BY <1>1, <1>5
  <1>. HIDE DEF tail
  <1>7. MaxOr0(tail) \in Ids \union {None} /\ (\A i \in tail : i <= MaxOr0(tail)) /\ MaxOr0(tail) \in tail \union {None}
    <2>1. tail \union {None} \in SUBSET (Ids \union {None}) /\ tail \union {None} # {}
      BY <1>1
    <2>. QED BY <1>1, <2>1, IdSets, MaxOr0Type DEF MaxOr0
  <1>8. MaxOr0(wanted) \in Ids \union {None} /\ MaxOr0(wanted) \in wanted \union {None}
    <2>1. wanted \union {None} \in SUBSET (Ids \union {None}) /\ wanted \union {None} # {} /\ wanted \in SUBSET Ids
      BY <1>1
    <2>. QED BY <2>1, IdSets, MaxOr0Type DEF MaxOr0
  <1>9. /\ c \in Ids \union {None} /\ sub.considered <= c /\ MaxOr0(tail) <= c
        /\ c \in {sub.considered, MaxOr0(tail)}
    <2>. DEFINE m == MaxOr0(tail)
    <2>. HIDE DEF m
    <2>1. m \in Ids \union {None} /\ m \in Int /\ sub.considered \in Int
      BY <1>2, <1>7 DEF m
    <2>2. Max({sub.considered, m}) \in {sub.considered, m}
      BY <2>1, MaxOfTwo
    <2>. QED BY <1>2, <2>1, <2>2, MaxPair DEF m
  <1>10. d \in Ids \union {None} /\ d \in {sub.delivered, MaxOr0(wanted)}
    <2>. DEFINE m == MaxOr0(wanted)
    <2>. HIDE DEF m
    <2>1. m \in Ids \union {None} /\ m \in Int /\ sub.delivered \in Int
      BY <1>2, <1>8 DEF m
    <2>2. Max({sub.delivered, m}) \in {sub.delivered, m}
      BY <2>1, MaxOfTwo
    <2>. QED BY <1>2, <2>1, <2>2, MaxPair DEF m
  <1>11. defers \in BOOLEAN /\ pf \in Ids \union {None}
    BY <1>3
  <1>. HIDE DEF named, c, d, defers, pf
  <1>12. /\ sub' \in Subs /\ sub'.open = TRUE /\ sub'.anchor = sub.anchor /\ sub'.considered = c
         /\ sub'.delivered = d /\ sub'.pending = defers /\ sub'.pendingFrom = pf
    BY <1>2, <1>4, <1>9, <1>10, <1>11 DEF Subs
  <1>13. c = sub.considered \/ c \in tail
    <2>1. MaxOr0(tail) = None => c = sub.considered
      BY <1>2, <1>9
    <2>. QED BY <1>7, <1>9, <2>1
  <1>14. \A i \in tail : i <= c
    <2>. DEFINE m == MaxOr0(tail)
    <2>1. m \in Int /\ c \in Int /\ m <= c /\ \A i \in tail : i \in Int /\ i <= m
      BY <1>1, <1>7, <1>9
    <2>. HIDE DEF m
    <2>. QED BY <2>1
  <1>15. d = sub.delivered \/ d \in wanted
    <2>1. MaxOr0(wanted) = None => d = sub.delivered
      <3>1. SUFFICES ASSUME MaxOr0(wanted) = None PROVE d = sub.delivered
        OBVIOUS
      <3>. QED BY <1>2, <3>1, MaxOfTwo DEF d
    <2>. QED BY <1>8, <1>10, <2>1
  <1>16. d <= c
    <2>1. d \in wanted => d <= c
      BY <1>1, <1>14
    <2>. QED BY <1>2, <1>9, <1>10, <1>15, <2>1
  <1>17. Written(tail, MarkFrom, named) \in Seq(Frames) /\ Block(Written(tail, MarkFrom, named), tail, MarkFrom, named)
    <2>1. named \in SUBSET Ids
      BY <1>1, <1>6
    <2>. QED BY <1>1, <1>3, <2>1, WrittenSound DEF Block
  <1>18. \A j \in tail : Visible(j) => j \in Readable(tail)
    BY DEF Readable
  <1>19. \A j \in Readable(tail) : Visible(j)
    BY DEF Readable
  <1>20. d \in wanted => d \in tail /\ Wanted(d)
    BY DEF wanted
  <1>21. \E w \in Seq(Frames) : wire' = wire \o w /\ Block(w, tail, MarkFrom, named)
    BY <1>4, <1>17
  <1>22. sub'.pending <=> MarksLoss /\ named = {}
    BY <1>12 DEF defers
  <1>23. sub'.pendingFrom = IF MarksLoss /\ named = {} THEN MarkFrom ELSE None
    BY <1>12 DEF defers, pf
  <1>24. /\ \A i \in named : MarksLoss /\ Visible(i) /\ \A j \in tail : Visible(j) => i <= j
         /\ MarksLoss /\ named = {} => \A j \in tail : ~Visible(j)
    BY <1>5, <1>18, <1>19
  <1>. QED BY <1>1, <1>3, <1>6, <1>9, <1>12, <1>13, <1>14, <1>15, <1>16, <1>20, <1>21, <1>22, <1>23, <1>24
           DEF tail, named

-----------------------------------------------------------------------------
(* The steps of the stream                                                 *)

\* Who does what: most of the log's steps and every ending concern the connection alone.
LEMMA StepKinds ==
    ASSUME StreamTypeOK, StreamNext \/ UNCHANGED hubVars
    PROVE  \/ Quiets /\ wake' \in BOOLEAN /\ (~sub'.open => ~wake')
           \/ Subscribe \/ Drain \/ Receive
  <1>. USE DEF Quiets, LogMoves, LogSteps
  <1>0. sub.open \in BOOLEAN /\ wake \in BOOLEAN /\ (~sub.open => ~wake) /\ Closed.open = FALSE
    <2>1. sub.open \in BOOLEAN /\ Closed.open = FALSE
      BY DEF StreamTypeOK, Subs, Closed
    <2>. QED BY <2>1 DEF StreamTypeOK
  <1>1. ASSUME NEW p \in Producers,
               ((Mint(p) \/ AppendFails(p)) /\ UNCHANGED streamVars) \/ \E s \in Shapes : HubAppend(p, s)
        PROVE  Quiets /\ wake' \in BOOLEAN /\ (~sub'.open => ~wake')
    BY <1>0, <1>1 DEF HubAppend, streamVars
  <1>2. CASE (PruneCommits \/ PruneNotes) /\ UNCHANGED streamVars
    BY <1>0, <1>2 DEF streamVars
  <1>3. CASE DeferralExpires \/ ConnectionLost \/ HubRestarts
    <2>1. LogMoves \/ UNCHANGED logVars
      BY <1>3 DEF DeferralExpires, ConnectionLost, HubRestarts
    <2>2. sub' = Closed /\ wake' = FALSE /\ wire' \in {wire, <<>>} /\ UNCHANGED <<client, unnoted>>
      BY <1>3 DEF DeferralExpires, ConnectionLost, HubRestarts
    <2>. QED BY <1>0, <2>1, <2>2
  <1>4. CASE UNCHANGED hubVars
    BY <1>0, <1>4 DEF hubVars, streamVars
  <1>. QED BY <1>1, <1>2, <1>3, <1>4 DEF StreamNext

\* What the wire carries once a resumed connection is open: everything the client may read
\* after its point, and a marker if the point is gone.
ResumesWith(backlog, named, from, considered) ==
    /\ Opens(client.last, considered, backlog, from, named)
    /\ \A i \in backlog : client.last < i
    /\ \A i \in log : client.last < i /\ i \notin backlog => ~Visible(i)
    /\ considered \in appended /\ (backlog = {} => considered = client.last)
    /\ named \subseteq backlog
    /\ \A i \in named : Visible(i) /\ from = client.last /\ \A j \in backlog : i <= j
    /\ named = {} => client.last \in log
    /\ unnoted' = unnoted \union Unseen(client.last) /\ client' = client

\* A resume point that is read again resolves to that.
LEMMA ResumesSound ==
    ASSUME StreamTypeOK, LogInv, SubscribesOverGap \/ Resumes, client.last # None
    PROVE  \E backlog \in SUBSET log, named \in SUBSET log, from \in {None, client.last}, considered \in Ids :
               ResumesWith(backlog, named, from, considered)
  <1>. USE DEF LogInv, LogTypeOK
  <1>1. client.last \in Ids /\ log \in SUBSET Ids /\ log \subseteq appended
    BY DEF StreamTypeOK
  <1>2. CASE Resumes
    <2>. DEFINE tail == After(client.last)
    <2>1. /\ client.last \in log /\ Opens(client.last, client.last, tail, None, {})
          /\ unnoted' = unnoted \union Unseen(client.last) /\ client' = client
      BY <1>2 DEF Resumes
    <2>2. tail \in SUBSET log /\ (\A i \in tail : client.last < i) /\ \A i \in log : client.last < i => i \in tail
      BY <1>1 DEF After
    <2>3. {} \in SUBSET log /\ None \in {None, client.last} /\ client.last \in appended
      BY <1>1, <2>1
    <2>. HIDE DEF tail
    <2>4. \A i \in {} : Visible(i) /\ None = client.last /\ \A j \in tail : i <= j
      OBVIOUS
    <2>5. ResumesWith(tail, {}, None, client.last)
      BY <1>1, <2>1, <2>2, <2>3, <2>4 DEF ResumesWith
    <2>. QED BY <1>1, <2>2, <2>3, <2>5
  <1>3. CASE SubscribesOverGap
    <2>. DEFINE may == Readable(After(client.last))
                to == Min(may)
                tail == From(to)
    <2>1. /\ may # {} /\ Opens(client.last, to, tail, client.last, {to})
          /\ unnoted' = unnoted \union Unseen(client.last) /\ client' = client
      BY <1>3 DEF SubscribesOverGap
    <2>2. /\ may \in SUBSET log /\ \A i \in may : client.last < i /\ Visible(i)
          /\ \A i \in log : client.last < i /\ Visible(i) => i \in may
      BY DEF After, Readable
    <2>. HIDE DEF may
    <2>3. to \in may /\ \A i \in may : to <= i
      <3>1. may \in SUBSET (Ids \union {None})
        BY <1>1, <2>2
      <3>. QED BY <2>1, <3>1, IdSets
    <2>4. to \in log /\ to \in Ids /\ client.last < to /\ Visible(to)
      BY <1>1, <2>2, <2>3
    <2>. HIDE DEF to
    <2>5. tail \in SUBSET log /\ to \in tail /\ \A i \in tail : to <= i
      BY <1>1, <2>4 DEF From
    <2>6. \A i \in log : i \notin tail => ~(to <= i)
      BY DEF From
    <2>. HIDE DEF tail
    <2>7. \A i \in tail : client.last < i
      <3>1. \A i \in tail : i \in Ids /\ to <= i
        BY <1>1, <2>5
      <3>. QED BY <1>1, <2>4, <3>1
    <2>8. \A i \in log : client.last < i /\ i \notin tail => ~Visible(i)
      BY <2>2, <2>3, <2>6
    <2>9. {to} \in SUBSET log /\ {to} \subseteq tail /\ client.last \in {None, client.last} /\ {to} # {} /\ tail # {}
      BY <2>4, <2>5
    <2>10. \A i \in {to} : Visible(i) /\ client.last = client.last /\ \A j \in tail : i <= j
      BY <2>4, <2>5
    <2>11. ResumesWith(tail, {to}, client.last, to)
      BY <1>1, <2>1, <2>4, <2>5, <2>7, <2>8, <2>9, <2>10 DEF ResumesWith
    <2>. QED BY <1>1, <2>4, <2>5, <2>9, <2>11
  <1>. QED BY <1>2, <1>3

\* A frame that is read is of a kind and names an id; what was behind it moves up.
LEMMA FirstOff ==
    ASSUME StreamTypeOK, wire # <<>>
    PROVE  LET f == Head(wire)
           IN /\ 1 \in DOMAIN wire /\ f = wire[1] /\ f \in Frames /\ Tail(wire) \in Seq(Frames)
              /\ f.to \in Ids /\ f.frame \in {"event", "gap"}
              /\ \A k \in DOMAIN Tail(wire) : /\ k \in Nat /\ k >= 1 /\ k + 1 \in DOMAIN wire
                                              /\ Tail(wire)[k] = wire[k + 1]
              /\ \A k \in DOMAIN wire : k # 1 => k - 1 \in DOMAIN Tail(wire) /\ Tail(wire)[k - 1] = wire[k]
  <1>1. wire \in Seq(Frames)
    BY DEF StreamTypeOK
  <1>2. /\ 1 \in DOMAIN wire /\ Head(wire) = wire[1] /\ Head(wire) \in Frames /\ Tail(wire) \in Seq(Frames)
        /\ Len(wire) \in Nat /\ DOMAIN wire = 1..Len(wire) /\ DOMAIN Tail(wire) = 1..(Len(wire) - 1)
    BY <1>1
  <1>3. \A k \in 1..(Len(wire) - 1) : Tail(wire)[k] = wire[k + 1]
    BY <1>1
  <1>4. Head(wire).to \in Ids /\ Head(wire).frame \in {"event", "gap"}
    BY <1>2 DEF Frames
  <1>5. \A k \in DOMAIN wire : k # 1 => k - 1 \in DOMAIN Tail(wire) /\ Tail(wire)[k - 1] = wire[k]
    <2>1. SUFFICES ASSUME NEW k \in DOMAIN wire, k # 1
                   PROVE  k - 1 \in DOMAIN Tail(wire) /\ Tail(wire)[k - 1] = wire[k]
      OBVIOUS
    <2>2. k - 1 \in 1..(Len(wire) - 1) /\ (k - 1) + 1 = k
      BY <1>2, <2>1
    <2>. QED BY <1>2, <1>3, <2>2
  <1>. QED BY <1>2, <1>3, <1>4, <1>5

\* What the client knows once it has read a frame.
LEMMA ReceiveSound ==
    ASSUME StreamTypeOK, Receive
    PROVE  LET f == Head(wire)
           IN /\ wire # <<>> /\ wire' = Tail(wire)
              /\ client'.binding = client.binding /\ client'.start = client.start
              /\ client'.got = (IF f.frame = "event" THEN client.got \union {f.to} ELSE client.got)
              /\ client'.gaps = (IF f.frame = "gap" THEN client.gaps \union {f} ELSE client.gaps)
              /\ client'.last = (IF f.frame = "event" \/ client.binding = "sse" THEN f.to ELSE client.last)
              /\ client' \in [binding : Bindings, start : Ids \union {None}, last : Ids \union {None},
                              got : SUBSET Ids, gaps : SUBSET {g \in Frames : g.frame = "gap"}]
              /\ UNCHANGED <<logVars, sub, wake, unnoted>>
  <1>. DEFINE f == Head(wire)
              got == IF f.frame = "event" THEN client.got \union {f.to} ELSE client.got
              gaps == IF f.frame = "gap" THEN client.gaps \union {f} ELSE client.gaps
              last == IF f.frame = "event" \/ client.binding = "sse" THEN f.to ELSE client.last
  <1>1. /\ wire # <<>> /\ wire' = Tail(wire) /\ UNCHANGED <<logVars, sub, wake, unnoted>>
        /\ client' = [client EXCEPT !.got = got, !.gaps = gaps, !.last = last]
    BY DEF Receive
  <1>2. client \in [binding : Bindings, start : Ids \union {None}, last : Ids \union {None},
                    got : SUBSET Ids, gaps : SUBSET {g \in Frames : g.frame = "gap"}]
    BY DEF StreamTypeOK
  <1>3. f \in Frames /\ f.to \in Ids
    BY <1>1, FirstOff
  <1>4. got \in SUBSET Ids /\ gaps \in SUBSET {g \in Frames : g.frame = "gap"} /\ last \in Ids \union {None}
    BY <1>2, <1>3
  <1>. HIDE DEF got, gaps, last
  <1>5. /\ client' \in [binding : Bindings, start : Ids \union {None}, last : Ids \union {None},
                        got : SUBSET Ids, gaps : SUBSET {g \in Frames : g.frame = "gap"}]
        /\ client'.binding = client.binding /\ client'.start = client.start
        /\ client'.got = got /\ client'.gaps = gaps /\ client'.last = last
    BY <1>1, <1>2, <1>4
  <1>. QED BY <1>1, <1>5 DEF got, gaps, last

\* The types hold at the start and are kept by every step.
LEMMA StreamTypeStart == StreamInit => StreamTypeOK /\ LogInv /\ LogNoted
  <1>. SUFFICES ASSUME StreamInit PROVE StreamTypeOK /\ LogInv /\ LogNoted
    OBVIOUS
  <1>1. LogInit /\ sub = Closed /\ wake = FALSE /\ wire = <<>> /\ unnoted = {}
    BY DEF StreamInit
  <1>2. LogTypeOK /\ MintedIsFresh /\ SweepIsRecorded /\ StrandedComplete /\ LogNoted
    <2>1. shape \in [Ids -> Shapes \union {NoShape}] /\ minted \in [Producers -> Ids \union {None}]
      BY <1>1 DEF LogInit
    <2>. QED BY <1>1, <2>1 DEF LogInit, LogTypeOK, MintedIsFresh, SweepIsRecorded, StrandedComplete, LogNoted
  <1>3. PICK b \in Bindings : client = [binding |-> b, start |-> None, last |-> None, got |-> {}, gaps |-> {}]
    BY DEF StreamInit, NewClient
  <1>4. sub \in Subs /\ sub.open = FALSE /\ sub.delivered <= sub.considered /\ sub.pendingFrom = None
    BY <1>1 DEF Closed, Subs
  <1>5. client \in [binding : Bindings, start : Ids \union {None}, last : Ids \union {None},
                    got : SUBSET Ids, gaps : SUBSET {g \in Frames : g.frame = "gap"}]
    BY <1>3
  <1>6. wire \in Seq(Frames) /\ unnoted \subseteq Ids /\ wake \in BOOLEAN /\ ~wake
    <2>1. <<>> \in Seq(Frames) /\ {} \subseteq Ids /\ FALSE \in BOOLEAN
      OBVIOUS
    <2>2. wire \in Seq(Frames)
      BY <1>1, <2>1
    <2>. QED BY <1>1, <2>2
  <1>. QED BY <1>2, <1>4, <1>5, <1>6 DEF StreamTypeOK, LogInv

LEMMA StreamTypeKept ==
    ASSUME StreamTypeOK, LogInv, StreamNext \/ UNCHANGED hubVars
    PROVE  StreamTypeOK' /\ LogInv' /\ (LogMoves \/ UNCHANGED logVars)
  <1>1. LogMoves \/ UNCHANGED logVars
    BY StepKinds DEF Quiets, Subscribe, Drain, Receive
  <1>2. LogInv' /\ LogTypeOK'
    BY <1>1, LogInductive DEF LogInv
  <1>3. CASE Quiets /\ wake' \in BOOLEAN /\ (~sub'.open => ~wake')
    <2>1. Closed \in Subs /\ Closed.delivered <= Closed.considered /\ Closed.pendingFrom = None
      BY DEF Closed, Subs
    <2>2. sub' \in Subs /\ sub'.delivered <= sub'.considered /\ (sub'.pendingFrom # None => sub'.pending)
      BY <1>3, <2>1 DEF Quiets, StreamTypeOK
    <2>3. wire' \in Seq(Frames) /\ client' = client /\ unnoted' = unnoted
      <3>1. wire \in Seq(Frames) /\ <<>> \in Seq(Frames)
        BY DEF StreamTypeOK
      <3>2. (wire' = wire \/ wire' = <<>>) /\ UNCHANGED <<client, unnoted>>
        BY <1>3 DEF Quiets
      <3>. QED BY <3>1, <3>2
    <2>. QED BY <1>1, <1>2, <1>3, <2>2, <2>3 DEF StreamTypeOK
  <1>4. CASE Subscribe
    <2>1. \A id : Unseen(id) \subseteq Ids
      BY DEF Unseen, LogInv, LogTypeOK
    <2>2. HeadId \in Ids \union {None} /\ MaxOr0(appended) \in Ids \union {None}
      BY MaxOr0Type DEF HeadId, LogInv, LogTypeOK
    <2>3. CASE SubscribesFresh
      <3>1. Opens(None, HeadId, {}, None, {})
        BY <2>3 DEF SubscribesFresh
      <3>2. sub' \in Subs /\ sub'.open = TRUE /\ sub'.pending = FALSE /\ sub'.pendingFrom = None
            /\ sub'.delivered <= sub'.considered /\ wire' \in Seq(Frames) /\ wake' = FALSE
        BY <2>2, <3>1, OpensSound DEF Block
      <3>3. client' = [binding |-> client.binding, start |-> MaxOr0(appended), last |-> None, got |-> {}, gaps |-> {}]
            /\ unnoted' = unnoted
        BY <2>3 DEF SubscribesFresh, NewClient
      <3>. QED BY <1>1, <1>2, <2>2, <3>2, <3>3 DEF StreamTypeOK
    <2>4. CASE client.last # None /\ (SubscribesOverGap \/ Resumes)
      <3>1. PICK backlog \in SUBSET log, named \in SUBSET log, from \in {None, client.last}, considered \in Ids :
                ResumesWith(backlog, named, from, considered)
        BY <2>4, ResumesSound
      <3>2. /\ client.last \in Ids \union {None} /\ from \in Ids \union {None} /\ considered \in Ids \union {None}
            /\ backlog \in SUBSET Ids /\ named \in SUBSET Ids
        BY DEF StreamTypeOK, LogInv, LogTypeOK
      <3>3. /\ sub' \in Subs /\ sub'.open = TRUE /\ sub'.pending = FALSE /\ sub'.pendingFrom = None
            /\ sub'.delivered <= sub'.considered /\ wire' \in Seq(Frames) /\ wake' = FALSE
        BY <3>1, <3>2, OpensSound DEF ResumesWith, Block
      <3>4. client' = client /\ unnoted' = unnoted \union Unseen(client.last)
        BY <3>1 DEF ResumesWith
      <3>. QED BY <1>1, <1>2, <2>1, <3>3, <3>4 DEF StreamTypeOK
    <2>5. CASE Refused
      <3>1. client' = [binding |-> client.binding, start |-> None, last |-> None, got |-> {}, gaps |-> {}]
            /\ UNCHANGED <<sub, wake, wire, unnoted>>
        BY <2>5 DEF Refused, NewClient
      <3>. QED BY <1>1, <1>2, <3>1 DEF StreamTypeOK
    <2>. QED BY <1>4, <2>3, <2>4, <2>5 DEF Subscribe
  <1>5. CASE Drain
    <2>1. /\ sub' \in Subs /\ sub'.open = TRUE /\ sub'.delivered <= sub'.considered
          /\ (sub'.pendingFrom # None => sub'.pending)
      BY <1>5, DrainSound
    <2>2. PICK w \in Seq(Frames) : wire' = wire \o w
      BY <1>5, DrainSound
    <2>3. wire' \in Seq(Frames)
      BY <2>2 DEF StreamTypeOK
    <2>4. client' = client /\ wake' = FALSE /\ unnoted' = unnoted \union Unseen(sub.considered)
      BY <1>5 DEF Drain
    <2>5. unnoted' \subseteq Ids
      BY <2>4 DEF Unseen, StreamTypeOK, LogTypeOK
    <2>. QED BY <1>1, <1>2, <2>1, <2>3, <2>4, <2>5 DEF StreamTypeOK
  <1>6. CASE Receive
    <2>1. wire' \in Seq(Frames)
      BY <1>6, FirstOff, ReceiveSound
    <2>2. client' \in [binding : Bindings, start : Ids \union {None}, last : Ids \union {None},
                       got : SUBSET Ids, gaps : SUBSET {g \in Frames : g.frame = "gap"}]
          /\ sub' = sub /\ wake' = wake /\ unnoted' = unnoted
      BY <1>6, ReceiveSound
    <2>. QED BY <1>1, <1>2, <2>1, <2>2 DEF StreamTypeOK
  <1>. QED BY <1>1, <1>2, <1>3, <1>4, <1>5, <1>6, StepKinds

-----------------------------------------------------------------------------
(* The wire is news                                                        *)

LEMMA StreamShapeStart == StreamInit => StreamShape
  BY StreamTypeStart DEF StreamShape

LEMMA StreamShapeKept ==
    ASSUME StreamShape, StreamNext \/ UNCHANGED hubVars
    PROVE  StreamShape' /\ (LogMoves \/ UNCHANGED logVars)
  BY StreamTypeKept, LogAccounts DEF StreamShape

LEMMA WireStart == StreamInit => WireInv
  <1>. SUFFICES ASSUME StreamInit PROVE WireInv
    OBVIOUS
  <1>1. /\ sub.open = FALSE /\ sub.considered = None /\ sub.delivered = None /\ sub.anchor = None
        /\ sub.pendingFrom = None
    BY DEF StreamInit, Closed
  <1>2. client.last = None /\ client.got = {}
    BY DEF StreamInit, NewClient
  <1>3. wire = <<>> /\ DOMAIN wire = {}
    BY DEF StreamInit
  <1>. QED BY <1>1, <1>2, <1>3 DEF WireInv, PointsReadable, Ordered, WireAhead, Recorded

\* The log's own steps, and an ending, take nothing a client may read away from it.
LEMMA QuietKeepsWire == ASSUME StreamShape, WireInv, Quiets PROVE WireInv'
  <1>1. appended \subseteq appended' /\ Seen \subseteq Seen' /\ Liked \subseteq Liked'
    BY SeenStays DEF Quiets, StreamShape
  <1>2. /\ sub' = sub \/ sub' = Closed
        /\ client' = client
        /\ wire' = wire \/ (wire' = <<>> /\ DOMAIN wire' = {})
    BY DEF Quiets
  <1>3. /\ Closed.open = FALSE /\ Closed.considered = None /\ Closed.delivered = None /\ Closed.anchor = None
        /\ Closed.pendingFrom = None
    BY DEF Closed
  <1>4. \A k \in DOMAIN wire' : k \in DOMAIN wire /\ wire'[k] = wire[k]
    BY <1>2
  <1>5. PointsReadable'
    <2>1. Recorded \subseteq Recorded' /\ None \in Recorded'
      BY <1>1 DEF Recorded
    <2>2. CASE sub' = sub
      BY <1>1, <1>2, <2>1, <2>2 DEF WireInv, PointsReadable
    <2>3. CASE sub' = Closed
      BY <1>1, <1>2, <1>3, <2>1, <2>3 DEF WireInv, PointsReadable
    <2>. QED BY <1>2, <2>2, <2>3
  <1>6. (\A k \in DOMAIN wire : FrameReadable(wire[k]))'
    BY <1>1, <1>4 DEF WireInv, FrameReadable, Event
  <1>7. Ordered(wire')
    BY <1>2 DEF WireInv, Ordered
  <1>8. WireAhead'
    BY <1>2, <1>3, <1>4 DEF WireInv, WireAhead
  <1>. QED BY <1>5, <1>6, <1>7, <1>8 DEF WireInv, Ordered, Follows, FrameReadable, Event

\* A stream that opens, or is refused, has nothing on its wire but what it opens with.
LEMMA SubscribeKeepsWire == ASSUME StreamShape, WireInv, Subscribe PROVE WireInv'
  <1>1. ~sub.open /\ wire = <<>> /\ UNCHANGED logVars
    BY DEF Subscribe
  <1>2. /\ appended' = appended /\ log' = log /\ Seen' = Seen /\ Liked' = Liked /\ Recorded' = Recorded
    BY <1>1, SeenSame
  <1>3. /\ log \subseteq appended /\ appended \subseteq Ids /\ client.last \in Ids \union {None}
        /\ client.got \subseteq Ids /\ client.last \in Seen \union {None}
    BY DEF StreamShape, StreamTypeOK, LogTypeOK, WireInv, PointsReadable
  <1>4. CASE SubscribesFresh
    <2>1. HeadId \in Ids \union {None} /\ HeadId \in Recorded
      <3>1. log \union {None} \in SUBSET (Ids \union {None}) /\ log \union {None} # {}
        BY <1>3
      <3>2. HeadId \in log \union {None}
        BY <3>1, IdSets DEF HeadId, MaxOr0
      <3>. QED BY <1>3, <3>2 DEF Recorded
    <2>2. Opens(None, HeadId, {}, None, {})
      BY <1>4 DEF SubscribesFresh
    <2>3. /\ sub'.considered = HeadId /\ sub'.pendingFrom = None /\ sub'.anchor = None
          /\ sub'.delivered = None /\ Block(wire', {}, None, {})
      BY <2>1, <2>2, OpensSound
    <2>4. DOMAIN wire' = {}
      BY <2>3 DEF Block
    <2>5. client'.last = None /\ client'.got = {}
      BY <1>4 DEF SubscribesFresh, NewClient
    <2>6. None <= HeadId
      BY <2>1
    <2>. QED BY <1>2, <2>1, <2>3, <2>4, <2>5, <2>6 DEF WireInv, PointsReadable, Ordered, WireAhead
  <1>5. CASE client.last # None /\ (SubscribesOverGap \/ Resumes)
    <2>1. PICK backlog \in SUBSET log, named \in SUBSET log, from \in {None, client.last}, considered \in Ids :
              ResumesWith(backlog, named, from, considered)
      BY <1>5, ResumesSound DEF StreamShape
    <2>2. /\ from \in Ids \union {None} /\ considered \in Ids \union {None}
          /\ backlog \in SUBSET Ids /\ named \in SUBSET Ids
      BY <1>3
    <2>3. /\ sub'.anchor = client.last /\ sub'.pendingFrom = None /\ sub'.open = TRUE
          /\ sub'.considered = (IF backlog = {} THEN considered ELSE Max(backlog))
          /\ sub'.delivered <= sub'.considered
          /\ sub'.delivered # None => sub'.delivered \in backlog /\ Wanted(sub'.delivered)
          /\ Block(wire', backlog, from, named)
      BY <1>3, <2>1, <2>2, OpensSound DEF ResumesWith
    <2>4. /\ \A i \in backlog : client.last < i
          /\ considered \in appended /\ (backlog = {} => considered = client.last)
          /\ named \subseteq backlog /\ client' = client
          /\ \A i \in named : Visible(i) /\ from = client.last
      BY <2>1 DEF ResumesWith
    <2>5. /\ sub'.considered \in appended /\ client.last <= sub'.considered
          /\ \A i \in backlog : i <= sub'.considered
      <3>1. CASE backlog = {}
        BY <1>3, <2>3, <2>4, <3>1
      <3>2. CASE backlog # {}
        <4>1. Max(backlog) \in backlog /\ \A i \in backlog : i <= Max(backlog)
          BY <2>2, <3>2, IdSets
        <4>2. Max(backlog) \in Ids
          BY <2>2, <4>1
        <4>. QED BY <1>3, <2>3, <2>4, <3>2, <4>1, <4>2
      <3>. QED BY <3>1, <3>2
    <2>6. /\ wire' \in Seq(Frames) /\ Ordered(wire')
          /\ \A k \in DOMAIN wire' :
                 \/ wire'[k] = Event(wire'[k].to) /\ wire'[k].to \in backlog /\ Wanted(wire'[k].to)
                 \/ wire'[k] = Gap(from, wire'[k].to) /\ wire'[k].to \in named
      BY <2>3 DEF Block
    <2>7. ASSUME NEW k \in DOMAIN wire'
          PROVE  /\ FrameReadable(wire'[k]) /\ client.last < wire'[k].to /\ wire'[k].to \in Ids
                 /\ wire'[k].to <= sub'.considered
      <3>1. wire'[k].to \in backlog /\ wire'[k].to \in Ids
        BY <2>2, <2>4, <2>6
      <3>2. CASE wire'[k] = Event(wire'[k].to) /\ Wanted(wire'[k].to)
        BY <1>3, <2>4, <2>5, <3>1, <3>2 DEF FrameReadable, Event, Liked
      <3>3. CASE wire'[k] = Gap(from, wire'[k].to) /\ wire'[k].to \in named
        <4>1. wire'[k].frame = "gap" /\ wire'[k].from = from
          BY <3>3 DEF Gap
        <4>. QED BY <1>3, <2>4, <2>5, <3>1, <3>3, <4>1 DEF FrameReadable, Seen
      <3>. QED BY <2>6, <3>2, <3>3
    <2>8. PointsReadable'
      <3>1. sub'.delivered \in Seen \union {None}
        BY <1>3, <2>3, LikedIsSeen DEF Liked
      <3>2. None <= sub'.considered
        <4>1. sub'.considered \in Ids
          BY <1>3, <2>5
        <4>. QED BY <4>1
      <3>. QED BY <1>2, <1>3, <2>3, <2>4, <2>5, <3>1, <3>2 DEF PointsReadable, Recorded
    <2>9. (\A k \in DOMAIN wire : FrameReadable(wire[k]))'
      BY <1>2, <2>7 DEF FrameReadable, Event
    <2>10. WireAhead'
      <3>1. \A j \in client.got : j <= client.last
        BY DEF WireInv, WireAhead
      <3>2. \A k \in DOMAIN wire' : \A j \in client.got : j < wire'[k].to
        BY <1>3, <2>7, <3>1
      <3>3. \A k \in DOMAIN wire' : client.last <= wire'[k].to
        BY <1>3, <2>7
      <3>. QED BY <2>4, <2>5, <2>7, <3>1, <3>2, <3>3 DEF WireAhead
    <2>11. Ordered(wire)'
      BY <2>6 DEF Ordered, Follows
    <2>. QED BY <2>8, <2>9, <2>10, <2>11 DEF WireInv
  <1>6. CASE Refused
    <2>1. client'.last = None /\ client'.got = {} /\ UNCHANGED <<sub, wire>>
      BY <1>6 DEF Refused, NewClient
    <2>2. DOMAIN wire' = {} /\ ~sub'.open
      BY <1>1, <2>1
    <2>. QED BY <1>2, <2>1, <2>2 DEF WireInv, PointsReadable, Ordered, WireAhead
  <1>. QED BY <1>4, <1>5, <1>6 DEF Subscribe

\* What a drain writes goes behind what is on the wire.
LEMMA DrainKeepsWire == ASSUME StreamShape, WireInv, Drain PROVE WireInv'
  <1>1. sub.open /\ UNCHANGED logVars /\ client' = client
    BY DEF Drain
  <1>2. /\ appended' = appended /\ Seen' = Seen /\ Liked' = Liked /\ Recorded' = Recorded
    BY <1>1, SeenSame
  <1>3. /\ log \subseteq appended /\ appended \subseteq Ids /\ client.last \in Ids \union {None}
        /\ client.got \subseteq Ids /\ wire \in Seq(Frames) /\ sub \in Subs
    BY DEF StreamShape, StreamTypeOK, LogTypeOK
  <1>4. /\ sub.considered \in Ids \union {None} /\ sub.delivered \in Ids \union {None}
        /\ sub.anchor \in Ids \union {None} /\ sub.pendingFrom \in Ids \union {None}
    BY <1>3 DEF Subs
  <1>5. /\ Unsent \in SUBSET Ids /\ Marked \in SUBSET Unsent /\ MarkFrom \in Ids \union {None}
        /\ \A i \in Marked : Visible(i)
        /\ sub' \in Subs /\ sub'.open = TRUE /\ sub'.anchor = sub.anchor
        /\ sub.considered <= sub'.considered /\ \A i \in Unsent : i <= sub'.considered
        /\ sub'.considered \in Unsent \union {sub.considered}
        /\ sub'.delivered <= sub'.considered
        /\ sub'.delivered # sub.delivered => sub'.delivered \in Unsent /\ Wanted(sub'.delivered)
        /\ sub'.pendingFrom \in {MarkFrom, None}
        /\ \E w \in Seq(Frames) : wire' = wire \o w /\ Block(w, Unsent, MarkFrom, Marked)
    BY DrainSound DEF StreamShape
  <1>6. PICK w \in Seq(Frames) : wire' = wire \o w /\ Block(w, Unsent, MarkFrom, Marked)
    BY <1>5
  <1>7. /\ sub'.considered \in Ids \union {None} /\ sub'.delivered \in Ids \union {None}
        /\ sub'.pendingFrom \in Ids \union {None}
    BY <1>5 DEF Subs
  <1>8. Unsent \subseteq log /\ Unsent \subseteq appended /\ \A i \in Unsent : sub.considered < i
    BY <1>3 DEF Unsent, After
  <1>9. /\ sub.considered \in Recorded
        /\ {sub.delivered, sub.anchor, sub.pendingFrom, client.last} \subseteq Seen \union {None}
        /\ sub.delivered <= sub.considered /\ sub.anchor <= sub.considered /\ sub.pendingFrom <= sub.considered
    BY DEF WireInv, PointsReadable
  <1>10. MarkFrom \in Seen \union {None} /\ MarkFrom <= sub.considered
    BY <1>9 DEF MarkFrom, LastKnownPoint
  <1>11. PointsReadable'
    <2>1. sub'.considered \in Recorded
      BY <1>5, <1>8, <1>9 DEF Recorded
    <2>2. sub'.delivered \in Seen \union {None}
      BY <1>5, <1>8, <1>9, LikedIsSeen DEF Liked
    <2>3. sub'.pendingFrom \in Seen \union {None} /\ sub'.pendingFrom <= sub.considered
      BY <1>4, <1>5, <1>10
    <2>4. sub'.pendingFrom <= sub'.considered /\ sub'.anchor <= sub'.considered
      BY <1>4, <1>5, <1>7, <1>9, <2>3
    <2>. QED BY <1>1, <1>2, <1>5, <1>9, <2>1, <2>2, <2>3, <2>4 DEF PointsReadable
  <1>12. /\ Ordered(w)
         /\ \A k \in DOMAIN w :
                \/ w[k] = Event(w[k].to) /\ w[k].to \in Unsent /\ Wanted(w[k].to)
                \/ w[k] = Gap(MarkFrom, w[k].to) /\ w[k].to \in Marked
    BY <1>6 DEF Block
  <1>13. ASSUME NEW k \in DOMAIN w
         PROVE  /\ FrameReadable(w[k]) /\ w[k].to \in Ids /\ sub.considered < w[k].to
                /\ w[k].to <= sub'.considered
    <2>1. w[k].to \in Unsent /\ w[k].to \in Ids
      BY <1>5, <1>12
    <2>2. CASE w[k] = Event(w[k].to) /\ Wanted(w[k].to)
      BY <1>5, <1>8, <2>1, <2>2 DEF FrameReadable, Event, Liked
    <2>3. CASE w[k] = Gap(MarkFrom, w[k].to) /\ w[k].to \in Marked
      <3>1. w[k].frame = "gap" /\ w[k].from = MarkFrom
        BY <2>3 DEF Gap
      <3>2. MarkFrom < w[k].to
        BY <1>4, <1>5, <1>8, <1>10, <2>1
      <3>3. w[k].to \in Seen
        BY <1>5, <1>8, <2>1, <2>3 DEF Seen
      <3>. QED BY <1>5, <1>8, <1>10, <2>1, <3>1, <3>2, <3>3 DEF FrameReadable
    <2>. QED BY <1>12, <2>2, <2>3
  <1>14. /\ Ordered(wire) /\ \A k \in DOMAIN wire : FrameReadable(wire[k])
         /\ \A k \in DOMAIN wire :
                /\ client.last <= wire[k].to /\ wire[k].to <= sub.considered
                /\ wire[k].frame = "event" => \A j \in client.got : j < wire[k].to
         /\ (\A j \in client.got : j <= client.last) /\ client.last <= sub.considered
    BY <1>1 DEF WireInv, WireAhead
  <1>15. /\ Ordered(wire')
         /\ \A k \in DOMAIN wire' : \/ k \in DOMAIN wire /\ wire'[k] = wire[k]
                                    \/ k - Len(wire) \in DOMAIN w /\ wire'[k] = w[k - Len(wire)]
    <2>1. /\ Ordered(wire \o w)
          /\ \A k \in DOMAIN wire : (wire \o w)[k] = wire[k]
          /\ \A k \in DOMAIN w : (wire \o w)[Len(wire) + k] = w[k]
          /\ \A k \in DOMAIN (wire \o w) : k \in DOMAIN wire \/ k - Len(wire) \in DOMAIN w
      BY <1>3, <1>4, <1>12, <1>13, <1>14, BlockGoesLast
    <2>2. Len(wire) \in Nat /\ DOMAIN (wire \o w) \subseteq Nat
      BY <1>3
    <2>3. \A k \in Nat : Len(wire) + (k - Len(wire)) = k
      BY <2>2
    <2>4. ASSUME NEW k \in DOMAIN (wire \o w), k \notin DOMAIN wire
          PROVE  k - Len(wire) \in DOMAIN w /\ (wire \o w)[k] = w[k - Len(wire)]
      <3>1. k - Len(wire) \in DOMAIN w /\ Len(wire) + (k - Len(wire)) = k
        BY <2>1, <2>2, <2>3, <2>4
      <3>2. (wire \o w)[Len(wire) + (k - Len(wire))] = w[k - Len(wire)]
        BY <2>1, <3>1
      <3>. QED BY <3>1, <3>2
    <2>. QED BY <1>6, <2>1, <2>4
  <1>16. (\A k \in DOMAIN wire : FrameReadable(wire[k]))'
    <2>1. \A k \in DOMAIN wire' : FrameReadable(wire'[k])
      BY <1>13, <1>14, <1>15
    <2>. QED BY <1>2, <2>1 DEF FrameReadable, Event
  <1>17. WireAhead'
    <2>1. ASSUME NEW k \in DOMAIN wire'
          PROVE  /\ client.last <= wire'[k].to /\ wire'[k].to <= sub'.considered
                 /\ wire'[k].frame = "event" => \A j \in client.got : j < wire'[k].to
      <3>1. CASE k \in DOMAIN wire /\ wire'[k] = wire[k]
        <4>1. wire[k].to \in Int
          <5>1. wire[k] \in Frames
            BY <1>3, <3>1
          <5>. QED BY <5>1 DEF Frames
        <4>2. wire[k].to <= sub'.considered
          BY <1>4, <1>5, <1>7, <1>14, <3>1, <4>1
        <4>. QED BY <1>14, <3>1, <4>2
      <3>2. CASE k - Len(wire) \in DOMAIN w /\ wire'[k] = w[k - Len(wire)]
        <4>. DEFINE f == w[k - Len(wire)]
        <4>1. f.to \in Ids /\ sub.considered < f.to /\ f.to <= sub'.considered
          BY <1>13, <3>2
        <4>. HIDE DEF f
        <4>2. client.last < f.to
          BY <1>3, <1>4, <1>14, <4>1
        <4>3. \A j \in client.got : j < f.to
          BY <1>3, <1>14, <4>1, <4>2
        <4>4. client.last <= f.to
          BY <1>3, <4>1, <4>2
        <4>. QED BY <3>2, <4>1, <4>3, <4>4 DEF f
      <3>. QED BY <1>15, <3>1, <3>2
    <2>2. client.last <= sub'.considered
      BY <1>3, <1>4, <1>5, <1>7, <1>14
    <2>. QED BY <1>1, <1>14, <2>1, <2>2 DEF WireAhead
  <1>18. Ordered(wire)'
    BY <1>15 DEF Ordered, Follows
  <1>. QED BY <1>11, <1>16, <1>17, <1>18 DEF WireInv

\* What is read was next: nothing behind it on the wire is older.
LEMMA ReceiveKeepsWire == ASSUME StreamShape, WireInv, Receive PROVE WireInv'
  <1>. DEFINE f == Head(wire)
  <1>1. /\ wire # <<>> /\ wire' = Tail(wire) /\ sub' = sub /\ UNCHANGED logVars
        /\ client'.got = (IF f.frame = "event" THEN client.got \union {f.to} ELSE client.got)
        /\ client'.last = f.to \/ (client'.last = client.last /\ f.frame # "event")
    BY ReceiveSound DEF StreamShape
  <1>2. /\ appended' = appended /\ Seen' = Seen /\ Liked' = Liked /\ Recorded' = Recorded
    BY <1>1, SeenSame
  <1>3. /\ 1 \in DOMAIN wire /\ f = wire[1] /\ f.to \in Ids /\ f.frame \in {"event", "gap"}
        /\ \A k \in DOMAIN wire' : /\ k \in Nat /\ k >= 1 /\ k + 1 \in DOMAIN wire
                                   /\ wire'[k] = wire[k + 1]
    BY <1>1, FirstOff DEF StreamShape
  <1>4. /\ Ordered(wire) /\ \A k \in DOMAIN wire : FrameReadable(wire[k])
        /\ \A k \in DOMAIN wire :
               /\ client.last <= wire[k].to
               /\ wire[k].frame = "event" => \A j \in client.got : j < wire[k].to
               /\ sub.open => wire[k].to <= sub.considered
        /\ (\A j \in client.got : j <= client.last) /\ (sub.open => client.last <= sub.considered)
    BY DEF WireInv, WireAhead
  <1>5. /\ client.got \subseteq Ids /\ client.last \in Ids \union {None}
        /\ \A k \in DOMAIN wire : wire[k].to \in Ids
    <2>1. \A k \in DOMAIN wire : wire[k] \in Frames
      BY DEF StreamShape, StreamTypeOK
    <2>. QED BY <2>1 DEF StreamShape, StreamTypeOK, Frames
  <1>. HIDE DEF f
  <1>6. f.to \in Seen /\ client.last <= f.to
    BY <1>3, <1>4, LikedIsSeen DEF FrameReadable
  <1>7. PointsReadable'
    BY <1>1, <1>2, <1>6 DEF WireInv, PointsReadable
  <1>8. (\A k \in DOMAIN wire : FrameReadable(wire[k]))'
    <2>1. \A k \in DOMAIN wire' : FrameReadable(wire'[k])
      BY <1>3, <1>4
    <2>. QED BY <1>2, <2>1 DEF FrameReadable, Event
  <1>9. ASSUME NEW k \in DOMAIN wire'
        PROVE  f.to <= wire'[k].to /\ (wire'[k].frame = "event" /\ f.frame = "event" => f.to < wire'[k].to)
    <2>1. k + 1 \in DOMAIN wire /\ wire'[k] = wire[k + 1] /\ 1 \in 1..((k + 1) - 1)
      BY <1>3
    <2>2. Follows(f, wire'[k])
      BY <1>3, <1>4, <2>1 DEF Ordered
    <2>3. wire'[k].to \in Ids
      BY <1>5, <2>1
    <2>. QED BY <1>3, <2>2, <2>3 DEF Follows
  <1>10. ASSUME NEW k \in DOMAIN wire', NEW m \in 1..(k - 1) PROVE Follows(wire'[m], wire'[k])
    <2>1. DOMAIN wire' = 1..Len(wire') /\ Len(wire') \in Nat
      BY <1>1 DEF StreamShape, StreamTypeOK
    <2>2. m \in DOMAIN wire' /\ m + 1 \in 1..((k + 1) - 1)
      BY <2>1
    <2>. QED BY <1>3, <1>4, <2>2 DEF Ordered
  <1>11. Ordered(wire)'
    BY <1>10 DEF Ordered, Follows
  <1>12. WireAhead'
    <2>1. ASSUME NEW k \in DOMAIN wire'
          PROVE  /\ client'.last <= wire'[k].to
                 /\ wire'[k].frame = "event" => \A j \in client'.got : j < wire'[k].to
                 /\ sub'.open => wire'[k].to <= sub'.considered
      <3>1. k + 1 \in DOMAIN wire /\ wire'[k] = wire[k + 1]
        BY <1>3
      <3>2. client.last <= wire'[k].to
        BY <1>4, <3>1
      <3>. QED BY <1>1, <1>4, <1>9, <3>1, <3>2
    <2>2. \A j \in client'.got : j <= client'.last
      <3>1. f.frame = "event" => client'.last = f.to
        BY <1>1
      <3>2. \A j \in client.got : j <= client.last /\ j <= f.to
        BY <1>3, <1>4, <1>5, <1>6
      <3>3. f.to <= f.to
        BY <1>3
      <3>. QED BY <1>1, <3>1, <3>2, <3>3
    <2>3. sub'.open => client'.last <= sub'.considered
      BY <1>1, <1>3, <1>4
    <2>. QED BY <2>1, <2>2, <2>3 DEF WireAhead
  <1>. QED BY <1>7, <1>8, <1>11, <1>12 DEF WireInv

LEMMA WireInductive ==
    ASSUME StreamShape, WireInv, StreamNext \/ UNCHANGED hubVars
    PROVE  WireInv'
  BY StepKinds, QuietKeepsWire, SubscribeKeepsWire, DrainKeepsWire, ReceiveKeepsWire DEF StreamShape

\* The state of a connection, its client and the log keep their types.
THEOREM StreamTypeCorrect == StreamSpec => []StreamTypeOK
  <1>1. StreamShape /\ [StreamNext]_hubVars => StreamShape'
    BY StreamShapeKept
  <1>2. StreamShape => StreamTypeOK
    BY DEF StreamShape
  <1>. QED BY <1>1, <1>2, StreamShapeStart, PTL DEF StreamSpec

LEMMA StreamSound == StreamSpec => [](StreamShape /\ WireInv)
  <1>1. StreamShape /\ WireInv /\ [StreamNext]_hubVars => StreamShape' /\ WireInv'
    BY StreamShapeKept, WireInductive
  <1>. QED BY <1>1, StreamShapeStart, WireStart, PTL DEF StreamSpec

\* Whatever the reconnections, resume points, markers and late appends, an event on its way
\* to the client is above everything the client has and above what precedes it: drainOnce
\* and deliverBacklog send nothing twice and nothing out of order.
THEOREM StreamSendsNews == StreamSpec => []WireIsNews
  <1>1. ASSUME StreamShape, WireInv PROVE WireIsNews
    <2>1. SUFFICES ASSUME NEW k \in DOMAIN wire, wire[k].frame = "event"
                   PROVE  /\ \A j \in client.got : j < wire[k].to
                          /\ \A m \in 1..(k - 1) : wire[m].frame = "event" => wire[m].to < wire[k].to
      BY DEF WireIsNews
    <2>2. \A j \in client.got : j < wire[k].to
      BY <1>1, <2>1 DEF WireInv, WireAhead
    <2>3. \A m \in 1..(k - 1) : Follows(wire[m], wire[k])
      BY <1>1, <2>1 DEF WireInv, Ordered
    <2>. QED BY <2>1, <2>2, <2>3 DEF Follows
  <1>. QED BY <1>1, StreamSound, PTL

\* EVT-134a: a marker is composed from the log that all clients share, and yet names only
\* ids this client may read, and a range that ends above where it starts.
THEOREM StreamMarksReadable == StreamSpec => []GapNamesReadable
  <1>1. ASSUME WireInv PROVE GapNamesReadable
    <2>1. SUFFICES ASSUME NEW k \in DOMAIN wire, wire[k].frame = "gap"
                   PROVE  /\ Visible(wire[k].to) /\ wire[k].from < wire[k].to
                          /\ wire[k].from # None => Visible(wire[k].from)
      BY DEF GapNamesReadable
    <2>2. FrameReadable(wire[k])
      BY <1>1, <2>1 DEF WireInv
    <2>. QED BY <2>1, <2>2 DEF FrameReadable, Seen
  <1>. QED BY <1>1, StreamSound, PTL

-----------------------------------------------------------------------------
(* Losses are known                                                        *)

Excused == late \union stranded \union unnoted

\* What the client may count on, and what it has been sent or told it missed.
Owed == {i \in Liked \ Excused : client.start < i}
Told == {i \in Ids : i \in client.got \union NamedOverSse \/ Covered(i)}

Spans(f, i) == f.frame = "gap" /\ f.from < i /\ i < f.to

\* A frame of the stream brings i or tells that it is lost; one that is read by the time
\* the k-th has been does, and an event before it has been.
SentOn(w, i) == \E k \in DOMAIN w : w[k] = Event(i) \/ Spans(w[k], i)
Promised(w, k, i) == \/ \E m \in DOMAIN w : m < k /\ w[m] = Event(i)
                     \/ \E m \in DOMAIN w : m <= k /\ Spans(w[m], i)

(***************************************************************************)
(* What is owed below the client's point it was told; what is owed below a *)
(* frame comes no later than that frame; and what is owed of what the      *)
(* server considered is on its way, unless the marker for it is pending.   *)
(***************************************************************************)
ReadIsTold == \A i \in Owed : i <= client.last => i \in Told
WireIsWhole == \A i \in Owed \ Told, k \in DOMAIN wire : i < wire[k].to => Promised(wire, k, i)
SentIsWhole ==
    sub.open => \A i \in Owed \ Told : i <= sub.considered =>
        SentOn(wire, i) \/ (sub.pending /\ sub.pendingFrom < i)

LossInv == ReadIsTold /\ WireIsWhole /\ SentIsWhole

\* In an ordered stream an event stands before every frame for a higher id, and a marker
\* no later than every frame for the id it names or a higher one.
LEMMA StandsBefore ==
    ASSUME NEW w \in Seq(Frames), Ordered(w), NEW k \in DOMAIN w, NEW m \in DOMAIN w
    PROVE  /\ w[m].to < w[k].to => m < k
           /\ w[m].frame = "gap" /\ w[m].to <= w[k].to => m <= k
  <1>1. DOMAIN w = 1..Len(w) /\ Len(w) \in Nat /\ k \in Nat /\ m \in Nat /\ k >= 1 /\ m >= 1
    OBVIOUS
  <1>2. w[k].to \in Ids /\ w[m].to \in Ids
    <2>1. w[k] \in Frames /\ w[m] \in Frames
      OBVIOUS
    <2>. QED BY <2>1 DEF Frames
  <1>3. k < m => Follows(w[k], w[m])
    BY <1>1 DEF Ordered
  <1>4. w[m].frame = "gap" => w[m].frame # "event"
    OBVIOUS
  <1>. QED BY <1>1, <1>2, <1>3, <1>4 DEF Follows

\* A block that holds i, or whose marker reaches over it, brings it in time.
LEMMA BlockPromises ==
    ASSUME NEW w \in Seq(Frames), NEW tail \in SUBSET Ids, NEW named \in SUBSET Ids, NEW from \in Ids \union {None},
           Block(w, tail, from, named), NEW i \in Ids,
           \A j \in named : \A l \in tail : Visible(l) => j <= l,
           \A j \in named : \A l \in named : j <= l,
           \/ i \in tail /\ Wanted(i)
           \/ from < i /\ \E j \in named : i < j
    PROVE  /\ SentOn(w, i)
           /\ \A k \in DOMAIN w : i < w[k].to => Promised(w, k, i)
  <1>1. /\ Ordered(w)
        /\ \A k \in DOMAIN w :
               \/ w[k] = Event(w[k].to) /\ w[k].to \in tail /\ Wanted(w[k].to)
               \/ w[k] = Gap(from, w[k].to) /\ w[k].to \in named
        /\ \A l \in tail : Wanted(l) => \E k \in DOMAIN w : w[k] = Event(l)
        /\ \A l \in named : \E k \in DOMAIN w : w[k] = Gap(from, l)
    BY DEF Block
  <1>2. CASE i \in tail /\ Wanted(i)
    <2>1. PICK m \in DOMAIN w : w[m] = Event(i)
      BY <1>1, <1>2
    <2>2. w[m].to = i
      BY <2>1 DEF Event
    <2>. QED BY <1>1, <2>1, <2>2, StandsBefore DEF SentOn, Promised
  <1>3. CASE from < i /\ \E j \in named : i < j
    <2>1. PICK j \in named : i < j
      BY <1>3
    <2>2. PICK m \in DOMAIN w : w[m] = Gap(from, j)
      BY <1>1
    <2>3. w[m].frame = "gap" /\ w[m].from = from /\ w[m].to = j
      BY <2>2 DEF Gap
    <2>4. Spans(w[m], i)
      BY <1>3, <2>1, <2>3 DEF Spans
    <2>5. \A k \in DOMAIN w : j <= w[k].to
      BY <1>1 DEF Wanted, Visible
    <2>6. \A k \in DOMAIN w : m <= k
      BY <1>1, <2>3, <2>5, StandsBefore
    <2>. QED BY <2>4, <2>6 DEF SentOn, Promised
  <1>. QED BY <1>2, <1>3

\* What comes to be owed is above all that was ever appended.
LEMMA OwedStays ==
    ASSUME StreamShape, LogMoves \/ UNCHANGED logVars, unnoted \subseteq unnoted', client'.start = client.start
    PROVE  \A i \in Owed' : i \in Ids /\ (i \in Owed \/ \A j \in Recorded : j < i)
  <1>1. LogInv
    BY DEF StreamShape
  <1>2. /\ appended \subseteq appended' /\ late \subseteq late' /\ stranded \subseteq stranded'
        /\ \A i \in appended' \ appended : (\E j \in appended : j > i) => i \in late'
        /\ Liked' \intersect appended \subseteq Liked
    BY <1>1, LogGrows, SeenStays
  <1>3. appended \subseteq Ids /\ appended' \subseteq Ids
    <2>1. LogInv'
      BY <1>1, LogInductive
    <2>. QED BY <1>1, <2>1 DEF LogInv, LogTypeOK
  <1>4. ASSUME NEW i \in Owed' PROVE i \in Ids /\ (i \in Owed \/ \A j \in Recorded : j < i)
    <2>1. i \in Liked' /\ i \in appended' /\ i \notin late' /\ i \notin Excused' /\ client'.start < i /\ i \in Ids
      BY <1>3, <1>4 DEF Owed, Excused, Liked
    <2>2. i \notin Excused
      BY <1>2, <2>1 DEF Excused
    <2>3. CASE i \in appended
      BY <1>2, <2>1, <2>2, <2>3 DEF Owed
    <2>4. CASE i \notin appended
      <3>1. \A j \in appended : ~(j > i) /\ j # i /\ j \in Ids
        BY <1>2, <1>3, <2>1, <2>4
      <3>2. \A j \in appended : j < i
        BY <2>1, <3>1
      <3>. QED BY <2>1, <3>2 DEF Recorded
    <2>. QED BY <2>3, <2>4
  <1>. QED BY <1>4

LEMMA LossStart == StreamInit => LossInv
  <1>. SUFFICES ASSUME StreamInit PROVE LossInv
    OBVIOUS
  <1>1. sub.open = FALSE
    BY DEF StreamInit, Closed
  <1>2. Owed = {}
    BY DEF Owed, Liked, StreamInit, LogInit
  <1>. QED BY <1>1, <1>2 DEF LossInv, ReadIsTold, WireIsWhole, SentIsWhole

\* What the log takes in is above all points, or late; an ending takes the wire with it.
LEMMA QuietKeepsLoss == ASSUME StreamShape, WireInv, LossInv, Quiets PROVE LossInv'
  <1>1. client' = client /\ Told' = Told /\ (sub' = sub \/ ~sub'.open) /\ (wire' = wire \/ DOMAIN wire' = {})
    BY DEF Quiets, Told, NamedOverSse, Covered, Closed
  <1>2. \A i \in Owed' : i \in Ids /\ (i \in Owed \/ \A j \in Recorded : j < i)
    BY <1>1, OwedStays DEF Quiets
  <1>3. /\ client.last \in Recorded /\ sub.considered \in Recorded
        /\ \A k \in DOMAIN wire : wire[k].to \in Recorded
    BY LikedIsSeen DEF WireInv, PointsReadable, FrameReadable, Recorded
  <1>4. Recorded \subseteq Int
    BY DEF Recorded, StreamShape, StreamTypeOK, LogTypeOK
  <1>5. /\ client.last \in Int /\ sub.considered \in Int /\ \A k \in DOMAIN wire : wire[k].to \in Int
    BY <1>3, <1>4
  <1>6. \A i \in Owed' : i \in Int
    BY <1>2
  <1>7. \A i \in Owed' : i \notin Owed =>
            client.last < i /\ sub.considered < i /\ \A k \in DOMAIN wire : wire[k].to < i
    BY <1>2, <1>3
  <1>8. \A i \in Owed' : \/ i \in Owed
                         \/ ~(i <= client.last) /\ ~(i <= sub.considered) /\ \A k \in DOMAIN wire : ~(i < wire[k].to)
    BY <1>5, <1>6, <1>7
  <1>9. ReadIsTold'
    BY <1>1, <1>8 DEF LossInv, ReadIsTold
  <1>10. WireIsWhole'
    <2>1. SUFFICES ASSUME NEW i \in Owed' \ Told', NEW k \in DOMAIN wire', i < wire'[k].to
                   PROVE  Promised(wire', k, i)
      BY DEF WireIsWhole, Promised, Event, Spans
    <2>2. wire' = wire /\ k \in DOMAIN wire
      BY <1>1
    <2>3. i \in Owed
      BY <1>8, <2>1, <2>2
    <2>. QED BY <1>1, <2>1, <2>2, <2>3 DEF LossInv, WireIsWhole
  <1>11. SentIsWhole'
    <2>1. SUFFICES ASSUME sub'.open, NEW i \in Owed' \ Told', i <= sub'.considered
                   PROVE  SentOn(wire', i) \/ (sub'.pending /\ sub'.pendingFrom < i)
      BY DEF SentIsWhole, SentOn, Event, Spans
    <2>2. sub' = sub /\ wire' = wire
      BY <2>1 DEF Quiets, Closed
    <2>3. i \in Owed
      BY <1>8, <2>1, <2>2
    <2>. QED BY <1>1, <2>1, <2>2, <2>3 DEF LossInv, SentIsWhole
  <1>. QED BY <1>9, <1>10, <1>11 DEF LossInv

\* A stream that opens has what is owed on its wire, or a marker that reaches over it.
LEMMA SubscribeKeepsLoss == ASSUME StreamShape, WireInv, LossInv, Subscribe PROVE LossInv'
  <1>1. ~sub.open /\ wire = <<>> /\ DOMAIN wire = {} /\ UNCHANGED logVars
    BY DEF Subscribe
  <1>2. /\ log \subseteq appended /\ appended \subseteq Ids /\ client.last \in Ids \union {None}
    BY DEF StreamShape, StreamTypeOK, LogTypeOK
  <1>3. CASE SubscribesFresh
    <2>1. client'.start = MaxOr0(appended)
      BY <1>3 DEF SubscribesFresh, NewClient
    <2>2. \A i \in appended : i <= MaxOr0(appended) /\ i \in Int /\ MaxOr0(appended) \in Int
      BY <1>2, MaxOr0Type
    <2>3. \A i \in appended : ~(client'.start < i)
      BY <2>1, <2>2
    <2>4. Owed' = {}
      BY <1>1, <2>3, SeenSame, LikedIsSeen DEF Owed
    <2>. QED BY <2>4 DEF LossInv, ReadIsTold, WireIsWhole, SentIsWhole
  <1>4. CASE client.last # None /\ (SubscribesOverGap \/ Resumes)
    <2>1. PICK backlog \in SUBSET log, named \in SUBSET log, from \in {None, client.last}, considered \in Ids :
              ResumesWith(backlog, named, from, considered)
      BY <1>4, ResumesSound DEF StreamShape
    <2>2. /\ from \in Ids \union {None} /\ considered \in Ids \union {None}
          /\ backlog \in SUBSET Ids /\ named \in SUBSET Ids
      BY <1>2
    <2>3. wire' \in Seq(Frames) /\ Block(wire', backlog, from, named)
      <3>1. Block(wire', backlog, from, named)
        BY <1>2, <2>1, <2>2, OpensSound DEF ResumesWith
      <3>. QED BY <3>1 DEF Block
    <2>4. /\ \A i \in log : client.last < i /\ i \notin backlog => ~Visible(i)
          /\ named \subseteq backlog /\ client' = client /\ unnoted \subseteq unnoted'
          /\ \A i \in named : Visible(i) /\ from = client.last /\ \A j \in backlog : i <= j
          /\ named = {} => client.last \in log
      BY <2>1 DEF ResumesWith
    <2>5. Told' = Told
      BY <2>4 DEF Told, NamedOverSse, Covered
    <2>6. \A i \in Owed' : i \in Owed /\ i \in Liked /\ i \in appended /\ i \notin stranded /\ i \in Ids
      <3>1. Liked' = Liked /\ late' = late /\ stranded' = stranded
        BY <1>1, SeenSame
      <3>2. \A i \in Owed' : i \in Liked /\ i \notin Excused /\ client.start < i
        BY <2>4, <3>1 DEF Owed, Excused
      <3>. QED BY <1>2, <3>2 DEF Owed, Excused, Liked
    <2>7. ReadIsTold'
      BY <2>4, <2>5, <2>6 DEF LossInv, ReadIsTold
    <2>8. ASSUME NEW i \in Owed' \ Told'
          PROVE  SentOn(wire', i) /\ \A k \in DOMAIN wire' : i < wire'[k].to => Promised(wire', k, i)
      <3>1. i \in Owed /\ i \notin Told /\ i \in Liked /\ i \in appended /\ i \notin stranded /\ i \in Ids
        BY <2>5, <2>6, <2>8
      <3>2. ~(i <= client.last)
        BY <3>1 DEF LossInv, ReadIsTold
      <3>3. client.last < i
        BY <1>2, <3>1, <3>2
      <3>4. Wanted(i) /\ Visible(i)
        BY <3>1 DEF Liked, Wanted, Visible
      <3>5. i \in log => i \in backlog
        BY <2>4, <3>3, <3>4
      <3>6. i \notin log => \A j \in log : i < j
        <4>1. i \notin log => \A j \in log : ~(j < i) /\ j # i
          BY <3>1 DEF StreamShape, LogInv, StrandedComplete
        <4>2. \A j \in log : j \in Int /\ i \in Int
          BY <1>2, <3>1
        <4>. QED BY <4>1, <4>2
      <3>7. ASSUME i \notin log PROVE named # {}
        <4>1. SUFFICES ASSUME client.last \in log PROVE FALSE
          BY <2>4
        <4>2. i < client.last
          BY <3>6, <3>7, <4>1
        <4>. QED BY <1>2, <3>1, <3>3, <4>2
      <3>8. \/ i \in backlog /\ Wanted(i)
            \/ from < i /\ \E j \in named : i < j
        BY <2>4, <3>3, <3>4, <3>5, <3>6, <3>7
      <3>9. /\ \A j \in named : \A l \in backlog : Visible(l) => j <= l
            /\ \A j \in named : \A l \in named : j <= l
        BY <2>4
      <3>. QED BY <2>2, <2>3, <3>1, <3>8, <3>9, BlockPromises
    <2>9. WireIsWhole' /\ SentIsWhole'
      BY <2>8 DEF WireIsWhole, SentIsWhole, SentOn, Promised, Spans, Event
    <2>. QED BY <2>7, <2>9 DEF LossInv
  <1>5. CASE Refused
    <2>1. client'.last = None /\ wire' = <<>> /\ DOMAIN wire' = {} /\ ~sub'.open
      BY <1>1, <1>5 DEF Refused, NewClient
    <2>2. \A i \in Owed' : i \in Ids
      BY <1>1, <1>2, SeenSame DEF Owed, Liked
    <2>3. \A i \in Owed' : ~(i <= client'.last)
      BY <2>1, <2>2
    <2>. QED BY <2>1, <2>3 DEF LossInv, ReadIsTold, WireIsWhole, SentIsWhole
  <1>. QED BY <1>3, <1>4, <1>5 DEF Subscribe

\* What a client reads it has, and the frames behind it bring what they brought.
LEMMA ReceiveKeepsLoss == ASSUME StreamShape, WireInv, LossInv, Receive PROVE LossInv'
  <1>. DEFINE f == Head(wire)
  <1>1. /\ wire # <<>> /\ wire' = Tail(wire) /\ sub' = sub /\ unnoted' = unnoted /\ UNCHANGED logVars
        /\ client'.binding = client.binding /\ client'.start = client.start
        /\ client'.got = (IF f.frame = "event" THEN client.got \union {f.to} ELSE client.got)
        /\ client'.gaps = (IF f.frame = "gap" THEN client.gaps \union {f} ELSE client.gaps)
        /\ client'.last = (IF f.frame = "event" \/ client.binding = "sse" THEN f.to ELSE client.last)
    BY ReceiveSound DEF StreamShape
  <1>2. /\ 1 \in DOMAIN wire /\ f = wire[1] /\ f.to \in Ids /\ f.frame \in {"event", "gap"}
        /\ \A k \in DOMAIN wire' : /\ k \in Nat /\ k >= 1 /\ k + 1 \in DOMAIN wire
                                   /\ wire'[k] = wire[k + 1]
        /\ \A k \in DOMAIN wire : k # 1 => k - 1 \in DOMAIN wire' /\ wire'[k - 1] = wire[k]
    BY <1>1, FirstOff DEF StreamShape
  <1>3. DOMAIN wire \subseteq Nat
    BY DEF StreamShape, StreamTypeOK
  <1>. HIDE DEF f
  <1>4. Owed' = Owed
    BY <1>1, SeenSame DEF Owed, Excused
  <1>5. Owed \subseteq Ids
    BY DEF Owed, Liked, StreamShape, StreamTypeOK, LogTypeOK
  <1>6. /\ Told \subseteq Told'
        /\ \A i \in Ids : f = Event(i) \/ Spans(f, i) => i \in Told'
        /\ f.frame = "event" \/ client.binding = "sse" => f.to \in Told'
    <2>1. client.got \subseteq client'.got /\ client.gaps \subseteq client'.gaps
      BY <1>1
    <2>2. NamedOverSse \subseteq NamedOverSse'
      BY <1>1, <2>1 DEF NamedOverSse
    <2>3. \A i : Covered(i) => Covered(i)'
      BY <2>1 DEF Covered
    <2>4. Told \subseteq Told'
      BY <2>1, <2>2, <2>3 DEF Told
    <2>5. ASSUME NEW i \in Ids, f = Event(i) PROVE i \in Told'
      <3>1. f.frame = "event" /\ f.to = i
        BY <2>5 DEF Event
      <3>. QED BY <1>1, <3>1 DEF Told
    <2>6. ASSUME NEW i \in Ids, Spans(f, i) PROVE i \in Told'
      <3>1. f \in client'.gaps /\ f.from < i /\ i < f.to
        BY <1>1, <2>6 DEF Spans
      <3>2. Covered(i)'
        BY <3>1 DEF Covered
      <3>. QED BY <3>2 DEF Told
    <2>7. CASE f.frame = "event"
      BY <1>1, <1>2, <2>4, <2>5, <2>6, <2>7 DEF Told
    <2>8. CASE f.frame = "gap"
      <3>1. client.binding = "sse" => f.to \in NamedOverSse'
        BY <1>1, <2>8 DEF NamedOverSse
      <3>2. client.binding = "sse" => f.to \in Told'
        BY <1>2, <3>1 DEF Told
      <3>3. f.frame # "event"
        BY <2>8
      <3>. QED BY <2>4, <2>5, <2>6, <3>2, <3>3
    <2>. QED BY <1>2, <2>7, <2>8
  <1>7. ReadIsTold'
    <2>1. SUFFICES ASSUME NEW i \in Owed, i <= client'.last, i \notin Told' PROVE FALSE
      BY <1>4 DEF ReadIsTold
    <2>2. i \in Ids /\ i \notin Told /\ ~(i <= client.last)
      BY <1>5, <1>6, <2>1 DEF LossInv, ReadIsTold
    <2>3. i <= f.to /\ (f.frame = "event" \/ client.binding = "sse")
      BY <1>1, <2>1, <2>2
    <2>4. i # f.to
      BY <1>6, <2>1, <2>3
    <2>5. i < wire[1].to
      BY <1>2, <2>2, <2>3, <2>4
    <2>6. Promised(wire, 1, i)
      BY <1>2, <2>1, <2>2, <2>5 DEF LossInv, WireIsWhole
    <2>7. Spans(wire[1], i)
      <3>1. \A m \in DOMAIN wire : m >= 1 /\ m \in Nat
        BY DEF StreamShape, StreamTypeOK
      <3>2. \A m \in DOMAIN wire : ~(m < 1) /\ (m <= 1 => m = 1)
        BY <3>1
      <3>. QED BY <2>6, <3>2 DEF Promised
    <2>. QED BY <1>2, <1>6, <2>1, <2>2, <2>7
  <1>8. ASSUME NEW i \in Owed, i \notin Told', NEW m \in DOMAIN wire, wire[m] = Event(i) \/ Spans(wire[m], i)
        PROVE  m # 1 /\ m - 1 \in DOMAIN wire' /\ wire'[m - 1] = wire[m]
    <2>1. m # 1
      BY <1>2, <1>5, <1>6, <1>8
    <2>. QED BY <1>2, <2>1
  <1>9. WireIsWhole'
    <2>1. SUFFICES ASSUME NEW i \in Owed, i \notin Told', NEW k \in DOMAIN wire', i < wire'[k].to
                   PROVE  Promised(wire', k, i)
      BY <1>4 DEF WireIsWhole, Promised, Event, Spans
    <2>2. k \in Nat /\ k + 1 \in DOMAIN wire /\ wire'[k] = wire[k + 1] /\ i \notin Told
      BY <1>2, <1>6, <2>1
    <2>3. Promised(wire, k + 1, i)
      BY <2>1, <2>2 DEF LossInv, WireIsWhole
    <2>4. CASE \E m \in DOMAIN wire : m < k + 1 /\ wire[m] = Event(i)
      <3>1. PICK m \in DOMAIN wire : m < k + 1 /\ wire[m] = Event(i)
        BY <2>4
      <3>2. m - 1 \in DOMAIN wire' /\ wire'[m - 1] = Event(i)
        BY <1>8, <2>1, <3>1
      <3>3. m - 1 < k
        BY <1>3, <2>2, <3>1
      <3>. QED BY <3>2, <3>3 DEF Promised
    <2>5. CASE \E m \in DOMAIN wire : m <= k + 1 /\ Spans(wire[m], i)
      <3>1. PICK m \in DOMAIN wire : m <= k + 1 /\ Spans(wire[m], i)
        BY <2>5
      <3>2. m - 1 \in DOMAIN wire' /\ Spans(wire'[m - 1], i)
        BY <1>8, <2>1, <3>1
      <3>3. m - 1 <= k
        BY <1>3, <2>2, <3>1
      <3>. QED BY <3>2, <3>3 DEF Promised
    <2>. QED BY <2>3, <2>4, <2>5 DEF Promised
  <1>10. SentIsWhole'
    <2>1. SUFFICES ASSUME sub.open, NEW i \in Owed, i \notin Told', i <= sub.considered
                   PROVE  SentOn(wire', i) \/ (sub.pending /\ sub.pendingFrom < i)
      BY <1>1, <1>4 DEF SentIsWhole, SentOn, Event, Spans
    <2>2. SentOn(wire, i) \/ (sub.pending /\ sub.pendingFrom < i)
      BY <1>6, <2>1 DEF LossInv, SentIsWhole
    <2>3. SentOn(wire, i) => SentOn(wire', i)
      BY <1>8, <2>1 DEF SentOn
    <2>. QED BY <2>2, <2>3
  <1>. QED BY <1>7, <1>9, <1>10 DEF LossInv

\* A drain sends what is owed of the log's tail; what was evicted from it the watermark
\* shows, or the sweep that took it is not noted yet, and a marker reaches over it.
LEMMA DrainKeepsLoss == ASSUME StreamShape, WireInv, LossInv, Drain PROVE LossInv'
  <1>1. /\ sub.open /\ UNCHANGED logVars /\ client' = client
        /\ unnoted' = unnoted \union Unseen(sub.considered)
    BY DEF Drain
  <1>2. /\ log \subseteq appended /\ appended \subseteq Ids /\ wire \in Seq(Frames)
        /\ watermark \in Ids \union {None} /\ sweeping \in Ids \union {None}
        /\ sub.considered \in Ids \union {None} /\ sub.pendingFrom \in Ids \union {None}
    BY DEF StreamShape, StreamTypeOK, LogTypeOK, Subs
  <1>3. /\ Unsent \in SUBSET Ids /\ Marked \in SUBSET Unsent /\ MarkFrom \in Ids \union {None}
        /\ \A i \in Marked : Visible(i) /\ \A j \in Unsent : Visible(j) => i <= j
        /\ sub'.considered \in Unsent \union {sub.considered}
        /\ (sub'.pending <=> MarksLoss /\ Marked = {})
        /\ MarksLoss /\ Marked = {} => sub'.pendingFrom = MarkFrom
        /\ \E w \in Seq(Frames) : wire' = wire \o w /\ Block(w, Unsent, MarkFrom, Marked)
    BY DrainSound DEF StreamShape
  <1>4. PICK w \in Seq(Frames) : wire' = wire \o w /\ Block(w, Unsent, MarkFrom, Marked)
    BY <1>3
  <1>5. \A i \in log : sub.considered < i => i \in Unsent
    BY DEF Unsent, After
  <1>6. \A i \in Unsent : sub.considered < i /\ i \in log
    BY DEF Unsent, After
  <1>7. MarkFrom <= sub.considered
    BY DEF MarkFrom, LastKnownPoint, WireInv, PointsReadable
  <1>8. sub.pending => MarkFrom = sub.pendingFrom /\ MarksLoss
    BY DEF MarkFrom, MarksLoss
  <1>9. Told' = Told
    BY <1>1 DEF Told, NamedOverSse, Covered
  <1>10. \A i \in Owed' : /\ i \in Owed /\ i \in Liked /\ i \in appended /\ i \notin stranded /\ i \in Ids
                          /\ i \notin Unseen(sub.considered)
    <2>1. Liked' = Liked /\ late' = late /\ stranded' = stranded
      BY <1>1, SeenSame
    <2>2. \A i \in Owed' : i \in Liked /\ i \notin Excused /\ client.start < i /\ i \notin unnoted' /\ i \notin stranded
      BY <1>1, <2>1 DEF Owed, Excused
    <2>. QED BY <1>1, <1>2, <2>2 DEF Owed, Liked
  <1>11. ReadIsTold'
    BY <1>1, <1>9, <1>10 DEF LossInv, ReadIsTold
  <1>12. /\ \A k \in DOMAIN wire : k \in DOMAIN wire' /\ wire'[k] = wire[k]
         /\ \A k \in DOMAIN w : Len(wire) + k \in DOMAIN wire' /\ wire'[Len(wire) + k] = w[k]
         /\ \A k \in DOMAIN wire' : k \in DOMAIN wire \/ k - Len(wire) \in DOMAIN w
         /\ Len(wire) \in Nat /\ DOMAIN wire = 1..Len(wire) /\ DOMAIN w \subseteq Nat /\ DOMAIN wire' \subseteq Nat
         /\ \A k \in DOMAIN w : k >= 1
    BY <1>2, <1>4
  \* What an id owed and not sent before comes to: it is in the tail, or it is marked.
  <1>13. ASSUME NEW i \in Owed', i \notin Told', i <= sub.considered => ~SentOn(wire, i)
         PROVE  \/ i \in Unsent /\ Wanted(i)
                \/ MarksLoss /\ MarkFrom < i /\ \A j \in Unsent : i < j
    <2>1. i \in Owed /\ i \notin Told /\ i \in Liked /\ i \in appended /\ i \notin stranded /\ i \in Ids
      BY <1>9, <1>10, <1>13
    <2>2. CASE i <= sub.considered
      <3>1. sub.pending /\ sub.pendingFrom < i
        BY <1>1, <1>13, <2>1, <2>2 DEF LossInv, SentIsWhole
      <3>2. \A j \in Unsent : i < j
        BY <1>2, <1>3, <1>6, <2>1, <2>2
      <3>. QED BY <1>8, <3>1, <3>2
    <2>3. CASE ~(i <= sub.considered)
      <3>1. sub.considered < i
        BY <1>2, <2>1, <2>3
      <3>2. CASE i \in log
        BY <1>5, <2>1, <3>1, <3>2 DEF Liked
      <3>3. CASE i \notin log
        <4>1. i \notin Unseen(sub.considered)
          BY <1>10, <1>13
        <4>2. i <= watermark \/ i <= sweeping
          BY <2>1, <3>3 DEF StreamShape, LogNoted
        <4>3. i <= watermark
          <5>1. ~(watermark < i /\ i <= sweeping)
            BY <2>1, <3>1, <3>3, <4>1 DEF Unseen
          <5>. QED BY <1>2, <2>1, <4>2, <5>1
        <4>4. MarksLoss
          <5>1. sub.considered < watermark
            BY <1>2, <2>1, <3>1, <4>3
          <5>. QED BY <5>1 DEF MarksLoss, EvictedAfter
        <4>5. \A j \in log : i < j
          <5>1. \A j \in log : ~(j < i) /\ j # i
            BY <2>1, <3>3 DEF StreamShape, LogInv, StrandedComplete
          <5>2. \A j \in log : j \in Int /\ i \in Int
            BY <1>2, <2>1
          <5>. QED BY <5>1, <5>2
        <4>6. MarkFrom < i
          BY <1>2, <1>3, <1>7, <2>1, <3>1
        <4>. QED BY <1>6, <4>4, <4>5, <4>6
      <3>. QED BY <3>2, <3>3
    <2>. QED BY <2>2, <2>3
  <1>14. /\ \A j \in Marked : \A l \in Unsent : Visible(l) => j <= l
         /\ \A j \in Marked : \A l \in Marked : j <= l
    BY <1>3
  <1>15. ASSUME NEW i \in Owed', i \notin Told', i <= sub.considered => ~SentOn(wire, i),
                (i \in Unsent /\ Wanted(i)) \/ Marked # {}
         PROVE  SentOn(w, i) /\ \A k \in DOMAIN w : i < w[k].to => Promised(w, k, i)
    <2>1. \/ i \in Unsent /\ Wanted(i)
          \/ MarkFrom < i /\ \E j \in Marked : i < j
      BY <1>3, <1>13, <1>15
    <2>2. i \in Ids /\ Marked \in SUBSET Ids
      BY <1>3, <1>10
    <2>. QED BY <1>3, <1>4, <1>14, <2>1, <2>2, BlockPromises
  <1>16. \A i : SentOn(wire, i) \/ SentOn(w, i) => SentOn(wire', i)
    BY <1>12 DEF SentOn
  <1>17. SentIsWhole'
    <2>1. SUFFICES ASSUME NEW i \in Owed', i \notin Told', i <= sub'.considered
                   PROVE  SentOn(wire', i) \/ (sub'.pending /\ sub'.pendingFrom < i)
      BY DEF SentIsWhole, SentOn, Event, Spans
    <2>2. CASE i <= sub.considered => ~SentOn(wire, i)
      <3>1. CASE (i \in Unsent /\ Wanted(i)) \/ Marked # {}
        BY <1>15, <1>16, <2>1, <2>2, <3>1
      <3>2. CASE ~((i \in Unsent /\ Wanted(i)) \/ Marked # {})
        BY <1>3, <1>13, <2>1, <2>2, <3>2
      <3>. QED BY <3>1, <3>2
    <2>. QED BY <1>16, <2>2
  <1>18. WireIsWhole'
    <2>1. SUFFICES ASSUME NEW i \in Owed', i \notin Told', NEW k \in DOMAIN wire', i < wire'[k].to
                   PROVE  Promised(wire', k, i)
      BY DEF WireIsWhole, Promised, Event, Spans
    <2>2. i \in Owed /\ i \notin Told
      BY <1>9, <1>10, <2>1
    <2>3. CASE k \in DOMAIN wire
      <3>1. Promised(wire, k, i)
        BY <1>12, <2>1, <2>2, <2>3 DEF LossInv, WireIsWhole
      <3>. QED BY <1>12, <3>1 DEF Promised
    <2>4. CASE k \notin DOMAIN wire
      <3>. DEFINE l == k - Len(wire)
      <3>1. l \in DOMAIN w /\ k = Len(wire) + l
        BY <1>12, <2>1, <2>4
      <3>. HIDE DEF l
      <3>2. wire'[k] = w[l] /\ l >= 1 /\ l \in Nat
        BY <1>12, <3>1
      <3>3. CASE SentOn(wire, i)
        <4>1. PICK m \in DOMAIN wire : wire[m] = Event(i) \/ Spans(wire[m], i)
          BY <3>3 DEF SentOn
        <4>2. m \in DOMAIN wire' /\ wire'[m] = wire[m] /\ m < k /\ m <= k
          BY <1>12, <3>1, <3>2
        <4>. QED BY <4>1, <4>2 DEF Promised
      <3>4. CASE ~SentOn(wire, i)
        <4>1. (i \in Unsent /\ Wanted(i)) \/ Marked # {}
          <5>1. w[l].to \in Unsent /\ (Visible(w[l].to) \/ Marked # {})
            BY <1>3, <1>4, <3>1 DEF Block, Wanted, Visible
          <5>2. MarksLoss /\ Visible(w[l].to) => Marked # {}
            BY <5>1, DrainSound DEF StreamShape
          <5>. QED BY <1>13, <2>1, <3>4, <5>1, <5>2
        <4>2. Promised(w, l, i)
          BY <1>15, <2>1, <3>1, <3>2, <3>4, <4>1
        <4>3. \A m \in DOMAIN w : (m < l => Len(wire) + m < k) /\ (m <= l => Len(wire) + m <= k)
          BY <1>12, <3>1, <3>2
        <4>. QED BY <1>12, <4>2, <4>3 DEF Promised
      <3>. QED BY <3>3, <3>4
    <2>. QED BY <2>3, <2>4
  <1>. QED BY <1>11, <1>17, <1>18 DEF LossInv

\* The stream loses nothing silently by itself, over every reconnection, drain, marker and
\* resume point: what is missing below the client's point came in behind a higher id, was
\* evicted from above a retained one or by a sweep that was not noted yet, or was named by
\* a marker from which the client itself resumed.
THEOREM StreamLosesKnowingly == StreamSpec => []LossesAreKnown
  <1>1. StreamInit => StreamShape /\ WireInv /\ LossInv
    BY StreamShapeStart, WireStart, LossStart
  <1>2. StreamShape /\ WireInv /\ LossInv /\ [StreamNext]_hubVars => StreamShape' /\ WireInv' /\ LossInv'
    <2>1. SUFFICES ASSUME StreamShape, WireInv, LossInv, StreamNext \/ UNCHANGED hubVars PROVE LossInv'
      BY StreamShapeKept, WireInductive
    <2>. QED BY <2>1, StepKinds, QuietKeepsLoss, SubscribeKeepsLoss, DrainKeepsLoss, ReceiveKeepsLoss DEF StreamShape
  <1>3. StreamShape /\ WireInv /\ LossInv => LossesAreKnown
    <2>1. SUFFICES ASSUME StreamShape, LossInv, NEW i \in Missing, i \notin Excused, i \notin NamedOverSse
                   PROVE  FALSE
      BY DEF LossesAreKnown, Excused
    <2>2. /\ i \in appended /\ Wanted(i) /\ client.start < i /\ i <= client.last
          /\ i \notin client.got /\ ~Covered(i)
      BY <2>1 DEF Missing
    <2>3. i \in Owed
      BY <2>1, <2>2 DEF Owed, Liked
    <2>4. i \in Told
      BY <2>1, <2>2, <2>3 DEF LossInv, ReadIsTold
    <2>. QED BY <2>1, <2>2, <2>4 DEF Told
  <1>. QED BY <1>1, <1>2, <1>3, PTL DEF StreamSpec

-----------------------------------------------------------------------------
(* The endpoint's row, and the copies of it that a pass and an enable hold *)

USE WebhookAssumption

RowSound(row) ==
    /\ row \in States
    /\ row.attempt < MaxAttempts
    /\ row.attempt > 0 => row.delivery # None
    /\ row.status = "active" => row.failures < MaxFailures
    /\ row.status = "disabled" => row.failures = MaxFailures /\ row.attempt = 0

RowsInv ==
    /\ state # NoState => RowSound(state)
    /\ pass.at \in {"post", "write"} => RowSound(pass.row)
    /\ pass.at = "post" => /\ pass.row.status = "active" /\ pass.delivery # None
                           /\ pass.event \in appended /\ pass.row.cursor < pass.event
    /\ pass.at = "visit" => pass.event = None
    /\ op.kind = "enable" => RowSound(op.row)

ShapeInv == TypeOK /\ LogInv /\ RowsInv

\* There is a row or there is none.
LEMMA RowOrNone == \A row : RowSound(row) => row # NoState
  BY DEF RowSound, States, NoState

\* A row of an endpoint whose secret is installed before anything is delivered.
LEMMA FreshSound == RowSound(Fresh) /\ Fresh.cursor = None /\ Fresh.attempt = 0 /\ Fresh.failures = 0
  BY DEF RowSound, States, Fresh

\* Progress is written back over the secrets there are, and is otherwise what was given.
LEMMA PutSound ==
    ASSUME state \in States \union {NoState}, NEW row, RowSound(row)
    PROVE  /\ RowSound(Put(row)) /\ Put(row).cursor = row.cursor
           /\ Put(row).failures = row.failures /\ Put(row).attempt = row.attempt
           /\ Put(row).status = row.status
  <1>1. (IF state = NoState THEN None ELSE state.secret) \in 0..Secrets
        /\ (IF state = NoState THEN None ELSE state.prior) \in 0..Secrets
    BY DEF States
  <1>. QED BY <1>1 DEF RowSound, States, Put

\* Secrets do not touch the progress.
LEMMA RotatedSound ==
    ASSUME NEW row, RowSound(row), NEW a \in 0..Secrets, NEW b \in 0..Secrets
    PROVE  LET r == [row EXCEPT !.secret = a, !.prior = b]
           IN RowSound(r) /\ r.cursor = row.cursor /\ r.failures = row.failures
              /\ r.attempt = row.attempt /\ r.status = row.status
  BY DEF RowSound, States

\* Progress of the right types makes a row.
LEMMA RowType ==
    ASSUME NEW row \in States, NEW s \in {"active", "disabled"}, NEW f \in 0..MaxFailures,
           NEW c \in Ids \union {None}, NEW a \in 0..MaxAttempts, NEW d \in Ids \union {None},
           NEW w \in BOOLEAN
    PROVE  /\ [row EXCEPT !.status = s, !.failures = f, !.attempt = a, !.delivery = d,
                          !.waits = w] \in States
           /\ [row EXCEPT !.failures = f, !.cursor = c, !.attempt = a, !.delivery = d,
                          !.waits = w] \in States
           /\ [row EXCEPT !.attempt = a, !.delivery = d, !.failures = f, !.status = s,
                          !.waits = w] \in States
           /\ [row EXCEPT !.cursor = c, !.attempt = a, !.delivery = d, !.waits = w] \in States
  BY DEF States

\* No progress yet is progress of the right type.
LEMMA Zeros == 0 \in 0..MaxFailures /\ 0 \in 0..MaxAttempts /\ None \in Ids \union {None}
  OBVIOUS

\* What enabling makes of a row.
LEMMA EnabledSound ==
    ASSUME NEW row, RowSound(row)
    PROVE  LET r == [row EXCEPT !.status = "active", !.failures = 0, !.attempt = 0,
                                !.delivery = None, !.waits = FALSE]
           IN RowSound(r) /\ r.cursor = row.cursor /\ r.failures = 0 /\ r.attempt = 0
              /\ r.status = "active"
  <1>. DEFINE r == [row EXCEPT !.status = "active", !.failures = 0, !.attempt = 0,
                               !.delivery = None, !.waits = FALSE]
  <1>1. row \in States
    BY DEF RowSound
  <1>2. r.cursor = row.cursor /\ r.failures = 0 /\ r.attempt = 0 /\ r.status = "active"
    BY <1>1 DEF States
  <1>3. r \in States
    BY <1>1, Zeros, RowType
  <1>. QED BY <1>2, <1>3 DEF RowSound

\* What going over a tail that is not the endpoint's makes of its row.
LEMMA SkippedSound ==
    ASSUME NEW row, RowSound(row), NEW c \in Ids
    PROVE  LET r == [row EXCEPT !.cursor = c, !.attempt = 0, !.delivery = None, !.waits = FALSE]
           IN RowSound(r) /\ r.cursor = c /\ r.failures = row.failures /\ r.attempt = 0
  <1>. DEFINE r == [row EXCEPT !.cursor = c, !.attempt = 0, !.delivery = None, !.waits = FALSE]
  <1>1. row \in States
    BY DEF RowSound
  <1>2. r.cursor = c /\ r.failures = row.failures /\ r.attempt = 0 /\ r.status = row.status
    BY <1>1 DEF States
  <1>3. r \in States
    BY <1>1, Zeros, RowType
  <1>. QED BY <1>2, <1>3 DEF RowSound

\* What a success makes of the row read before it.
LEMMA SucceededSound ==
    ASSUME RowSound(pass.row), pass.row.status = "active", pass.event \in Ids
    PROVE  /\ RowSound(Succeeded) /\ Succeeded.cursor = pass.event
           /\ Succeeded.failures = 0 /\ Succeeded.attempt = 0
  <1>1. pass.row \in States
    BY DEF RowSound
  <1>2. /\ Succeeded.cursor = pass.event /\ Succeeded.failures = 0 /\ Succeeded.attempt = 0
        /\ Succeeded.status = "active"
    BY <1>1 DEF States, Succeeded
  <1>3. Succeeded \in States
    BY <1>1, Zeros, RowType DEF Succeeded
  <1>. QED BY <1>2, <1>3 DEF RowSound

\* What a failure makes of it: one attempt more, or one exhausted delivery more.
LEMMA FailedSound ==
    ASSUME RowSound(pass.row), pass.row.status = "active", pass.delivery \in Ids
    PROVE  /\ RowSound(Failed) /\ Failed.cursor = pass.row.cursor
           /\ \/ /\ Failed.failures = pass.row.failures
                 /\ Failed.attempt = pass.row.attempt + 1
              \/ /\ Failed.failures = pass.row.failures + 1 /\ Failed.attempt = 0
                 /\ pass.row.attempt + 1 = MaxAttempts
  <1>. DEFINE r == pass.row
              a == IF Exhausted THEN 0 ELSE r.attempt + 1
              d == IF Exhausted THEN None ELSE pass.delivery
              f == IF Exhausted THEN r.failures + 1 ELSE r.failures
              s == IF Disables THEN "disabled" ELSE r.status
  <1>1. /\ r \in States /\ r.attempt < MaxAttempts /\ r.failures < MaxFailures
        /\ r.attempt \in 0..MaxAttempts /\ r.failures \in 0..MaxFailures
        /\ r.attempt > 0 => r.delivery # None
    BY DEF RowSound, States
  <1>2. /\ Exhausted <=> r.attempt + 1 = MaxAttempts
        /\ Disables <=> Exhausted /\ r.failures + 1 = MaxFailures
    BY <1>1 DEF Exhausted, Disables
  <1>3. /\ a \in 0..MaxAttempts /\ d \in Ids \union {None} /\ f \in 0..MaxFailures
        /\ s \in {"active", "disabled"}
    BY <1>1, <1>2
  <1>4. Failed = [r EXCEPT !.attempt = a, !.delivery = d, !.failures = f, !.status = s, !.waits = TRUE]
    BY DEF Failed
  <1>5. /\ a < MaxAttempts /\ (a > 0 => d # None) /\ (s = "active" => f < MaxFailures)
        /\ (s = "disabled" => f = MaxFailures /\ a = 0)
        /\ \/ f = r.failures /\ a = r.attempt + 1
           \/ f = r.failures + 1 /\ a = 0 /\ r.attempt + 1 = MaxAttempts
    BY <1>1, <1>2
  <1>. HIDE DEF r, a, d, f, s
  <1>6. Failed \in States
    BY <1>1, <1>3, <1>4, RowType
  <1>7. /\ Failed.attempt = a /\ Failed.delivery = d /\ Failed.failures = f /\ Failed.status = s
        /\ Failed.cursor = r.cursor
    BY <1>1, <1>4 DEF States
  <1>8. RowSound(Failed)
    BY <1>5, <1>6, <1>7 DEF RowSound
  <1>. QED BY <1>5, <1>7, <1>8 DEF r

\* The next event of the endpoint's is one it is owed, and none before it is.
LEMMA HeadIsFirst ==
    ASSUME LogTypeOK, NEW c \in Ids \union {None}, Deliverable(c) # {}
    PROVE  /\ QueueHead(c) \in log /\ QueueHead(c) \in Ids /\ Wanted(QueueHead(c)) /\ c < QueueHead(c)
           /\ \A i \in log : Wanted(i) /\ c < i => QueueHead(c) <= i
  <1>1. Deliverable(c) \in SUBSET (Ids \union {None})
    BY DEF Deliverable, Pending, After, LogTypeOK
  <1>2. Min(Deliverable(c)) \in Deliverable(c) /\ \A i \in Deliverable(c) : Min(Deliverable(c)) <= i
    BY <1>1, IdSets
  <1>. QED BY <1>2 DEF QueueHead, Deliverable, Pending, After, LogTypeOK

\* The tail of what is owed.
LEMMA TailIsLast ==
    ASSUME LogTypeOK, NEW c \in Ids \union {None}, Pending(c) # {}
    PROVE  /\ Max(Pending(c)) \in log /\ Max(Pending(c)) \in Ids /\ c < Max(Pending(c))
           /\ \A i \in log : c < i => i <= Max(Pending(c))
  <1>1. Pending(c) \in SUBSET (Ids \union {None})
    BY DEF Pending, After, LogTypeOK
  <1>2. Max(Pending(c)) \in Pending(c) /\ \A i \in Pending(c) : i <= Max(Pending(c))
    BY <1>1, IdSets
  <1>. QED BY <1>2 DEF Pending, After, LogTypeOK

\* What a delivery goes past with a report, or with nothing it could tell, is gone.
LEMMA SkippedGone ==
    ASSUME LogTypeOK, NEW c \in Ids \union {None}
    PROVE  Skipped(c) \subseteq appended \ log
  <1>1. After(c) \in SUBSET (Ids \union {None})
    BY DEF After, LogTypeOK
  <1>2. After(c) # {} => \A i \in After(c) : Min(After(c)) <= i
    BY <1>1, IdSets
  <1>3. CASE c = None
    BY <1>3 DEF Skipped, Gapped, AgedOut
  <1>4. CASE c # None /\ Gapped(c)
    <2>1. Skipped(c) = {i \in appended : c < i /\ i < Min(After(c))}
      BY <1>4 DEF Skipped
    <2>2. ASSUME NEW i \in Skipped(c) PROVE i \notin log
      <3>1. SUFFICES ASSUME i \in log PROVE FALSE
        OBVIOUS
      <3>2. i \in After(c) /\ i < Min(After(c)) /\ After(c) # {}
        BY <2>1, <3>1 DEF After
      <3>3. Min(After(c)) \in Ids \union {None} /\ i \in Ids
        BY <1>1, <3>2, IdSets DEF LogTypeOK
      <3>. QED BY <1>2, <3>2, <3>3
    <2>. QED BY <2>1, <2>2
  <1>5. CASE c # None /\ ~Gapped(c)
    BY <1>5 DEF Skipped
  <1>. QED BY <1>3, <1>4, <1>5

\* What the log has lost beyond a cursor that resolves is among those, or was evicted
\* from above an id that is still there.
LEMMA LostIsSkipped ==
    ASSUME LogInv, NEW c \in Ids \union {None}, Resolves(c), NEW i \in appended \ log, c < i
    PROVE  i \in Skipped(c) \union stranded
  <1>. USE DEF LogInv, LogTypeOK
  <1>1. CASE c = None
    BY <1>1 DEF Skipped, Gapped, AgedOut
  <1>2. CASE c # None /\ Gapped(c)
    <2>1. After(c) \in SUBSET (Ids \union {None}) /\ After(c) # {}
      BY <1>2 DEF Gapped, After
    <2>2. Min(After(c)) \in log /\ Min(After(c)) \in Ids
      BY <2>1, IdSets DEF After
    <2>3. i < Min(After(c)) \/ Min(After(c)) < i
      BY <2>2
    <2>4. CASE Min(After(c)) < i
      BY <2>2, <2>4 DEF StrandedComplete
    <2>5. CASE i < Min(After(c))
      BY <1>2, <2>5 DEF Skipped
    <2>. QED BY <2>3, <2>4, <2>5
  <1>3. CASE c # None /\ ~Gapped(c)
    BY <1>3 DEF Resolves, StrandedComplete
  <1>. QED BY <1>1, <1>2, <1>3

-----------------------------------------------------------------------------
(* Type correctness                                                        *)

Passes == [at : {"idle", "visit", "post", "write", "prune", "delete"}, listed : BOOLEAN,
           row : States \union {NoState}, event : Ids \union {None},
           delivery : Ids \union {None}]
Ops == [kind : {"none", "rotate", "enable"}, row : States \union {NoState},
        secret : 0..Secrets, prior : 0..Secrets]

\* Nothing in hand.
LEMMA IdleShapes ==
    ASSUME pass \in Passes
    PROVE  /\ IdlePass \in Passes /\ IdlePass.at = "idle" /\ Pruning \in Passes /\ Pruning.at = "prune"
           /\ IdleOp \in Ops /\ IdleOp.kind = "none"
  <1>1. IdlePass \in Passes /\ IdlePass.at = "idle"
    BY DEF Passes, IdlePass
  <1>2. Pruning \in Passes /\ Pruning.at = "prune"
    BY <1>1 DEF Passes, Pruning
  <1>3. IdleOp \in Ops /\ IdleOp.kind = "none"
    BY DEF Ops, IdleOp
  <1>. QED BY <1>1, <1>2, <1>3

\* The log's steps leave the endpoint alone.
LEMMA LogKeepsShape ==
    ASSUME ShapeInv, LogMoves \/ UNCHANGED logVars, UNCHANGED <<endpoint, state, processed, excused, failed>>,
           used' \in [secrets : 0..Secrets, enables : 0..MaxEnables, faults : 0..MaxFaults],
           (pass' = pass /\ op' = op) \/ (pass' = IdlePass /\ op' = IdleOp)
    PROVE  ShapeInv'
  <1>1. LogInv' /\ appended \subseteq appended'
    BY LogInductive, LogGrows DEF ShapeInv
  <1>2. pass' \in Passes /\ op' \in Ops
    BY IdleShapes DEF ShapeInv, TypeOK, Passes, Ops
  <1>3. TypeOK'
    BY <1>1, <1>2 DEF ShapeInv, TypeOK, LogInv, Passes, Ops
  <1>4. RowsInv'
    <2>1. state' # NoState => RowSound(state')
      BY DEF ShapeInv, RowsInv
    <2>2. CASE pass' = pass /\ op' = op
      BY <1>1, <2>1, <2>2 DEF ShapeInv, RowsInv
    <2>3. CASE pass' = IdlePass /\ op' = IdleOp
      BY <2>1, <2>3, IdleShapes DEF ShapeInv, TypeOK, RowsInv, Passes
    <2>. QED BY <2>2, <2>3
  <1>. QED BY <1>1, <1>3, <1>4 DEF ShapeInv

\* What a step of the endpoint's has to make of its row and of the copies in hand.
RowFits == state' \in States \union {NoState} /\ (state' # NoState => RowSound(state'))
PassFits ==
    /\ pass' \in Passes
    /\ pass'.at \in {"post", "write"} => RowSound(pass'.row)
    /\ pass'.at = "post" => /\ pass'.row.status = "active" /\ pass'.delivery # None
                            /\ pass'.event \in appended /\ pass'.row.cursor < pass'.event
    /\ pass'.at = "visit" => pass'.event = None
OpFits == op' \in Ops /\ (op'.kind = "enable" => RowSound(op'.row))
CountsFit ==
    /\ endpoint' \in {"absent", "live", "deleted"}
    /\ used' \in [secrets : 0..Secrets, enables : 0..MaxEnables, faults : 0..MaxFaults]
    /\ processed' \subseteq [event : Ids, delivery : Ids]
    /\ excused' \subseteq appended
    /\ failed' \in 0..(MaxAttempts * MaxFailures)

LEMMA HookKeepsShape ==
    ASSUME ShapeInv, UNCHANGED logVars, RowFits, PassFits, OpFits, CountsFit
    PROVE  ShapeInv'
  <1>1. LogInv' /\ appended' = appended
    BY LogInductive DEF ShapeInv, logVars, logHistory
  <1>2. TypeOK'
    BY <1>1 DEF TypeOK, LogInv, Passes, Ops, RowFits, PassFits, OpFits, CountsFit
  <1>3. RowsInv'
    BY <1>1 DEF RowsInv, RowFits, PassFits, OpFits
  <1>. QED BY <1>1, <1>2, <1>3 DEF ShapeInv

\* What is left alone fits.
LEMMA LeftAlone ==
    ASSUME ShapeInv
    PROVE  /\ UNCHANGED state => RowFits
           /\ UNCHANGED pass => PassFits
           /\ UNCHANGED op => OpFits
           /\ UNCHANGED <<endpoint, used, processed, excused, failed>> => CountsFit
           /\ pass' \in {IdlePass, Pruning} => PassFits
           /\ op' = IdleOp => OpFits
           /\ pass \in Passes /\ op \in Ops /\ state \in States \union {NoState}
  <1>1. pass \in Passes /\ op \in Ops /\ state \in States \union {NoState}
    BY DEF ShapeInv, TypeOK, Passes, Ops
  <1>2. UNCHANGED state => RowFits
    BY <1>1 DEF RowFits, ShapeInv, RowsInv
  <1>3. UNCHANGED pass => PassFits
    BY <1>1 DEF PassFits, ShapeInv, RowsInv
  <1>4. UNCHANGED op => OpFits
    BY <1>1 DEF OpFits, ShapeInv, RowsInv
  <1>5. UNCHANGED <<endpoint, used, processed, excused, failed>> => CountsFit
    BY DEF CountsFit, ShapeInv, TypeOK
  <1>6. pass' \in {IdlePass, Pruning} => PassFits
    BY <1>1, IdleShapes DEF PassFits
  <1>7. op' = IdleOp => OpFits
    BY <1>1, IdleShapes DEF OpFits
  <1>. QED BY <1>1, <1>2, <1>3, <1>4, <1>5, <1>6, <1>7

\* The number of failures is bounded by the budget of a disabled endpoint.
LEMMA Budget == MaxAttempts * MaxFailures \in Nat
  OBVIOUS

\* The pass's steps.
LEMMA PassKeepsShape ==
    ASSUME ShapeInv, UNCHANGED logVars, PassStep \/ WriteFails
    PROVE  ShapeInv'
  <1>1. CASE Lists
    <2>1. PassFits
      BY <1>1, IdleShapes, LeftAlone DEF Lists, PassFits, Passes, IdlePass
    <2>. QED BY <1>1, <2>1, LeftAlone, HookKeepsShape DEF Lists
  <1>2. CASE PassesOver \/ Prunes
    <2>1. PassFits
      <3>1. CASE pass' = [pass EXCEPT !.at = "delete"]
        BY <3>1, LeftAlone DEF PassFits, Passes
      <3>. QED BY <1>2, <3>1, LeftAlone DEF PassesOver, Prunes
    <2>. QED BY <1>2, <2>1, LeftAlone, HookKeepsShape DEF PassesOver, Prunes
  <1>3. CASE SkipsTail
    <2>. DEFINE c == Max(Pending(state.cursor))
                r == [state EXCEPT !.cursor = c, !.attempt = 0, !.delivery = None, !.waits = FALSE]
    <2>1. state \in States /\ RowSound(state) /\ state.cursor \in Ids \union {None}
      BY <1>3, LeftAlone DEF SkipsTail, Ready, ShapeInv, RowsInv, States
    <2>2. c \in Ids
      BY <1>3, <2>1, TailIsLast DEF SkipsTail, ShapeInv, LogInv
    <2>3. RowSound(r)
      BY <2>1, <2>2, SkippedSound
    <2>4. pass' = [pass EXCEPT !.at = "write", !.row = r] /\ excused' = excused \union Skipped(state.cursor)
          /\ UNCHANGED <<endpoint, state, op, used, processed, failed>>
      BY <1>3 DEF SkipsTail
    <2>. HIDE DEF r, c
    <2>5. PassFits
      BY <2>3, <2>4, LeftAlone DEF PassFits, Passes, RowSound
    <2>6. Skipped(state.cursor) \subseteq appended
      BY <2>1, SkippedGone DEF ShapeInv, LogInv
    <2>7. CountsFit
      BY <2>4, <2>6 DEF CountsFit, ShapeInv, TypeOK
    <2>. QED BY <2>4, <2>5, <2>7, LeftAlone, HookKeepsShape
  <1>4. CASE Sends
    <2>. DEFINE head == QueueHead(state.cursor)
                d == IF state.attempt = 0 THEN head ELSE state.delivery
    <2>1. state \in States /\ RowSound(state) /\ state.cursor \in Ids \union {None}
          /\ state.status = "active"
      BY <1>4, LeftAlone DEF Sends, Ready, ShapeInv, RowsInv, States
    <2>2. head \in Ids /\ head \in appended /\ state.cursor < head
      BY <1>4, <2>1, HeadIsFirst DEF Sends, ShapeInv, LogInv, LogTypeOK
    <2>3. pass' = [pass EXCEPT !.at = "post", !.row = state, !.event = head, !.delivery = d]
          /\ excused' = excused \union Skipped(state.cursor)
          /\ UNCHANGED <<endpoint, state, op, used, processed, failed>>
      BY <1>4 DEF Sends
    <2>4. d \in Ids
      BY <2>1, <2>2 DEF RowSound, States
    <2>. HIDE DEF head, d
    <2>5. PassFits
      <3>1. /\ pass'.at = "post" /\ pass'.row = state /\ pass'.event = head /\ pass'.delivery = d
            /\ pass' \in Passes
        BY <2>1, <2>2, <2>3, <2>4, LeftAlone DEF Passes
      <3>. QED BY <2>1, <2>2, <2>4, <3>1 DEF PassFits
    <2>6. Skipped(state.cursor) \subseteq appended
      BY <2>1, SkippedGone DEF ShapeInv, LogInv
    <2>7. CountsFit
      BY <2>3, <2>6 DEF CountsFit, ShapeInv, TypeOK
    <2>. QED BY <2>3, <2>5, <2>7, LeftAlone, HookKeepsShape
  <1>5. ASSUME NEW taken \in BOOLEAN, NEW ok \in BOOLEAN, Answers(taken, ok) PROVE ShapeInv'
    <2>1. /\ RowSound(pass.row) /\ pass.row.status = "active"
          /\ pass.event \in Ids /\ pass.delivery \in Ids
      BY <1>5, LeftAlone DEF Answers, ShapeInv, RowsInv, LogInv, LogTypeOK, Passes
    <2>. DEFINE r == IF ok THEN Succeeded ELSE Failed
    <2>2. RowSound(r)
      BY <2>1, SucceededSound, FailedSound
    <2>3. pass' = [pass EXCEPT !.at = "write", !.row = r] /\ UNCHANGED <<endpoint, state, op, used, excused>>
      BY <1>5 DEF Answers
    <2>. HIDE DEF r
    <2>4. PassFits
      BY <2>2, <2>3, LeftAlone DEF PassFits, Passes, RowSound
    <2>5. processed' \subseteq [event : Ids, delivery : Ids]
      BY <1>5, <2>1 DEF Answers, ShapeInv, TypeOK
    <2>6. failed' \in 0..(MaxAttempts * MaxFailures)
      <3>. DEFINE b == MaxAttempts * MaxFailures
      <3>1. b \in Nat /\ failed \in 0..b /\ (failed' = failed \/ failed' = Min({failed + 1, b}))
        BY <1>5, Budget DEF Answers, ShapeInv, TypeOK
      <3>. HIDE DEF b
      <3>2. Min({failed + 1, b}) = IF failed + 1 <= b THEN failed + 1 ELSE b
        BY <3>1, MinOfTwo
      <3>3. failed' \in 0..b
        BY <3>1, <3>2
      <3>. QED BY <3>3 DEF b
    <2>7. CountsFit
      BY <2>3, <2>5, <2>6 DEF CountsFit, ShapeInv, TypeOK
    <2>. QED BY <2>3, <2>4, <2>7, LeftAlone, HookKeepsShape
  <1>6. CASE Writes
    <2>1. RowSound(Put(pass.row))
      BY <1>6, PutSound, LeftAlone DEF Writes, ShapeInv, RowsInv
    <2>2. RowFits
      BY <1>6, <2>1 DEF Writes, RowFits, RowSound
    <2>3. CountsFit
      BY <1>6, Budget DEF Writes, CountsFit, ShapeInv, TypeOK
    <2>. QED BY <1>6, <2>2, <2>3, LeftAlone, HookKeepsShape DEF Writes
  <1>7. CASE WriteFails
    <2>1. CountsFit
      BY <1>7 DEF WriteFails, Faults, CountsFit, ShapeInv, TypeOK
    <2>. QED BY <1>7, <2>1, LeftAlone, HookKeepsShape DEF WriteFails
  <1>8. CASE DeletesState
    <2>1. RowFits
      BY <1>8 DEF DeletesState, RowFits
    <2>2. CountsFit
      BY <1>8, Budget DEF DeletesState, CountsFit, ShapeInv, TypeOK
    <2>. QED BY <1>8, <2>1, <2>2, LeftAlone, HookKeepsShape DEF DeletesState
  <1>. QED BY <1>1, <1>2, <1>3, <1>4, <1>5, <1>6, <1>7, <1>8 DEF PassStep

\* The operator's steps, and the clock's.
LEMMA OperatorKeepsShape ==
    ASSUME ShapeInv, UNCHANGED logVars,
           BackoffElapses \/ Registers \/ Deletes \/ RotateReads \/ EnableReads \/ OpWrites
    PROVE  ShapeInv'
  <1>1. CASE BackoffElapses
    <2>1. state \in States /\ RowSound(state) /\ state' = [state EXCEPT !.waits = FALSE]
      BY <1>1, LeftAlone DEF BackoffElapses, ShapeInv, RowsInv
    <2>2. RowFits
      BY <2>1 DEF RowFits, RowSound, States
    <2>. QED BY <1>1, <2>2, LeftAlone, HookKeepsShape DEF BackoffElapses
  <1>2. CASE Registers \/ Deletes
    <2>1. CountsFit
      BY <1>2 DEF Registers, Deletes, CountsFit, ShapeInv, TypeOK
    <2>. QED BY <1>2, <2>1, LeftAlone, HookKeepsShape DEF Registers, Deletes
  <1>3. CASE RotateReads
    <2>1. (IF state = NoState THEN None ELSE state.secret) \in 0..Secrets
          /\ used.secrets + 1 \in 0..Secrets
      BY <1>3, LeftAlone DEF RotateReads, States, ShapeInv, TypeOK
    <2>2. OpFits
      BY <1>3, <2>1, LeftAlone, IdleShapes DEF RotateReads, OpFits, Ops
    <2>3. CountsFit
      BY <1>3, <2>1 DEF RotateReads, CountsFit, ShapeInv, TypeOK
    <2>. QED BY <1>3, <2>2, <2>3, LeftAlone, HookKeepsShape DEF RotateReads
  <1>4. CASE RotateWrites
    <2>. DEFINE r == IF state = NoState THEN Fresh ELSE state
    <2>1. RowSound(r) /\ op.secret \in 0..Secrets /\ op.prior \in 0..Secrets
      BY FreshSound, LeftAlone DEF ShapeInv, RowsInv, Ops
    <2>2. state' = [r EXCEPT !.secret = op.secret, !.prior = op.prior]
      BY <1>4 DEF RotateWrites
    <2>. HIDE DEF r
    <2>3. RowSound(state')
      <3>1. RowSound([r EXCEPT !.secret = op.secret, !.prior = op.prior])
        BY <2>1, RotatedSound
      <3>. QED BY <2>2, <3>1
    <2>4. RowFits
      BY <2>3 DEF RowFits, RowSound
    <2>. QED BY <1>4, <2>4, LeftAlone, HookKeepsShape DEF RotateWrites
  <1>5. CASE EnableReads
    <2>1. OpFits
      BY <1>5, LeftAlone, IdleShapes DEF EnableReads, OpFits, Ops, ShapeInv, RowsInv
    <2>2. CountsFit
      BY <1>5 DEF EnableReads, CountsFit, ShapeInv, TypeOK
    <2>. QED BY <1>5, <2>1, <2>2, LeftAlone, HookKeepsShape DEF EnableReads
  <1>6. CASE EnableWrites
    <2>. DEFINE r == [op.row EXCEPT !.status = "active", !.failures = 0, !.attempt = 0,
                                    !.delivery = None, !.waits = FALSE]
    <2>1. RowSound(r)
      BY <1>6, EnabledSound DEF EnableWrites, ShapeInv, RowsInv
    <2>2. state' = Put(r)
      BY <1>6 DEF EnableWrites
    <2>. HIDE DEF r
    <2>3. RowFits
      BY <2>1, <2>2, PutSound, LeftAlone DEF RowFits, RowSound
    <2>4. CountsFit
      BY <1>6, Budget DEF EnableWrites, CountsFit, ShapeInv, TypeOK
    <2>. QED BY <1>6, <2>3, <2>4, LeftAlone, HookKeepsShape DEF EnableWrites
  <1>. QED BY <1>1, <1>2, <1>3, <1>4, <1>5, <1>6 DEF OpWrites

\* The shape of the state is kept by every step.
LEMMA ShapeInductive == ShapeInv /\ [Next]_vars => ShapeInv'
  <1>. SUFFICES ASSUME ShapeInv, [Next]_vars PROVE ShapeInv'
    OBVIOUS
  <1>1. CASE LogSteps /\ UNCHANGED hookVars
    BY <1>1, LogKeepsShape DEF LogMoves, hookVars, ShapeInv, TypeOK
  <1>2. CASE Restart
    <2>1. used' \in [secrets : 0..Secrets, enables : 0..MaxEnables, faults : 0..MaxFaults]
      BY <1>2 DEF Restart, Faults, ShapeInv, TypeOK
    <2>. QED BY <1>2, <2>1, LogKeepsShape DEF LogMoves, Restart
  <1>3. CASE UNCHANGED vars
    BY <1>3, LogKeepsShape DEF vars, hookVars, ShapeInv, TypeOK
  <1>. QED BY <1>1, <1>2, <1>3, PassKeepsShape, OperatorKeepsShape DEF Next

\* An empty log and no endpoint are of that shape.
LEMMA ShapeInit == Init => ShapeInv
  <1>. SUFFICES ASSUME Init PROVE ShapeInv
    OBVIOUS
  <1>1. LogInv
    BY DEF Init, LogInit, LogInv, LogTypeOK, MintedIsFresh, SweepIsRecorded, StrandedComplete
  <1>2. IdlePass \in Passes /\ IdlePass.at = "idle" /\ IdleOp \in Ops /\ IdleOp.kind = "none"
    BY DEF Passes, IdlePass, Ops, IdleOp
  <1>3. TypeOK
    BY <1>1, <1>2, Budget DEF Init, TypeOK, LogInv, Passes, Ops
  <1>. QED BY <1>1, <1>2, <1>3 DEF Init, ShapeInv, RowsInv

\* The state keeps its shape, whatever is delivered, retried, rotated, enabled, evicted or
\* cut off: no counter passes its budget and what was evicted is recorded as that.
THEOREM TypeCorrect == Spec => []TypeOK
  <1>1. ShapeInv => TypeOK
    BY DEF ShapeInv
  <1>. QED BY <1>1, ShapeInit, ShapeInductive, PTL DEF Spec

-----------------------------------------------------------------------------
(* Nothing is skipped, and first deliveries come in order                  *)

\* The endpoint's events that nothing accounts for yet: neither processed, nor reported in
\* a gap, nor lost as the properties allow.
Unaccounted == {i \in appended : Wanted(i) /\ i \notin Got \union excused \union stranded \union late}

\* All of them are still ahead of c.
Behind(c) == c \in appended \union {None} /\ \A i \in Unaccounted : c < i

(***************************************************************************)
(* Every cursor there is a copy of, and every event processed, is behind   *)
(* what is unaccounted for; the event being sent is the first of it or a   *)
(* repetition.                                                             *)
(***************************************************************************)
DeliveryInv ==
    /\ excused \subseteq appended \ log
    /\ \A j \in Got : Behind(j)
    /\ state # NoState => Behind(state.cursor)
    /\ pass.at \in {"post", "write"} => Behind(pass.row.cursor)
    /\ op.kind = "enable" => Behind(op.row.cursor)
    /\ pass.at = "post" => /\ \A i \in Unaccounted : pass.event <= i
                           /\ pass.event \in Got \union late \/ \A j \in Got : j < pass.event

\* What becomes unaccounted for in a step is above everything appended before it.
Ahead == /\ appended \subseteq appended'
         /\ \A i \in Unaccounted' \ Unaccounted : \A j \in appended \union {None} : j < i

\* The log adds to what is unaccounted for only at its end.
LEMMA LogAddsAhead ==
    ASSUME ShapeInv, LogMoves \/ UNCHANGED logVars, UNCHANGED <<processed, excused>>
    PROVE  Ahead
  <1>1. /\ appended \subseteq appended' /\ late \subseteq late' /\ stranded \subseteq stranded'
        /\ \A i \in appended : shape'[i] = shape[i]
        /\ \A i \in appended' \ appended : (\E j \in appended : j > i) => i \in late'
    BY LogGrows DEF ShapeInv
  <1>2. appended' \subseteq Ids /\ appended \subseteq Ids
    BY LogInductive DEF ShapeInv, LogInv, LogTypeOK
  <1>3. Got' = Got
    BY DEF Got
  <1>4. ASSUME NEW i \in Unaccounted', i \notin Unaccounted PROVE i \in appended' \ appended /\ i \notin late'
    BY <1>1, <1>3, <1>4 DEF Unaccounted, Wanted
  <1>5. ASSUME NEW i \in Unaccounted', i \notin Unaccounted, NEW j \in appended \union {None}
        PROVE  j < i
    <2>0. i \in appended' \ appended /\ i \notin late'
      BY <1>4, <1>5
    <2>1. i \in Ids /\ j \in Ids \union {None} /\ j # i
      BY <1>2, <2>0
    <2>2. j \in appended => ~(j > i)
      BY <1>1, <2>0
    <2>. QED BY <2>1, <2>2
  <1>. QED BY <1>1, <1>5 DEF Ahead

\* The endpoint's own steps only account for more.
LEMMA HookAddsNone ==
    ASSUME UNCHANGED logVars, Got \subseteq Got', excused \subseteq excused'
    PROVE  /\ Unaccounted' \subseteq Unaccounted /\ Ahead
           /\ appended' = appended /\ log' = log /\ late' = late /\ stranded' = stranded
           /\ \A i : Wanted(i)' <=> Wanted(i)
  BY DEF Unaccounted, Ahead, Wanted, logVars, logHistory

\* So what was behind stays behind.
LEMMA StaysBehind ==
    ASSUME Ahead, NEW c, Behind(c)
    PROVE  c \in appended' \union {None} /\ \A i \in Unaccounted' : c < i
  BY DEF Ahead, Behind

\* A step that delivers nothing, and takes its cursors from those there are.
LEMMA KeepsDelivery ==
    ASSUME ShapeInv, DeliveryInv, Ahead, Got' = Got, late \subseteq late',
           appended' \subseteq Ids, excused' \subseteq appended' \ log',
           state' # NoState => state'.cursor = None \/ Behind(state'.cursor),
           pass'.at = "post" => pass' = pass,
           pass'.at = "write" => Behind(pass'.row.cursor),
           op'.kind = "enable" => Behind(op'.row.cursor)
    PROVE  DeliveryInv'
  <1>1. \A c : Behind(c) => c \in appended' \union {None} /\ \A i \in Unaccounted' : c < i
    BY StaysBehind
  <1>2. \A i \in Unaccounted' : None < i
    BY DEF Unaccounted
  <1>3. pass'.at = "post" =>
          /\ pass' = pass /\ pass.event \in appended /\ Behind(pass.row.cursor)
          /\ \A i \in Unaccounted : pass.event <= i
          /\ pass.event \in Got \union late \/ \A j \in Got : j < pass.event
    BY DEF DeliveryInv, ShapeInv, RowsInv
  <1>4. \A j \in Got' : j \in appended' \union {None} /\ \A i \in Unaccounted' : j < i
    BY <1>1 DEF DeliveryInv
  <1>5. state' # NoState => /\ state'.cursor \in appended' \union {None}
                            /\ \A i \in Unaccounted' : state'.cursor < i
    BY <1>1, <1>2
  <1>6. pass'.at \in {"post", "write"} => /\ pass'.row.cursor \in appended' \union {None}
                                          /\ \A i \in Unaccounted' : pass'.row.cursor < i
    BY <1>1, <1>3
  <1>7. op'.kind = "enable" => /\ op'.row.cursor \in appended' \union {None}
                               /\ \A i \in Unaccounted' : op'.row.cursor < i
    BY <1>1
  <1>8. pass'.at = "post" =>
          /\ \A i \in Unaccounted' : pass'.event <= i
          /\ pass'.event \in Got' \union late' \/ \A j \in Got' : j < pass'.event
    <2>1. SUFFICES ASSUME pass'.at = "post"
                   PROVE  /\ \A i \in Unaccounted' : pass.event <= i
                          /\ pass.event \in Got' \union late' \/ \A j \in Got' : j < pass.event
      BY <1>3
    <2>2. \A i \in Unaccounted' : pass.event <= i
      <3>1. ASSUME NEW i \in Unaccounted', i \notin Unaccounted PROVE pass.event <= i
        <4>1. pass.event < i /\ pass.event \in Ids /\ i \in Ids
          BY <1>3, <2>1, <3>1 DEF Ahead, Unaccounted, ShapeInv, LogInv, LogTypeOK
        <4>. QED BY <4>1
      <3>. QED BY <1>3, <2>1, <3>1
    <2>. QED BY <1>3, <2>1, <2>2
  <1>. QED BY <1>4, <1>5, <1>6, <1>7, <1>8 DEF DeliveryInv, Behind

\* What a delivery may go past: beyond its cursor nothing is unaccounted for but what the
\* log still holds.
LEMMA SkippingAccounts ==
    ASSUME ShapeInv, DeliveryInv, UNCHANGED <<logVars, processed>>,
           state # NoState, Resolves(state.cursor), excused' = excused \union Skipped(state.cursor)
    PROVE  /\ \A i \in Unaccounted' : i \in log /\ Wanted(i) /\ state.cursor < i
           /\ excused' \subseteq appended' \ log'
           /\ Got' = Got /\ Unaccounted' \subseteq Unaccounted /\ Ahead
  <1>1. Got' = Got
    BY DEF Got
  <1>2. /\ Unaccounted' \subseteq Unaccounted /\ Ahead
        /\ appended' = appended /\ log' = log /\ stranded' = stranded
    BY <1>1, HookAddsNone
  <1>3. Behind(state.cursor) /\ state.cursor \in Ids \union {None}
    BY DEF DeliveryInv, Behind, ShapeInv, LogInv, LogTypeOK
  <1>4. excused' \subseteq appended' \ log'
    BY <1>2, <1>3, SkippedGone DEF DeliveryInv, ShapeInv, LogInv
  <1>5. ASSUME NEW i \in Unaccounted' PROVE i \in log /\ Wanted(i) /\ state.cursor < i
    <2>1. i \in Unaccounted /\ i \in appended /\ Wanted(i) /\ state.cursor < i
      BY <1>2, <1>3, <1>5 DEF Unaccounted, Behind
    <2>2. i \notin Skipped(state.cursor) \union stranded
      BY <1>2, <1>5 DEF Unaccounted
    <2>3. i \in log
      BY <1>3, <2>1, <2>2, LostIsSkipped DEF ShapeInv
    <2>. QED BY <2>1, <2>3
  <1>. QED BY <1>1, <1>2, <1>4, <1>5

\* A step of the endpoint's that delivers nothing and skips nothing.
LEMMA QuietStep ==
    ASSUME ShapeInv, DeliveryInv, UNCHANGED <<logVars, processed, excused>>,
           state' # NoState => state'.cursor = None \/ Behind(state'.cursor),
           pass'.at = "post" => pass' = pass,
           pass'.at = "write" => Behind(pass'.row.cursor),
           op'.kind = "enable" => Behind(op'.row.cursor)
    PROVE  DeliveryInv'
  <1>1. Got' = Got
    BY DEF Got
  <1>2. /\ Ahead /\ late \subseteq late' /\ appended' \subseteq Ids /\ excused' \subseteq appended' \ log'
    BY <1>1, HookAddsNone DEF DeliveryInv, ShapeInv, LogInv, LogTypeOK
  <1>. QED BY <1>1, <1>2, KeepsDelivery

\* The log's steps, with the endpoint left alone or what it had in hand dropped.
LEMMA LogKeepsDelivery ==
    ASSUME ShapeInv, DeliveryInv, LogMoves \/ UNCHANGED logVars, UNCHANGED <<state, processed, excused>>,
           (pass' = pass /\ op' = op) \/ (pass' = IdlePass /\ op' = IdleOp)
    PROVE  DeliveryInv'
  <1>1. Ahead /\ Got' = Got
    BY LogAddsAhead DEF Got
  <1>2. /\ late \subseteq late' /\ appended' \subseteq Ids
    BY LogGrows, LogInductive DEF ShapeInv, LogInv, LogTypeOK
  <1>3. excused' \subseteq appended' \ log'
    BY LogGrows DEF DeliveryInv, ShapeInv
  <1>4. IdlePass.at = "idle" /\ IdleOp.kind = "none"
    BY DEF IdlePass, IdleOp
  <1>5. state' # NoState => Behind(state'.cursor)
    BY DEF DeliveryInv
  <1>6. /\ pass'.at = "post" => pass' = pass
        /\ pass'.at = "write" => Behind(pass'.row.cursor)
        /\ op'.kind = "enable" => Behind(op'.row.cursor)
    BY <1>4 DEF DeliveryInv
  <1>. QED BY <1>1, <1>2, <1>3, <1>5, <1>6, KeepsDelivery

\* The event sent is the first that is unaccounted for, or was processed before.
LEMMA SendsKeepsDelivery ==
    ASSUME ShapeInv, DeliveryInv, UNCHANGED logVars, Sends
    PROVE  DeliveryInv'
  <1>. DEFINE head == QueueHead(state.cursor)
  <1>1. /\ state # NoState /\ Resolves(state.cursor) /\ Deliverable(state.cursor) # {}
        /\ excused' = excused \union Skipped(state.cursor) /\ UNCHANGED <<state, op, processed>>
        /\ pass'.at = "post" /\ pass'.row = state /\ pass'.event = head
    BY LeftAlone DEF Sends, Ready, Passes
  <1>2. Behind(state.cursor) /\ state.cursor \in Ids \union {None}
    BY <1>1 DEF DeliveryInv, Behind, ShapeInv, LogInv, LogTypeOK
  <1>3. /\ head \in log /\ head \in Ids /\ Wanted(head)
        /\ \A i \in log : Wanted(i) /\ state.cursor < i => head <= i
    BY <1>1, <1>2, HeadIsFirst DEF ShapeInv, LogInv
  <1>. HIDE DEF head
  <1>4. /\ \A i \in Unaccounted' : i \in log /\ Wanted(i) /\ state.cursor < i
        /\ excused' \subseteq appended' \ log'
        /\ Got' = Got /\ Unaccounted' \subseteq Unaccounted /\ Ahead
    BY <1>1, SkippingAccounts
  <1>5. \A i \in Unaccounted' : head <= i
    BY <1>3, <1>4
  <1>6. head \in Got \union late \/ \A j \in Got : j < head
    <2>1. SUFFICES ASSUME head \notin Got \union late PROVE head \in Unaccounted
      BY DEF DeliveryInv, Behind
    <2>2. head \notin excused /\ head \notin stranded /\ head \in appended
      BY <1>3 DEF DeliveryInv, ShapeInv, LogInv, LogTypeOK
    <2>. QED BY <1>3, <2>1, <2>2 DEF Unaccounted
  <1>7. appended' = appended /\ late' = late
    BY DEF logVars, logHistory
  <1>8. \A c : Behind(c) => c \in appended' \union {None} /\ \A i \in Unaccounted' : c < i
    BY <1>4, StaysBehind
  <1>. QED BY <1>1, <1>2, <1>4, <1>5, <1>6, <1>7, <1>8 DEF DeliveryInv, Behind

\* Going over a tail leaves nothing unaccounted for.
LEMMA SkipsKeepsDelivery ==
    ASSUME ShapeInv, DeliveryInv, UNCHANGED logVars, SkipsTail
    PROVE  DeliveryInv'
  <1>. DEFINE c == Max(Pending(state.cursor))
  <1>1. /\ state # NoState /\ Resolves(state.cursor) /\ Deliverable(state.cursor) = {}
        /\ Pending(state.cursor) # {}
        /\ excused' = excused \union Skipped(state.cursor) /\ UNCHANGED <<state, op, processed>>
    BY DEF SkipsTail, Ready
  <1>2. Behind(state.cursor) /\ state.cursor \in Ids \union {None} /\ state \in States
    BY <1>1, LeftAlone DEF DeliveryInv, Behind, ShapeInv, LogInv, LogTypeOK
  <1>3. pass'.at = "write" /\ pass'.row.cursor = c
    BY <1>2, LeftAlone DEF SkipsTail, Passes, States
  <1>4. c \in log
    BY <1>1, <1>2, TailIsLast DEF ShapeInv, LogInv
  <1>. HIDE DEF c
  <1>5. /\ \A i \in Unaccounted' : i \in log /\ Wanted(i) /\ state.cursor < i
        /\ excused' \subseteq appended' \ log' /\ Got' = Got /\ Ahead
    BY <1>1, SkippingAccounts
  <1>6. Unaccounted' = {}
    BY <1>1, <1>5 DEF Deliverable, Pending, After
  <1>7. appended' = appended /\ log \subseteq appended
    BY DEF logVars, logHistory, ShapeInv, LogInv, LogTypeOK
  <1>. QED BY <1>1, <1>2, <1>3, <1>4, <1>5, <1>6, <1>7 DEF DeliveryInv, Behind

\* What is taken is at most the first that is unaccounted for.
LEMMA AnswersKeepsDelivery ==
    ASSUME ShapeInv, DeliveryInv, UNCHANGED logVars,
           NEW taken \in BOOLEAN, NEW ok \in BOOLEAN, Answers(taken, ok)
    PROVE  DeliveryInv'
  <1>1. /\ RowSound(pass.row) /\ pass.row.status = "active"
        /\ pass.event \in Ids /\ pass.event \in appended /\ pass.delivery \in Ids
        /\ Behind(pass.row.cursor) /\ \A i \in Unaccounted : pass.event <= i
    BY LeftAlone DEF Answers, ShapeInv, RowsInv, LogInv, LogTypeOK, Passes, DeliveryInv
  <1>2. Got' = IF taken THEN Got \union {pass.event} ELSE Got
    <2>. DEFINE x == [event |-> pass.event, delivery |-> pass.delivery]
    <2>1. x.event = pass.event
      OBVIOUS
    <2>2. processed' = IF taken THEN processed \union {x} ELSE processed
      BY DEF Answers
    <2>. HIDE DEF x
    <2>. QED BY <2>1, <2>2 DEF Got
  <1>3. /\ Unaccounted' \subseteq Unaccounted /\ Ahead /\ appended' = appended /\ log' = log
        /\ excused' = excused /\ UNCHANGED <<state, op>>
    BY <1>2, HookAddsNone DEF Answers
  <1>4. taken => \A i \in Unaccounted' : pass.event < i
    <2>1. ASSUME taken, NEW i \in Unaccounted' PROVE pass.event < i
      <3>1. i # pass.event /\ i \in Ids /\ pass.event <= i
        BY <1>1, <1>2, <1>3, <2>1 DEF Unaccounted, ShapeInv, LogInv, LogTypeOK
      <3>. QED BY <1>1, <3>1
    <2>. QED BY <2>1
  <1>5. pass'.at = "write" /\ pass'.row = IF ok THEN Succeeded ELSE Failed
    BY LeftAlone DEF Answers, Passes
  <1>6. \/ pass'.row.cursor = pass.row.cursor
        \/ taken /\ pass'.row.cursor = pass.event
    BY <1>1, <1>5, SucceededSound, FailedSound DEF Answers
  <1>7. \A c : Behind(c) => c \in appended' \union {None} /\ \A i \in Unaccounted' : c < i
    BY <1>3, StaysBehind
  <1>8. \A j \in Got' : j \in appended' \union {None} /\ \A i \in Unaccounted' : j < i
    BY <1>1, <1>2, <1>3, <1>4, <1>7 DEF DeliveryInv
  <1>9. pass'.row.cursor \in appended' \union {None} /\ \A i \in Unaccounted' : pass'.row.cursor < i
    BY <1>1, <1>3, <1>4, <1>6, <1>7
  <1>. QED BY <1>3, <1>5, <1>7, <1>8, <1>9 DEF DeliveryInv, Behind

\* No step skips anything.
LEMMA DeliveryInductive == ShapeInv /\ DeliveryInv /\ [Next]_vars => DeliveryInv'
  <1>. SUFFICES ASSUME ShapeInv, DeliveryInv, [Next]_vars PROVE DeliveryInv'
    OBVIOUS
  <1>1. CASE LogSteps /\ UNCHANGED hookVars
    BY <1>1, LogKeepsDelivery DEF LogMoves, hookVars
  <1>2. CASE Restart
    BY <1>2, LogKeepsDelivery DEF LogMoves, Restart
  <1>3. CASE UNCHANGED vars
    BY <1>3, LogKeepsDelivery DEF vars, hookVars
  <1>4. ASSUME UNCHANGED logVars, Lists \/ PassesOver \/ Prunes \/ WriteFails \/ Registers \/ Deletes
        PROVE  DeliveryInv'
    <2>1. pass'.at \notin {"post", "write"} \/ pass' = pass
      <3>1. CASE Lists
        BY <3>1 DEF Lists, IdlePass
      <3>2. CASE Prunes
        BY <3>2, LeftAlone DEF Prunes, IdlePass, Passes
      <3>3. CASE PassesOver \/ WriteFails
        BY <3>3, LeftAlone, IdleShapes DEF PassesOver, WriteFails
      <3>4. CASE Registers \/ Deletes
        BY <3>4 DEF Registers, Deletes
      <3>. QED BY <1>4, <3>1, <3>2, <3>3, <3>4
    <2>2. UNCHANGED <<logVars, processed, excused, state, op>>
      BY <1>4 DEF Lists, PassesOver, Prunes, WriteFails, Registers, Deletes
    <2>. QED BY <2>1, <2>2, QuietStep DEF DeliveryInv
  <1>5. ASSUME UNCHANGED logVars, SkipsTail PROVE DeliveryInv'
    BY <1>5, SkipsKeepsDelivery
  <1>6. ASSUME UNCHANGED logVars, Sends PROVE DeliveryInv'
    BY <1>6, SendsKeepsDelivery
  <1>7. ASSUME UNCHANGED logVars, NEW taken \in BOOLEAN, NEW ok \in BOOLEAN, Answers(taken, ok)
        PROVE  DeliveryInv'
    BY <1>7, AnswersKeepsDelivery
  <1>8. ASSUME UNCHANGED logVars, Writes PROVE DeliveryInv'
    <2>1. RowSound(pass.row) /\ Behind(pass.row.cursor) /\ state' = Put(pass.row)
          /\ pass' = Pruning /\ UNCHANGED <<op, processed, excused>>
      BY <1>8 DEF Writes, ShapeInv, RowsInv, DeliveryInv
    <2>2. state'.cursor = pass.row.cursor
      BY <2>1, LeftAlone, PutSound
    <2>3. pass'.at = "prune"
      BY <2>1, LeftAlone, IdleShapes
    <2>. QED BY <1>8, <2>1, <2>2, <2>3, QuietStep DEF DeliveryInv
  <1>9. ASSUME UNCHANGED logVars, DeletesState PROVE DeliveryInv'
    <2>1. state' = NoState /\ pass'.at = "idle" /\ UNCHANGED <<op, processed, excused>>
      BY <1>9 DEF DeletesState, IdlePass
    <2>. QED BY <1>9, <2>1, QuietStep DEF DeliveryInv
  <1>10. ASSUME UNCHANGED logVars, BackoffElapses PROVE DeliveryInv'
    <2>1. state # NoState /\ state'.cursor = state.cursor /\ UNCHANGED <<pass, op, processed, excused>>
      BY <1>10, LeftAlone DEF BackoffElapses, States
    <2>. QED BY <1>10, <2>1, QuietStep DEF DeliveryInv
  <1>11. ASSUME UNCHANGED logVars, RotateReads \/ EnableReads PROVE DeliveryInv'
    <2>1. UNCHANGED <<state, pass, processed, excused>>
      BY <1>11 DEF RotateReads, EnableReads
    <2>2. op'.kind = "enable" => Behind(op'.row.cursor)
      BY <1>11 DEF RotateReads, EnableReads, IdleOp, DeliveryInv
    <2>. QED BY <1>11, <2>1, <2>2, QuietStep DEF DeliveryInv
  <1>12. ASSUME UNCHANGED logVars, RotateWrites PROVE DeliveryInv'
    <2>1. UNCHANGED <<pass, processed, excused>> /\ op'.kind # "enable"
      BY <1>12 DEF RotateWrites, IdleOp
    <2>2. state'.cursor = IF state = NoState THEN None ELSE state.cursor
      BY <1>12, LeftAlone DEF RotateWrites, Fresh, States
    <2>. QED BY <1>12, <2>1, <2>2, QuietStep DEF DeliveryInv
  <1>13. ASSUME UNCHANGED logVars, EnableWrites PROVE DeliveryInv'
    <2>. DEFINE r == [op.row EXCEPT !.status = "active", !.failures = 0, !.attempt = 0,
                                    !.delivery = None, !.waits = FALSE]
    <2>1. /\ state' = Put(r) /\ UNCHANGED <<pass, processed, excused>> /\ op'.kind # "enable"
          /\ RowSound(op.row) /\ Behind(op.row.cursor)
      BY <1>13 DEF EnableWrites, IdleOp, ShapeInv, RowsInv, DeliveryInv
    <2>2. RowSound(r) /\ r.cursor = op.row.cursor
      BY <2>1, EnabledSound
    <2>. HIDE DEF r
    <2>3. state'.cursor = op.row.cursor
      BY <2>1, <2>2, LeftAlone, PutSound
    <2>. QED BY <1>13, <2>1, <2>3, QuietStep DEF DeliveryInv
  <1>14. ASSUME UNCHANGED logVars, PassStep PROVE DeliveryInv'
    BY <1>4, <1>5, <1>6, <1>7, <1>8, <1>9, <1>14 DEF PassStep
  <1>. QED BY <1>1, <1>2, <1>3, <1>4, <1>10, <1>11, <1>12, <1>13, <1>14 DEF Next, OpWrites

\* Before anything is appended nothing is owed.
LEMMA DeliveryInit == Init => DeliveryInv
  BY DEF Init, LogInit, DeliveryInv, Got, Behind, Unaccounted, IdlePass, IdleOp

\* Whatever the retries, evictions, late appends, enables and restarts, the cursor stands
\* behind every event of the endpoint's that nothing accounts for.
THEOREM NoEventSkipped == Spec => []NothingSkipped
  <1>1. ShapeInv /\ DeliveryInv => NothingSkipped
    <2>1. SUFFICES ASSUME ShapeInv, DeliveryInv, state # NoState, NEW i \in appended,
                          Wanted(i), i <= state.cursor, i \in Unaccounted
                   PROVE  FALSE
      BY DEF NothingSkipped, Unaccounted
    <2>2. state.cursor < i /\ state.cursor \in Ids \union {None} /\ i \in Ids
      BY <2>1 DEF DeliveryInv, Behind, ShapeInv, LogInv, LogTypeOK
    <2>. QED BY <2>1, <2>2
  <1>. QED BY <1>1, ShapeInit, ShapeInductive, DeliveryInit, DeliveryInductive, PTL DEF Spec

\* An event met for the first time comes after all that were met before it, unless it was
\* appended behind one of them.
THEOREM FirstDeliveriesInOrder == Spec => FirstInOrder
  <1>1. ShapeInv /\ DeliveryInv /\ [Next]_vars => [\A i \in Got' \ (Got \union late) : \A j \in Got : j < i]_vars
    <2>1. SUFFICES ASSUME ShapeInv, DeliveryInv, [Next]_vars, NEW i \in Got' \ (Got \union late)
                   PROVE  \A j \in Got : j < i
      OBVIOUS
    <2>2. processed' # processed
      BY <2>1 DEF Got
    <2>3. PICK taken, ok \in BOOLEAN : Answers(taken, ok)
      BY <2>1, <2>2 DEF Next, vars, hookVars, Restart, PassStep, WriteFails, BackoffElapses,
         Registers, Deletes, RotateReads, EnableReads, OpWrites, RotateWrites, EnableWrites, Lists,
         PassesOver, SkipsTail, Sends, Writes, Prunes, DeletesState
    <2>4. i = pass.event /\ pass.at = "post"
      BY <2>1, <2>3 DEF Answers, Got
    <2>. QED BY <2>1, <2>4 DEF DeliveryInv
  <1>. QED BY <1>1, ShapeInit, ShapeInductive, DeliveryInit, DeliveryInductive, PTL DEF Spec, FirstInOrder

-----------------------------------------------------------------------------
(* An endpoint is disabled only for failing                                *)

\* What a row charges the endpoint with, in failed attempts.
Charge(row) == row.failures * MaxAttempts + row.attempt

\* No row, and no copy a pass holds, charges more than has failed; and a pass resets what
\* has failed only with a row that charges nothing.
ChargeInv ==
    /\ state # NoState => Charge(state) <= failed
    /\ pass.at \in {"post", "write"} => Charge(pass.row) <= failed
    /\ pass.at = "write" /\ Succeeds => Charge(pass.row) = 0

\* Charges are counts, within the budget.
LEMMA ChargeType ==
    ASSUME NEW row, RowSound(row)
    PROVE  /\ Charge(row) \in Nat /\ Charge(row) <= MaxAttempts * MaxFailures
           /\ row.status = "disabled" => Charge(row) = MaxAttempts * MaxFailures
           /\ row.failures = 0 /\ row.attempt = 0 => Charge(row) = 0
           /\ row.status = "active" => Charge(row) + 1 <= MaxAttempts * MaxFailures
  <1>. DEFINE f == row.failures
              a == row.attempt
  <1>1. /\ f \in Nat /\ a \in Nat /\ f <= MaxFailures /\ a < MaxAttempts
        /\ row.status \in {"active", "disabled"}
        /\ row.status = "active" => f < MaxFailures
        /\ row.status = "disabled" => f = MaxFailures /\ a = 0
    BY DEF RowSound, States
  <1>2. Charge(row) = f * MaxAttempts + a
    BY DEF Charge
  <1>. HIDE DEF f, a
  <1>3. f * MaxAttempts \in Nat /\ MaxAttempts * MaxFailures \in Nat
    BY <1>1
  <1>4. MaxFailures * MaxAttempts = MaxAttempts * MaxFailures
    OBVIOUS
  <1>5. f < MaxFailures => f * MaxAttempts + a + 1 <= MaxAttempts * MaxFailures
    <2>1. SUFFICES ASSUME f < MaxFailures PROVE f * MaxAttempts + a + 1 <= MaxAttempts * MaxFailures
      OBVIOUS
    <2>2. PICK k \in Nat : MaxFailures = f + 1 + k
      <3>1. MaxFailures - f - 1 \in Nat /\ MaxFailures = f + 1 + (MaxFailures - f - 1)
        BY <1>1, <2>1
      <3>. QED BY <3>1
    <2>3. MaxAttempts * MaxFailures = f * MaxAttempts + MaxAttempts + k * MaxAttempts
      BY <1>1, <2>2
    <2>4. k * MaxAttempts \in Nat
      BY <2>2
    <2>. QED BY <1>1, <1>3, <2>3, <2>4
  <1>6. CASE row.status = "active"
    BY <1>1, <1>2, <1>3, <1>5, <1>6 DEF f, a
  <1>7. CASE row.status = "disabled"
    BY <1>1, <1>2, <1>3, <1>4, <1>7 DEF f, a
  <1>. QED BY <1>1, <1>6, <1>7

\* An attempt that fails charges one more at most.
LEMMA FailedCharges ==
    ASSUME RowSound(pass.row), pass.row.status = "active", pass.delivery \in Ids
    PROVE  Charge(Failed) <= Charge(pass.row) + 1
  <1>. DEFINE f == pass.row.failures
              a == pass.row.attempt
  <1>1. f \in Nat /\ a \in Nat
    BY DEF RowSound, States
  <1>2. \/ Failed.failures = f /\ Failed.attempt = a + 1
        \/ Failed.failures = f + 1 /\ Failed.attempt = 0 /\ a + 1 = MaxAttempts
    BY FailedSound
  <1>. HIDE DEF f, a
  <1>3. (f + 1) * MaxAttempts = f * MaxAttempts + MaxAttempts /\ f * MaxAttempts \in Nat
    BY <1>1
  <1>4. Charge(Failed) <= f * MaxAttempts + a + 1
    BY <1>1, <1>2, <1>3 DEF Charge
  <1>. QED BY <1>4 DEF Charge, f, a

\* A step that leaves the count alone, and takes its rows from those there are.
LEMMA KeepsCharge ==
    ASSUME ChargeInv, failed' = failed,
           state' # NoState => Charge(state') <= failed,
           pass'.at \notin {"post", "write"} \/ pass' = pass
    PROVE  ChargeInv'
  BY DEF ChargeInv, Charge, Succeeds

\* No step charges the endpoint with what did not fail.
LEMMA ChargeInductive == ShapeInv /\ DeliveryInv /\ ChargeInv /\ [Next]_vars => ChargeInv'
  <1>. SUFFICES ASSUME ShapeInv, DeliveryInv, ChargeInv, [Next]_vars PROVE ChargeInv'
    OBVIOUS
  <1>0. failed \in Nat /\ failed <= MaxAttempts * MaxFailures /\ MaxAttempts * MaxFailures \in Nat
    BY Budget DEF ShapeInv, TypeOK
  <1>1. ASSUME UNCHANGED <<state, failed>>, pass'.at \notin {"post", "write"} \/ pass' = pass
        PROVE  ChargeInv'
    BY <1>1, KeepsCharge DEF ChargeInv
  <1>2. CASE (LogSteps /\ UNCHANGED hookVars) \/ Restart \/ UNCHANGED vars
    BY <1>1, <1>2 DEF hookVars, vars, Restart, IdlePass
  <1>3. CASE Lists \/ PassesOver \/ Prunes \/ WriteFails \/ Registers \/ Deletes \/ RotateReads \/ EnableReads
    <2>1. pass'.at \notin {"post", "write"} \/ pass' = pass
      <3>1. CASE Lists
        BY <3>1 DEF Lists, IdlePass
      <3>2. CASE Prunes
        BY <3>2, LeftAlone DEF Prunes, IdlePass, Passes
      <3>3. CASE PassesOver \/ WriteFails
        BY <3>3, LeftAlone, IdleShapes DEF PassesOver, WriteFails
      <3>4. CASE Registers \/ Deletes \/ RotateReads \/ EnableReads
        BY <3>4 DEF Registers, Deletes, RotateReads, EnableReads
      <3>. QED BY <1>3, <3>1, <3>2, <3>3, <3>4
    <2>2. UNCHANGED <<state, failed>>
      BY <1>3 DEF Lists, PassesOver, Prunes, WriteFails, Registers, Deletes, RotateReads, EnableReads
    <2>. QED BY <1>1, <2>1, <2>2
  <1>4. CASE SkipsTail
    <2>. DEFINE c == Max(Pending(state.cursor))
                r == [state EXCEPT !.cursor = c, !.attempt = 0, !.delivery = None, !.waits = FALSE]
    <2>1. state # NoState /\ state \in States /\ RowSound(state) /\ state.cursor \in Ids \union {None}
          /\ UNCHANGED <<state, failed>>
      BY <1>4, LeftAlone DEF SkipsTail, Ready, ShapeInv, RowsInv, States
    <2>2. c \in Ids
      BY <1>4, <2>1, TailIsLast DEF SkipsTail, ShapeInv, LogInv
    <2>3. RowSound(r) /\ r.failures = state.failures /\ r.attempt = 0
      BY <2>1, <2>2, SkippedSound
    <2>4. pass' = [pass EXCEPT !.at = "write", !.row = r] /\ pass.event = None
      BY <1>4 DEF SkipsTail, ShapeInv, RowsInv
    <2>. HIDE DEF r, c
    <2>5. pass'.at = "write" /\ pass'.row = r /\ pass'.event = None
      BY <2>4, LeftAlone DEF Passes
    <2>6. Charge(r) <= Charge(state)
      <3>1. state.failures \in Nat /\ state.attempt \in Nat /\ state.failures * MaxAttempts \in Nat
        BY <2>1 DEF States
      <3>. QED BY <2>3, <3>1 DEF Charge
    <2>7. Charge(r) \in Nat /\ Charge(state) \in Nat /\ Charge(state) <= failed
      BY <2>1, <2>3, ChargeType DEF ChargeInv
    <2>8. Charge(r) <= failed
      BY <1>0, <2>6, <2>7
    <2>. QED BY <2>1, <2>5, <2>7, <2>8 DEF ChargeInv, Charge, Succeeds
  <1>5. CASE Sends
    <2>1. pass'.at = "post" /\ pass'.row = state /\ state # NoState /\ UNCHANGED <<state, failed>>
      BY <1>5, LeftAlone DEF Sends, Ready, Passes
    <2>. QED BY <2>1 DEF ChargeInv, Charge
  <1>6. ASSUME NEW taken \in BOOLEAN, NEW ok \in BOOLEAN, Answers(taken, ok) PROVE ChargeInv'
    <2>1. /\ RowSound(pass.row) /\ pass.row.status = "active" /\ pass.row.cursor < pass.event
          /\ pass.event \in Ids /\ pass.delivery \in Ids /\ Charge(pass.row) <= failed
          /\ pass.row.cursor \in Ids \union {None} /\ UNCHANGED state
      BY <1>6, LeftAlone DEF Answers, ShapeInv, RowsInv, LogInv, LogTypeOK, Passes, RowSound, States,
                             ChargeInv
    <2>2. /\ pass'.at = "write" /\ pass'.row = (IF ok THEN Succeeded ELSE Failed)
          /\ pass'.event = pass.event
      BY <1>6, LeftAlone DEF Answers, Passes
    <2>3. state # NoState => Charge(state) \in Nat /\ Charge(state) <= failed
                             /\ Charge(state) <= MaxAttempts * MaxFailures
      BY ChargeType DEF ShapeInv, RowsInv, ChargeInv
    <2>4. CASE ok
      <3>1. RowSound(Succeeded) /\ Charge(Succeeded) = 0
        BY <2>1, SucceededSound, ChargeType
      <3>2. failed' = failed
        BY <1>6, <2>4 DEF Answers
      <3>. QED BY <1>0, <2>1, <2>2, <2>3, <2>4, <3>1, <3>2 DEF ChargeInv, Charge
    <2>5. CASE ~ok
      <3>1. /\ RowSound(Failed) /\ Charge(Failed) <= Charge(pass.row) + 1
            /\ Failed.cursor = pass.row.cursor
        BY <2>1, FailedSound, FailedCharges
      <3>2. /\ Charge(Failed) \in Nat /\ Charge(Failed) <= MaxAttempts * MaxFailures
            /\ Charge(pass.row) \in Nat
        BY <2>1, <3>1, ChargeType
      <3>3. failed' = IF failed + 1 <= MaxAttempts * MaxFailures THEN failed + 1
                      ELSE MaxAttempts * MaxFailures
        <4>. DEFINE b == MaxAttempts * MaxFailures
        <4>1. failed' = Min({failed + 1, b})
          BY <1>6, <2>5 DEF Answers
        <4>2. failed + 1 \in Int /\ b \in Int
          BY <1>0
        <4>. HIDE DEF b
        <4>3. failed' = IF failed + 1 <= b THEN failed + 1 ELSE b
          BY <4>1, <4>2, MinOfTwo
        <4>. QED BY <4>3 DEF b
      <3>4. Charge(Failed) <= failed' /\ failed <= failed' /\ failed' \in Nat
        BY <1>0, <2>1, <3>1, <3>2, <3>3
      <3>5. ~Succeeds'
        BY <2>1, <2>2, <2>5, <3>1 DEF Succeeds
      <3>6. state # NoState => Charge(state) <= failed'
        BY <1>0, <2>3, <3>4
      <3>. QED BY <2>1, <2>2, <2>5, <3>4, <3>5, <3>6 DEF ChargeInv, Charge
    <2>. QED BY <2>4, <2>5
  <1>7. CASE Writes
    <2>1. /\ RowSound(pass.row) /\ state' = Put(pass.row) /\ Charge(pass.row) <= failed
          /\ Succeeds => Charge(pass.row) = 0
          /\ failed' = IF Succeeds THEN 0 ELSE failed
      BY <1>7 DEF Writes, ShapeInv, RowsInv, ChargeInv
    <2>2. Charge(state') = Charge(pass.row)
      BY <2>1, LeftAlone, PutSound DEF Charge
    <2>3. pass'.at = "prune"
      BY <1>7, LeftAlone, IdleShapes DEF Writes
    <2>4. Charge(state') <= failed'
      BY <2>1, <2>2
    <2>. QED BY <2>3, <2>4 DEF ChargeInv, Charge
  <1>8. CASE DeletesState
    BY <1>8 DEF DeletesState, IdlePass, ChargeInv
  <1>9. CASE BackoffElapses
    <2>1. /\ state # NoState /\ UNCHANGED <<pass, failed>>
          /\ state'.failures = state.failures /\ state'.attempt = state.attempt
      BY <1>9, LeftAlone DEF BackoffElapses, States
    <2>. QED BY <2>1, KeepsCharge DEF ChargeInv, Charge
  <1>10. CASE RotateWrites
    <2>. DEFINE r == IF state = NoState THEN Fresh ELSE state
    <2>1. RowSound(r) /\ op.secret \in 0..Secrets /\ op.prior \in 0..Secrets
      BY FreshSound, LeftAlone DEF ShapeInv, RowsInv, Ops
    <2>2. Charge(r) <= failed
      BY <1>0, FreshSound, ChargeType DEF ChargeInv
    <2>3. state' = [r EXCEPT !.secret = op.secret, !.prior = op.prior] /\ UNCHANGED <<pass, failed>>
      BY <1>10 DEF RotateWrites
    <2>. HIDE DEF r
    <2>4. state'.failures = r.failures /\ state'.attempt = r.attempt
      BY <2>1, <2>3, RotatedSound
    <2>. QED BY <2>2, <2>3, <2>4, KeepsCharge DEF Charge
  <1>11. CASE EnableWrites
    <2>. DEFINE r == [op.row EXCEPT !.status = "active", !.failures = 0, !.attempt = 0,
                                    !.delivery = None, !.waits = FALSE]
    <2>1. /\ state' = Put(r) /\ RowSound(op.row) /\ UNCHANGED pass
          /\ failed' = IF pass.at \in {"post", "write"} THEN failed ELSE 0
      BY <1>11 DEF EnableWrites, ShapeInv, RowsInv
    <2>2. RowSound(r) /\ r.failures = 0 /\ r.attempt = 0
      BY <2>1, EnabledSound
    <2>. HIDE DEF r
    <2>3. RowSound(state') /\ state'.failures = 0 /\ state'.attempt = 0
      BY <2>1, <2>2, LeftAlone, PutSound
    <2>4. Charge(state') = 0
      BY <2>3, ChargeType
    <2>. QED BY <1>0, <2>1, <2>4 DEF ChargeInv, Charge, Succeeds
  <1>. QED
    BY <1>2, <1>3, <1>4, <1>5, <1>6, <1>7, <1>8, <1>9, <1>10, <1>11 DEF Next, PassStep, OpWrites

\* There is nothing to charge for at first.
LEMMA ChargeInit == Init => ChargeInv
  BY DEF Init, ChargeInv, IdlePass

\* Rows that are read, kept during a POST or a handler and written back late never add up
\* to more failures than there were.
THEOREM DisabledOnlyForCause == Spec => []DisabledForCause
  <1>1. ShapeInv /\ ChargeInv => DisabledForCause
    BY ChargeType DEF ShapeInv, RowsInv, ChargeInv, DisabledForCause, TypeOK
  <1>. QED
    BY <1>1, ShapeInit, ShapeInductive, DeliveryInit, DeliveryInductive, ChargeInit, ChargeInductive,
       PTL DEF Spec
=============================================================================
