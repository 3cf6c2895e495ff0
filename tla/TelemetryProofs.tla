-------------------------- MODULE TelemetryProofs --------------------------
(***************************************************************************)
(* Proofs about TelemetryPipeline, for every value of its constants.       *)
(***************************************************************************)
EXTENDS TelemetryInvariant, FiniteSetTheorems, TLAPS

-----------------------------------------------------------------------------
(* Finite sets of integers                                                 *)

(***************************************************************************)
(* A finite non-empty set of integers has a greatest element: otherwise a  *)
(* minimal one without, less any element, would have one.                  *)
(***************************************************************************)
LEMMA FiniteHasMax ==
    ASSUME NEW S \in SUBSET Int, IsFiniteSet(S), S # {}
    PROVE  \E x \in S : \A y \in S : y <= x
<1> DEFINE HasMax(T) == \E x \in T : \A y \in T : y <= x
           Bad == {T \in FiniteSubsetsOf(S) : T # {} /\ ~HasMax(T)}
<1> SUFFICES ASSUME ~HasMax(S) PROVE FALSE
  OBVIOUS
<1>1. S \in Bad
  BY DEF FiniteSubsetsOf
<1>2. PICK T \in Bad : \A U \in Bad : ~(<<U, T>> \in StrictSubsetOrdering(S))
  <2>1. Bad \subseteq FiniteSubsetsOf(S)
    OBVIOUS
  <2> HIDE DEF Bad
  <2> QED BY <1>1, <2>1, FS_StrictSubsetOrderingWellFounded, WFMin, Zenon
<1>3. PICK a \in T : TRUE
  OBVIOUS
<1>4. T \ {a} # {}
  <2> SUFFICES ASSUME T = {a} PROVE FALSE
    BY <1>3
  <2>1. a \in Int
    BY <1>2, <1>3 DEF FiniteSubsetsOf
  <2> QED BY <2>1, <1>2
<1>5. T \ {a} \in FiniteSubsetsOf(S) /\ <<T \ {a}, T>> \in StrictSubsetOrdering(S)
  <2>1. IsFiniteSet(T) /\ T \in SUBSET S
    BY <1>2 DEF FiniteSubsetsOf
  <2>2. IsFiniteSet(T \ {a})
    BY <2>1, FS_RemoveElement
  <2> QED BY <1>3, <2>1, <2>2 DEF FiniteSubsetsOf, StrictSubsetOrdering
<1>6. HasMax(T \ {a})
  BY <1>2, <1>4, <1>5
<1>7. PICK b \in T \ {a} : \A y \in T \ {a} : y <= b
  BY <1>6
<1>8. T \in SUBSET Int /\ ~HasMax(T)
  BY <1>2 DEF FiniteSubsetsOf
<1>9. a \in Int /\ b \in Int /\ (a <= b \/ b <= a)
  BY <1>3, <1>7, <1>8
<1> QED BY <1>3, <1>7, <1>8, <1>9

\* Max picks that element.
LEMMA MaxIsMax ==
    ASSUME NEW S \in SUBSET Int, IsFiniteSet(S), S # {}
    PROVE  Max(S) \in S /\ \A x \in S : x <= Max(S)
<1>1. \E x \in S : \A y \in S : x >= y
  BY FiniteHasMax
<1> QED BY <1>1 DEF Max

\* Min picks the least element: the greatest of the negated set, negated.
LEMMA MinIsMin ==
    ASSUME NEW S \in SUBSET Int, IsFiniteSet(S), S # {}
    PROVE  Min(S) \in S /\ \A x \in S : Min(S) <= x
<1> DEFINE N == {-x : x \in S}
           f == [x \in S |-> -x]
<1>1. IsFiniteSet(N)
  <2>1. f \in Surjection(S, N)
    BY DEF Surjection
  <2> HIDE DEF f, N
  <2> QED BY <2>1, FS_Surjection
<1>2. PICK m \in N : \A y \in N : y <= m
  <2>1. N \in SUBSET Int
    OBVIOUS
  <2>2. N # {}
    <3>1. PICK x \in S : TRUE
      OBVIOUS
    <3>2. -x \in N
      OBVIOUS
    <3> QED BY <3>2
  <2> HIDE DEF N
  <2> QED BY <1>1, <2>1, <2>2, FiniteHasMax
<1>3. PICK a \in S : m = -a
  BY <1>2
<1>4. \A x \in S : -x <= -a
  BY <1>2, <1>3
<1>5. \A x \in S : a <= x
  BY <1>4
<1> QED BY <1>5 DEF Min

\* The greatest of a number and a finite set.
LEMMA MaxWith ==
    ASSUME NEW a \in Int, NEW S \in SUBSET Int, IsFiniteSet(S)
    PROVE  /\ Max({a} \cup S) \in {a} \cup S
           /\ Max({a} \cup S) \in Int /\ a <= Max({a} \cup S)
           /\ \A x \in S : x <= Max({a} \cup S)
<1>1. IsFiniteSet(S \cup {a})
  BY FS_AddElement
<1>2. S \cup {a} = {a} \cup S
  OBVIOUS
<1>3. IsFiniteSet({a} \cup S)
  BY <1>1, <1>2
<1>4. {a} \cup S \in SUBSET Int /\ {a} \cup S # {}
  OBVIOUS
<1> QED BY <1>3, <1>4, MaxIsMax

\* The greater of two numbers.
LEMMA MaxOfTwo ==
    ASSUME NEW a \in Int, NEW b \in Int
    PROVE  Max({a, b}) = IF a >= b THEN a ELSE b
BY DEF Max

\* The lesser of two numbers.
LEMMA MinOfTwo ==
    ASSUME NEW a \in Int, NEW b \in Int
    PROVE  Min({a, b}) = IF a <= b THEN a ELSE b
BY DEF Min
-----------------------------------------------------------------------------

\* Seqs of a finite set of entries, for Max and Min.
LEMMA SeqsFinite ==
    ASSUME NEW S \in SUBSET Entry, IsFiniteSet(S)
    PROVE  Seqs(S) \in SUBSET Nat /\ IsFiniteSet(Seqs(S)) /\ (S # {} => Seqs(S) # {})
<1> DEFINE f == [e \in S |-> e.seq]
<1>1. f \in Surjection(S, Seqs(S))
  BY DEF Surjection, Seqs
<1>2. IsFiniteSet(Seqs(S))
  <2> HIDE DEF f
  <2> QED BY <1>1, FS_Surjection
<1>3. Seqs(S) \in SUBSET Nat
  BY DEF Seqs, Entry
<1>4. ASSUME S # {} PROVE Seqs(S) # {}
  <2>1. PICK e \in S : TRUE
    BY <1>4
  <2>2. e.seq \in Seqs(S)
    BY DEF Seqs
  <2> QED BY <2>2
<1> QED BY <1>2, <1>3, <1>4

\* MaxSeqOf and MinSeqOf bound the seqs of a set of entries, and are taken.
LEMMA SeqBounds ==
    ASSUME NEW S \in SUBSET Entry, IsFiniteSet(S), S # {}
    PROVE  /\ MaxSeqOf(S) \in Nat /\ MinSeqOf(S) \in Nat
           /\ \A e \in S : MinSeqOf(S) <= e.seq /\ e.seq <= MaxSeqOf(S)
           /\ \E e \in S : e.seq = MaxSeqOf(S)
<1>1. /\ Seqs(S) \in SUBSET Nat /\ IsFiniteSet(Seqs(S)) /\ Seqs(S) # {}
      /\ Seqs(S) \in SUBSET Int
  BY SeqsFinite
<1>2. Max(Seqs(S)) \in Seqs(S) /\ \A x \in Seqs(S) : x <= Max(Seqs(S))
  BY <1>1, MaxIsMax
<1>3. Min(Seqs(S)) \in Seqs(S) /\ \A x \in Seqs(S) : Min(Seqs(S)) <= x
  BY <1>1, MinIsMin
<1> QED BY <1>1, <1>2, <1>3 DEF Seqs, MaxSeqOf, MinSeqOf

(***************************************************************************)
(* enforceCapacity: what overflows is the lower end of the durable         *)
(* entries, and a new entry above all others is never part of it.          *)
(***************************************************************************)
LEMMA OverflowIsLowEnd ==
    ASSUME NEW S \in SUBSET Entry, IsFiniteSet(S)
    PROVE  /\ Overflow(S) \subseteq Durables(S)
           /\ IsFiniteSet(Overflow(S))
           /\ \A g \in Overflow(S), r \in Durables(S) \ Overflow(S) : g.seq < r.seq
           /\ \A e \in S : (\A f \in S : f.seq <= e.seq) => e \notin Overflow(S)
<1> DEFINE Above(e) == {f \in Durables(S) : f.seq > e.seq}
<1>1. Overflow(S) \subseteq Durables(S) /\ Durables(S) \subseteq S
  BY DEF Overflow, Durables
<1>2. IsFiniteSet(Durables(S)) /\ IsFiniteSet(Overflow(S))
  BY <1>1, FS_Subset
<1>3. \A e \in Durables(S) : IsFiniteSet(Above(e)) /\ Cardinality(Above(e)) \in Nat
  BY <1>2, FS_Subset, FS_CardinalityType
<1>4. ASSUME NEW g \in Overflow(S), NEW r \in Durables(S) \ Overflow(S)
      PROVE  g.seq < r.seq
  <2>1. g.seq \in Nat /\ r.seq \in Nat /\ g \in Durables(S)
    BY <1>1 DEF Entry
  <2> SUFFICES ASSUME r.seq <= g.seq PROVE FALSE
    BY <2>1
  <2>2. Above(g) \subseteq Above(r)
    BY <2>1, <1>1 DEF Entry
  <2>3. Cardinality(Above(g)) <= Cardinality(Above(r))
    BY <2>2, <1>3, FS_Subset
  <2>4. Cardinality(Above(g)) >= Capacity /\ ~(Cardinality(Above(r)) >= Capacity)
    BY DEF Overflow
  <2> HIDE DEF Above
  <2> QED BY <2>1, <2>3, <2>4, <1>3, RelayConstantsAssumption
<1>5. ASSUME NEW e \in S, \A f \in S : f.seq <= e.seq, e \in Overflow(S)
      PROVE  FALSE
  <2>1. Above(e) = {}
    BY <1>1, <1>5 DEF Entry
  <2>2. Cardinality(Above(e)) = 0
    BY <2>1, FS_EmptySet
  <2>3. Cardinality(Above(e)) >= Capacity
    BY <1>5 DEF Overflow
  <2> QED BY <2>2, <2>3, RelayConstantsAssumption
<1> QED BY <1>1, <1>2, <1>4, <1>5

(***************************************************************************)
(* recordDrop: after a drop there is one marker, which counts what the     *)
(* markers before it counted and what was dropped, and reaches up to the   *)
(* highest entry dropped if that lies above them.                          *)
(***************************************************************************)
LEMMA RecordDropsWidens ==
    ASSUME NEW M \in SUBSET LossMarker, \A m, n \in M : m = n,
           NEW S \in SUBSET Entry, IsFiniteSet(S), S # {}
    PROVE  \E w \in LossMarker :
              /\ RecordDrops(M, S) = {w}
              /\ w.dropped = S \cup DroppedBy(M)
              /\ (\A m \in M, e \in S : m.to < e.seq) => w.to = MaxSeqOf(S)
<1>1. /\ MaxSeqOf(S) \in Nat /\ MinSeqOf(S) \in Nat
      /\ \E e \in S : e.seq = MaxSeqOf(S)
  BY SeqBounds
<1>2. CASE M = {}
  <2> DEFINE w == [from |-> MinSeqOf(S), to |-> MaxSeqOf(S), dropped |-> S]
  <2>1. w \in LossMarker
    BY <1>1 DEF LossMarker
  <2>2. RecordDrops(M, S) = {w}
    BY <1>2 DEF RecordDrops
  <2>3. DroppedBy(M) = {}
    BY <1>2 DEF DroppedBy
  <2> QED BY <2>1, <2>2, <2>3
<1>3. CASE M # {}
  <2>1. PICK m \in M : M = {m}
    BY <1>3
  <2>2. m \in LossMarker /\ m.from \in Nat /\ m.to \in Nat /\ m.dropped \in SUBSET Entry
    BY <2>1 DEF LossMarker
  <2>3. LastMarker(M) = m
    BY <2>1, <2>2 DEF LastMarker
  <2> DEFINE w == Widen(m, S)
  <2>4. RecordDrops(M, S) = {w}
    BY <1>3, <2>1, <2>3 DEF RecordDrops
  <2>5. /\ Min({m.from, MinSeqOf(S)}) \in Nat
        /\ Max({m.to, MaxSeqOf(S)}) = IF m.to >= MaxSeqOf(S) THEN m.to ELSE MaxSeqOf(S)
    BY <1>1, <2>2, MaxOfTwo, MinOfTwo
  <2>6. w \in LossMarker
    BY <1>1, <2>2, <2>5 DEF Widen, LossMarker
  <2>7. DroppedBy(M) = m.dropped
    BY <2>1 DEF DroppedBy
  <2>8. w.dropped = S \cup DroppedBy(M)
    BY <2>7 DEF Widen
  <2>9. ASSUME \A n \in M, e \in S : n.to < e.seq PROVE w.to = MaxSeqOf(S)
    BY <1>1, <2>1, <2>2, <2>5, <2>9 DEF Widen
  <2> QED BY <2>4, <2>6, <2>8, <2>9
<1> QED BY <1>2, <1>3

\* recomputeAckLocked never lowers the cursor, nor lifts it above what was received.
LEMMA RecomputeAckBounds ==
    ASSUME NEW r \in Nat, NEW p \in SUBSET Nat, IsFiniteSet(p), NEW a \in Nat
    PROVE  LET v == RecomputeAck(r, p, a)
           IN  v \in Nat /\ v >= a /\ (v = a \/ (v <= r /\ \A s \in p : v < s))
<1> DEFINE D == {s - 1 : s \in p}
           f == [s \in p |-> s - 1]
<1>1. IsFiniteSet(D)
  <2>1. f \in Surjection(p, D)
    BY DEF Surjection
  <2> HIDE DEF f, D
  <2> QED BY <2>1, FS_Surjection
<1>2. IsFiniteSet({r} \cup D) /\ {r} \cup D \in SUBSET Int /\ {r} \cup D # {}
  <2>1. D \in SUBSET Int
    OBVIOUS
  <2> HIDE DEF D
  <2>2. IsFiniteSet(D \cup {r})
    BY <1>1, FS_AddElement
  <2>3. D \cup {r} = {r} \cup D
    OBVIOUS
  <2> QED BY <2>1, <2>2, <2>3
<1>3. /\ Min({r} \cup D) \in Int /\ Min({r} \cup D) <= r
      /\ \A x \in D : Min({r} \cup D) <= x
  <2> HIDE DEF D
  <2> QED BY <1>2, MinIsMin
<1>4. \A s \in p : Min({r} \cup D) < s
  <2> TAKE s \in p
  <2>1. s \in Nat /\ s - 1 \in D
    OBVIOUS
  <2> HIDE DEF D
  <2>2. Min({r} \cup D) <= s - 1
    BY <1>3, <2>1
  <2> QED BY <1>3, <2>1, <2>2
<1>5. RecomputeAck(r, p, a) = IF a >= Min({r} \cup D) THEN a ELSE Min({r} \cup D)
  <2> HIDE DEF D
  <2>1. Max({a, Min({r} \cup D)}) = IF a >= Min({r} \cup D) THEN a ELSE Min({r} \cup D)
    BY <1>3, MaxOfTwo
  <2> QED BY <2>1 DEF RecomputeAck, D
<1> HIDE DEF D
<1> QED BY <1>3, <1>4, <1>5
-----------------------------------------------------------------------------
(***************************************************************************)
(* Types and shapes.                                                       *)
(***************************************************************************)
\* The first half of a Record, with its parts named.
LEMMA RecordShape ==
    ASSUME TypeOK, WellFormed, NEW k \in Kinds, Record(k)
    PROVE  LET e    == [seq |-> nextSeq + 1, kind |-> k]
               held == Supersede(entries, k) \cup {e}
               gone == Overflow(held)
           IN  /\ e \in Entry /\ held \in SUBSET Entry /\ IsFiniteSet(held)
               /\ gone \in SUBSET Entry /\ IsFiniteSet(gone)
               /\ RecordDrops(lossMarkers, gone) \in SUBSET LossMarker
               /\ \A m, n \in RecordDrops(lossMarkers, gone) : m = n
               /\ Durables({e}) \in SUBSET Entry /\ IsFiniteSet(Durables({e}))
<1> DEFINE e    == [seq |-> nextSeq + 1, kind |-> k]
           held == Supersede(entries, k) \cup {e}
           gone == Overflow(held)
<1>1. e \in Entry
  BY DEF TypeOK, RelayTypeOK, Entry
<1>2. held \in SUBSET Entry /\ Supersede(entries, k) \subseteq entries
  BY <1>1 DEF TypeOK, RelayTypeOK, Supersede
<1> HIDE DEF e
<1>3. IsFiniteSet(held)
  BY <1>2, FS_Subset, FS_AddElement DEF WellFormed
<1>4. gone \in SUBSET Entry /\ IsFiniteSet(gone)
  <2> HIDE DEF held
  <2> QED BY <1>2, <1>3, OverflowIsLowEnd DEF Durables
<1>5. /\ RecordDrops(lossMarkers, gone) \in SUBSET LossMarker
      /\ \A m, n \in RecordDrops(lossMarkers, gone) : m = n
  <2> HIDE DEF gone
  <2>1. lossMarkers \in SUBSET LossMarker /\ \A m, n \in lossMarkers : m = n
    BY DEF TypeOK, RelayTypeOK, WellFormed
  <2>2. CASE gone = {}
    BY <2>1, <2>2 DEF RecordDrops
  <2>3. CASE gone # {}
    BY <1>4, <2>1, <2>3, RecordDropsWidens
  <2> QED BY <2>2, <2>3
<1>6. Durables({e}) \in SUBSET Entry /\ IsFiniteSet(Durables({e}))
  BY <1>1, FS_Singleton, FS_Subset DEF Durables
<1> QED BY <1>1, <1>2, <1>3, <1>4, <1>5, <1>6 DEF e

\* NewDurableBuffer resumes at or above the high-water mark and every row.
LEMMA ResumeSeqBounds ==
    ASSUME TypeOK, WellFormed
    PROVE  /\ ResumeSeq \in Nat
           /\ \A e \in dEntries : e.seq <= ResumeSeq
<1>1. IsFiniteSet(dEntries) /\ dEntries \in SUBSET Entry /\ dHighWater \in Nat
  BY DEF TypeOK, RelayTypeOK, WellFormed
<1>2. IsFiniteSet(Seqs(dEntries)) /\ Seqs(dEntries) \in SUBSET Nat
  BY <1>1, SeqsFinite
<1>3. /\ Max({dHighWater} \cup Seqs(dEntries)) \in {dHighWater} \cup Seqs(dEntries)
      /\ \A x \in Seqs(dEntries) : x <= Max({dHighWater} \cup Seqs(dEntries))
  <2>1. Seqs(dEntries) \in SUBSET Int /\ dHighWater \in Int
    BY <1>1, <1>2
  <2> QED BY <1>2, <2>1, MaxWith
<1>4. \A e \in dEntries : e.seq \in Seqs(dEntries)
  BY DEF Seqs
<1> QED BY <1>1, <1>2, <1>3, <1>4 DEF ResumeSeq

\* Every step keeps the types, the finiteness and the single marker.
LEMMA ShapeStep ==
    ASSUME TypeOK, WellFormed, [Next]_vars
    PROVE  TypeOK' /\ WellFormed'
<1> USE DEF TypeOK, RelayTypeOK, IngestTypeOK, WellFormed
<1>1. ASSUME RelayStep PROVE TypeOK' /\ WellFormed'
  <2> USE <1>1 DEF RelayStep, ingestVars, cursors, runner, ingestHistory, wire, restarts,
                   memory, disk, channel, history
  <2>1. ASSUME NEW k \in Kinds, Record(k) PROVE TypeOK' /\ WellFormed'
    <3> DEFINE e    == [seq |-> nextSeq + 1, kind |-> k]
               held == Supersede(entries, k) \cup {e}
               gone == Overflow(held)
               rows == dEntries \cup Durables({e})
    <3>1. /\ held \in SUBSET Entry /\ IsFiniteSet(held)
          /\ gone \in SUBSET Entry
          /\ RecordDrops(lossMarkers, gone) \in SUBSET LossMarker
          /\ \A m, n \in RecordDrops(lossMarkers, gone) : m = n
          /\ Durables({e}) \in SUBSET Entry /\ IsFiniteSet(Durables({e}))
      BY <2>1, RecordShape
    <3>2. IsFiniteSet(rows) /\ rows \in SUBSET Entry
      BY <3>1, FS_Union
    <3>3. /\ nextSeq' = nextSeq + 1 /\ entries' = held \ gone
          /\ lossMarkers' = RecordDrops(lossMarkers, gone)
          /\ dEntries' \subseteq rows
          /\ dMarkers' \in {dMarkers, RecordDrops(lossMarkers, gone)}
          /\ storeErr' \in BOOLEAN
          /\ recorded' = recorded \cup Durables({e})
          /\ evicted' = evicted \cup gone
          /\ mu' = "record"
          /\ UNCHANGED <<dHighWater, ackedThrough, flush, attempt, batch, reissued>>
      BY <2>1, RelayConstantsAssumption DEF Record
    <3> HIDE DEF e, held, gone, rows
    <3>4. IsFiniteSet(entries') /\ IsFiniteSet(dEntries')
      BY <3>1, <3>2, <3>3, FS_Subset
    <3>5. entries' \in SUBSET Entry /\ dEntries' \in SUBSET Entry
      BY <3>1, <3>2, <3>3
    <3>6. /\ lossMarkers' \in SUBSET LossMarker /\ dMarkers' \in SUBSET LossMarker
          /\ \A m, n \in lossMarkers' : m = n
          /\ \A m, n \in dMarkers' : m = n
      BY <3>1, <3>3
    <3>7. RelayTypeOK'
      <4>1. recorded' \in SUBSET Entry /\ evicted' \in SUBSET Entry
        BY <3>1, <3>3
      <4>2. nextSeq' \in Nat /\ dHighWater' \in Nat /\ mu' \in {"free", "record", "ack"}
        BY <3>3
      <4>3. /\ ackedThrough' \in Nat /\ attempt' \in Nat
            /\ flush' \in {"idle", "pending", "built", "pushing"}
            /\ batch' \in [entries : SUBSET Entry, markers : SUBSET LossMarker]
            /\ reissued' \in BOOLEAN
        BY <3>3
      <4> QED BY <3>3, <3>5, <3>6, <4>1, <4>2, <4>3
    <3>8. WellFormed'
      BY <3>4, <3>6
    <3> QED BY <3>7, <3>8
  <2>2. CASE SaveSeqHighWater
    <3>1. dHighWater' \in Nat
      BY <2>2, MaxOfTwo DEF SaveSeqHighWater
    <3> QED BY <2>2, <3>1, RelayConstantsAssumption DEF SaveSeqHighWater
  <2>3. CASE StoreErr
    BY <2>3 DEF StoreErr
  <2>4. CASE FlushTick
    BY <2>4 DEF FlushTick
  <2>5. CASE BuildPending
    BY <2>5 DEF BuildPending
  <2>6. CASE BuildLossMarkers
    BY <2>6, SMTT(30) DEF BuildLossMarkers, EmptyBatch
  <2>7. CASE SaveLossMarkers
    BY <2>7, RelayConstantsAssumption DEF SaveLossMarkers
  <2> QED BY <2>1, <2>2, <2>3, <2>4, <2>5, <2>6, <2>7 DEF RelayNext
<1> USE DEF relayVars, memory, disk, channel, history, ingestVars, cursors, runner,
            ingestHistory, wire, restarts, Batch, Ack, SeqRange
<1>2. CASE SendPush
  BY <1>2 DEF SendPush
<1>3. CASE HandlePush
  BY <1>3 DEF HandlePush, BeginBatch
<1>4. CASE HandleLatePush
  BY <1>4 DEF HandleLatePush, BeginBatch
<1>5. CASE HandlerStep
  <2> USE <1>5 DEF HandlerStep
  <2>1. ASSUME NEW e \in handling.rest, TakeEntry(e) PROVE TypeOK' /\ WellFormed'
    <3>1. e \in Entry /\ e.seq \in Nat
      BY DEF Entry
    <3>2. /\ processed' = processed \cup {e.seq}
          /\ handling' = [handling EXCEPT !.rest = @ \ {e}]
          /\ pending' \in {pending, pending \cup {e.seq}}
          /\ queue' \in {queue, Append(queue, e.seq)}
          /\ log' \in {log, Append(log, e)}
          /\ dropped' \in {dropped, dropped \cup {e}}
          /\ UNCHANGED <<receivedThrough, ackThrough, draining, delivering, epoch, reported>>
      BY <2>1 DEF TakeEntry
    <3>3. IsFiniteSet(processed') /\ IsFiniteSet(pending')
      <4>1. IsFiniteSet(processed \cup {e.seq}) /\ IsFiniteSet(pending \cup {e.seq})
        BY FS_AddElement
      <4> QED BY <3>2, <4>1
    <3>4. log' \in Seq(Entry) /\ epoch' \in 0..Len(log') /\ queue' \in Seq(Nat)
      <4>1. log \in Seq(Entry) /\ epoch \in 0..Len(log) /\ queue \in Seq(Nat)
        OBVIOUS
      <4>2. Append(log, e) \in Seq(Entry) /\ Len(Append(log, e)) = Len(log) + 1
        BY <3>1, <4>1
      <4>3. Append(queue, e.seq) \in Seq(Nat)
        BY <3>1, <4>1
      <4>4. log' \in Seq(Entry) /\ queue' \in Seq(Nat)
        BY <3>2, <4>1, <4>2, <4>3
      <4>5. epoch' = epoch /\ Len(log) \in Nat /\ Len(log') \in {Len(log), Len(log) + 1}
        BY <3>2, <4>1, <4>2
      <4> QED BY <4>1, <4>4, <4>5
    <3>5. processed' \in SUBSET Nat /\ pending' \in SUBSET Nat /\ dropped' \in SUBSET Entry
      BY <3>1, <3>2
    <3>6. /\ handling' \in [busy : BOOLEAN, rest : SUBSET Entry, markers : SUBSET LossMarker]
          /\ handling'.busy \in BOOLEAN
      BY <3>2
    <3>7. IngestTypeOK'
      BY <3>2, <3>4, <3>5, <3>6
    <3> QED BY <3>2, <3>3, <3>4, <3>5, <3>6, <3>7
  <2>2. CASE StopAtFullQueue
    BY <2>2 DEF StopAtFullQueue
  <2> QED BY <2>1, <2>2 DEF HandlerNext
<1>6. CASE AnswerPush
  <2>1. ReceivedAfterBatch \in Nat
    <3>1. processed \in SUBSET Int /\ receivedThrough \in Int
      OBVIOUS
    <3>2. Max({receivedThrough} \cup processed) \in {receivedThrough} \cup processed
      BY <3>1, MaxWith
    <3> QED BY <3>2 DEF ReceivedAfterBatch
  <2>2. AckAfterBatch \in Nat
    BY <2>1, RecomputeAckBounds DEF AckAfterBatch
  <2>3. Answer \in Ack
    BY <2>2 DEF Answer, RangeOfMarker, LossMarker
  <2>4. IsFiniteSet({})
    BY FS_EmptySet
  <2> QED BY <1>6, <2>1, <2>2, <2>3, <2>4 DEF AnswerPush, FinishBatch, Idle
<1>7. CASE RunnerStep
  <2> USE <1>7 DEF RunnerStep
  <2>1. CASE TakeHead
    BY <2>1 DEF TakeHead
  <2>2. CASE Conclude
    <3>1. IsFiniteSet(pending')
      BY <2>2, FS_RemoveElement DEF Conclude
    <3>2. pending' \in SUBSET Nat
      BY <2>2 DEF Conclude
    <3>3. RecomputeAck(receivedThrough, pending', ackThrough) \in Nat
      BY <3>1, <3>2, RecomputeAckBounds
    <3> QED BY <2>2, <3>1, <3>2, <3>3 DEF Conclude, NoSeq
  <2>3. CASE RunnerExits
    BY <2>3 DEF RunnerExits
  <2> QED BY <2>1, <2>2, <2>3 DEF RunnerNext
<1>8. CASE PushReturnsAck
  <2>1. Max({ackedThrough, answer.through}) \in Nat
    BY MaxOfTwo
  <2>2. /\ entries' \subseteq entries /\ dEntries' \subseteq dEntries
        /\ lossMarkers' \subseteq lossMarkers
    BY <1>8 DEF PushReturnsAck, ApplyAck, Unacked
  <2>3. IsFiniteSet(entries') /\ IsFiniteSet(dEntries')
    BY <2>2, FS_Subset
  <2>4. WellFormed'
    BY <1>8, <2>2, <2>3 DEF PushReturnsAck, ApplyAck
  <2>5. RelayTypeOK'
    BY <1>8, <2>1, <2>2 DEF PushReturnsAck, ApplyAck, EmptyBatch
  <2> QED BY <1>8, <2>4, <2>5 DEF PushReturnsAck, NoAnswer
<1>9. CASE PushReturnsError
  BY <1>9 DEF PushReturnsError, PushFailed, Abandon, NoAnswer, EmptyBatch
<1>10. CASE CrashRelay
  <2>1. ResumeSeq \in Nat
    BY ResumeSeqBounds
  <2>2. RelayTypeOK'
    BY <1>10, <2>1 DEF CrashRelay, RelayRestart, EmptyBatch
  <2>3. WellFormed'
    BY <1>10 DEF CrashRelay, RelayRestart
  <2>4. push' = "none" /\ answer' = NoAnswer /\ late' \in {late, late \cup {batch}}
    BY <1>10 DEF CrashRelay, Abandon
  <2> QED BY <1>10, <2>2, <2>3, <2>4 DEF CrashRelay, NoAnswer
<1>11. CASE CrashIngest
  <2>1. IsFiniteSet({})
    BY FS_EmptySet
  <2>2. epoch' \in 0..Len(log') /\ <<>> \in Seq(Nat)
    <3>1. Len(log) \in Nat /\ epoch' = Len(log) /\ log' = log
      BY <1>11 DEF CrashIngest, IngestRestart
    <3> QED BY <3>1
  <2>3. IngestTypeOK'
    BY <1>11, <2>1, <2>2 DEF CrashIngest, IngestRestart, Idle, NoSeq
  <2>4. WellFormed'
    BY <1>11, <2>1 DEF CrashIngest, IngestRestart
  <2> QED BY <1>11, <2>3, <2>4 DEF CrashIngest, IngestRestart, Idle
<1>12. CASE UNCHANGED vars
  BY <1>12 DEF vars
<1> QED BY <1>1, <1>2, <1>3, <1>4, <1>5, <1>6, <1>7, <1>8, <1>9, <1>10, <1>11, <1>12 DEF Next

\* TypeOK holds initially, with finite collections.
LEMMA ShapeInit == Init => TypeOK /\ WellFormed
<1> SUFFICES ASSUME Init PROVE TypeOK /\ WellFormed
  OBVIOUS
<1>1. IsFiniteSet({})
  BY FS_EmptySet
<1>2. RelayTypeOK
  BY DEF Init, RelayInit, RelayTypeOK, EmptyBatch
<1>3. IngestTypeOK /\ log \in Seq(Entry)
  <2>1. <<>> \in Seq(Nat) /\ <<>> \in Seq(Entry) /\ Len(<<>>) = 0 /\ 0 \in 0..0
    OBVIOUS
  <2> QED BY <2>1 DEF Init, IngestInit, IngestTypeOK, Idle, NoSeq
<1>4. TypeOK
  BY <1>2, <1>3 DEF Init, IngestInit, TypeOK, Idle, NoAnswer, Ack
<1> QED BY <1>1, <1>4 DEF Init, RelayInit, IngestInit, WellFormed

(***************************************************************************)
(* Every state of the channel is of its type.                              *)
(***************************************************************************)
THEOREM TypeCorrect == Spec => []TypeOK
<1>1. TypeOK /\ WellFormed /\ [Next]_vars => TypeOK' /\ WellFormed'
  BY ShapeStep
<1> QED BY <1>1, ShapeInit, PTL DEF Spec
-----------------------------------------------------------------------------
(***************************************************************************)
(* The channel's invariant.  Its parts speak of these variables; a step    *)
(* that leaves them alone preserves it.                                    *)
(***************************************************************************)
channelVars == <<entries, nextSeq, lossMarkers, dEntries, dMarkers, mu, ackedThrough,
                 batch, recorded, evicted, receivedThrough, ackThrough, processed,
                 handling, log, dropped, reported, answer, late>>

LEMMA Untouched ==
    ASSUME ChannelOK, UNCHANGED channelVars
    PROVE  ChannelOK'
<1>1. /\ Flying' = Flying /\ SeenMarkers' = SeenMarkers
      /\ Terminal' = Terminal /\ Marked' = Marked /\ IssuedSeq' = IssuedSeq
      /\ Durables(entries)' = Durables(entries)
      /\ DroppedBy(dMarkers)' = DroppedBy(dMarkers)
      /\ DroppedBy(lossMarkers)' = DroppedBy(lossMarkers)
      /\ DroppedBy(reported)' = DroppedBy(reported)
  BY DEF channelVars, Flying, SeenMarkers, Terminal, Marked, Appended, DroppedBy, IssuedSeq,
         Durables
<1>2. Accounted' = Accounted
  BY <1>1 DEF Accounted
<1>3. \A x : Covered(x)' <=> Covered(x)
  BY <1>2 DEF Covered, channelVars
<1> USE DEF ChannelOK, channelVars
<1>4. DiskMirrorsBuffer' /\ Numbering'
  BY <1>1 DEF DiskMirrorsBuffer, Numbering
<1>5. SeqIsIdentity' /\ FlyingClosed'
  BY <1>1, <1>2 DEF SeqIsIdentity, FlyingClosed
<1>6. CursorsCovered'
  BY <1>3 DEF CursorsCovered
<1>7. MarkersAgree' /\ Settled'
  BY <1>1 DEF MarkersAgree, Settled, EveryEntrySettled
<1> QED BY <1>4, <1>5, <1>6, <1>7

\* What is covered up to y is covered up to anything below it.
LEMMA Downward ==
    ASSUME TypeOK, NEW x \in Nat, NEW y \in Nat, x <= y, Covered(y)
    PROVE  Covered(x)
<1>1. \A e \in recorded : e.seq \in Nat
  BY DEF TypeOK, RelayTypeOK, Entry
<1> QED BY <1>1 DEF Covered

(***************************************************************************)
(* A Record: the new entry lies above everything issued, and what it       *)
(* pushes out of the buffer is counted by the marker written with it.      *)
(***************************************************************************)
LEMMA RecordKeepsChannel ==
    ASSUME TypeOK, WellFormed, ChannelOK, StoreOutcomes = {TRUE},
           NEW k \in Kinds, Record(k),
           UNCHANGED <<ingestVars, wire, restarts>>
    PROVE  /\ ChannelOK'
           /\ Marked \subseteq Marked'
           /\ dEntries' \cup DroppedBy(dMarkers') =
                 dEntries \cup DroppedBy(dMarkers) \cup (recorded' \ recorded)
<1> DEFINE e     == [seq |-> nextSeq + 1, kind |-> k]
           held  == Supersede(entries, k) \cup {e}
           gone  == Overflow(held)
           marks == RecordDrops(lossMarkers, gone)
<1>1. /\ mu = "free" /\ mu' = "record" /\ nextSeq' = nextSeq + 1
      /\ entries' = held \ gone
      /\ lossMarkers' = marks
      /\ dMarkers' = IF gone # {} THEN marks ELSE dMarkers
      /\ recorded' = recorded \cup Durables({e})
      /\ evicted' = evicted \cup gone
      /\ UNCHANGED <<ackedThrough, batch, receivedThrough, ackThrough, processed,
                     handling, log, dropped, reported, answer, late>>
  BY DEF Record, channel, ingestVars, cursors, runner, ingestHistory, wire
<1>2. dEntries' = IF gone = {} THEN dEntries \cup Durables({e})
                  ELSE {r \in dEntries \cup Durables({e}) : r.seq > MaxSeqOf(gone)}
  BY DEF Record
<1>3. /\ e \in Entry /\ held \in SUBSET Entry /\ IsFiniteSet(held)
      /\ gone \in SUBSET Entry /\ IsFiniteSet(gone)
      /\ nextSeq \in Nat /\ e.seq = nextSeq + 1
      /\ lossMarkers \in SUBSET LossMarker /\ \A m, n \in lossMarkers : m = n
      /\ entries \in SUBSET Entry /\ dEntries \in SUBSET Entry
  BY RecordShape DEF TypeOK, RelayTypeOK, WellFormed
<1>4. /\ lossMarkers = dMarkers /\ Durables(entries) = dEntries
      /\ \A f \in entries : f.seq <= nextSeq
      /\ IssuedSeq = nextSeq /\ IssuedSeq' = nextSeq
  BY <1>1, <1>3 DEF ChannelOK, DiskMirrorsBuffer, Numbering, IssuedSeq
<1>5. Durables(held) = dEntries \cup Durables({e})
  BY <1>4, KindsAssumption DEF Supersede, Durables
<1>6. /\ gone \subseteq Durables(held)
      /\ \A g \in gone, r \in Durables(held) \ gone : g.seq < r.seq
  BY <1>3, OverflowIsLowEnd
<1>7. e \notin gone
  <2>1. \A f \in held : f.seq <= e.seq
    BY <1>3, <1>4 DEF Supersede, Entry
  <2> QED BY <1>3, <2>1, OverflowIsLowEnd
<1> HIDE DEF e, held, gone, marks
<1>8. gone \subseteq dEntries
  BY <1>5, <1>6, <1>7 DEF Durables
<1>9. dEntries' = Durables(held) \ gone
  <2>1. CASE gone = {}
    BY <1>2, <1>5, <2>1
  <2>2. CASE gone # {}
    <3>1. \A g \in gone : g.seq <= MaxSeqOf(gone) /\ MaxSeqOf(gone) \in Nat
      BY <1>3, <2>2, SeqBounds
    <3>2. PICK g \in gone : g.seq = MaxSeqOf(gone)
      BY <1>3, <2>2, SeqBounds
    <3>3. \A r \in Durables(held) : r.seq \in Nat
      BY <1>3 DEF Durables, Entry
    <3>4. \A r \in Durables(held) : r.seq > MaxSeqOf(gone) <=> r \notin gone
      BY <1>6, <3>1, <3>2, <3>3
    <3> QED BY <1>2, <1>5, <2>2, <3>4
  <2> QED BY <2>1, <2>2
<1>10. Durables(entries') = dEntries'
  BY <1>1, <1>9 DEF Durables
\* The markers.
<1>11. /\ lossMarkers' = dMarkers'
       /\ DroppedBy(dMarkers') = DroppedBy(dMarkers) \cup gone
       /\ \A m \in dMarkers' : \/ m \in dMarkers
                               \/ gone # {} /\ m.to = MaxSeqOf(gone)
       /\ \A m, n \in dMarkers' : m = n
  <2>1. CASE gone = {}
    BY <1>1, <1>3, <1>4, <2>1 DEF marks, RecordDrops
  <2>2. CASE gone # {}
    <3>1. \A m \in lossMarkers, f \in gone : m.to < f.seq
      BY <1>8 DEF ChannelOK, MarkersAgree, SeenMarkers
    <3>2. PICK w \in LossMarker :
             /\ marks = {w}
             /\ w.dropped = gone \cup DroppedBy(lossMarkers)
             /\ w.to = MaxSeqOf(gone)
      BY <1>3, <2>2, <3>1, RecordDropsWidens DEF marks
    <3>3. DroppedBy({w}) = w.dropped
      BY DEF DroppedBy
    <3> QED BY <1>1, <1>4, <2>2, <3>2, <3>3
  <2> QED BY <2>1, <2>2
<1>12. Marked' = Marked \cup gone /\ Terminal' = Terminal
  <2>1. DroppedBy(dMarkers)' = DroppedBy(dMarkers) \cup gone
    BY <1>11 DEF DroppedBy
  <2>2. DroppedBy(reported)' = DroppedBy(reported)
    BY <1>1 DEF DroppedBy
  <2> QED BY <1>1, <2>1, <2>2 DEF Marked, Terminal, Appended
<1>13. Accounted \subseteq Accounted'
  BY <1>12 DEF Accounted
<1>14. Flying' = Flying
  BY <1>1 DEF Flying
<1>15. \A f \in recorded' : f \in recorded \/ (f = e /\ f.seq = nextSeq + 1 /\ f \in dEntries')
  BY <1>1, <1>3, <1>5, <1>7, <1>9 DEF Durables
<1>16. DiskMirrorsBuffer'
  <2>1. Durables(entries)' = dEntries'
    BY <1>10 DEF Durables
  <2>2. DroppedBy(lossMarkers)' = DroppedBy(dMarkers)'
    BY <1>11 DEF DroppedBy
  <2> QED BY <1>11, <2>1, <2>2 DEF DiskMirrorsBuffer
<1>17. \A m \in SeenMarkers' : m \in SeenMarkers \/ (m \in dMarkers' /\ gone # {} /\ m.to = MaxSeqOf(gone))
  BY <1>1, <1>11 DEF SeenMarkers
<1>18. gone # {} => /\ MaxSeqOf(gone) \in Nat
                    /\ MaxSeqOf(gone) <= nextSeq
                    /\ \A m \in SeenMarkers : m.to < MaxSeqOf(gone)
  <2> SUFFICES ASSUME gone # {}
               PROVE  /\ MaxSeqOf(gone) \in Nat
                      /\ MaxSeqOf(gone) <= nextSeq
                      /\ \A m \in SeenMarkers : m.to < MaxSeqOf(gone)
    OBVIOUS
  <2>1. PICK g \in gone : g.seq = MaxSeqOf(gone)
    BY <1>3, SeqBounds
  <2>2. g \in dEntries /\ g \in entries
    BY <1>4, <1>8 DEF Durables
  <2>3. MaxSeqOf(gone) \in Nat
    BY <1>3, SeqBounds
  <2> QED BY <1>4, <2>1, <2>2, <2>3 DEF ChannelOK, MarkersAgree
<1>19. Numbering'
  <2>1. \A f \in entries' : f.seq <= nextSeq'
    BY <1>1, <1>3, <1>4 DEF held, Supersede, Entry
  <2>2. \A f \in recorded' : f.seq > 0 /\ (f.seq <= IssuedSeq' \/ f \in dEntries')
    <3> SUFFICES ASSUME NEW f \in recorded, f.seq <= nextSeq \/ f \in dEntries
                 PROVE  f.seq <= nextSeq
      BY <1>3, <1>4, <1>15 DEF ChannelOK, Numbering
    <3>1. f \in dEntries => f \in entries
      BY <1>4 DEF Durables
    <3> QED BY <1>4, <3>1
  <2>3. \A m \in SeenMarkers' : m.to <= IssuedSeq'
    BY <1>4, <1>17, <1>18 DEF ChannelOK, Numbering
  <2>4. \A B \in Flying' : \A f \in B : f.seq <= IssuedSeq'
    BY <1>4, <1>14 DEF ChannelOK, Numbering
  <2>5. /\ \A x \in processed' : x <= IssuedSeq'
        /\ receivedThrough' <= IssuedSeq' /\ ackThrough' <= IssuedSeq'
        /\ ackedThrough' <= IssuedSeq' /\ answer'.through <= IssuedSeq'
    BY <1>1, <1>4 DEF ChannelOK, Numbering
  <2>6. nextSeq' > 0
    BY <1>1, <1>3
  <2> QED BY <2>1, <2>2, <2>3, <2>4, <2>5, <2>6 DEF Numbering
<1>20. \A B \in Flying : \A b \in B : b.seq \in Nat /\ b.seq <= nextSeq
  BY <1>4 DEF ChannelOK, Numbering, Flying, TypeOK, RelayTypeOK, Batch, Entry
<1>21. SeqIsIdentity'
  <2> SUFFICES ASSUME NEW B \in Flying' \cup {entries'}, NEW b \in B, NEW f \in recorded',
                      f.seq = b.seq
               PROVE  f = b
    BY DEF SeqIsIdentity
  <2>1. CASE f \notin recorded
    <3>1. f = e /\ b.seq = nextSeq + 1
      BY <1>15, <2>1
    <3>2. B \notin Flying
      BY <1>3, <1>20, <3>1
    <3>3. b \in held
      BY <1>1, <1>14, <3>2
    <3>4. b = e \/ b \in entries
      BY <3>3 DEF held, Supersede
    <3> QED BY <1>3, <1>4, <3>1, <3>4
  <2>2. CASE f \in recorded
    <3>1. CASE b = e
      <4>1. f.seq <= nextSeq
        <5>1. f \in dEntries => f \in entries
          BY <1>4 DEF Durables
        <5> QED BY <1>4, <2>2, <5>1 DEF ChannelOK, Numbering
      <4> QED BY <1>3, <3>1, <4>1
    <3>2. CASE b # e
      <4>1. B \in Flying \/ b \in entries
        BY <1>1, <1>14, <3>2 DEF held, Supersede
      <4> QED BY <2>2, <4>1 DEF ChannelOK, SeqIsIdentity
    <3> QED BY <3>1, <3>2
  <2> QED BY <2>1, <2>2
<1>22. FlyingClosed'
  <2> SUFFICES ASSUME NEW B \in Flying, NEW b \in B, NEW f \in recorded', f.seq <= b.seq
               PROVE  f \in B \cup Accounted'
    BY <1>14 DEF FlyingClosed
  <2>1. f \in recorded
    BY <1>3, <1>15, <1>20
  <2> QED BY <1>13, <2>1 DEF ChannelOK, FlyingClosed
<1>23. CursorsCovered'
  <2>1. ASSUME NEW x \in Nat, x <= nextSeq, Covered(x) PROVE Covered(x)'
    BY <1>3, <1>13, <1>15, <2>1 DEF Covered
  <2>2. /\ receivedThrough \in Nat /\ ackThrough \in Nat /\ ackedThrough \in Nat
        /\ answer.through \in Nat /\ \A x \in processed : x \in Nat
    BY DEF TypeOK, RelayTypeOK, IngestTypeOK, Ack
  <2>3. /\ Covered(receivedThrough)' /\ Covered(ackThrough)'
        /\ Covered(ackedThrough)' /\ Covered(answer.through)'
    BY <1>1, <1>4, <2>1, <2>2 DEF ChannelOK, CursorsCovered, Numbering
  <2>4. \A x \in processed' : Covered(x)'
    BY <1>1, <1>4, <2>1, <2>2 DEF ChannelOK, CursorsCovered, Numbering
  <2> QED BY <2>3, <2>4 DEF CursorsCovered
<1>24. MarkersAgree'
  <2>1. \A m, n \in SeenMarkers' : m.to = n.to => m.dropped = n.dropped
    BY <1>11, <1>17, <1>18 DEF ChannelOK, MarkersAgree
  <2>2. \A m \in SeenMarkers', f \in dEntries' : m.to < f.seq
    <3> TAKE m \in SeenMarkers', f \in dEntries'
    <3>1. f \in Durables(held) /\ f \notin gone /\ (f \in dEntries \/ f = e)
      BY <1>5, <1>9 DEF Durables
    <3>2. CASE m \in SeenMarkers
      <4>1. m.to \in Nat /\ m.to <= nextSeq
        BY <1>4, <3>2 DEF ChannelOK, Numbering, SeenMarkers, TypeOK, RelayTypeOK, Batch, LossMarker
      <4> QED BY <1>3, <3>1, <3>2, <4>1 DEF ChannelOK, MarkersAgree
    <3>3. CASE gone # {} /\ m.to = MaxSeqOf(gone)
      BY <1>3, <1>6, <3>1, <3>3, SeqBounds
    <3> QED BY <1>17, <3>2, <3>3
  <2> QED BY <1>1, <2>1, <2>2 DEF ChannelOK, MarkersAgree
<1>25. Settled'
  <2>1. dEntries' \subseteq recorded'
    BY <1>1, <1>5, <1>9 DEF ChannelOK, Settled
  <2>2. recorded' \subseteq dEntries' \cup Terminal' \cup Marked'
    <3>1. \A f \in dEntries : f \in dEntries' \/ f \in gone
      BY <1>5, <1>9
    <3> QED BY <1>12, <1>15, <3>1 DEF ChannelOK, Settled, EveryEntrySettled
  <2>3. evicted' \subseteq Marked'
    BY <1>1, <1>12 DEF ChannelOK, Settled
  <2> QED BY <2>1, <2>2, <2>3 DEF Settled, EveryEntrySettled
<1>26. ChannelOK'
  BY <1>16, <1>19, <1>21, <1>22, <1>23, <1>24, <1>25 DEF ChannelOK
<1>27. recorded' \ recorded = Durables({e})
  <2>1. \A f \in recorded : f.seq <= nextSeq
    BY <1>4 DEF ChannelOK, Numbering, Durables
  <2>2. e \notin recorded
    BY <1>3, <2>1
  <2> QED BY <1>1, <2>2 DEF Durables
<1> QED BY <1>5, <1>8, <1>9, <1>11, <1>12, <1>26, <1>27

(***************************************************************************)
(* The relay's other steps on its own: the high-water write, the building  *)
(* of a batch, the saving of the markers.                                  *)
(***************************************************************************)
LEMMA RelayStepKeepsChannel ==
    ASSUME TypeOK, WellFormed, ChannelOK, StoreOutcomes = {TRUE}, RelayStep
    PROVE  ChannelOK'
<1> USE DEF RelayStep, ingestVars, cursors, runner, ingestHistory, wire, restarts,
            memory, disk, channel, history
<1>1. ASSUME NEW k \in Kinds, Record(k) PROVE ChannelOK'
  BY <1>1, RecordKeepsChannel
<1>2. CASE SaveSeqHighWater
  <2>1. /\ mu = "record" /\ mu' = "free"
        /\ UNCHANGED <<entries, nextSeq, lossMarkers, dEntries, dMarkers, ackedThrough,
                 batch, recorded, evicted, receivedThrough, ackThrough, processed,
                 handling, log, dropped, reported, answer, late>>
    BY <1>2 DEF SaveSeqHighWater
  <2>2. /\ Flying' = Flying /\ SeenMarkers' = SeenMarkers
        /\ Terminal' = Terminal /\ Marked' = Marked
        /\ Durables(entries)' = Durables(entries)
        /\ DroppedBy(dMarkers)' = DroppedBy(dMarkers)
        /\ DroppedBy(lossMarkers)' = DroppedBy(lossMarkers)
        /\ DroppedBy(reported)' = DroppedBy(reported)
    BY <2>1 DEF Flying, SeenMarkers, Terminal, Marked, Appended, DroppedBy, Durables
  <2>3. Accounted' = Accounted
    BY <2>2 DEF Accounted
  <2>4. IssuedSeq = nextSeq - 1 /\ IssuedSeq' = nextSeq /\ nextSeq \in Nat
    BY <2>1 DEF IssuedSeq, TypeOK, RelayTypeOK
  <2>5. /\ \A B \in Flying : \A e \in B : e.seq \in Nat
        /\ \A s \in processed : s \in Nat
        /\ receivedThrough \in Nat /\ ackThrough \in Nat /\ ackedThrough \in Nat
        /\ answer.through \in Nat /\ \A m \in SeenMarkers : m.to \in Nat
        /\ \A e \in recorded : e.seq \in Nat
    BY DEF TypeOK, RelayTypeOK, IngestTypeOK, Flying, SeenMarkers, Batch, Ack, LossMarker, Entry
  <2>6. DiskMirrorsBuffer'
    BY <2>1, <2>2 DEF ChannelOK, DiskMirrorsBuffer
  <2>7. Numbering'
    <3>1. \A e \in recorded' : e.seq > 0 /\ (e.seq <= IssuedSeq' \/ e \in dEntries')
      BY <2>1, <2>4, <2>5 DEF ChannelOK, Numbering
    <3>2. \A B \in Flying' : \A e \in B : e.seq <= IssuedSeq'
      BY <2>2, <2>4, <2>5 DEF ChannelOK, Numbering
    <3>3. \A m \in SeenMarkers' : m.to <= IssuedSeq'
      BY <2>2, <2>4, <2>5 DEF ChannelOK, Numbering
    <3>4. /\ \A s \in processed' : s <= IssuedSeq'
          /\ receivedThrough' <= IssuedSeq' /\ ackThrough' <= IssuedSeq'
          /\ ackedThrough' <= IssuedSeq' /\ answer'.through <= IssuedSeq'
      BY <2>1, <2>4, <2>5 DEF ChannelOK, Numbering
    <3> QED BY <2>1, <3>1, <3>2, <3>3, <3>4 DEF ChannelOK, Numbering
  <2>8. SeqIsIdentity' /\ FlyingClosed'
    BY <2>1, <2>2, <2>3 DEF ChannelOK, SeqIsIdentity, FlyingClosed
  <2>9. CursorsCovered'
    BY <2>1, <2>3 DEF ChannelOK, CursorsCovered, Covered
  <2>10. MarkersAgree' /\ Settled'
    BY <2>1, <2>2 DEF ChannelOK, MarkersAgree, Settled, EveryEntrySettled
  <2> QED BY <2>6, <2>7, <2>8, <2>9, <2>10 DEF ChannelOK
<1>3. CASE StoreErr
  BY <1>3, Untouched DEF StoreErr, channelVars
<1>4. CASE FlushTick
  BY <1>4, Untouched DEF FlushTick, channelVars
<1>5. ASSUME BuildPending \/ BuildLossMarkers PROVE ChannelOK'
  <2>1. /\ mu = "free"
        /\ UNCHANGED <<entries, nextSeq, lossMarkers, dEntries, dMarkers, mu, ackedThrough,
                       recorded, evicted, receivedThrough, ackThrough, processed,
                       handling, log, dropped, reported, answer, late>>
    BY <1>5 DEF BuildPending, BuildLossMarkers
  <2>2. /\ \/ batch'.entries = {e \in entries : e.seq > ackedThrough}
           \/ batch'.entries = batch.entries
           \/ batch'.entries = {}
        /\ batch'.markers \subseteq lossMarkers
    BY <1>5 DEF BuildPending, BuildLossMarkers, EmptyBatch, TypeOK, RelayTypeOK
  <2>3. /\ Terminal' = Terminal /\ Marked' = Marked /\ IssuedSeq' = IssuedSeq
        /\ IssuedSeq = nextSeq
        /\ Durables(entries)' = Durables(entries)
        /\ DroppedBy(dMarkers)' = DroppedBy(dMarkers)
        /\ DroppedBy(lossMarkers)' = DroppedBy(lossMarkers)
        /\ DroppedBy(reported)' = DroppedBy(reported)
    BY <2>1 DEF Terminal, Marked, Appended, DroppedBy, Durables, IssuedSeq
  <2>4. Accounted' = Accounted
    BY <2>3 DEF Accounted
  <2>5. SeenMarkers' \subseteq SeenMarkers
    BY <2>1, <2>2 DEF SeenMarkers
  <2>6. \A B \in Flying' : \/ B \in Flying
                          \/ B = {}
                          \/ B = {e \in entries : e.seq > ackedThrough}
    BY <2>1, <2>2 DEF Flying
  <2>7. DiskMirrorsBuffer'
    BY <2>1, <2>3 DEF ChannelOK, DiskMirrorsBuffer
  <2>8. Numbering'
    <3>1. \A B \in Flying' : \A e \in B : e.seq <= IssuedSeq'
      BY <2>3, <2>6 DEF ChannelOK, Numbering
    <3>2. \A m \in SeenMarkers' : m.to <= IssuedSeq'
      BY <2>3, <2>5 DEF ChannelOK, Numbering
    <3> QED BY <2>1, <2>3, <3>1, <3>2 DEF ChannelOK, Numbering
  <2>9. SeqIsIdentity'
    BY <2>1, <2>6 DEF ChannelOK, SeqIsIdentity
  <2>10. FlyingClosed'
    <3> SUFFICES ASSUME NEW B \in Flying', NEW b \in B, NEW e \in recorded, e.seq <= b.seq,
                        B = {f \in entries : f.seq > ackedThrough}, e \notin Accounted
                 PROVE  e \in B
      BY <2>1, <2>4, <2>6 DEF ChannelOK, FlyingClosed
    <3>1. e \in entries
      BY DEF ChannelOK, Settled, EveryEntrySettled, DiskMirrorsBuffer, Durables, Accounted
    <3>2. e.seq \in Nat /\ ackedThrough \in Nat
      BY DEF TypeOK, RelayTypeOK, Entry
    <3>3. ~(e.seq <= ackedThrough)
      BY DEF ChannelOK, CursorsCovered, Covered
    <3> QED BY <3>1, <3>2, <3>3
  <2>11. CursorsCovered'
    BY <2>1, <2>4 DEF ChannelOK, CursorsCovered, Covered
  <2>12. MarkersAgree' /\ Settled'
    BY <2>1, <2>3, <2>5 DEF ChannelOK, MarkersAgree, Settled, EveryEntrySettled
  <2> QED BY <2>7, <2>8, <2>9, <2>10, <2>11, <2>12 DEF ChannelOK
<1>6. CASE SaveLossMarkers
  <2>1. /\ mu = "ack" /\ mu' = "free" /\ dMarkers' = lossMarkers
        /\ UNCHANGED <<entries, nextSeq, lossMarkers, dEntries, ackedThrough, batch,
                       recorded, evicted, receivedThrough, ackThrough, processed,
                       handling, log, dropped, reported, answer, late>>
    BY <1>6 DEF SaveLossMarkers
  <2>2. /\ Terminal' = Terminal /\ IssuedSeq' = IssuedSeq /\ Flying' = Flying
        /\ Durables(entries)' = Durables(entries)
        /\ DroppedBy(dMarkers)' = DroppedBy(lossMarkers)
        /\ DroppedBy(lossMarkers)' = DroppedBy(lossMarkers)
        /\ DroppedBy(reported)' = DroppedBy(reported)
    BY <2>1 DEF Terminal, Appended, DroppedBy, Durables, IssuedSeq, Flying
  <2>3. SeenMarkers' \subseteq SeenMarkers
    BY <2>1 DEF SeenMarkers
  <2>4. Marked \subseteq Marked' /\ Accounted \subseteq Accounted'
    BY <2>2 DEF ChannelOK, DiskMirrorsBuffer, Marked, Accounted
  <2>5. DiskMirrorsBuffer'
    BY <2>1, <2>2 DEF ChannelOK, DiskMirrorsBuffer
  <2>6. Numbering'
    BY <2>1, <2>2, <2>3 DEF ChannelOK, Numbering
  <2>7. SeqIsIdentity' /\ FlyingClosed'
    BY <2>1, <2>2, <2>4 DEF ChannelOK, SeqIsIdentity, FlyingClosed
  <2>8. CursorsCovered'
    BY <2>1, <2>4 DEF ChannelOK, CursorsCovered, Covered
  <2>9. MarkersAgree' /\ Settled'
    BY <2>1, <2>2, <2>3, <2>4 DEF ChannelOK, MarkersAgree, Settled, EveryEntrySettled
  <2> QED BY <2>5, <2>6, <2>7, <2>8, <2>9 DEF ChannelOK
<1> QED BY <1>1, <1>2, <1>3, <1>4, <1>5, <1>6 DEF RelayNext

\* A turn of the handler's loop: the lowest entry left is finished with, or
\* the loop breaks.
LEMMA HandlerLoop ==
    ASSUME TypeOK, SinkOutcomes = {TRUE}, HandlerStep
    PROVE  /\ Terminal \subseteq Terminal'
           /\ \/ processed' = processed /\ handling'.rest = {}
              \/ \E e \in handling.rest :
                    /\ processed' = processed \cup {e.seq}
                    /\ handling'.rest = handling.rest \ {e}
                    /\ \A f \in handling.rest : e.seq <= f.seq
                    /\ e \in Terminal'
<1> USE DEF ingestVars, cursors, runner, ingestHistory
<1>1. CASE StopAtFullQueue
  BY <1>1 DEF HandlerStep, StopAtFullQueue, Terminal, Appended, TypeOK
<1>2. ASSUME NEW e \in handling.rest, TakeEntry(e)
      PROVE  /\ Terminal \subseteq Terminal'
             /\ processed' = processed \cup {e.seq}
             /\ handling'.rest = handling.rest \ {e}
             /\ \A f \in handling.rest : e.seq <= f.seq
             /\ e \in Terminal'
  <2>1. /\ processed' = processed \cup {e.seq}
        /\ handling'.rest = handling.rest \ {e}
        /\ \A f \in handling.rest : e.seq <= f.seq
    BY <1>2 DEF TakeEntry, NextEntry, TypeOK
  <2>2. CASE e.kind \in InvalidKinds
    <3>1. log' = log /\ dropped' = dropped \cup {e}
      BY <1>2, <2>2 DEF TakeEntry
    <3> QED BY <2>1, <3>1 DEF Terminal, Appended
  <2>3. CASE e.kind \notin InvalidKinds
    <3>1. log' = Append(log, e) /\ dropped' = dropped
      BY <1>2, <2>3 DEF TakeEntry
    <3>2. log \in Seq(Entry) /\ e \in Entry /\ Len(log) \in Nat
      BY DEF TypeOK
    <3>3. /\ Len(log') = Len(log) + 1 /\ log'[Len(log) + 1] = e
          /\ \A i \in 1..Len(log) : log'[i] = log[i]
      BY <3>1, <3>2
    <3>4. Appended \subseteq Appended' /\ e \in Appended'
      BY <3>2, <3>3 DEF Appended
    <3> QED BY <2>1, <3>1, <3>4 DEF Terminal
  <2> QED BY <2>2, <2>3
<1> QED BY <1>1, <1>2 DEF HandlerStep, HandlerNext

(***************************************************************************)
(* The app peer's steps.  None of them touches the relay.                  *)
(***************************************************************************)
LEMMA IngestStepKeepsChannel ==
    ASSUME TypeOK, WellFormed, ChannelOK, SinkOutcomes = {TRUE},
           HandlePush \/ HandleLatePush \/ HandlerStep \/ AnswerPush \/ RunnerStep
    PROVE  ChannelOK'
<1> USE DEF ingestVars, cursors, runner, ingestHistory, wire, restarts
<1>1. /\ UNCHANGED <<entries, nextSeq, lossMarkers, dEntries, dMarkers, mu, ackedThrough,
                     batch, recorded, evicted>>
      /\ IssuedSeq' = IssuedSeq
  BY DEF HandlePush, HandleLatePush, HandlerStep, AnswerPush, RunnerStep, IssuedSeq,
         relayVars, memory, disk, channel, history
<1>2. /\ Durables(entries)' = Durables(entries)
      /\ DroppedBy(dMarkers)' = DroppedBy(dMarkers)
      /\ DroppedBy(lossMarkers)' = DroppedBy(lossMarkers)
  BY <1>1 DEF DroppedBy, Durables
<1>3. /\ \A B \in Flying : \A e \in B : e.seq \in Nat
      /\ \A e \in recorded : e.seq \in Nat
      /\ receivedThrough \in Nat
  BY DEF TypeOK, RelayTypeOK, IngestTypeOK, Flying, Batch, Entry
\* A batch reaches the handler, which leaves out what it has received.
<1>4. ASSUME HandlePush \/ HandleLatePush PROVE ChannelOK'
  <2>1. /\ UNCHANGED <<receivedThrough, ackThrough, processed, log, dropped, reported, answer>>
        /\ late' \subseteq late
        /\ \E b \in {batch} \cup late :
              /\ handling'.rest = {e \in b.entries : e.seq > receivedThrough}
              /\ handling'.markers = b.markers
    BY <1>4 DEF HandlePush, HandleLatePush, BeginBatch
  <2>2. PICK C \in Flying : handling'.rest = {e \in C : e.seq > receivedThrough}
    BY <2>1 DEF Flying
  <2>3. SeenMarkers' \subseteq SeenMarkers
    BY <1>1, <2>1 DEF SeenMarkers
  <2>4. \A B \in Flying' : B \in Flying \/ B = {e \in C : e.seq > receivedThrough}
    BY <1>1, <2>1, <2>2 DEF Flying
  <2>5. /\ Terminal' = Terminal /\ Marked' = Marked
        /\ DroppedBy(reported)' = DroppedBy(reported)
    BY <1>1, <2>1 DEF Terminal, Marked, Appended, DroppedBy
  <2>6. Accounted' = Accounted
    BY <2>5 DEF Accounted
  <2>7. DiskMirrorsBuffer'
    BY <1>1, <1>2, <2>5 DEF ChannelOK, DiskMirrorsBuffer
  <2>8. Numbering'
    <3>1. \A B \in Flying' : \A e \in B : e.seq <= IssuedSeq'
      BY <1>1, <2>4 DEF ChannelOK, Numbering
    <3>2. \A m \in SeenMarkers' : m.to <= IssuedSeq'
      BY <1>1, <2>3 DEF ChannelOK, Numbering
    <3> QED BY <1>1, <2>1, <3>1, <3>2 DEF ChannelOK, Numbering
  <2>9. SeqIsIdentity'
    BY <1>1, <2>4 DEF ChannelOK, SeqIsIdentity
  <2>10. FlyingClosed'
    <3> SUFFICES ASSUME NEW b \in C, NEW e \in recorded, e.seq <= b.seq,
                        e \in C, e \notin Accounted
                 PROVE  e.seq > receivedThrough
      BY <1>1, <2>4, <2>6 DEF ChannelOK, FlyingClosed
    <3>1. ~(e.seq <= receivedThrough)
      BY DEF ChannelOK, CursorsCovered, Covered
    <3> QED BY <1>3, <3>1
  <2>11. CursorsCovered'
    BY <1>1, <2>1, <2>6 DEF ChannelOK, CursorsCovered, Covered
  <2>12. MarkersAgree' /\ Settled'
    BY <1>1, <2>1, <2>3, <2>5 DEF ChannelOK, MarkersAgree, Settled, EveryEntrySettled
  <2> QED BY <2>7, <2>8, <2>9, <2>10, <2>11, <2>12 DEF ChannelOK
\* The loop of the handler.
<1>5. ASSUME HandlerStep PROVE ChannelOK'
  <2>1. UNCHANGED <<receivedThrough, ackThrough, reported, answer, late>>
    BY <1>5 DEF HandlerStep, HandlerNext, TakeEntry, StopAtFullQueue
  <2>2. handling'.markers = handling.markers /\ handling'.rest \subseteq handling.rest
    BY <1>5 DEF HandlerStep, HandlerNext, TakeEntry, StopAtFullQueue, TypeOK
  <2>3. SeenMarkers' = SeenMarkers
    BY <1>1, <2>1, <2>2 DEF SeenMarkers
  <2>4. \A B \in Flying' : B \in Flying \/ B = handling'.rest
    BY <1>1, <2>1 DEF Flying
  <2>5. handling.rest \in Flying
    BY DEF Flying
  <2>6. /\ Terminal \subseteq Terminal'
        /\ \/ processed' = processed /\ handling'.rest = {}
           \/ \E e \in handling.rest :
                 /\ processed' = processed \cup {e.seq}
                 /\ handling'.rest = handling.rest \ {e}
                 /\ \A f \in handling.rest : e.seq <= f.seq
                 /\ e \in Terminal'
    BY <1>5, HandlerLoop
  <2>7. /\ Marked' = Marked /\ DroppedBy(reported)' = DroppedBy(reported)
        /\ Accounted \subseteq Accounted'
    BY <1>1, <2>1, <2>6 DEF Marked, DroppedBy, Accounted
  <2>8. DiskMirrorsBuffer'
    BY <1>1, <1>2, <2>7 DEF ChannelOK, DiskMirrorsBuffer
  <2>9. Numbering'
    <3>1. \A B \in Flying' : \A e \in B : e.seq <= IssuedSeq'
      BY <1>1, <2>2, <2>4, <2>5 DEF ChannelOK, Numbering
    <3>2. \A s \in processed' : s <= IssuedSeq'
      BY <1>1, <2>5, <2>6 DEF ChannelOK, Numbering
    <3> QED BY <1>1, <2>1, <2>3, <3>1, <3>2 DEF ChannelOK, Numbering
  <2>10. SeqIsIdentity'
    BY <1>1, <2>2, <2>4, <2>5 DEF ChannelOK, SeqIsIdentity
  <2>11. FlyingClosed'
    BY <1>1, <2>4, <2>5, <2>6, <2>7 DEF ChannelOK, FlyingClosed, Accounted
  <2>12. CursorsCovered'
    <3>1. ASSUME NEW e \in handling.rest, e \in Terminal',
                 \A f \in handling.rest : e.seq <= f.seq
          PROVE  Covered(e.seq)'
      <4> SUFFICES ASSUME NEW f \in recorded, f.seq <= e.seq PROVE f \in Accounted'
        BY <1>1 DEF Covered
      <4>1. f \in handling.rest \cup Accounted
        BY <2>5 DEF ChannelOK, FlyingClosed
      <4>2. CASE f \in handling.rest
        <5>1. f.seq = e.seq
          BY <1>3, <2>5, <3>1, <4>2
        <5> QED BY <2>5, <3>1, <5>1 DEF ChannelOK, SeqIsIdentity, Accounted
      <4> QED BY <2>7, <4>1, <4>2
    <3>2. \A x : Covered(x) => Covered(x)'
      BY <1>1, <2>7 DEF Covered
    <3>3. \A x \in processed' : Covered(x)'
      BY <2>6, <3>1, <3>2 DEF ChannelOK, CursorsCovered
    <3>4. /\ Covered(receivedThrough)' /\ Covered(ackThrough)'
          /\ Covered(ackedThrough)' /\ Covered(answer.through)'
      BY <1>1, <2>1, <2>7 DEF ChannelOK, CursorsCovered, Covered
    <3> QED BY <3>3, <3>4 DEF CursorsCovered
  <2>13. MarkersAgree' /\ Settled'
    BY <1>1, <2>1, <2>3, <2>6, <2>7 DEF ChannelOK, MarkersAgree, Settled, EveryEntrySettled
  <2> QED BY <2>8, <2>9, <2>10, <2>11, <2>12, <2>13 DEF ChannelOK
\* The end of a batch: the cursors move over what was processed.
<1>6. ASSUME AnswerPush PROVE ChannelOK'
  <2>1. /\ UNCHANGED <<log, dropped, late>>
        /\ receivedThrough' = ReceivedAfterBatch /\ ackThrough' = AckAfterBatch
        /\ processed' = {} /\ handling' = Idle
        /\ reported' = reported \cup handling.markers
        /\ answer' \in {answer, Answer}
    BY <1>6 DEF AnswerPush, FinishBatch
  <2>2. /\ Terminal' = Terminal /\ Marked \subseteq Marked'
        /\ DroppedBy(reported) \subseteq DroppedBy(reported)'
    BY <1>1, <2>1 DEF Terminal, Marked, Appended, DroppedBy
  <2>3. Accounted \subseteq Accounted' /\ \A x : Covered(x) => Covered(x)'
    BY <1>1, <2>2 DEF Accounted, Covered
  <2>4. SeenMarkers' \subseteq SeenMarkers
    BY <1>1, <2>1 DEF SeenMarkers, Idle
  <2>5. \A B \in Flying' : B \in Flying \/ B = {}
    BY <1>1, <2>1 DEF Flying, Idle
  <2>6. /\ receivedThrough' \in Nat
        /\ Covered(receivedThrough') /\ receivedThrough' <= IssuedSeq
    <3>1. /\ ReceivedAfterBatch \in {receivedThrough} \cup processed
          /\ ReceivedAfterBatch \in Nat
      <4>1. /\ receivedThrough \in Int /\ processed \in SUBSET Int
            /\ processed \in SUBSET Nat /\ IsFiniteSet(processed)
        BY DEF TypeOK, IngestTypeOK, WellFormed
      <4>2. ReceivedAfterBatch \in {receivedThrough} \cup processed
        BY <4>1, MaxWith DEF ReceivedAfterBatch
      <4> QED BY <1>3, <4>1, <4>2
    <3> QED BY <2>1, <3>1 DEF ChannelOK, CursorsCovered, Numbering
  <2>7. Covered(ackThrough') /\ ackThrough' <= IssuedSeq
    <3>1. pending \in SUBSET Nat /\ IsFiniteSet(pending) /\ ackThrough \in Nat
      BY DEF TypeOK, IngestTypeOK, WellFormed
    <3>2. /\ ackThrough' \in Nat
          /\ ackThrough' = ackThrough \/ ackThrough' <= receivedThrough'
      BY <2>1, <2>6, <3>1, RecomputeAckBounds DEF AckAfterBatch
    <3>3. Covered(ackThrough) /\ ackThrough <= IssuedSeq /\ IssuedSeq \in Int
      BY DEF ChannelOK, CursorsCovered, Numbering, IssuedSeq, TypeOK, RelayTypeOK
    <3>4. CASE ackThrough' = ackThrough
      BY <3>3, <3>4
    <3>5. CASE ackThrough' <= receivedThrough'
      BY <2>6, <3>2, <3>3, <3>5, Downward
    <3> QED BY <3>2, <3>4, <3>5
  <2>8. Answer.through = ackThrough'
    BY <2>1 DEF Answer
  <2>9. DiskMirrorsBuffer'
    BY <1>1, <1>2, <2>2 DEF ChannelOK, DiskMirrorsBuffer
  <2>10. Numbering'
    <3>1. \A B \in Flying' : \A e \in B : e.seq <= IssuedSeq'
      BY <1>1, <2>5 DEF ChannelOK, Numbering
    <3>2. \A m \in SeenMarkers' : m.to <= IssuedSeq'
      BY <1>1, <2>4 DEF ChannelOK, Numbering
    <3>3. receivedThrough' <= IssuedSeq' /\ ackThrough' <= IssuedSeq'
      BY <1>1, <2>6, <2>7
    <3>4. answer'.through <= IssuedSeq'
      BY <1>1, <2>1, <2>7, <2>8 DEF ChannelOK, Numbering
    <3> QED BY <1>1, <2>1, <3>1, <3>2, <3>3, <3>4 DEF ChannelOK, Numbering
  <2>11. SeqIsIdentity' /\ FlyingClosed'
    BY <1>1, <2>3, <2>5 DEF ChannelOK, SeqIsIdentity, FlyingClosed
  <2>12. CursorsCovered'
    <3>1. Covered(receivedThrough)' /\ Covered(ackThrough)'
      BY <1>1, <2>3, <2>6, <2>7 DEF Covered
    <3>2. Covered(answer.through)' /\ Covered(ackedThrough)'
      BY <1>1, <2>1, <2>3, <2>7, <2>8 DEF ChannelOK, CursorsCovered, Covered
    <3> QED BY <2>1, <3>1, <3>2 DEF CursorsCovered
  <2>13. MarkersAgree'
    <3>1. \A r \in Answer.markers : \E m \in reported' : RangeOf(m) = r
      BY <2>1 DEF Answer, RangeOf, RangeOfMarker
    <3>2. \A r \in answer'.markers : \E m \in reported' : RangeOf(m) = r
      BY <2>1, <3>1 DEF ChannelOK, MarkersAgree
    <3> QED BY <1>1, <2>4, <3>2 DEF ChannelOK, MarkersAgree
  <2>14. Settled'
    BY <1>1, <2>2 DEF ChannelOK, Settled, EveryEntrySettled
  <2> QED BY <2>9, <2>10, <2>11, <2>12, <2>13, <2>14 DEF ChannelOK
\* The delivery runner: only Conclude moves a cursor.
<1>7. ASSUME RunnerStep PROVE ChannelOK'
  <2>1. UNCHANGED <<receivedThrough, processed, handling, log, dropped, reported, answer, late>>
    BY <1>7 DEF RunnerStep, RunnerNext, TakeHead, Conclude, RunnerExits
  <2>2. CASE TakeHead \/ RunnerExits
    BY <1>1, <2>1, <2>2, Untouched DEF TakeHead, RunnerExits, channelVars
  <2>3. CASE Conclude
    <3>1. Covered(ackThrough') /\ ackThrough' <= IssuedSeq
      <4>1. pending \in SUBSET Nat /\ IsFiniteSet(pending) /\ ackThrough \in Nat
        BY DEF TypeOK, IngestTypeOK, WellFormed
      <4>2. /\ pending' \in SUBSET Nat /\ IsFiniteSet(pending')
            /\ ackThrough' = RecomputeAck(receivedThrough, pending', ackThrough)
        BY <2>3, <4>1, FS_Subset DEF Conclude
      <4>3. /\ ackThrough' \in Nat
            /\ ackThrough' = ackThrough \/ ackThrough' <= receivedThrough
        BY <1>3, <4>1, <4>2, RecomputeAckBounds
      <4>4. /\ Covered(ackThrough) /\ ackThrough <= IssuedSeq
            /\ Covered(receivedThrough) /\ receivedThrough <= IssuedSeq
            /\ IssuedSeq \in Int
        BY DEF ChannelOK, CursorsCovered, Numbering, IssuedSeq, TypeOK, RelayTypeOK
      <4>5. CASE ackThrough' = ackThrough
        BY <4>4, <4>5
      <4>6. CASE ackThrough' <= receivedThrough
        BY <1>3, <4>3, <4>4, <4>6, Downward
      <4> QED BY <4>3, <4>5, <4>6
    <3>2. /\ Flying' = Flying /\ SeenMarkers' = SeenMarkers
          /\ Terminal' = Terminal /\ Marked' = Marked
          /\ DroppedBy(reported)' = DroppedBy(reported)
      BY <1>1, <2>1 DEF Flying, SeenMarkers, Terminal, Marked, Appended, DroppedBy
    <3>3. Accounted' = Accounted /\ \A x : Covered(x) => Covered(x)'
      BY <1>1, <3>2 DEF Accounted, Covered
    <3>4. DiskMirrorsBuffer' /\ Numbering'
      BY <1>1, <1>2, <2>1, <3>1, <3>2 DEF ChannelOK, DiskMirrorsBuffer, Numbering
    <3>5. SeqIsIdentity' /\ FlyingClosed'
      BY <1>1, <3>2, <3>3 DEF ChannelOK, SeqIsIdentity, FlyingClosed
    <3>6. CursorsCovered'
      BY <1>1, <2>1, <3>1, <3>3 DEF ChannelOK, CursorsCovered, Covered
    <3>7. MarkersAgree' /\ Settled'
      BY <1>1, <2>1, <3>2 DEF ChannelOK, MarkersAgree, Settled, EveryEntrySettled
    <3> QED BY <3>4, <3>5, <3>6, <3>7 DEF ChannelOK
  <2> QED BY <1>7, <2>2, <2>3 DEF RunnerStep, RunnerNext
<1> QED BY <1>4, <1>5, <1>6, <1>7

(***************************************************************************)
(* An ack is applied.  It lies at or below a covered cursor, and a marker  *)
(* is retired only by the range of one the app peer has received.          *)
(***************************************************************************)
LEMMA AckKeepsChannel ==
    ASSUME TypeOK, WellFormed, ChannelOK, StoreOutcomes = {TRUE}, PushReturnsAck
    PROVE  ChannelOK'
<1>1. /\ mu = "free"
      /\ mu' \in {"free", "ack"} /\ (mu' = "ack" \/ answer.markers = {})
      /\ ackedThrough' = Max({ackedThrough, answer.through})
      /\ entries' = {e \in entries : e.seq > answer.through}
      /\ dEntries' = {e \in dEntries : e.seq > answer.through}
      /\ lossMarkers' = Unacked(lossMarkers, answer.markers)
      /\ batch' = EmptyBatch /\ answer' = NoAnswer
      /\ UNCHANGED <<nextSeq, dMarkers, recorded, evicted, receivedThrough, ackThrough,
                     processed, handling, log, dropped, reported, late>>
  BY DEF PushReturnsAck, ApplyAck, history, ingestVars, cursors, runner, ingestHistory
<1>2. /\ Terminal' = Terminal /\ Marked' = Marked
      /\ DroppedBy(dMarkers)' = DroppedBy(dMarkers)
      /\ DroppedBy(reported)' = DroppedBy(reported)
      /\ IssuedSeq' = IssuedSeq
  BY <1>1 DEF Terminal, Marked, Appended, DroppedBy, IssuedSeq
<1>3. Accounted' = Accounted /\ \A x : Covered(x)' <=> Covered(x)
  BY <1>1, <1>2 DEF Accounted, Covered
<1>4. SeenMarkers' \subseteq SeenMarkers
  BY <1>1 DEF SeenMarkers, Unacked, EmptyBatch
<1>5. \A B \in Flying' : B \in Flying \/ B = {}
  BY <1>1 DEF Flying, EmptyBatch
<1>6. /\ answer.through \in Nat /\ ackedThrough \in Nat
      /\ \A e \in recorded : e.seq \in Nat
      /\ entries \in SUBSET Entry
      /\ lossMarkers = dMarkers
      /\ Durables(entries) = dEntries
  BY <1>1 DEF TypeOK, RelayTypeOK, Ack, Entry, ChannelOK, DiskMirrorsBuffer
<1>7. ackedThrough' \in {ackedThrough, answer.through}
  BY <1>1, <1>6, MaxOfTwo
<1>8. DiskMirrorsBuffer'
  <2>1. Durables(entries)' = dEntries'
    BY <1>1, <1>6 DEF Durables
  <2>2. lossMarkers' \subseteq dMarkers' /\ (mu' # "ack" => lossMarkers' = dMarkers')
    BY <1>1, <1>6 DEF Unacked
  <2>3. ASSUME NEW m \in dMarkers PROVE m \in lossMarkers' \/ m.dropped \subseteq DroppedBy(reported)
    <3>1. CASE RangeOf(m) \notin answer.markers
      BY <1>1, <1>6, <3>1 DEF Unacked
    <3>2. CASE RangeOf(m) \in answer.markers
      <4>1. PICK n \in reported : RangeOf(n) = RangeOf(m)
        BY <3>2 DEF ChannelOK, MarkersAgree
      <4>2. n.to = m.to /\ m \in SeenMarkers /\ n \in SeenMarkers
        BY <4>1 DEF RangeOf, SeenMarkers
      <4>3. n.dropped = m.dropped
        BY <4>2 DEF ChannelOK, MarkersAgree
      <4> QED BY <4>1, <4>3 DEF DroppedBy
    <3> QED BY <3>1, <3>2
  <2>4. DroppedBy(dMarkers) \subseteq DroppedBy(lossMarkers') \cup DroppedBy(reported)
    BY <2>3 DEF DroppedBy
  <2>5. DroppedBy(lossMarkers') = DroppedBy(lossMarkers)' /\ DroppedBy(reported) = DroppedBy(reported')
    BY <1>1 DEF DroppedBy
  <2> QED BY <1>1, <1>2, <2>1, <2>2, <2>4, <2>5 DEF DiskMirrorsBuffer
<1>9. Numbering'
  <2>1. /\ \A B \in Flying' : \A e \in B : e.seq <= IssuedSeq'
        /\ \A m \in SeenMarkers' : m.to <= IssuedSeq'
    BY <1>2, <1>4, <1>5 DEF ChannelOK, Numbering
  <2>2. ackedThrough' <= IssuedSeq'
    BY <1>2, <1>7 DEF ChannelOK, Numbering
  <2>3. \A e \in recorded : e.seq > 0 /\ (e.seq <= IssuedSeq \/ e \in dEntries')
    <3> SUFFICES ASSUME NEW e \in recorded, e \notin dEntries' PROVE e.seq > 0 /\ e.seq <= IssuedSeq
      BY DEF ChannelOK, Numbering
    <3>1. CASE e \in dEntries
      <4>1. e.seq <= answer.through
        BY <1>1, <1>6, <3>1
      <4>2. e.seq <= nextSeq /\ IssuedSeq = nextSeq
        BY <1>1, <1>6, <3>1 DEF ChannelOK, Numbering, Durables, IssuedSeq
      <4> QED BY <4>2 DEF ChannelOK, Numbering
    <3>2. CASE e \notin dEntries
      BY <3>2 DEF ChannelOK, Numbering
    <3> QED BY <3>1, <3>2
  <2>4. answer'.through <= IssuedSeq'
    <3>1. IssuedSeq \in Nat
      BY <1>1 DEF IssuedSeq, TypeOK, RelayTypeOK
    <3> QED BY <1>1, <1>2, <3>1 DEF NoAnswer
  <2>5. /\ mu' # "record"
        /\ \A e \in entries' : e.seq <= nextSeq'
        /\ \A s \in processed' : s <= IssuedSeq'
        /\ receivedThrough' <= IssuedSeq' /\ ackThrough' <= IssuedSeq'
    BY <1>1, <1>2 DEF ChannelOK, Numbering
  <2> QED BY <1>1, <1>2, <2>1, <2>2, <2>3, <2>4, <2>5 DEF Numbering
<1>10. SeqIsIdentity'
  BY <1>1, <1>5 DEF ChannelOK, SeqIsIdentity
<1>11. FlyingClosed'
  BY <1>1, <1>3, <1>5 DEF ChannelOK, FlyingClosed
<1>12. CursorsCovered'
  <2>1. Covered(0)
    BY <1>6 DEF Covered, ChannelOK, Numbering
  <2>2. Covered(answer'.through) /\ Covered(ackedThrough')
    BY <1>1, <1>7, <2>1 DEF ChannelOK, CursorsCovered, NoAnswer
  <2>3. /\ Covered(receivedThrough)' /\ Covered(ackThrough)'
        /\ \A s \in processed' : Covered(s)'
    BY <1>1, <1>3 DEF ChannelOK, CursorsCovered, Covered
  <2>4. Covered(answer.through)' /\ Covered(ackedThrough)'
    BY <1>1, <1>3, <2>2 DEF Covered
  <2> QED BY <2>3, <2>4 DEF CursorsCovered
<1>13. MarkersAgree'
  BY <1>1, <1>4 DEF ChannelOK, MarkersAgree, NoAnswer
<1>14. Settled'
  <2>1. \A e \in recorded : e \in dEntries' \/ e \in Terminal \cup Marked
    <3> SUFFICES ASSUME NEW e \in recorded, e \in dEntries, e \notin dEntries'
                 PROVE  e \in Terminal \cup Marked
      BY DEF ChannelOK, Settled, EveryEntrySettled
    <3>1. e.seq <= answer.through
      BY <1>1, <1>6
    <3> QED BY <3>1 DEF ChannelOK, CursorsCovered, Covered, Accounted
  <2> QED BY <1>1, <1>2, <2>1 DEF ChannelOK, Settled, EveryEntrySettled
<1> QED BY <1>8, <1>9, <1>10, <1>11, <1>12, <1>13, <1>14 DEF ChannelOK

(***************************************************************************)
(* A push fails, or a process dies.  The batch on the wire may live on     *)
(* among the late ones; a relay that resumes at or above every seq issued  *)
(* finds on its disk what its buffer held.                                 *)
(***************************************************************************)
LEMMA FailureKeepsChannel ==
    ASSUME TypeOK, WellFormed, ChannelOK,
           PushReturnsError \/ (CrashRelay /\ ~reissued') \/ CrashIngest
    PROVE  ChannelOK'
<1>1. UNCHANGED <<dEntries, dMarkers, recorded, evicted, log, dropped, reported>>
  BY DEF PushReturnsError, PushFailed, CrashRelay, RelayRestart, CrashIngest, IngestRestart,
         relayVars, memory, disk, history, ingestVars, ingestHistory
<1>2. /\ Terminal' = Terminal /\ Marked' = Marked
      /\ DroppedBy(dMarkers)' = DroppedBy(dMarkers)
      /\ DroppedBy(reported)' = DroppedBy(reported)
  BY <1>1 DEF Terminal, Marked, Appended, DroppedBy
<1>3. Accounted' = Accounted /\ \A x : Covered(x)' <=> Covered(x)
  BY <1>1, <1>2 DEF Accounted, Covered
<1>4. /\ Covered(0)
      /\ IssuedSeq \in Nat
  <2>1. \A e \in recorded : e.seq \in Nat
    BY DEF TypeOK, RelayTypeOK, Entry
  <2> QED BY <2>1 DEF Covered, ChannelOK, Numbering, IssuedSeq, TypeOK, RelayTypeOK
<1>5. /\ batch' \in {batch, EmptyBatch}
      /\ handling'.rest \in {handling.rest, {}}
      /\ handling'.markers \in {handling.markers, {}}
      /\ late' \subseteq late \cup {batch}
  BY DEF PushReturnsError, PushFailed, CrashRelay, RelayRestart, CrashIngest, IngestRestart,
         Abandon, relayVars, channel, ingestVars, Idle
<1>6. /\ processed' \subseteq processed
      /\ receivedThrough' \in {receivedThrough, 0} /\ ackThrough' \in {ackThrough, 0}
      /\ ackedThrough' \in {ackedThrough, 0}
      /\ answer' \in {answer, NoAnswer}
  BY DEF PushReturnsError, PushFailed, CrashRelay, RelayRestart, CrashIngest, IngestRestart,
         Abandon, relayVars, channel, ingestVars, cursors
<1>7. /\ entries' \subseteq entries /\ Durables(entries)' = dEntries
      /\ \/ lossMarkers' = lossMarkers /\ mu' = mu
         \/ lossMarkers' = dMarkers /\ mu' = "free"
      /\ mu' = "record" => nextSeq' > 0
      /\ \A e \in entries' : e.seq <= nextSeq'
      /\ IssuedSeq' \in Nat
      /\ IssuedSeq <= IssuedSeq'
  <2>1. CASE CrashRelay /\ ~reissued'
    <3>1. /\ entries' = dEntries /\ lossMarkers' = dMarkers /\ mu' = "free"
          /\ nextSeq' = ResumeSeq /\ ~(ResumeSeq < IssuedSeq)
      BY <2>1 DEF CrashRelay, RelayRestart
    <3>2. IssuedSeq' = ResumeSeq
      BY <3>1 DEF IssuedSeq
    <3>3. ResumeSeq \in Nat /\ \A e \in dEntries : e.seq <= ResumeSeq
      BY ResumeSeqBounds
    <3>4. dEntries \subseteq entries /\ Durables(dEntries) = dEntries
      BY DEF ChannelOK, DiskMirrorsBuffer, Durables
    <3>5. Durables(entries)' = Durables(entries')
      BY DEF Durables
    <3> QED BY <1>4, <3>1, <3>2, <3>3, <3>4, <3>5
  <2>2. CASE PushReturnsError \/ CrashIngest
    <3>1. UNCHANGED <<entries, nextSeq, lossMarkers, mu>>
      BY <2>2 DEF PushReturnsError, PushFailed, CrashIngest, relayVars, memory
    <3>2. IssuedSeq' = IssuedSeq /\ Durables(entries)' = Durables(entries)
      BY <3>1 DEF IssuedSeq, Durables
    <3> QED BY <1>4, <3>1, <3>2 DEF ChannelOK, DiskMirrorsBuffer, Numbering
  <2> QED BY <2>1, <2>2
<1>8. SeenMarkers' \subseteq SeenMarkers
  BY <1>1, <1>5, <1>7 DEF SeenMarkers, EmptyBatch
<1>9. \A B \in Flying' : B \in Flying \/ B = {}
  BY <1>5 DEF Flying, EmptyBatch
<1>10. DiskMirrorsBuffer'
  <2>1. DroppedBy(lossMarkers)' = DroppedBy(lossMarkers')
    BY DEF DroppedBy
  <2> QED BY <1>1, <1>2, <1>7, <2>1 DEF ChannelOK, DiskMirrorsBuffer
<1>11. Numbering'
  <2>1. /\ \A B \in Flying : \A e \in B : e.seq \in Nat
        /\ \A e \in recorded : e.seq \in Nat
        /\ \A m \in SeenMarkers : m.to \in Nat
        /\ processed \in SUBSET Nat
        /\ receivedThrough \in Nat /\ ackThrough \in Nat /\ ackedThrough \in Nat
        /\ answer.through \in Nat
    BY DEF TypeOK, RelayTypeOK, IngestTypeOK, Flying, SeenMarkers, Batch, Ack, Entry, LossMarker
  <2>2. /\ \A B \in Flying' : \A e \in B : e.seq <= IssuedSeq'
        /\ \A m \in SeenMarkers' : m.to <= IssuedSeq'
        /\ \A s \in processed' : s <= IssuedSeq'
    BY <1>4, <1>6, <1>7, <1>8, <1>9, <2>1 DEF ChannelOK, Numbering
  <2>3. \A e \in recorded' : e.seq > 0 /\ (e.seq <= IssuedSeq' \/ e \in dEntries')
    BY <1>1, <1>4, <1>7, <2>1 DEF ChannelOK, Numbering
  <2>4. /\ receivedThrough' <= IssuedSeq' /\ ackThrough' <= IssuedSeq'
        /\ ackedThrough' <= IssuedSeq' /\ answer'.through <= IssuedSeq'
    BY <1>4, <1>6, <1>7, <2>1 DEF ChannelOK, Numbering, NoAnswer
  <2> QED BY <1>7, <2>2, <2>3, <2>4 DEF Numbering
<1>12. SeqIsIdentity' /\ FlyingClosed'
  BY <1>1, <1>3, <1>7, <1>9 DEF ChannelOK, SeqIsIdentity, FlyingClosed
<1>13. CursorsCovered'
  <2>1. /\ Covered(receivedThrough') /\ Covered(ackThrough') /\ Covered(ackedThrough')
        /\ Covered(answer'.through) /\ \A s \in processed' : Covered(s)
    BY <1>4, <1>6 DEF ChannelOK, CursorsCovered, NoAnswer
  <2> QED BY <1>1, <1>3, <2>1 DEF CursorsCovered, Covered
<1>14. MarkersAgree' /\ Settled'
  BY <1>1, <1>2, <1>6, <1>8 DEF ChannelOK, MarkersAgree, Settled, EveryEntrySettled, NoAnswer
<1> QED BY <1>10, <1>11, <1>12, <1>13, <1>14 DEF ChannelOK

LEMMA ChannelInit == Init => ChannelOK
<1> SUFFICES ASSUME Init PROVE ChannelOK
  OBVIOUS
<1> USE DEF Init, RelayInit, IngestInit
<1>1. /\ Flying = {{}} /\ SeenMarkers = {} /\ Durables(entries) = {}
      /\ DroppedBy(dMarkers) = {} /\ IssuedSeq = 0
  BY DEF Flying, SeenMarkers, Durables, DroppedBy, IssuedSeq, EmptyBatch, Idle
<1>2. DiskMirrorsBuffer /\ Numbering
  BY <1>1 DEF DiskMirrorsBuffer, Numbering, NoAnswer
<1>3. SeqIsIdentity /\ FlyingClosed /\ CursorsCovered
  BY <1>1 DEF SeqIsIdentity, FlyingClosed, CursorsCovered, Covered
<1>4. MarkersAgree /\ Settled
  BY <1>1 DEF MarkersAgree, Settled, EveryEntrySettled, NoAnswer
<1> QED BY <1>2, <1>3, <1>4 DEF ChannelOK

\* A reissued seq is remembered, and so is every entry recorded.
LEMMA ReissuedStays ==
    ASSUME [Next]_vars
    PROVE  (reissued => reissued') /\ recorded \subseteq recorded'
<1>1. /\ UNCHANGED reissued \/ (reissued => reissued')
      /\ recorded \subseteq recorded'
  BY DEF Next, RelayStep, RelayNext, Record, SaveSeqHighWater, StoreErr, FlushTick,
         BuildPending, BuildLossMarkers, SaveLossMarkers, SendPush, HandlePush,
         HandleLatePush, HandlerStep, AnswerPush, RunnerStep, PushReturnsAck,
         ApplyAck, PushReturnsError, PushFailed, CrashRelay, RelayRestart,
         CrashIngest, vars, relayVars, history
<1>2. UNCHANGED reissued => (reissued => reissued')
  OBVIOUS
<1> QED BY <1>1, <1>2

\* Every step, as long as no seq is issued twice.
LEMMA ChannelStep ==
    ASSUME IInv, [Next]_vars, StoreOutcomes = {TRUE}, SinkOutcomes = {TRUE}
    PROVE  IInv'
<1> USE DEF IInv
<1>1. TypeOK' /\ WellFormed'
  BY ShapeStep
<1> SUFFICES ASSUME ~reissued' PROVE ChannelOK'
  BY <1>1 DEF ChannelInvariant
<1>2. ~reissued
  BY ReissuedStays
<1>3. ChannelOK
  BY <1>2 DEF ChannelInvariant
<1>4. CASE RelayStep
  BY <1>3, <1>4, RelayStepKeepsChannel DEF RelayStep
<1>5. CASE SendPush \/ UNCHANGED vars
  BY <1>3, <1>5, Untouched DEF SendPush, vars, relayVars, memory, disk, channel, history,
     ingestVars, cursors, ingestHistory, wire, channelVars
<1>6. CASE HandlePush \/ HandleLatePush \/ HandlerStep \/ AnswerPush \/ RunnerStep
  BY <1>3, <1>6, IngestStepKeepsChannel
<1>7. CASE PushReturnsAck
  BY <1>3, <1>7, AckKeepsChannel
<1>8. CASE PushReturnsError \/ CrashRelay \/ CrashIngest
  BY <1>3, <1>8, FailureKeepsChannel
<1> QED BY <1>4, <1>5, <1>6, <1>7, <1>8 DEF Next

(***************************************************************************)
(* The channel's invariant holds whenever the relay's store and the app    *)
(* peer's log take every write they are given.                             *)
(***************************************************************************)
THEOREM ChannelSound ==
    ASSUME StoreOutcomes = {TRUE}, SinkOutcomes = {TRUE}
    PROVE  Spec => []ChannelInvariant
<1>1. Init => IInv
  BY ShapeInit, ChannelInit DEF IInv, ChannelInvariant
<1>2. IInv /\ [Next]_vars => IInv'
  BY ChannelStep
<1>3. IInv => ChannelInvariant
  BY DEF IInv
<1> QED BY <1>1, <1>2, <1>3, PTL DEF Spec

(***************************************************************************)
(* applyAck, appendBatch and NewDurableBuffer together: under the same     *)
(* conditions no durable entry is lost silently, however many entries,     *)
(* kinds, crashes, retries and late pushes there are.                      *)
(***************************************************************************)
THEOREM NothingLostSilently ==
    ASSUME StoreOutcomes = {TRUE}, SinkOutcomes = {TRUE}
    PROVE  Spec => []NoSilentLoss
<1>1. ChannelInvariant => NoSilentLoss
  BY DEF ChannelInvariant, ChannelOK, Settled, NoSilentLoss
<1>2. Spec => []ChannelInvariant
  BY ChannelSound
<1> QED BY <1>1, <1>2, PTL

(***************************************************************************)
(* recordDrop, AppendWithEviction and the retirement of markers: whatever  *)
(* overflow drops stays counted until the app peer has been told.          *)
(***************************************************************************)
THEOREM EveryDropMarked ==
    ASSUME StoreOutcomes = {TRUE}, SinkOutcomes = {TRUE}
    PROVE  Spec => []OverflowIsMarked
<1>1. ChannelInvariant => OverflowIsMarked
  BY DEF ChannelInvariant, ChannelOK, Settled, OverflowIsMarked
<1>2. Spec => []ChannelInvariant
  BY ChannelSound
<1> QED BY <1>1, <1>2, PTL

-----------------------------------------------------------------------------
(***************************************************************************)
(* The invariant kept in memory.  It leaves the disk out, so that a write  *)
(* that fails cannot disturb it; only a crash of the relay can.            *)
(***************************************************************************)
memoryVars == <<entries, nextSeq, lossMarkers, mu, ackedThrough, batch, recorded,
                receivedThrough, ackThrough, processed, handling, log, dropped,
                reported, answer, late>>

LEMMA MemoryUntouched ==
    ASSUME MemoryOK, UNCHANGED memoryVars
    PROVE  MemoryOK'
<1>1. /\ Flying' = Flying /\ MarkersInMemory' = MarkersInMemory
      /\ Terminal' = Terminal /\ IssuedSeq' = IssuedSeq
      /\ Durables(entries)' = Durables(entries)
      /\ DroppedBy(lossMarkers)' = DroppedBy(lossMarkers)
      /\ DroppedBy(reported)' = DroppedBy(reported)
  BY DEF memoryVars, Flying, MarkersInMemory, Terminal, Appended, DroppedBy, IssuedSeq,
         Durables
<1>2. Told' = Told
  BY <1>1 DEF Told
<1>3. \A x : ToldUpTo(x)' <=> ToldUpTo(x)
  BY <1>2 DEF ToldUpTo, memoryVars
<1> USE DEF MemoryOK, memoryVars
<1>4. MemoryNumbering'
  BY <1>1 DEF MemoryNumbering
<1>5. SeqIsIdentity' /\ MemoryFlyingClosed'
  BY <1>1, <1>2 DEF SeqIsIdentity, MemoryFlyingClosed
<1>6. MemoryCursorsCovered'
  BY <1>3 DEF MemoryCursorsCovered
<1>7. MemoryMarkersAgree' /\ MemorySettled'
  BY <1>1, <1>2 DEF MemoryMarkersAgree, MemorySettled
<1> QED BY <1>4, <1>5, <1>6, <1>7

\* Whatever is told up to y is told up to anything below it.
LEMMA ToldDownward ==
    ASSUME TypeOK, NEW x \in Nat, NEW y \in Nat, x <= y, ToldUpTo(y)
    PROVE  ToldUpTo(x)
<1>1. \A e \in recorded : e.seq \in Nat
  BY DEF TypeOK, RelayTypeOK, Entry
<1> QED BY <1>1 DEF ToldUpTo

(***************************************************************************)
(* A Record, whichever of its writes the disk takes.                       *)
(***************************************************************************)
LEMMA RecordKeepsMemory ==
    ASSUME TypeOK, WellFormed, MemoryOK, NEW k \in Kinds, Record(k),
           UNCHANGED <<ingestVars, wire, restarts>>
    PROVE  MemoryOK'
<1> DEFINE e     == [seq |-> nextSeq + 1, kind |-> k]
           held  == Supersede(entries, k) \cup {e}
           gone  == Overflow(held)
           marks == RecordDrops(lossMarkers, gone)
<1>1. /\ mu = "free" /\ mu' = "record" /\ nextSeq' = nextSeq + 1
      /\ entries' = held \ gone
      /\ lossMarkers' = marks
      /\ recorded' = recorded \cup Durables({e})
      /\ UNCHANGED <<ackedThrough, batch, receivedThrough, ackThrough, processed,
                     handling, log, dropped, reported, answer, late>>
  BY DEF Record, channel, ingestVars, cursors, runner, ingestHistory, wire
<1>2. /\ e \in Entry /\ held \in SUBSET Entry /\ IsFiniteSet(held)
      /\ gone \in SUBSET Entry /\ IsFiniteSet(gone)
      /\ nextSeq \in Nat /\ e.seq = nextSeq + 1
      /\ lossMarkers \in SUBSET LossMarker /\ \A m, n \in lossMarkers : m = n
      /\ entries \in SUBSET Entry
  BY RecordShape DEF TypeOK, RelayTypeOK, WellFormed
<1>3. /\ \A f \in entries : f.seq <= nextSeq
      /\ \A f \in recorded : f.seq > 0 /\ f.seq <= nextSeq
      /\ IssuedSeq = nextSeq /\ IssuedSeq' = nextSeq
  BY <1>1, <1>2 DEF MemoryOK, MemoryNumbering, IssuedSeq
<1>4. Durables(held) = Durables(entries) \cup Durables({e})
  BY KindsAssumption DEF Supersede, Durables
<1>5. /\ gone \subseteq Durables(held)
      /\ \A g \in gone, r \in Durables(held) \ gone : g.seq < r.seq
  BY <1>2, OverflowIsLowEnd
<1>6. e \notin gone
  <2>1. \A f \in held : f.seq <= e.seq
    BY <1>2, <1>3 DEF Supersede, Entry
  <2> QED BY <1>2, <2>1, OverflowIsLowEnd
<1> HIDE DEF e, held, gone, marks
<1>7. gone \subseteq Durables(entries)
  BY <1>4, <1>5, <1>6 DEF Durables
<1>8. /\ Durables(entries)' = Durables(held) \ gone
      /\ Durables({e}) \subseteq Durables(entries)'
      /\ Durables(entries)' \subseteq Durables(entries) \cup Durables({e})
      /\ \A f \in Durables(entries) : f \in Durables(entries)' \/ f \in gone
  BY <1>1, <1>4, <1>6 DEF Durables
\* The markers.
<1>9. /\ DroppedBy(lossMarkers') = DroppedBy(lossMarkers) \cup gone
      /\ \A m \in lossMarkers' : \/ m \in lossMarkers
                                 \/ gone # {} /\ m.to = MaxSeqOf(gone)
      /\ \A m, n \in lossMarkers' : m = n
  <2>1. CASE gone = {}
    BY <1>1, <1>2, <2>1 DEF marks, RecordDrops
  <2>2. CASE gone # {}
    <3>1. \A m \in lossMarkers, f \in gone : m.to < f.seq
      BY <1>7 DEF MemoryOK, MemoryMarkersAgree, MarkersInMemory
    <3>2. PICK w \in LossMarker :
             /\ marks = {w}
             /\ w.dropped = gone \cup DroppedBy(lossMarkers)
             /\ w.to = MaxSeqOf(gone)
      BY <1>2, <2>2, <3>1, RecordDropsWidens DEF marks
    <3>3. DroppedBy({w}) = w.dropped
      BY DEF DroppedBy
    <3> QED BY <1>1, <2>2, <3>2, <3>3
  <2> QED BY <2>1, <2>2
<1>10. Told' = Told \cup gone
  <2>1. DroppedBy(lossMarkers)' = DroppedBy(lossMarkers) \cup gone
    BY <1>9 DEF DroppedBy
  <2>2. DroppedBy(reported)' = DroppedBy(reported)
    BY <1>1 DEF DroppedBy
  <2> QED BY <1>1, <2>1, <2>2 DEF Told, Terminal, Appended
<1>11. Flying' = Flying
  BY <1>1 DEF Flying
<1>12. \A f \in recorded' : \/ f \in recorded
                            \/ f = e /\ f.seq = nextSeq + 1 /\ f \in Durables(entries)'
  BY <1>1, <1>2, <1>8 DEF Durables
<1>13. \A m \in MarkersInMemory' :
          \/ m \in MarkersInMemory
          \/ m \in lossMarkers' /\ gone # {} /\ m.to = MaxSeqOf(gone)
  BY <1>1, <1>9 DEF MarkersInMemory
<1>14. gone # {} => /\ MaxSeqOf(gone) \in Nat
                    /\ MaxSeqOf(gone) <= nextSeq
                    /\ \A m \in MarkersInMemory : m.to < MaxSeqOf(gone)
  <2> SUFFICES ASSUME gone # {}
               PROVE  /\ MaxSeqOf(gone) \in Nat
                      /\ MaxSeqOf(gone) <= nextSeq
                      /\ \A m \in MarkersInMemory : m.to < MaxSeqOf(gone)
    OBVIOUS
  <2>1. PICK g \in gone : g.seq = MaxSeqOf(gone)
    BY <1>2, SeqBounds
  <2>2. g \in Durables(entries) /\ g \in entries
    BY <1>7 DEF Durables
  <2>3. MaxSeqOf(gone) \in Nat
    BY <1>2, SeqBounds
  <2> QED BY <1>3, <2>1, <2>2, <2>3 DEF MemoryOK, MemoryMarkersAgree
<1>15. MemoryNumbering'
  <2>1. \A f \in entries' : f.seq <= nextSeq'
    BY <1>1, <1>2, <1>3 DEF held, Supersede, Entry
  <2>2. \A f \in recorded' : f.seq > 0 /\ f.seq <= nextSeq'
    <3> TAKE f \in recorded'
    <3>1. CASE f \in recorded
      <4>1. f.seq \in Nat
        BY <3>1 DEF TypeOK, RelayTypeOK, Entry
      <4> QED BY <1>1, <1>2, <1>3, <3>1, <4>1
    <3>2. CASE f.seq = nextSeq + 1
      BY <1>1, <1>2, <3>2
    <3> QED BY <1>12, <3>1, <3>2
  <2>3. \A m \in MarkersInMemory' : m.to <= IssuedSeq'
    BY <1>3, <1>13, <1>14 DEF MemoryOK, MemoryNumbering
  <2>4. \A B \in Flying' : \A f \in B : f.seq <= IssuedSeq'
    BY <1>3, <1>11 DEF MemoryOK, MemoryNumbering
  <2>5. /\ \A x \in processed' : x <= IssuedSeq'
        /\ receivedThrough' <= IssuedSeq' /\ ackThrough' <= IssuedSeq'
        /\ ackedThrough' <= IssuedSeq' /\ answer'.through <= IssuedSeq'
    BY <1>1, <1>3 DEF MemoryOK, MemoryNumbering
  <2>6. nextSeq' > 0
    BY <1>1, <1>2
  <2> QED BY <2>1, <2>2, <2>3, <2>4, <2>5, <2>6 DEF MemoryNumbering
<1>16. \A B \in Flying : \A b \in B : b.seq \in Nat /\ b.seq <= nextSeq
  BY <1>3 DEF MemoryOK, MemoryNumbering, Flying, TypeOK, RelayTypeOK, Batch, Entry
<1>17. SeqIsIdentity'
  <2> SUFFICES ASSUME NEW B \in Flying' \cup {entries'}, NEW b \in B, NEW f \in recorded',
                      f.seq = b.seq
               PROVE  f = b
    BY DEF SeqIsIdentity
  <2>1. CASE f \notin recorded
    <3>1. f = e /\ b.seq = nextSeq + 1
      BY <1>12, <2>1
    <3>2. B \notin Flying
      BY <1>2, <1>16, <3>1
    <3>3. b \in held
      BY <1>1, <1>11, <3>2
    <3>4. b = e \/ b \in entries
      BY <3>3 DEF held, Supersede
    <3> QED BY <1>2, <1>3, <3>1, <3>4
  <2>2. CASE f \in recorded
    <3>1. CASE b = e
      BY <1>2, <1>3, <2>2, <3>1
    <3>2. CASE b # e
      <4>1. B \in Flying \/ b \in entries
        BY <1>1, <1>11, <3>2 DEF held, Supersede
      <4> QED BY <2>2, <4>1 DEF MemoryOK, SeqIsIdentity
    <3> QED BY <3>1, <3>2
  <2> QED BY <2>1, <2>2
<1>18. MemoryFlyingClosed'
  <2> SUFFICES ASSUME NEW B \in Flying, NEW b \in B, NEW f \in recorded', f.seq <= b.seq
               PROVE  f \in B \cup Told'
    BY <1>11 DEF MemoryFlyingClosed
  <2>1. f \in recorded
    BY <1>2, <1>12, <1>16
  <2> QED BY <1>10, <2>1 DEF MemoryOK, MemoryFlyingClosed
<1>19. MemoryCursorsCovered'
  <2>1. ASSUME NEW x \in Nat, x <= nextSeq, ToldUpTo(x) PROVE ToldUpTo(x)'
    BY <1>2, <1>10, <1>12, <2>1 DEF ToldUpTo
  <2>2. /\ receivedThrough \in Nat /\ ackThrough \in Nat /\ ackedThrough \in Nat
        /\ answer.through \in Nat /\ \A x \in processed : x \in Nat
    BY DEF TypeOK, RelayTypeOK, IngestTypeOK, Ack
  <2>3. /\ ToldUpTo(receivedThrough)' /\ ToldUpTo(ackThrough)'
        /\ ToldUpTo(ackedThrough)' /\ ToldUpTo(answer.through)'
    BY <1>1, <1>3, <2>1, <2>2 DEF MemoryOK, MemoryCursorsCovered, MemoryNumbering
  <2>4. \A x \in processed' : ToldUpTo(x)'
    BY <1>1, <1>3, <2>1, <2>2 DEF MemoryOK, MemoryCursorsCovered, MemoryNumbering
  <2> QED BY <2>3, <2>4 DEF MemoryCursorsCovered
<1>20. MemoryMarkersAgree'
  <2>1. \A m, n \in MarkersInMemory' : m.to = n.to => m.dropped = n.dropped
    BY <1>9, <1>13, <1>14 DEF MemoryOK, MemoryMarkersAgree
  <2>2. \A m \in MarkersInMemory', f \in Durables(entries)' : m.to < f.seq
    <3> TAKE m \in MarkersInMemory', f \in Durables(entries)'
    <3>1. f \in Durables(held) /\ f \notin gone /\ (f \in Durables(entries) \/ f = e)
      BY <1>4, <1>8 DEF Durables
    <3>2. CASE m \in MarkersInMemory
      <4>1. m.to \in Nat /\ m.to <= nextSeq
        BY <1>3, <3>2 DEF MemoryOK, MemoryNumbering, MarkersInMemory, TypeOK, RelayTypeOK,
                          Batch, LossMarker
      <4> QED BY <1>2, <3>1, <3>2, <4>1 DEF MemoryOK, MemoryMarkersAgree
    <3>3. CASE gone # {} /\ m.to = MaxSeqOf(gone)
      BY <1>2, <1>5, <3>1, <3>3, SeqBounds
    <3> QED BY <1>13, <3>2, <3>3
  <2> QED BY <1>1, <2>1, <2>2 DEF MemoryOK, MemoryMarkersAgree
<1>21. MemorySettled'
  <2>1. Durables(entries)' \subseteq recorded'
    BY <1>1, <1>8 DEF MemoryOK, MemorySettled
  <2>2. recorded' \subseteq Durables(entries)' \cup Told'
    BY <1>8, <1>10, <1>12 DEF MemoryOK, MemorySettled
  <2> QED BY <2>1, <2>2 DEF MemorySettled
<1> QED BY <1>15, <1>17, <1>18, <1>19, <1>20, <1>21 DEF MemoryOK

(***************************************************************************)
(* The relay's other steps on its own.                                     *)
(***************************************************************************)
LEMMA RelayStepKeepsMemory ==
    ASSUME TypeOK, WellFormed, MemoryOK, RelayStep
    PROVE  MemoryOK'
<1> USE DEF RelayStep, ingestVars, cursors, runner, ingestHistory, wire, restarts,
            memory, disk, channel, history
<1>1. ASSUME NEW k \in Kinds, Record(k) PROVE MemoryOK'
  BY <1>1, RecordKeepsMemory
<1>2. CASE SaveSeqHighWater
  <2>1. /\ mu = "record" /\ mu' = "free"
        /\ UNCHANGED <<entries, nextSeq, lossMarkers, ackedThrough, batch, recorded,
                       receivedThrough, ackThrough, processed, handling, log, dropped,
                       reported, answer, late>>
    BY <1>2 DEF SaveSeqHighWater
  <2>2. /\ Flying' = Flying /\ MarkersInMemory' = MarkersInMemory
        /\ Terminal' = Terminal
        /\ Durables(entries)' = Durables(entries)
        /\ DroppedBy(lossMarkers)' = DroppedBy(lossMarkers)
        /\ DroppedBy(reported)' = DroppedBy(reported)
    BY <2>1 DEF Flying, MarkersInMemory, Terminal, Appended, DroppedBy, Durables
  <2>3. Told' = Told
    BY <2>2 DEF Told
  <2>4. IssuedSeq = nextSeq - 1 /\ IssuedSeq' = nextSeq /\ nextSeq \in Nat
    BY <2>1 DEF IssuedSeq, TypeOK, RelayTypeOK
  <2>5. /\ \A B \in Flying : \A e \in B : e.seq \in Nat
        /\ \A s \in processed : s \in Nat
        /\ receivedThrough \in Nat /\ ackThrough \in Nat /\ ackedThrough \in Nat
        /\ answer.through \in Nat /\ \A m \in MarkersInMemory : m.to \in Nat
    BY DEF TypeOK, RelayTypeOK, IngestTypeOK, Flying, MarkersInMemory, Batch, Ack,
           LossMarker, Entry
  <2>6. MemoryNumbering'
    <3>1. \A B \in Flying' : \A e \in B : e.seq <= IssuedSeq'
      BY <2>2, <2>4, <2>5 DEF MemoryOK, MemoryNumbering
    <3>2. \A m \in MarkersInMemory' : m.to <= IssuedSeq'
      BY <2>2, <2>4, <2>5 DEF MemoryOK, MemoryNumbering
    <3>3. /\ \A s \in processed' : s <= IssuedSeq'
          /\ receivedThrough' <= IssuedSeq' /\ ackThrough' <= IssuedSeq'
          /\ ackedThrough' <= IssuedSeq' /\ answer'.through <= IssuedSeq'
      BY <2>1, <2>4, <2>5 DEF MemoryOK, MemoryNumbering
    <3> QED BY <2>1, <3>1, <3>2, <3>3 DEF MemoryOK, MemoryNumbering
  <2>7. SeqIsIdentity' /\ MemoryFlyingClosed'
    BY <2>1, <2>2, <2>3 DEF MemoryOK, SeqIsIdentity, MemoryFlyingClosed
  <2>8. MemoryCursorsCovered'
    BY <2>1, <2>3 DEF MemoryOK, MemoryCursorsCovered, ToldUpTo
  <2>9. MemoryMarkersAgree' /\ MemorySettled'
    BY <2>1, <2>2, <2>3 DEF MemoryOK, MemoryMarkersAgree, MemorySettled
  <2> QED BY <2>6, <2>7, <2>8, <2>9 DEF MemoryOK
<1>3. CASE StoreErr
  BY <1>3, MemoryUntouched DEF StoreErr, memoryVars
<1>4. CASE FlushTick
  BY <1>4, MemoryUntouched DEF FlushTick, memoryVars
<1>5. ASSUME BuildPending \/ BuildLossMarkers PROVE MemoryOK'
  <2>1. /\ mu = "free"
        /\ UNCHANGED <<entries, nextSeq, lossMarkers, mu, ackedThrough, recorded,
                       receivedThrough, ackThrough, processed, handling, log, dropped,
                       reported, answer, late>>
    BY <1>5 DEF BuildPending, BuildLossMarkers
  <2>2. /\ \/ batch'.entries = {e \in entries : e.seq > ackedThrough}
           \/ batch'.entries = batch.entries
           \/ batch'.entries = {}
        /\ batch'.markers \subseteq lossMarkers
    BY <1>5 DEF BuildPending, BuildLossMarkers, EmptyBatch, TypeOK, RelayTypeOK
  <2>3. /\ Terminal' = Terminal /\ IssuedSeq' = IssuedSeq
        /\ IssuedSeq = nextSeq
        /\ Durables(entries)' = Durables(entries)
        /\ DroppedBy(lossMarkers)' = DroppedBy(lossMarkers)
        /\ DroppedBy(reported)' = DroppedBy(reported)
    BY <2>1 DEF Terminal, Appended, DroppedBy, Durables, IssuedSeq
  <2>4. Told' = Told
    BY <2>3 DEF Told
  <2>5. MarkersInMemory' \subseteq MarkersInMemory
    BY <2>1, <2>2 DEF MarkersInMemory
  <2>6. \A B \in Flying' : \/ B \in Flying
                          \/ B = {}
                          \/ B = {e \in entries : e.seq > ackedThrough}
    BY <2>1, <2>2 DEF Flying
  <2>7. MemoryNumbering'
    <3>1. \A B \in Flying' : \A e \in B : e.seq <= IssuedSeq'
      BY <2>3, <2>6 DEF MemoryOK, MemoryNumbering
    <3>2. \A m \in MarkersInMemory' : m.to <= IssuedSeq'
      BY <2>3, <2>5 DEF MemoryOK, MemoryNumbering
    <3> QED BY <2>1, <2>3, <3>1, <3>2 DEF MemoryOK, MemoryNumbering
  <2>8. SeqIsIdentity'
    BY <2>1, <2>6 DEF MemoryOK, SeqIsIdentity
  <2>9. MemoryFlyingClosed'
    <3> SUFFICES ASSUME NEW B \in Flying', NEW b \in B, NEW e \in recorded, e.seq <= b.seq,
                        B = {f \in entries : f.seq > ackedThrough}, e \notin Told
                 PROVE  e \in B
      BY <2>1, <2>4, <2>6 DEF MemoryOK, MemoryFlyingClosed
    <3>1. e \in entries
      BY DEF MemoryOK, MemorySettled, Durables
    <3>2. e.seq \in Nat /\ ackedThrough \in Nat
      BY DEF TypeOK, RelayTypeOK, Entry
    <3>3. ~(e.seq <= ackedThrough)
      BY DEF MemoryOK, MemoryCursorsCovered, ToldUpTo
    <3> QED BY <3>1, <3>2, <3>3
  <2>10. MemoryCursorsCovered'
    BY <2>1, <2>4 DEF MemoryOK, MemoryCursorsCovered, ToldUpTo
  <2>11. MemoryMarkersAgree' /\ MemorySettled'
    BY <2>1, <2>3, <2>4, <2>5 DEF MemoryOK, MemoryMarkersAgree, MemorySettled
  <2> QED BY <2>7, <2>8, <2>9, <2>10, <2>11 DEF MemoryOK
<1>6. CASE SaveLossMarkers
  <2>1. /\ mu = "ack" /\ mu' = "free"
        /\ UNCHANGED <<entries, nextSeq, lossMarkers, ackedThrough, batch, recorded,
                       receivedThrough, ackThrough, processed, handling, log, dropped,
                       reported, answer, late>>
    BY <1>6 DEF SaveLossMarkers
  <2>2. /\ Flying' = Flying /\ MarkersInMemory' = MarkersInMemory
        /\ Terminal' = Terminal /\ IssuedSeq' = IssuedSeq
        /\ Durables(entries)' = Durables(entries)
        /\ DroppedBy(lossMarkers)' = DroppedBy(lossMarkers)
        /\ DroppedBy(reported)' = DroppedBy(reported)
    BY <2>1 DEF Flying, MarkersInMemory, Terminal, Appended, DroppedBy, Durables, IssuedSeq
  <2>3. Told' = Told
    BY <2>2 DEF Told
  <2>4. MemoryNumbering'
    BY <2>1, <2>2 DEF MemoryOK, MemoryNumbering
  <2>5. SeqIsIdentity' /\ MemoryFlyingClosed'
    BY <2>1, <2>2, <2>3 DEF MemoryOK, SeqIsIdentity, MemoryFlyingClosed
  <2>6. MemoryCursorsCovered'
    BY <2>1, <2>3 DEF MemoryOK, MemoryCursorsCovered, ToldUpTo
  <2>7. MemoryMarkersAgree' /\ MemorySettled'
    BY <2>1, <2>2, <2>3 DEF MemoryOK, MemoryMarkersAgree, MemorySettled
  <2> QED BY <2>4, <2>5, <2>6, <2>7 DEF MemoryOK
<1> QED BY <1>1, <1>2, <1>3, <1>4, <1>5, <1>6 DEF RelayNext

(***************************************************************************)
(* The app peer's steps.                                                   *)
(***************************************************************************)
LEMMA IngestStepKeepsMemory ==
    ASSUME TypeOK, WellFormed, MemoryOK, SinkOutcomes = {TRUE},
           HandlePush \/ HandleLatePush \/ HandlerStep \/ AnswerPush \/ RunnerStep
    PROVE  MemoryOK'
<1> USE DEF ingestVars, cursors, runner, ingestHistory, wire, restarts
<1>1. /\ UNCHANGED <<entries, nextSeq, lossMarkers, mu, ackedThrough, batch, recorded>>
      /\ IssuedSeq' = IssuedSeq
  BY DEF HandlePush, HandleLatePush, HandlerStep, AnswerPush, RunnerStep, IssuedSeq,
         relayVars, memory, channel, history
<1>2. /\ Durables(entries)' = Durables(entries)
      /\ DroppedBy(lossMarkers)' = DroppedBy(lossMarkers)
  BY <1>1 DEF DroppedBy, Durables
<1>3. /\ \A B \in Flying : \A e \in B : e.seq \in Nat
      /\ receivedThrough \in Nat
  BY DEF TypeOK, RelayTypeOK, IngestTypeOK, Flying, Batch, Entry
\* A batch reaches the handler, which leaves out what it has received.
<1>4. ASSUME HandlePush \/ HandleLatePush PROVE MemoryOK'
  <2>1. /\ UNCHANGED <<receivedThrough, ackThrough, processed, log, dropped, reported, answer>>
        /\ late' \subseteq late
        /\ \E b \in {batch} \cup late :
              /\ handling'.rest = {e \in b.entries : e.seq > receivedThrough}
              /\ handling'.markers = b.markers
    BY <1>4 DEF HandlePush, HandleLatePush, BeginBatch
  <2>2. PICK C \in Flying : handling'.rest = {e \in C : e.seq > receivedThrough}
    BY <2>1 DEF Flying
  <2>3. MarkersInMemory' \subseteq MarkersInMemory
    BY <1>1, <2>1 DEF MarkersInMemory
  <2>4. \A B \in Flying' : B \in Flying \/ B = {e \in C : e.seq > receivedThrough}
    BY <1>1, <2>1, <2>2 DEF Flying
  <2>5. Terminal' = Terminal /\ DroppedBy(reported)' = DroppedBy(reported)
    BY <1>1, <2>1 DEF Terminal, Appended, DroppedBy
  <2>6. Told' = Told
    BY <1>2, <2>5 DEF Told
  <2>7. MemoryNumbering'
    <3>1. \A B \in Flying' : \A e \in B : e.seq <= IssuedSeq'
      BY <1>1, <2>4 DEF MemoryOK, MemoryNumbering
    <3>2. \A m \in MarkersInMemory' : m.to <= IssuedSeq'
      BY <1>1, <2>3 DEF MemoryOK, MemoryNumbering
    <3> QED BY <1>1, <2>1, <3>1, <3>2 DEF MemoryOK, MemoryNumbering
  <2>8. SeqIsIdentity'
    BY <1>1, <2>4 DEF MemoryOK, SeqIsIdentity
  <2>9. MemoryFlyingClosed'
    <3> SUFFICES ASSUME NEW b \in C, NEW e \in recorded, e.seq <= b.seq,
                        e \in C, e \notin Told
                 PROVE  e.seq > receivedThrough
      BY <1>1, <2>4, <2>6 DEF MemoryOK, MemoryFlyingClosed
    <3>1. ~(e.seq <= receivedThrough)
      BY DEF MemoryOK, MemoryCursorsCovered, ToldUpTo
    <3> QED BY <1>3, <3>1
  <2>10. MemoryCursorsCovered'
    BY <1>1, <2>1, <2>6 DEF MemoryOK, MemoryCursorsCovered, ToldUpTo
  <2>11. MemoryMarkersAgree' /\ MemorySettled'
    BY <1>1, <1>2, <2>1, <2>3, <2>6 DEF MemoryOK, MemoryMarkersAgree, MemorySettled
  <2> QED BY <2>7, <2>8, <2>9, <2>10, <2>11 DEF MemoryOK
\* The loop of the handler.
<1>5. ASSUME HandlerStep PROVE MemoryOK'
  <2>1. UNCHANGED <<receivedThrough, ackThrough, reported, answer, late>>
    BY <1>5 DEF HandlerStep, HandlerNext, TakeEntry, StopAtFullQueue
  <2>2. handling'.markers = handling.markers /\ handling'.rest \subseteq handling.rest
    BY <1>5 DEF HandlerStep, HandlerNext, TakeEntry, StopAtFullQueue, TypeOK
  <2>3. MarkersInMemory' = MarkersInMemory
    BY <1>1, <2>1, <2>2 DEF MarkersInMemory
  <2>4. \A B \in Flying' : B \in Flying \/ B = handling'.rest
    BY <1>1, <2>1 DEF Flying
  <2>5. handling.rest \in Flying
    BY DEF Flying
  <2>6. /\ Terminal \subseteq Terminal'
        /\ \/ processed' = processed /\ handling'.rest = {}
           \/ \E e \in handling.rest :
                 /\ processed' = processed \cup {e.seq}
                 /\ handling'.rest = handling.rest \ {e}
                 /\ \A f \in handling.rest : e.seq <= f.seq
                 /\ e \in Terminal'
    BY <1>5, HandlerLoop
  <2>7. DroppedBy(reported)' = DroppedBy(reported) /\ Told \subseteq Told'
    BY <1>2, <2>1, <2>6 DEF DroppedBy, Told
  <2>8. MemoryNumbering'
    <3>1. \A B \in Flying' : \A e \in B : e.seq <= IssuedSeq'
      BY <1>1, <2>2, <2>4, <2>5 DEF MemoryOK, MemoryNumbering
    <3>2. \A s \in processed' : s <= IssuedSeq'
      BY <1>1, <2>5, <2>6 DEF MemoryOK, MemoryNumbering
    <3> QED BY <1>1, <2>1, <2>3, <3>1, <3>2 DEF MemoryOK, MemoryNumbering
  <2>9. SeqIsIdentity'
    BY <1>1, <2>2, <2>4, <2>5 DEF MemoryOK, SeqIsIdentity
  <2>10. MemoryFlyingClosed'
    BY <1>1, <2>4, <2>5, <2>6, <2>7 DEF MemoryOK, MemoryFlyingClosed, Told
  <2>11. MemoryCursorsCovered'
    <3>1. ASSUME NEW e \in handling.rest, e \in Terminal',
                 \A f \in handling.rest : e.seq <= f.seq
          PROVE  ToldUpTo(e.seq)'
      <4> SUFFICES ASSUME NEW f \in recorded, f.seq <= e.seq PROVE f \in Told'
        BY <1>1 DEF ToldUpTo
      <4>1. f \in handling.rest \cup Told
        BY <2>5 DEF MemoryOK, MemoryFlyingClosed
      <4>2. CASE f \in handling.rest
        <5>1. f.seq = e.seq
          BY <1>3, <2>5, <3>1, <4>2
        <5> QED BY <2>5, <3>1, <5>1 DEF MemoryOK, SeqIsIdentity, Told
      <4> QED BY <2>7, <4>1, <4>2
    <3>2. \A x : ToldUpTo(x) => ToldUpTo(x)'
      BY <1>1, <2>7 DEF ToldUpTo
    <3>3. \A x \in processed' : ToldUpTo(x)'
      BY <2>6, <3>1, <3>2 DEF MemoryOK, MemoryCursorsCovered
    <3>4. /\ ToldUpTo(receivedThrough)' /\ ToldUpTo(ackThrough)'
          /\ ToldUpTo(ackedThrough)' /\ ToldUpTo(answer.through)'
      BY <1>1, <2>1, <2>7 DEF MemoryOK, MemoryCursorsCovered, ToldUpTo
    <3> QED BY <3>3, <3>4 DEF MemoryCursorsCovered
  <2>12. MemoryMarkersAgree' /\ MemorySettled'
    BY <1>1, <1>2, <2>1, <2>3, <2>7 DEF MemoryOK, MemoryMarkersAgree, MemorySettled
  <2> QED BY <2>8, <2>9, <2>10, <2>11, <2>12 DEF MemoryOK
\* The end of a batch: the cursors move over what was processed.
<1>6. ASSUME AnswerPush PROVE MemoryOK'
  <2>1. /\ UNCHANGED <<log, dropped, late>>
        /\ receivedThrough' = ReceivedAfterBatch /\ ackThrough' = AckAfterBatch
        /\ processed' = {} /\ handling' = Idle
        /\ reported' = reported \cup handling.markers
        /\ answer' \in {answer, Answer}
    BY <1>6 DEF AnswerPush, FinishBatch
  <2>2. /\ Terminal' = Terminal
        /\ DroppedBy(reported) \subseteq DroppedBy(reported)'
    BY <1>1, <2>1 DEF Terminal, Appended, DroppedBy
  <2>3. Told \subseteq Told' /\ \A x : ToldUpTo(x) => ToldUpTo(x)'
    BY <1>1, <1>2, <2>2 DEF Told, ToldUpTo
  <2>4. MarkersInMemory' \subseteq MarkersInMemory
    BY <1>1, <2>1 DEF MarkersInMemory, Idle
  <2>5. \A B \in Flying' : B \in Flying \/ B = {}
    BY <1>1, <2>1 DEF Flying, Idle
  <2>6. /\ receivedThrough' \in Nat
        /\ ToldUpTo(receivedThrough') /\ receivedThrough' <= IssuedSeq
    <3>1. /\ ReceivedAfterBatch \in {receivedThrough} \cup processed
          /\ ReceivedAfterBatch \in Nat
      <4>1. /\ receivedThrough \in Int /\ processed \in SUBSET Int
            /\ processed \in SUBSET Nat /\ IsFiniteSet(processed)
        BY DEF TypeOK, IngestTypeOK, WellFormed
      <4>2. ReceivedAfterBatch \in {receivedThrough} \cup processed
        BY <4>1, MaxWith DEF ReceivedAfterBatch
      <4> QED BY <1>3, <4>1, <4>2
    <3> QED BY <2>1, <3>1 DEF MemoryOK, MemoryCursorsCovered, MemoryNumbering
  <2>7. ToldUpTo(ackThrough') /\ ackThrough' <= IssuedSeq
    <3>1. pending \in SUBSET Nat /\ IsFiniteSet(pending) /\ ackThrough \in Nat
      BY DEF TypeOK, IngestTypeOK, WellFormed
    <3>2. /\ ackThrough' \in Nat
          /\ ackThrough' = ackThrough \/ ackThrough' <= receivedThrough'
      BY <2>1, <2>6, <3>1, RecomputeAckBounds DEF AckAfterBatch
    <3>3. ToldUpTo(ackThrough) /\ ackThrough <= IssuedSeq /\ IssuedSeq \in Int
      BY DEF MemoryOK, MemoryCursorsCovered, MemoryNumbering, IssuedSeq, TypeOK, RelayTypeOK
    <3>4. CASE ackThrough' = ackThrough
      BY <3>3, <3>4
    <3>5. CASE ackThrough' <= receivedThrough'
      BY <2>6, <3>2, <3>3, <3>5, ToldDownward
    <3> QED BY <3>2, <3>4, <3>5
  <2>8. Answer.through = ackThrough'
    BY <2>1 DEF Answer
  <2>9. MemoryNumbering'
    <3>1. \A B \in Flying' : \A e \in B : e.seq <= IssuedSeq'
      BY <1>1, <2>5 DEF MemoryOK, MemoryNumbering
    <3>2. \A m \in MarkersInMemory' : m.to <= IssuedSeq'
      BY <1>1, <2>4 DEF MemoryOK, MemoryNumbering
    <3>3. receivedThrough' <= IssuedSeq' /\ ackThrough' <= IssuedSeq'
      BY <1>1, <2>6, <2>7
    <3>4. answer'.through <= IssuedSeq'
      BY <1>1, <2>1, <2>7, <2>8 DEF MemoryOK, MemoryNumbering
    <3> QED BY <1>1, <2>1, <3>1, <3>2, <3>3, <3>4 DEF MemoryOK, MemoryNumbering
  <2>10. SeqIsIdentity' /\ MemoryFlyingClosed'
    BY <1>1, <2>3, <2>5 DEF MemoryOK, SeqIsIdentity, MemoryFlyingClosed
  <2>11. MemoryCursorsCovered'
    <3>1. ToldUpTo(receivedThrough)' /\ ToldUpTo(ackThrough)'
      BY <1>1, <2>3, <2>6, <2>7 DEF ToldUpTo
    <3>2. ToldUpTo(answer.through)' /\ ToldUpTo(ackedThrough)'
      BY <1>1, <2>1, <2>3, <2>7, <2>8 DEF MemoryOK, MemoryCursorsCovered, ToldUpTo
    <3> QED BY <2>1, <3>1, <3>2 DEF MemoryCursorsCovered
  <2>12. MemoryMarkersAgree'
    <3>1. \A r \in Answer.markers : \E m \in reported' : RangeOf(m) = r
      BY <2>1 DEF Answer, RangeOf, RangeOfMarker
    <3>2. \A r \in answer'.markers : \E m \in reported' : RangeOf(m) = r
      BY <2>1, <3>1 DEF MemoryOK, MemoryMarkersAgree
    <3> QED BY <1>1, <1>2, <2>4, <3>2 DEF MemoryOK, MemoryMarkersAgree
  <2>13. MemorySettled'
    BY <1>1, <1>2, <2>3 DEF MemoryOK, MemorySettled
  <2> QED BY <2>9, <2>10, <2>11, <2>12, <2>13 DEF MemoryOK
\* The delivery runner: only Conclude moves a cursor.
<1>7. ASSUME RunnerStep PROVE MemoryOK'
  <2>1. UNCHANGED <<receivedThrough, processed, handling, log, dropped, reported, answer, late>>
    BY <1>7 DEF RunnerStep, RunnerNext, TakeHead, Conclude, RunnerExits
  <2>2. CASE TakeHead \/ RunnerExits
    BY <1>1, <2>1, <2>2, MemoryUntouched DEF TakeHead, RunnerExits, memoryVars
  <2>3. CASE Conclude
    <3>1. ToldUpTo(ackThrough') /\ ackThrough' <= IssuedSeq
      <4>1. pending \in SUBSET Nat /\ IsFiniteSet(pending) /\ ackThrough \in Nat
        BY DEF TypeOK, IngestTypeOK, WellFormed
      <4>2. /\ pending' \in SUBSET Nat /\ IsFiniteSet(pending')
            /\ ackThrough' = RecomputeAck(receivedThrough, pending', ackThrough)
        BY <2>3, <4>1, FS_Subset DEF Conclude
      <4>3. /\ ackThrough' \in Nat
            /\ ackThrough' = ackThrough \/ ackThrough' <= receivedThrough
        BY <1>3, <4>1, <4>2, RecomputeAckBounds
      <4>4. /\ ToldUpTo(ackThrough) /\ ackThrough <= IssuedSeq
            /\ ToldUpTo(receivedThrough) /\ receivedThrough <= IssuedSeq
            /\ IssuedSeq \in Int
        BY DEF MemoryOK, MemoryCursorsCovered, MemoryNumbering, IssuedSeq, TypeOK, RelayTypeOK
      <4>5. CASE ackThrough' = ackThrough
        BY <4>4, <4>5
      <4>6. CASE ackThrough' <= receivedThrough
        BY <1>3, <4>3, <4>4, <4>6, ToldDownward
      <4> QED BY <4>3, <4>5, <4>6
    <3>2. /\ Flying' = Flying /\ MarkersInMemory' = MarkersInMemory
          /\ Terminal' = Terminal /\ DroppedBy(reported)' = DroppedBy(reported)
      BY <1>1, <2>1 DEF Flying, MarkersInMemory, Terminal, Appended, DroppedBy
    <3>3. Told' = Told /\ \A x : ToldUpTo(x) => ToldUpTo(x)'
      BY <1>1, <1>2, <3>2 DEF Told, ToldUpTo
    <3>4. MemoryNumbering'
      BY <1>1, <2>1, <3>1, <3>2 DEF MemoryOK, MemoryNumbering
    <3>5. SeqIsIdentity' /\ MemoryFlyingClosed'
      BY <1>1, <3>2, <3>3 DEF MemoryOK, SeqIsIdentity, MemoryFlyingClosed
    <3>6. MemoryCursorsCovered'
      BY <1>1, <2>1, <3>1, <3>3 DEF MemoryOK, MemoryCursorsCovered, ToldUpTo
    <3>7. MemoryMarkersAgree' /\ MemorySettled'
      BY <1>1, <1>2, <2>1, <3>2, <3>3 DEF MemoryOK, MemoryMarkersAgree, MemorySettled
    <3> QED BY <3>4, <3>5, <3>6, <3>7 DEF MemoryOK
  <2> QED BY <1>7, <2>2, <2>3 DEF RunnerStep, RunnerNext
<1> QED BY <1>4, <1>5, <1>6, <1>7

(***************************************************************************)
(* An ack is applied, whether or not the disk follows: what leaves the     *)
(* buffer was told up to the ack, and a marker retired is one the app peer *)
(* has received.                                                           *)
(***************************************************************************)
LEMMA AckKeepsMemory ==
    ASSUME TypeOK, WellFormed, MemoryOK, PushReturnsAck
    PROVE  MemoryOK'
<1>1. /\ mu = "free" /\ mu' \in {"free", "ack"}
      /\ ackedThrough' = Max({ackedThrough, answer.through})
      /\ entries' = {e \in entries : e.seq > answer.through}
      /\ lossMarkers' = Unacked(lossMarkers, answer.markers)
      /\ batch' = EmptyBatch /\ answer' = NoAnswer
      /\ UNCHANGED <<nextSeq, recorded, receivedThrough, ackThrough, processed, handling,
                     log, dropped, reported, late>>
  BY DEF PushReturnsAck, ApplyAck, history, ingestVars, cursors, runner, ingestHistory
<1>2. /\ Terminal' = Terminal /\ DroppedBy(reported)' = DroppedBy(reported)
      /\ IssuedSeq' = IssuedSeq /\ IssuedSeq = nextSeq
  BY <1>1 DEF Terminal, Appended, DroppedBy, IssuedSeq
<1>3. /\ answer.through \in Nat /\ ackedThrough \in Nat /\ IssuedSeq \in Nat
      /\ \A e \in recorded : e.seq \in Nat
      /\ entries \in SUBSET Entry
  BY <1>2 DEF TypeOK, RelayTypeOK, Ack, Entry
<1>4. DroppedBy(lossMarkers) \subseteq DroppedBy(lossMarkers') \cup DroppedBy(reported)
  <2>1. ASSUME NEW m \in lossMarkers
        PROVE  m \in lossMarkers' \/ m.dropped \subseteq DroppedBy(reported)
    <3>1. CASE RangeOf(m) \notin answer.markers
      BY <1>1, <3>1 DEF Unacked
    <3>2. CASE RangeOf(m) \in answer.markers
      <4>1. PICK n \in reported : RangeOf(n) = RangeOf(m)
        BY <3>2 DEF MemoryOK, MemoryMarkersAgree
      <4>2. n.to = m.to /\ m \in MarkersInMemory /\ n \in MarkersInMemory
        BY <4>1 DEF RangeOf, MarkersInMemory
      <4>3. n.dropped = m.dropped
        BY <4>2 DEF MemoryOK, MemoryMarkersAgree
      <4> QED BY <4>1, <4>3 DEF DroppedBy
    <3> QED BY <3>1, <3>2
  <2> QED BY <2>1 DEF DroppedBy
<1>5. Told \subseteq Told' /\ \A x : ToldUpTo(x) => ToldUpTo(x)'
  <2>1. DroppedBy(lossMarkers)' = DroppedBy(lossMarkers')
    BY DEF DroppedBy
  <2>2. Told \subseteq Told'
    BY <1>2, <1>4, <2>1 DEF Told
  <2> QED BY <1>1, <2>2 DEF ToldUpTo
<1>6. MarkersInMemory' \subseteq MarkersInMemory
  BY <1>1 DEF MarkersInMemory, Unacked, EmptyBatch
<1>7. \A B \in Flying' : B \in Flying \/ B = {}
  BY <1>1 DEF Flying, EmptyBatch
<1>8. ackedThrough' \in {ackedThrough, answer.through}
  BY <1>1, <1>3, MaxOfTwo
<1>9. MemoryNumbering'
  <2>1. /\ \A B \in Flying' : \A e \in B : e.seq <= IssuedSeq'
        /\ \A m \in MarkersInMemory' : m.to <= IssuedSeq'
    BY <1>2, <1>6, <1>7 DEF MemoryOK, MemoryNumbering
  <2>2. ackedThrough' <= IssuedSeq' /\ answer'.through <= IssuedSeq'
    BY <1>1, <1>2, <1>3, <1>8 DEF MemoryOK, MemoryNumbering, NoAnswer
  <2>3. /\ mu' # "record"
        /\ \A e \in entries' : e.seq <= nextSeq'
        /\ \A e \in recorded' : e.seq > 0 /\ e.seq <= nextSeq'
        /\ \A s \in processed' : s <= IssuedSeq'
        /\ receivedThrough' <= IssuedSeq' /\ ackThrough' <= IssuedSeq'
    BY <1>1, <1>2 DEF MemoryOK, MemoryNumbering
  <2> QED BY <2>1, <2>2, <2>3 DEF MemoryNumbering
<1>10. SeqIsIdentity'
  BY <1>1, <1>7 DEF MemoryOK, SeqIsIdentity
<1>11. MemoryFlyingClosed'
  BY <1>1, <1>5, <1>7 DEF MemoryOK, MemoryFlyingClosed
<1>12. MemoryCursorsCovered'
  <2>1. ToldUpTo(0)
    BY <1>3 DEF ToldUpTo, MemoryOK, MemoryNumbering
  <2>2. ToldUpTo(answer'.through) /\ ToldUpTo(ackedThrough')
    BY <1>1, <1>8, <2>1 DEF MemoryOK, MemoryCursorsCovered, NoAnswer
  <2>3. /\ ToldUpTo(receivedThrough)' /\ ToldUpTo(ackThrough)'
        /\ \A s \in processed' : ToldUpTo(s)'
    BY <1>1, <1>5 DEF MemoryOK, MemoryCursorsCovered, ToldUpTo
  <2>4. ToldUpTo(answer.through)' /\ ToldUpTo(ackedThrough)'
    BY <1>1, <1>5, <2>2 DEF ToldUpTo
  <2> QED BY <2>3, <2>4 DEF MemoryCursorsCovered
<1>13. Durables(entries)' = {e \in Durables(entries) : e.seq > answer.through}
  BY <1>1 DEF Durables
<1>14. MemoryMarkersAgree'
  BY <1>1, <1>6, <1>13 DEF MemoryOK, MemoryMarkersAgree, NoAnswer
<1>15. MemorySettled'
  <2>1. \A e \in recorded : e \in Durables(entries)' \/ e \in Told
    <3> SUFFICES ASSUME NEW e \in recorded, e \in Durables(entries),
                        e \notin Durables(entries)'
                 PROVE  e \in Told
      BY DEF MemoryOK, MemorySettled
    <3>1. e.seq <= answer.through
      BY <1>3, <1>13
    <3> QED BY <3>1 DEF MemoryOK, MemoryCursorsCovered, ToldUpTo
  <2> QED BY <1>1, <1>5, <1>13, <2>1 DEF MemoryOK, MemorySettled
<1> QED BY <1>9, <1>10, <1>11, <1>12, <1>14, <1>15 DEF MemoryOK

\* A push fails, or the app peer dies: the relay keeps what it holds.
LEMMA FailureKeepsMemory ==
    ASSUME TypeOK, WellFormed, MemoryOK, PushReturnsError \/ CrashIngest
    PROVE  MemoryOK'
<1>1. UNCHANGED <<entries, nextSeq, lossMarkers, mu, ackedThrough, recorded, log,
                  dropped, reported>>
  BY DEF PushReturnsError, PushFailed, CrashIngest, IngestRestart, relayVars, memory,
         channel, history, ingestVars, ingestHistory
<1>2. /\ Terminal' = Terminal /\ IssuedSeq' = IssuedSeq
      /\ Durables(entries)' = Durables(entries)
      /\ DroppedBy(lossMarkers)' = DroppedBy(lossMarkers)
      /\ DroppedBy(reported)' = DroppedBy(reported)
  BY <1>1 DEF Terminal, Appended, DroppedBy, IssuedSeq, Durables
<1>3. Told' = Told /\ \A x : ToldUpTo(x)' <=> ToldUpTo(x)
  BY <1>1, <1>2 DEF Told, ToldUpTo
<1>4. ToldUpTo(0) /\ IssuedSeq \in Nat
  <2>1. \A e \in recorded : e.seq \in Nat
    BY DEF TypeOK, RelayTypeOK, Entry
  <2> QED BY <2>1 DEF ToldUpTo, MemoryOK, MemoryNumbering, IssuedSeq, TypeOK, RelayTypeOK
<1>5. /\ batch' \in {batch, EmptyBatch}
      /\ handling'.rest \in {handling.rest, {}}
      /\ handling'.markers \in {handling.markers, {}}
      /\ late' \subseteq late \cup {batch}
  BY DEF PushReturnsError, PushFailed, CrashIngest, IngestRestart, Abandon, relayVars,
         channel, ingestVars, Idle
<1>6. /\ processed' \subseteq processed
      /\ receivedThrough' \in {receivedThrough, 0} /\ ackThrough' \in {ackThrough, 0}
      /\ answer' \in {answer, NoAnswer}
  BY DEF PushReturnsError, PushFailed, CrashIngest, IngestRestart, Abandon, ingestVars, cursors
<1>7. MarkersInMemory' \subseteq MarkersInMemory
  BY <1>1, <1>5 DEF MarkersInMemory, EmptyBatch
<1>8. \A B \in Flying' : B \in Flying \/ B = {}
  BY <1>5 DEF Flying, EmptyBatch
<1>9. MemoryNumbering'
  <2>1. /\ \A B \in Flying' : \A e \in B : e.seq <= IssuedSeq'
        /\ \A m \in MarkersInMemory' : m.to <= IssuedSeq'
        /\ \A s \in processed' : s <= IssuedSeq'
    BY <1>2, <1>6, <1>7, <1>8 DEF MemoryOK, MemoryNumbering
  <2>2. /\ receivedThrough' <= IssuedSeq' /\ ackThrough' <= IssuedSeq'
        /\ ackedThrough' <= IssuedSeq' /\ answer'.through <= IssuedSeq'
    BY <1>1, <1>2, <1>4, <1>6 DEF MemoryOK, MemoryNumbering, NoAnswer
  <2> QED BY <1>1, <2>1, <2>2 DEF MemoryOK, MemoryNumbering
<1>10. SeqIsIdentity' /\ MemoryFlyingClosed'
  BY <1>1, <1>3, <1>8 DEF MemoryOK, SeqIsIdentity, MemoryFlyingClosed
<1>11. MemoryCursorsCovered'
  <2>1. /\ ToldUpTo(receivedThrough') /\ ToldUpTo(ackThrough') /\ ToldUpTo(ackedThrough')
        /\ ToldUpTo(answer'.through) /\ \A s \in processed' : ToldUpTo(s)
    BY <1>1, <1>4, <1>6 DEF MemoryOK, MemoryCursorsCovered, NoAnswer
  <2> QED BY <1>1, <1>3, <2>1 DEF MemoryCursorsCovered, ToldUpTo
<1>12. MemoryMarkersAgree' /\ MemorySettled'
  BY <1>1, <1>2, <1>3, <1>6, <1>7 DEF MemoryOK, MemoryMarkersAgree, MemorySettled, NoAnswer
<1> QED BY <1>9, <1>10, <1>11, <1>12 DEF MemoryOK

LEMMA MemoryInit == Init => MemoryOK
<1> SUFFICES ASSUME Init PROVE MemoryOK
  OBVIOUS
<1> USE DEF Init, RelayInit, IngestInit
<1>1. /\ Flying = {{}} /\ MarkersInMemory = {} /\ Durables(entries) = {} /\ IssuedSeq = 0
  BY DEF Flying, MarkersInMemory, Durables, IssuedSeq, EmptyBatch, Idle
<1>2. MemoryNumbering
  BY <1>1 DEF MemoryNumbering, NoAnswer
<1>3. SeqIsIdentity /\ MemoryFlyingClosed /\ MemoryCursorsCovered
  BY <1>1 DEF SeqIsIdentity, MemoryFlyingClosed, MemoryCursorsCovered, ToldUpTo
<1>4. MemoryMarkersAgree /\ MemorySettled
  BY <1>1 DEF MemoryMarkersAgree, MemorySettled, NoAnswer
<1> QED BY <1>2, <1>3, <1>4 DEF MemoryOK

\* Every step, until the relay crashes.
LEMMA MemoryStep ==
    ASSUME TypeOK, WellFormed, MemoryInvariant, [Next]_vars, SinkOutcomes = {TRUE}
    PROVE  MemoryInvariant'
<1> SUFFICES ASSUME relayRestarts' = 0 PROVE MemoryOK'
  BY DEF MemoryInvariant
<1>1. CASE CrashRelay
  BY <1>1 DEF CrashRelay, TypeOK
<1>2. CASE ~CrashRelay
  <2>1. relayRestarts' = relayRestarts
    BY <1>2 DEF Next, RelayStep, SendPush, HandlePush, HandleLatePush, HandlerStep,
       AnswerPush, RunnerStep, PushReturnsAck, PushReturnsError, CrashIngest, restarts, vars
  <2>2. MemoryOK
    BY <2>1 DEF MemoryInvariant
  <2>3. CASE RelayStep
    BY <2>2, <2>3, RelayStepKeepsMemory
  <2>4. CASE SendPush \/ UNCHANGED vars
    BY <2>2, <2>4, MemoryUntouched DEF SendPush, vars, relayVars, memory, channel, history,
       ingestVars, cursors, ingestHistory, wire, memoryVars
  <2>5. CASE HandlePush \/ HandleLatePush \/ HandlerStep \/ AnswerPush \/ RunnerStep
    BY <2>2, <2>5, IngestStepKeepsMemory
  <2>6. CASE PushReturnsAck
    BY <2>2, <2>6, AckKeepsMemory
  <2>7. CASE PushReturnsError \/ CrashIngest
    BY <2>2, <2>7, FailureKeepsMemory
  <2> QED BY <1>2, <2>3, <2>4, <2>5, <2>6, <2>7 DEF Next
<1> QED BY <1>1, <1>2

(***************************************************************************)
(* RecordTraced, Buffer.applyAck and appendBatch, with a durable store any *)
(* of whose writes may fail: until the relay crashes no durable entry is   *)
(* lost silently, however many pushes fail, are handled late or meet an    *)
(* app peer that restarts.  The app peer's log must take what it is given. *)
(***************************************************************************)
THEOREM NothingLostInMemory ==
    ASSUME SinkOutcomes = {TRUE}
    PROVE  Spec => []NoLossWhileUp
<1>1. Init => TypeOK /\ WellFormed /\ MemoryInvariant
  BY ShapeInit, MemoryInit DEF MemoryInvariant
<1>2. TypeOK /\ WellFormed /\ MemoryInvariant /\ [Next]_vars
         => (TypeOK /\ WellFormed /\ MemoryInvariant)'
  BY ShapeStep, MemoryStep
<1>3. MemoryInvariant => NoLossWhileUp
  BY DEF MemoryInvariant, MemoryOK, MemorySettled, NoLossWhileUp, Told, Durables
<1> QED BY <1>1, <1>2, <1>3, PTL DEF Spec


-----------------------------------------------------------------------------
(***************************************************************************)
(* The telemetry channel implements DurableCustody, for every value of its *)
(* constants, as long as the relay's store and the app peer's log take     *)
(* every write they are given.                                             *)
(***************************************************************************)

custodyVars == <<recorded, dEntries, dMarkers, log, dropped, reported, reissued>>

\* Steps that touch neither custody nor its history.
LEMMA CustodyStutters ==
    ASSUME UNCHANGED custodyVars
    PROVE  UNCHANGED Custody!custody /\ Marked' = Marked /\ Terminal' = Terminal
<1>1. /\ DroppedBy(dMarkers)' = DroppedBy(dMarkers)
      /\ DroppedBy(reported)' = DroppedBy(reported)
      /\ Terminal' = Terminal
  BY DEF custodyVars, DroppedBy, Terminal, Appended
<1> QED BY <1>1 DEF custodyVars, Custody!custody, Marked

(***************************************************************************)
(* What a step that keeps the numbering sound does to custody: it is a     *)
(* step of the abstract specification, and forgets no announced loss.      *)
(***************************************************************************)
LEMMA CustodyStep ==
    ASSUME IInv, [Next]_vars, StoreOutcomes = {TRUE}, SinkOutcomes = {TRUE},
           ~reissued, ~reissued'
    PROVE  /\ Custody!Step \/ UNCHANGED Custody!custody
           /\ Marked \subseteq Marked'
<1> USE DEF Custody!Step
<1>1. TypeOK /\ WellFormed /\ ChannelOK
  BY DEF IInv, ChannelInvariant
<1> USE DEF relayVars, memory, disk, channel, history, ingestVars, cursors, runner,
            ingestHistory, wire, restarts
\* Accept: an entry is recorded, and what it pushes out is marked.
<1>2. ASSUME RelayStep, NEW k \in Kinds, Record(k)
      PROVE  Custody!Accept /\ Marked \subseteq Marked'
  <2>1. UNCHANGED <<log, dropped, reported>>
    BY <1>2 DEF RelayStep
  <2>2. Terminal' = Terminal /\ DroppedBy(reported)' = DroppedBy(reported)
    BY <2>1 DEF Terminal, Appended, DroppedBy
  <2>3. /\ Marked \subseteq Marked'
        /\ dEntries' \cup DroppedBy(dMarkers') =
              dEntries \cup DroppedBy(dMarkers) \cup (recorded' \ recorded)
    BY <1>1, <1>2, RecordKeepsChannel DEF RelayStep
  <2>4. DroppedBy(dMarkers)' = DroppedBy(dMarkers')
    BY DEF DroppedBy
  <2>5. recorded \subseteq recorded'
    BY <1>2 DEF Record
  <2> QED BY <2>2, <2>3, <2>4, <2>5 DEF Custody!Accept
\* Release: a marker the app peer has received is taken off the disk.
<1>3. ASSUME RelayStep, SaveLossMarkers
      PROVE  Custody!Release /\ Marked \subseteq Marked'
  <2>1. UNCHANGED <<recorded, dEntries, lossMarkers, log, dropped, reported>> /\ dMarkers' = lossMarkers
    BY <1>3 DEF RelayStep, SaveLossMarkers
  <2>2. /\ Terminal' = Terminal /\ DroppedBy(reported)' = DroppedBy(reported)
        /\ DroppedBy(dMarkers)' = DroppedBy(lossMarkers)
    BY <2>1 DEF Terminal, Appended, DroppedBy
  <2>3. DroppedBy(dMarkers) \subseteq DroppedBy(lossMarkers) \cup DroppedBy(reported)
    BY <1>1 DEF ChannelOK, DiskMirrorsBuffer
  <2>4. DroppedBy(lossMarkers) \subseteq DroppedBy(dMarkers)
    BY <1>1 DEF ChannelOK, DiskMirrorsBuffer, DroppedBy
  <2> QED BY <2>1, <2>2, <2>3, <2>4 DEF Custody!Release, Marked
\* Release: an ack discards what it covers.
<1>4. ASSUME PushReturnsAck PROVE Custody!Release /\ Marked \subseteq Marked'
  <2>1. /\ dEntries' = {e \in dEntries : e.seq > answer.through}
        /\ UNCHANGED <<recorded, dMarkers, log, dropped, reported>>
    BY <1>4 DEF PushReturnsAck, ApplyAck
  <2>2. /\ Terminal' = Terminal /\ DroppedBy(reported)' = DroppedBy(reported)
        /\ DroppedBy(dMarkers)' = DroppedBy(dMarkers)
    BY <2>1 DEF Terminal, Appended, DroppedBy
  <2>3. ASSUME NEW e \in dEntries, e \notin dEntries'
        PROVE  e \in Terminal \cup DroppedBy(dMarkers) \cup DroppedBy(reported)
    <3>1. e \in recorded /\ e.seq \in Nat /\ answer.through \in Nat
      BY <1>1 DEF ChannelOK, Settled, TypeOK, RelayTypeOK, Ack, Entry
    <3>2. e.seq <= answer.through
      BY <2>1, <2>3, <3>1
    <3> QED BY <1>1, <3>1, <3>2 DEF ChannelOK, CursorsCovered, Covered, Accounted, Marked
  <2> QED BY <2>1, <2>2, <2>3 DEF Custody!Release, Marked
\* Deliver: the handler takes an entry.
<1>5. ASSUME HandlerStep PROVE Custody!Deliver /\ Marked \subseteq Marked'
  <2>1. UNCHANGED <<recorded, dEntries, dMarkers, reported>>
    BY <1>5 DEF HandlerStep, HandlerNext, TakeEntry, StopAtFullQueue
  <2>2. /\ DroppedBy(reported)' = DroppedBy(reported)
        /\ DroppedBy(dMarkers)' = DroppedBy(dMarkers)
    BY <2>1 DEF DroppedBy
  <2>3. Terminal \subseteq Terminal'
    <3>1. dropped \subseteq dropped' /\ (log' = log \/ \E e \in Entry : log' = Append(log, e))
      BY <1>1, <1>5 DEF HandlerStep, HandlerNext, TakeEntry, StopAtFullQueue, TypeOK
    <3>2. log \in Seq(Entry)
      BY <1>1 DEF TypeOK
    <3>3. Appended \subseteq Appended'
      BY <3>1, <3>2 DEF Appended
    <3> QED BY <3>1, <3>3 DEF Terminal
  <2> QED BY <2>1, <2>2, <2>3 DEF Custody!Deliver, Marked
\* Announce: the handler has received the markers of the batch.
<1>6. ASSUME AnswerPush PROVE Custody!Announce /\ Marked \subseteq Marked'
  <2>1. /\ UNCHANGED <<recorded, dEntries, dMarkers, log, dropped>>
        /\ reported' = reported \cup handling.markers
    BY <1>6 DEF AnswerPush, FinishBatch
  <2>2. /\ Terminal' = Terminal /\ DroppedBy(dMarkers)' = DroppedBy(dMarkers)
        /\ DroppedBy(reported) \subseteq DroppedBy(reported)'
    BY <2>1 DEF Terminal, Appended, DroppedBy
  <2> QED BY <2>1, <2>2 DEF Custody!Announce, Marked
<1>7. CASE UNCHANGED custodyVars
  BY <1>7, CustodyStutters
<1>8. ASSUME RelayStep,
             SaveSeqHighWater \/ StoreErr \/ FlushTick \/ BuildPending \/ BuildLossMarkers
      PROVE  UNCHANGED custodyVars
  BY <1>8 DEF RelayStep, SaveSeqHighWater, StoreErr, FlushTick, BuildPending,
              BuildLossMarkers, custodyVars
<1>9. CASE \/ SendPush \/ HandlePush \/ HandleLatePush \/ RunnerStep
           \/ PushReturnsError \/ CrashRelay \/ CrashIngest \/ UNCHANGED vars
  <2>1. UNCHANGED <<recorded, dEntries, dMarkers, log, dropped, reported>>
    BY <1>9 DEF SendPush, HandlePush, HandleLatePush, BeginBatch, RunnerStep, RunnerNext,
                TakeHead, Conclude, RunnerExits, PushReturnsError, PushFailed, CrashRelay,
                RelayRestart, CrashIngest, IngestRestart, vars
  <2>2. reissued' = reissued
    <3>1. reissued \in BOOLEAN /\ reissued' \in BOOLEAN
      BY <1>1, ShapeStep DEF TypeOK, RelayTypeOK
    <3> QED BY <3>1
  <2> QED BY <1>7, <2>1, <2>2 DEF custodyVars
<1> QED BY <1>2, <1>3, <1>4, <1>5, <1>6, <1>7, <1>8, <1>9 DEF Next, RelayStep, RelayNext

\* Custody starts as the channel does.
LEMMA CustodyInit == Init => Custody!Init
<1>1. Init => Terminal = {} /\ DroppedBy(dMarkers) = {} /\ DroppedBy(reported) = {}
  BY DEF Init, RelayInit, IngestInit, Terminal, Appended, DroppedBy
<1> QED BY <1>1 DEF Init, RelayInit, Custody!Init

(***************************************************************************)
(* The buffer, the store, the channel, the handler and the wire together   *)
(* implement DurableCustody: every step of theirs is a step of it, or      *)
(* leaves custody alone.                                                   *)
(***************************************************************************)
THEOREM CustodyImplemented ==
    ASSUME StoreOutcomes = {TRUE}, SinkOutcomes = {TRUE}
    PROVE  Spec => ImplementsCustody
<1>1. Init => IInv /\ Custody!Init
  BY ShapeInit, ChannelInit, CustodyInit DEF IInv, ChannelInvariant
<1>2. IInv /\ [Next]_vars => IInv'
  BY ChannelStep
<1>3. ASSUME IInv, [Next]_vars PROVE [Custody!Next]_(Custody!custody)
  <2>1. CASE reissued'
    BY <2>1 DEF Custody!Next
  <2>2. CASE ~reissued' /\ ~reissued
    BY <1>3, <2>2, CustodyStep DEF Custody!Next
  <2>3. reissued => reissued'
    BY <1>3, ReissuedStays
  <2> QED BY <2>1, <2>2, <2>3
<1> QED BY <1>1, <1>2, <1>3, PTL DEF Spec, ImplementsCustody, Custody!Spec

(***************************************************************************)
(* applyAck and SaveLossMarkers never discard, from the relay's disk, an   *)
(* entry the app peer is not finished with and no marker counts, nor a     *)
(* marker it has not received.                                             *)
(***************************************************************************)
THEOREM DiscardsJustified ==
    ASSUME StoreOutcomes = {TRUE}, SinkOutcomes = {TRUE}
    PROVE  Spec => DiscardsOnlyWhatIsSettled
<1>1. Init => IInv
  BY ShapeInit, ChannelInit DEF IInv, ChannelInvariant
<1>2. IInv /\ [Next]_vars => IInv'
  BY ChannelStep
<1>3. ASSUME IInv, [Next]_vars, ~reissued'
      PROVE  /\ dEntries \ dEntries' \subseteq (Terminal \cup Marked)'
             /\ DroppedBy(dMarkers) \subseteq Marked'
  <2>1. ~reissued /\ recorded \subseteq recorded'
    BY <1>3, ReissuedStays
  <2>2. Marked \subseteq Marked'
    BY <1>3, <2>1, CustodyStep
  <2>3. dEntries \subseteq recorded
    BY <1>3, <2>1 DEF IInv, ChannelInvariant, ChannelOK, Settled
  <2>4. recorded' \subseteq dEntries' \cup Terminal' \cup Marked'
    BY <1>2, <1>3 DEF IInv, ChannelInvariant, ChannelOK, Settled, EveryEntrySettled
  <2> QED BY <2>1, <2>2, <2>3, <2>4 DEF Marked
<1>4. IInv /\ [Next]_vars =>
         [~reissued' => /\ dEntries \ dEntries' \subseteq (Terminal \cup Marked)'
                        /\ DroppedBy(dMarkers) \subseteq (Marked)']_vars
  BY <1>3
<1> QED BY <1>1, <1>2, <1>4, PTL DEF Spec, DiscardsOnlyWhatIsSettled

(***************************************************************************)
(* What DurableCustody is for: under its rules nothing accepted is ever    *)
(* simply missing.                                                         *)
(***************************************************************************)
THEOREM CustodyKeepsFaith == ImplementsCustody => []Custody!NothingMissing
<1>1. Custody!Init => Custody!NothingMissing
  BY DEF Custody!Init, Custody!NothingMissing
<1>2. Custody!NothingMissing /\ [Custody!Next]_(Custody!custody) => Custody!NothingMissing'
  BY DEF Custody!NothingMissing, Custody!Next, Custody!Step, Custody!Accept, Custody!Deliver,
         Custody!Announce, Custody!Release, Custody!custody
<1> QED BY <1>1, <1>2, PTL DEF ImplementsCustody, Custody!Spec
-----------------------------------------------------------------------------
(***************************************************************************)
(* The order of the log.                                                   *)
(***************************************************************************)
LEMMA LogStep ==
    ASSUME TypeOK, WellFormed, LogInv, [Next]_vars
    PROVE  LogInv'
<1> USE DEF LogInv, LogOrdered, LogIsBehind, RestIsAhead, TypeOK, IngestTypeOK
<1>1. ASSUME UNCHANGED <<receivedThrough, processed, handling, log, epoch>> PROVE LogInv'
  BY <1>1
<1>2. ASSUME NEW b \in Batch, BeginBatch(b) PROVE LogInv'
  BY <1>2 DEF BeginBatch, cursors, ingestHistory
<1>0. /\ log \in Seq(Entry) /\ epoch \in Nat /\ receivedThrough \in Nat /\ processed \in SUBSET Nat
      /\ handling.rest \in SUBSET Entry /\ IsFiniteSet(processed)
      /\ \A i \in (epoch + 1)..Len(log) : i \in 1..Len(log) /\ log[i].seq \in Nat
      /\ \A e \in Entry : e.seq \in Nat
  <2>1. log \in Seq(Entry) /\ epoch \in Nat /\ \A e \in Entry : e.seq \in Nat
    BY DEF Entry
  <2>2. \A i \in (epoch + 1)..Len(log) : i \in 1..Len(log) /\ log[i] \in Entry
    BY <2>1
  <2> QED BY <2>1, <2>2 DEF WellFormed
<1>3. ASSUME NEW e \in handling.rest, TakeEntry(e) PROVE LogInv'
  <2> HIDE DEF TypeOK, IngestTypeOK
  <2>1. e \in Entry /\ e.seq \in Nat
    BY <1>0
  <2>2. \A i \in (epoch + 1)..Len(log) : log[i].seq < e.seq
    <3> SUFFICES ASSUME NEW i \in (epoch + 1)..Len(log) PROVE log[i].seq < e.seq
      OBVIOUS
    <3>1. e.seq > receivedThrough /\ \A s \in processed : s <= e.seq
      OBVIOUS
    <3>2. e.seq \notin processed
      BY <1>3 DEF TakeEntry
    <3>3. log[i].seq \in Nat /\ (log[i].seq <= receivedThrough \/ log[i].seq \in processed)
      BY <1>0
    <3> QED BY <1>0, <2>1, <3>1, <3>2, <3>3
  <2>3. /\ log' = log \/ log' = Append(log, e)
        /\ processed' = processed \cup {e.seq} /\ handling.busy
        /\ handling' = [handling EXCEPT !.rest = @ \ {e}]
        /\ receivedThrough' = receivedThrough /\ epoch' = epoch
        /\ \A f \in handling.rest : e.seq <= f.seq
    BY <1>3 DEF TakeEntry, NextEntry, cursors, ingestHistory
  <2>4. RestIsAhead'
    <3>1. handling'.rest \subseteq handling.rest
      BY <2>3 DEF TypeOK
    <3> QED BY <2>1, <2>3, <3>1
  <2>5. handling'.busy
    BY <2>3 DEF TypeOK
  <2>6. CASE log' = log
    BY <2>3, <2>4, <2>5, <2>6
  <2>7. CASE log' = Append(log, e)
    <3>1. /\ Len(log) \in Nat /\ Len(log') = Len(log) + 1 /\ log'[Len(log) + 1] = e
          /\ \A i \in 1..Len(log) : log'[i] = log[i]
      BY <1>0, <2>1, <2>7
    <3>2. \A i \in (epoch' + 1)..Len(log') :
             \/ i \in (epoch + 1)..Len(log) /\ log'[i] = log[i]
             \/ i = Len(log) + 1 /\ log'[i] = e
      BY <1>0, <2>3, <3>1
    <3>3. LogOrdered'
      <4> SUFFICES ASSUME NEW i \in (epoch' + 1)..Len(log'), NEW j \in (epoch' + 1)..Len(log'), i < j
                   PROVE  log'[i].seq < log'[j].seq
        OBVIOUS
      <4>1. i \in (epoch + 1)..Len(log) /\ log'[i] = log[i]
        BY <1>0, <2>3, <3>1, <3>2
      <4> QED BY <2>2, <3>2, <4>1
    <3>4. LogIsBehind'
      BY <2>3, <3>2
    <3> QED BY <2>4, <2>5, <3>3, <3>4
  <2> QED BY <2>3, <2>6, <2>7
<1>4. ASSUME FinishBatch PROVE LogInv'
  <2> HIDE DEF TypeOK, IngestTypeOK
  <2>1. /\ receivedThrough' \in Int /\ receivedThrough <= receivedThrough'
        /\ \A s \in processed : s <= receivedThrough'
    <3>1. receivedThrough \in Int /\ processed \in SUBSET Int
      BY <1>0
    <3> QED BY <1>0, <1>4, <3>1, MaxWith DEF FinishBatch, ReceivedAfterBatch
  <2>2. /\ log' = log /\ epoch' = epoch /\ processed' = {}
        /\ handling'.rest = {}
    BY <1>4 DEF FinishBatch, Idle
  <2>3. LogIsBehind'
    BY <1>0, <2>1, <2>2
  <2> QED BY <2>2, <2>3
<1>5. ASSUME IngestRestart PROVE LogInv'
  BY <1>5 DEF IngestRestart, Idle
<1>6. ASSUME RelayStep \/ SendPush \/ PushReturnsAck \/ PushReturnsError \/ CrashRelay
      PROVE  LogInv'
  BY <1>1, <1>6 DEF RelayStep, SendPush, PushReturnsAck, PushReturnsError, CrashRelay,
     ingestVars, cursors, ingestHistory
<1>7. ASSUME HandlePush \/ HandleLatePush PROVE LogInv'
  <2>1. batch \in Batch
    BY DEF RelayTypeOK, Batch
  <2> QED BY <1>2, <1>7, <2>1 DEF HandlePush, HandleLatePush
<1>8. ASSUME HandlerStep PROVE LogInv'
  <2>1. CASE StopAtFullQueue
    BY <2>1 DEF StopAtFullQueue, cursors, ingestHistory
  <2> QED BY <1>3, <1>8, <2>1 DEF HandlerStep, HandlerNext
<1>9. ASSUME AnswerPush \/ CrashIngest PROVE LogInv'
  BY <1>4, <1>5, <1>9 DEF AnswerPush, CrashIngest
<1>10. ASSUME RunnerStep \/ UNCHANGED vars PROVE LogInv'
  BY <1>1, <1>10 DEF RunnerStep, RunnerNext, TakeHead, Conclude, RunnerExits, vars,
     ingestVars, cursors, ingestHistory
<1> QED BY <1>6, <1>7, <1>8, <1>9, <1>10 DEF Next

(***************************************************************************)
(* Whatever is retried, arrives late or is cut short, and whichever stores *)
(* fail, the app peer appends in strictly increasing seq order for as long *)
(* as it runs (EVT-135).                                                   *)
(***************************************************************************)
THEOREM LogStaysOrdered == Spec => []LogOrdered
<1>1. Init => TypeOK /\ WellFormed /\ LogInv
  BY ShapeInit DEF Init, IngestInit, Idle, LogInv, LogOrdered, LogIsBehind, RestIsAhead
<1>2. TypeOK /\ WellFormed /\ LogInv /\ [Next]_vars => TypeOK' /\ WellFormed' /\ LogInv'
  BY ShapeStep, LogStep
<1>3. LogInv => LogOrdered
  BY DEF LogInv
<1> QED BY <1>1, <1>2, <1>3, PTL DEF Spec

-----------------------------------------------------------------------------
(* The delivery queue and the ack cursor                                   *)

\* What is in a queue after an Append, and after its head was taken.
LEMMA QueueGrows ==
    ASSUME NEW q \in Seq(Nat), NEW s \in Nat
    PROVE  LET t == Append(q, s)
           IN  /\ {t[i] : i \in 1..Len(t)} = {q[i] : i \in 1..Len(q)} \cup {s}
               /\ ( (/\ s \notin {q[i] : i \in 1..Len(q)}
                     /\ \A i, j \in 1..Len(q) : q[i] = q[j] => i = j)
                     => \A i, j \in 1..Len(t) : t[i] = t[j] => i = j )
<1> DEFINE t == Append(q, s)
<1>1. /\ Len(q) \in Nat /\ Len(t) = Len(q) + 1 /\ t[Len(q) + 1] = s
      /\ \A i \in 1..Len(q) : t[i] = q[i]
  OBVIOUS
<1> HIDE DEF t
<1>2. \A i \in 1..Len(t) : i \in 1..Len(q) \/ i = Len(q) + 1
  BY <1>1
<1>3. {t[i] : i \in 1..Len(t)} = {q[i] : i \in 1..Len(q)} \cup {s}
  <2>1. \A i \in 1..Len(q) : i \in 1..Len(t)
    BY <1>1
  <2>2. Len(q) + 1 \in 1..Len(t)
    BY <1>1
  <2> QED BY <1>1, <1>2, <2>1, <2>2
<1>4. ASSUME s \notin {q[i] : i \in 1..Len(q)},
             \A i, j \in 1..Len(q) : q[i] = q[j] => i = j,
             NEW i \in 1..Len(t), NEW j \in 1..Len(t), t[i] = t[j]
      PROVE  i = j
  BY <1>1, <1>2, <1>4
<1> QED BY <1>3, <1>4 DEF t

LEMMA QueueShrinks ==
    ASSUME NEW q \in Seq(Nat), q # <<>>
    PROVE  /\ Head(q) \in Nat
           /\ {q[i] : i \in 1..Len(q)} = {Head(q)} \cup {Tail(q)[i] : i \in 1..Len(Tail(q))}
           /\ (\A i, j \in 1..Len(q) : q[i] = q[j] => i = j)
                 => /\ Head(q) \notin {Tail(q)[i] : i \in 1..Len(Tail(q))}
                    /\ \A i, j \in 1..Len(Tail(q)) : Tail(q)[i] = Tail(q)[j] => i = j
<1> DEFINE t == Tail(q)
<1>1. /\ Len(q) \in Nat /\ Len(q) > 0 /\ Head(q) = q[1] /\ Head(q) \in Nat
      /\ Len(t) = Len(q) - 1
      /\ \A i \in 1..Len(t) : t[i] = q[i + 1]
  OBVIOUS
<1> HIDE DEF t
<1>2. /\ \A i \in 1..Len(t) : i \in Int /\ i + 1 \in 1..Len(q) /\ i + 1 # 1
      /\ \A i \in 1..Len(q) : i = 1 \/ (i - 1 \in 1..Len(t) /\ (i - 1) + 1 = i)
      /\ 1 \in 1..Len(q)
  BY <1>1
<1>3. {q[i] : i \in 1..Len(q)} = {Head(q)} \cup {t[i] : i \in 1..Len(t)}
  <2>1. ASSUME NEW i \in 1..Len(q) PROVE q[i] \in {Head(q)} \cup {t[j] : j \in 1..Len(t)}
    <3>1. CASE i = 1
      BY <1>1, <3>1
    <3>2. CASE i # 1
      <4>1. i - 1 \in 1..Len(t) /\ (i - 1) + 1 = i
        BY <1>2, <3>2
      <4>2. t[i - 1] = q[i]
        BY <1>1, <4>1
      <4> QED BY <4>1, <4>2
    <3> QED BY <3>1, <3>2
  <2>2. ASSUME NEW j \in 1..Len(t) PROVE t[j] \in {q[i] : i \in 1..Len(q)}
    BY <1>1, <1>2
  <2>3. Head(q) \in {q[i] : i \in 1..Len(q)}
    BY <1>1, <1>2
  <2> QED BY <2>1, <2>2, <2>3
<1>4. ASSUME \A i, j \in 1..Len(q) : q[i] = q[j] => i = j
      PROVE  /\ Head(q) \notin {t[i] : i \in 1..Len(t)}
             /\ \A i, j \in 1..Len(t) : t[i] = t[j] => i = j
  <2>1. ASSUME NEW i \in 1..Len(t) PROVE Head(q) # t[i]
    BY <1>1, <1>2, <1>4
  <2>2. ASSUME NEW i \in 1..Len(t), NEW j \in 1..Len(t), t[i] = t[j] PROVE i = j
    <3>1. i + 1 = j + 1
      BY <1>1, <1>2, <1>4, <2>2
    <3> QED BY <1>2, <3>1
  <2> QED BY <2>1, <2>2
<1> QED BY <1>1, <1>3, <1>4 DEF t

(***************************************************************************)
(* Every step keeps the queue's invariant.  It rests on LogInv for what    *)
(* the loop still has to take.                                             *)
(***************************************************************************)
LEMMA QueueStep ==
    ASSUME TypeOK, WellFormed, LogInv, QueueInv, [Next]_vars
    PROVE  QueueInv'
<1> USE DEF QueueInv
<1>1. ASSUME UNCHANGED <<receivedThrough, ackThrough, processed, runner, handling>>,
             \/ UNCHANGED <<push, answer, late>>
             \/ push' # "answered"
      PROVE  QueueInv'
  BY <1>1 DEF PendingIsAhead, AnswerIsBehind, QueuedOnce, RunnerHasTheQueue, Queued, runner
<1>2. /\ receivedThrough \in Nat /\ ackThrough \in Nat /\ answer.through \in Nat
      /\ processed \in SUBSET Nat /\ IsFiniteSet(processed)
      /\ pending \in SUBSET Nat /\ IsFiniteSet(pending)
      /\ queue \in Seq(Nat) /\ delivering \in Nat
      /\ \A e \in handling.rest : e.seq \in Nat
  BY DEF TypeOK, IngestTypeOK, WellFormed, Ack, Entry
<1>3. /\ pending = Queued \cup ({delivering} \ {NoSeq})
      /\ NoSeq \notin pending
  BY <1>2 DEF RunnerHasTheQueue, Queued, PendingIsAhead, NoSeq
<1>4. ASSUME RelayStep \/ SendPush \/ PushReturnsAck \/ PushReturnsError \/ CrashRelay
                \/ UNCHANGED vars
      PROVE  QueueInv'
  BY <1>1, <1>4 DEF RelayStep, SendPush, PushReturnsAck, PushReturnsError, CrashRelay,
     Abandon, ingestVars, cursors, wire, vars
\* A batch reaches the handler: not one the relay has had an answer for.
<1>5. ASSUME HandlePush \/ HandleLatePush PROVE QueueInv'
  <2>1. /\ UNCHANGED <<cursors, runner, answer>>
        /\ handling'.busy
    BY <1>5 DEF HandlePush, HandleLatePush, BeginBatch
  <2>2. push' = "answered" => push = "answered" /\ late # {}
    BY <1>5 DEF HandlePush, HandleLatePush
  <2>3. AnswerIsBehind'
    BY <2>1, <2>2 DEF AnswerIsBehind, cursors
  <2> QED BY <2>1, <2>3 DEF PendingIsAhead, QueuedOnce, RunnerHasTheQueue, Queued, cursors, runner
\* The loop takes an entry above the received cursor, not taken before.
<1>6. ASSUME HandlerStep PROVE QueueInv'
  <2>1. UNCHANGED <<receivedThrough, ackThrough, draining, delivering, wire>> /\ handling.busy
    BY <1>6 DEF HandlerStep, HandlerNext, TakeEntry, StopAtFullQueue, cursors, runner, ingestHistory
  <2>2. handling'.busy
    BY <1>6 DEF HandlerStep, HandlerNext, TakeEntry, StopAtFullQueue, TypeOK
  <2>3. AnswerIsBehind'
    BY <2>1 DEF AnswerIsBehind, wire
  <2>4. CASE UNCHANGED <<pending, queue>> /\ processed \subseteq processed'
    BY <2>1, <2>2, <2>3, <2>4 DEF PendingIsAhead, QueuedOnce, RunnerHasTheQueue, Queued
  <2>5. ASSUME NEW e \in handling.rest, TakeEntry(e), e.kind \notin InvalidKinds
        PROVE  QueueInv'
    <3>1. /\ e.seq \in Nat /\ e.seq > receivedThrough /\ e.seq \notin processed
          /\ processed' = processed \cup {e.seq}
          /\ pending' = pending \cup {e.seq}
          /\ queue' = Append(queue, e.seq)
      BY <1>2, <2>5 DEF TakeEntry, LogInv, RestIsAhead
    <3>2. e.seq \notin pending
      BY <1>2, <3>1 DEF PendingIsAhead
    <3>3. Queued' = Queued \cup {e.seq}
      BY <1>2, <3>1, QueueGrows DEF Queued
    <3>4. e.seq \notin Queued /\ e.seq # delivering
      BY <1>2, <1>3, <3>1, <3>2 DEF NoSeq
    <3>5. \A i, j \in 1..Len(queue') : queue'[i] = queue'[j] => i = j
      BY <1>2, <3>1, <3>4, QueueGrows DEF QueuedOnce, Queued
    <3>6. QueuedOnce'
      BY <2>1, <3>3, <3>4, <3>5 DEF QueuedOnce
    <3>7. RunnerHasTheQueue'
      <4>1. pending' = Queued' \cup ({delivering'} \ {NoSeq})
        BY <1>3, <2>1, <3>1, <3>3
      <4> QED BY <2>2, <4>1 DEF RunnerHasTheQueue, Queued
    <3>8. PendingIsAhead'
      BY <1>2, <2>1, <3>1 DEF PendingIsAhead
    <3> QED BY <2>3, <3>6, <3>7, <3>8
  <2> QED BY <1>6, <2>4, <2>5 DEF HandlerStep, HandlerNext, TakeEntry, StopAtFullQueue, cursors, runner
\* The batch ends: the ack cursor stops below the lowest pending entry.
<1>7. ASSUME AnswerPush PROVE QueueInv'
  <2>1. /\ handling.busy /\ handling' = Idle /\ processed' = {}
        /\ receivedThrough' = ReceivedAfterBatch /\ ackThrough' = AckAfterBatch
        /\ draining' = (draining \/ queue # <<>>)
        /\ UNCHANGED <<pending, queue, delivering, late>>
        /\ \/ push' = "answered" /\ answer' = Answer
           \/ UNCHANGED <<push, answer>>
    BY <1>7 DEF AnswerPush, FinishBatch
  <2>2. /\ receivedThrough' \in Nat /\ receivedThrough <= receivedThrough'
        /\ \A s \in processed : s <= receivedThrough'
    <3>1. receivedThrough \in Int /\ processed \in SUBSET Int
      BY <1>2
    <3>2. /\ ReceivedAfterBatch \in {receivedThrough} \cup processed
          /\ receivedThrough <= ReceivedAfterBatch
          /\ \A s \in processed : s <= ReceivedAfterBatch
      BY <1>2, <3>1, MaxWith DEF ReceivedAfterBatch
    <3> QED BY <1>2, <2>1, <3>2
  <2>3. /\ ackThrough' \in Nat /\ ackThrough' >= ackThrough
        /\ \/ ackThrough' = ackThrough
           \/ ackThrough' <= receivedThrough' /\ \A s \in pending : ackThrough' < s
    BY <1>2, <2>1, <2>2, RecomputeAckBounds DEF AckAfterBatch
  <2>4. PendingIsAhead'
    <3>1. ackThrough' <= receivedThrough'
      BY <1>2, <2>2, <2>3 DEF PendingIsAhead
    <3>2. ASSUME NEW s \in pending PROVE s > ackThrough' /\ s <= receivedThrough'
      <4>1. s \in Nat /\ s > ackThrough /\ (s <= receivedThrough \/ s \in processed)
        BY <1>2 DEF PendingIsAhead
      <4> QED BY <1>2, <2>2, <2>3, <4>1
    <3> QED BY <2>1, <3>1, <3>2 DEF PendingIsAhead
  <2>5. AnswerIsBehind'
    BY <1>2, <2>1, <2>3 DEF AnswerIsBehind, Answer
  <2>6. QueuedOnce'
    BY <2>1 DEF QueuedOnce, Queued
  <2>7. RunnerHasTheQueue'
    BY <2>1 DEF RunnerHasTheQueue
  <2> QED BY <2>4, <2>5, <2>6, <2>7
\* The runner.
<1>8. ASSUME RunnerStep PROVE QueueInv'
  <2>1. /\ UNCHANGED <<receivedThrough, processed, handling, push, answer, late>>
        /\ ~handling.busy
    BY <1>8 DEF RunnerStep, RunnerNext, TakeHead, Conclude, RunnerExits, cursors, wire
  <2>2. CASE TakeHead
    <3>1. /\ draining /\ delivering = NoSeq /\ queue # <<>>
          /\ delivering' = Head(queue) /\ queue' = Tail(queue)
          /\ UNCHANGED <<ackThrough, pending, draining>>
      BY <2>2 DEF TakeHead, cursors
    <3>2. /\ Queued = {delivering'} \cup Queued' /\ delivering' \in Nat
          /\ delivering' \notin Queued'
          /\ \A i, j \in 1..Len(queue') : queue'[i] = queue'[j] => i = j
      <4> HIDE DEF QueueInv
      <4>1. \A i, j \in 1..Len(queue) : queue[i] = queue[j] => i = j
        BY DEF QueueInv, QueuedOnce
      <4>2. /\ Head(queue) \in Nat
            /\ Queued = {Head(queue)} \cup {Tail(queue)[i] : i \in 1..Len(Tail(queue))}
            /\ Head(queue) \notin {Tail(queue)[i] : i \in 1..Len(Tail(queue))}
            /\ \A i, j \in 1..Len(Tail(queue)) : Tail(queue)[i] = Tail(queue)[j] => i = j
        BY <1>2, <3>1, <4>1, QueueShrinks DEF Queued
      <4>3. Queued' = {Tail(queue)[i] : i \in 1..Len(Tail(queue))}
        BY <3>1 DEF Queued
      <4> QED BY <3>1, <4>2, <4>3
    <3>3. delivering' # NoSeq
      BY <1>3, <3>2
    <3>4. pending' = Queued' \cup ({delivering'} \ {NoSeq})
      BY <1>3, <3>1, <3>2, <3>3
    <3>5. RunnerHasTheQueue'
      BY <3>1, <3>4 DEF RunnerHasTheQueue, Queued
    <3>6. QueuedOnce'
      BY <3>1, <3>2 DEF QueuedOnce
    <3> QED BY <2>1, <3>1, <3>5, <3>6 DEF PendingIsAhead, AnswerIsBehind
  <2>3. CASE Conclude
    <3>1. /\ delivering # NoSeq /\ delivering' = NoSeq
          /\ pending' = pending \ {delivering}
          /\ ackThrough' = RecomputeAck(receivedThrough, pending', ackThrough)
          /\ UNCHANGED <<queue, draining>>
      BY <2>3 DEF Conclude
    <3>2. pending' \in SUBSET Nat /\ IsFiniteSet(pending')
      BY <1>2, <3>1, FS_Subset
    <3>3. /\ ackThrough' \in Nat /\ ackThrough' >= ackThrough
          /\ \/ ackThrough' = ackThrough
             \/ ackThrough' <= receivedThrough /\ \A s \in pending' : ackThrough' < s
      BY <1>2, <3>1, <3>2, RecomputeAckBounds
    <3>4. PendingIsAhead'
      BY <1>2, <2>1, <3>1, <3>3 DEF PendingIsAhead
    <3>5. AnswerIsBehind'
      BY <1>2, <2>1, <3>1, <3>3 DEF AnswerIsBehind
    <3>6. Queued' = Queued
      BY <3>1 DEF Queued
    <3>7. RunnerHasTheQueue'
      <4>1. pending' = Queued' \cup ({delivering'} \ {NoSeq})
        BY <1>3, <3>1, <3>6 DEF QueuedOnce
      <4> QED BY <2>1, <3>1, <4>1 DEF RunnerHasTheQueue, Queued
    <3>8. QueuedOnce'
      <4>1. NoSeq \notin Queued
        BY <1>3
      <4> QED BY <3>1, <3>6, <4>1 DEF QueuedOnce
    <3> QED BY <3>4, <3>5, <3>7, <3>8
  <2>4. CASE RunnerExits
    BY <2>1, <2>4 DEF RunnerExits, PendingIsAhead, AnswerIsBehind, QueuedOnce,
       RunnerHasTheQueue, Queued, cursors
  <2> QED BY <1>8, <2>2, <2>3, <2>4 DEF RunnerStep, RunnerNext
\* The app peer dies.  It has no batch left to take before the answer is read.
<1>9. ASSUME CrashIngest PROVE QueueInv'
  <2>1. /\ receivedThrough' = 0 /\ ackThrough' = 0 /\ pending' = {} /\ queue' = <<>>
        /\ delivering' = NoSeq /\ handling' = Idle /\ late' = {}
    BY <1>9 DEF CrashIngest, IngestRestart
  <2>2. Queued' = {}
    BY <2>1 DEF Queued
  <2> QED BY <2>1, <2>2 DEF PendingIsAhead, AnswerIsBehind, QueuedOnce, RunnerHasTheQueue,
             Queued, Idle
<1> QED BY <1>4, <1>5, <1>6, <1>7, <1>8, <1>9 DEF Next

LEMMA QueueInit == Init => QueueInv
<1> SUFFICES ASSUME Init PROVE QueueInv
  OBVIOUS
<1>1. Queued = {}
  BY DEF Init, IngestInit, Queued
<1> QED BY <1>1 DEF Init, IngestInit, QueueInv, PendingIsAhead, AnswerIsBehind, QueuedOnce,
           RunnerHasTheQueue, Queued

(***************************************************************************)
(* recomputeAckLocked, startDeliveryLocked and drainQueue: whatever fails  *)
(* or restarts, no ack covers an entry whose delivery is under way, and    *)
(* what waits for delivery has a runner that will come to it (REL-092).    *)
(***************************************************************************)
THEOREM AckStaysBelowDelivery == Spec => [](NothingInFlightBelowAck /\ RunnerHasTheQueue)
<1>1. Init => TypeOK /\ WellFormed /\ LogInv /\ QueueInv
  BY ShapeInit, QueueInit DEF Init, IngestInit, Idle, LogInv, LogOrdered, LogIsBehind, RestIsAhead
<1>2. TypeOK /\ WellFormed /\ LogInv /\ QueueInv /\ [Next]_vars
         => (TypeOK /\ WellFormed /\ LogInv /\ QueueInv)'
  BY ShapeStep, LogStep, QueueStep
<1>3. TypeOK /\ QueueInv => NothingInFlightBelowAck /\ RunnerHasTheQueue
  <2> SUFFICES ASSUME TypeOK, QueueInv, NEW s \in pending, push = "answered"
               PROVE  s > answer.through
    BY DEF QueueInv, PendingIsAhead, NothingInFlightBelowAck
  <2>1. s \in Nat /\ ackThrough \in Nat /\ answer.through \in Nat
    BY DEF TypeOK, IngestTypeOK, Ack
  <2> QED BY <2>1 DEF QueueInv, PendingIsAhead, AnswerIsBehind
<1> QED BY <1>1, <1>2, <1>3, PTL DEF Spec
=============================================================================
