---------------------------- MODULE Harness_proofs ----------------------------
(***************************************************************************)
(* Lemmas about the Harness operators: what a call may leave behind is a   *)
(* coherent harness wherever it stopped, and the boundary puts an          *)
(* interrupted one back exactly.                                           *)
(***************************************************************************)
EXTENDS Harness, TLAPS

\* Caching inputs keeps the bookkeeping typed.
LEMMA MaterializeTyped ==
  ASSUME NEW hs \in HarnessType, NEW M \in SUBSET Handle
  PROVE  /\ Materialize(hs, M) \in HarnessType
         /\ Materialize(hs, M).views = hs.views
         /\ Materialize(hs, M).rowCounts = hs.rowCounts
         /\ Materialize(hs, M).small = hs.small
         /\ Materialize(hs, M).seq = hs.seq
         /\ Materialize(hs, M).temp = hs.temp \cup M
         /\ Materialize(hs, M).materialized = hs.materialized \cup M
         /\ \A h \in Handle : Materialize(hs, M).reads[h] = IF h \in M THEN {h} ELSE hs.reads[h]
BY DEF HarnessType, Materialize

\* Caching keeps the bookkeeping coherent, since _materialize_small_join_input
\* returns early unless the handle is registered, counted, small and uncached.
LEMMA MaterializeCoherent ==
  ASSUME NEW hs \in HarnessType, Coherent(hs),
         NEW T, NEW M \in SUBSET Materializable(hs, T)
  PROVE  Coherent(Materialize(hs, M))
<1> DEFINE hm == Materialize(hs, M)
<1>1. M \subseteq hs.small /\ M \subseteq hs.views /\ M \subseteq Handle
  BY DEF Materializable, HarnessType
<1>2. /\ hm.views = hs.views /\ hm.rowCounts = hs.rowCounts /\ hm.small = hs.small
      /\ hm.seq = hs.seq /\ hm.temp = hs.temp \cup M
      /\ hm.materialized = hs.materialized \cup M
      /\ \A h \in Handle : hm.reads[h] = IF h \in M THEN {h} ELSE hs.reads[h]
  BY <1>1, MaterializeTyped
<1>3. hs.views \subseteq Handle /\ hs.materialized \subseteq Handle
  BY DEF HarnessType
<1> HIDE DEF hm
<1>4. \A m \in hm.materialized : hm.reads[m] = {m}
  BY <1>1, <1>2, <1>3 DEF Coherent
<1>5. \A v \in hm.views : hm.reads[v] \subseteq hm.temp
  <2> SUFFICES ASSUME NEW v \in hs.views
               PROVE  hm.reads[v] \subseteq hs.temp \cup M
    BY <1>2
  <2>1. CASE v \in M
    BY <1>2, <1>3, <2>1
  <2>2. CASE v \notin M
    BY <1>2, <1>3, <2>2 DEF Coherent
  <2> QED BY <2>1, <2>2
<1>6. Coherent(hm)
  BY <1>1, <1>2, <1>4, <1>5 DEF Coherent
<1> QED BY <1>6 DEF hm

\* _new takes the next number, registers the view and leaves the caches alone.
LEMMA RegisterTyped ==
  ASSUME NEW hs \in HarnessType, hs.seq < MaxHandles, NEW T
  PROVE  /\ Register(hs, T) \in HarnessType
         /\ Register(hs, T).views = hs.views \cup {hs.seq + 1}
         /\ Register(hs, T).rowCounts = hs.rowCounts
         /\ Register(hs, T).small = hs.small
         /\ Register(hs, T).seq = hs.seq + 1
         /\ Register(hs, T).temp = hs.temp
         /\ Register(hs, T).materialized = hs.materialized
         /\ \A h \in Handle : Register(hs, T).reads[h] =
              IF h = hs.seq + 1 THEN ReadsOf(hs, T) ELSE hs.reads[h]
<1>1. hs.seq + 1 \in Handle /\ hs.seq \in Nat
  BY MaxHandlesAssumption DEF HarnessType, Handle
<1>2. ReadsOf(hs, T) \in SUBSET Handle
  BY DEF ReadsOf, HarnessType
<1>3. hs.seq + 1 \in 0 .. MaxHandles
  BY <1>1, MaxHandlesAssumption DEF Handle
<1> QED BY <1>1, <1>2, <1>3 DEF HarnessType, Register

\* The new view reads only caches that exist, since each of its inputs does.
LEMMA RegisterCoherent ==
  ASSUME NEW hs \in HarnessType, Coherent(hs), hs.seq < MaxHandles,
         NEW T \in SUBSET Resolvable(hs)
  PROVE  Coherent(Register(hs, T))
<1> DEFINE hr == Register(hs, T)
           n  == hs.seq + 1
<1>1. /\ hr.views = hs.views \cup {n} /\ hr.rowCounts = hs.rowCounts /\ hr.small = hs.small
      /\ hr.seq = n /\ hr.temp = hs.temp /\ hr.materialized = hs.materialized
      /\ \A h \in Handle : hr.reads[h] = IF h = n THEN ReadsOf(hs, T) ELSE hs.reads[h]
  BY RegisterTyped
<1>2. /\ hs.seq \in Nat /\ n \in Handle /\ n \notin hs.views
      /\ hs.views \subseteq Handle /\ hs.materialized \subseteq hs.views
      /\ hs.views \subseteq 1 .. n /\ n \in 1 .. n
  BY MaxHandlesAssumption DEF HarnessType, Handle, Coherent
<1>3. ReadsOf(hs, T) \subseteq hs.temp
  <2> SUFFICES ASSUME NEW t \in T \cap Handle
               PROVE  hs.reads[t] \subseteq hs.temp
    BY DEF ReadsOf
  <2>1. t \in hs.views
    BY DEF Resolvable, SourceRef, Handle
  <2> QED BY <2>1 DEF Coherent
<1> HIDE DEF hr, n
<1>4. \A m \in hr.materialized : hr.reads[m] = {m}
  BY <1>1, <1>2 DEF Coherent
<1>5. \A v \in hr.views : hr.reads[v] \subseteq hr.temp
  BY <1>1, <1>2, <1>3 DEF Coherent
<1>6. Coherent(hr)
  BY <1>1, <1>2, <1>4, <1>5 DEF Coherent
<1> QED BY <1>6 DEF hr

\* The count is remembered for the handle issued last.
LEMMA CountRowsTyped ==
  ASSUME NEW hs \in HarnessType, hs.seq \in Handle, NEW isSmall \in BOOLEAN
  PROVE  /\ CountRows(hs, isSmall) \in HarnessType
         /\ CountRows(hs, isSmall).views = hs.views
         /\ CountRows(hs, isSmall).reads = hs.reads
         /\ CountRows(hs, isSmall).rowCounts = hs.rowCounts \cup {hs.seq}
         /\ CountRows(hs, isSmall).small = IF isSmall THEN hs.small \cup {hs.seq}
                                                      ELSE hs.small \ {hs.seq}
         /\ CountRows(hs, isSmall).seq = hs.seq
         /\ CountRows(hs, isSmall).temp = hs.temp
         /\ CountRows(hs, isSmall).materialized = hs.materialized
<1>1. CASE isSmall
  BY <1>1 DEF HarnessType, CountRows
<1>2. CASE ~isSmall
  BY <1>2 DEF HarnessType, CountRows
<1> QED BY <1>1, <1>2

\* Counting a registered handle that is not cached keeps coherence.
LEMMA CountRowsCoherent ==
  ASSUME NEW hs \in HarnessType, Coherent(hs), hs.seq \in hs.views,
         hs.seq \notin hs.materialized, NEW isSmall \in BOOLEAN
  PROVE  Coherent(CountRows(hs, isSmall))
<1> DEFINE hc == CountRows(hs, isSmall)
<1>1. hs.seq \in Handle
  BY DEF HarnessType
<1>2. /\ hc.views = hs.views /\ hc.reads = hs.reads
      /\ hc.rowCounts = hs.rowCounts \cup {hs.seq}
      /\ hc.small = IF isSmall THEN hs.small \cup {hs.seq} ELSE hs.small \ {hs.seq}
      /\ hc.seq = hs.seq /\ hc.temp = hs.temp /\ hc.materialized = hs.materialized
  BY <1>1, CountRowsTyped
<1> HIDE DEF hc
<1>3. Coherent(hc)
  BY <1>2 DEF Coherent
<1> QED BY <1>3 DEF hc

\* What a call that issues a handle leaves behind at a stage: nothing is
\* forgotten, caches are only added, and at most one handle is issued.
LEMMA PartialCallTyped ==
  ASSUME NEW hs \in HarnessType, hs.seq < MaxHandles, NEW T,
         NEW M \in SUBSET Handle, NEW stage \in Stage, NEW isSmall \in BOOLEAN
  PROVE  /\ PartialCall(hs, T, M, stage, isSmall) \in HarnessType
         /\ hs.views \subseteq PartialCall(hs, T, M, stage, isSmall).views
         /\ hs.rowCounts \subseteq PartialCall(hs, T, M, stage, isSmall).rowCounts
         /\ hs.temp \subseteq PartialCall(hs, T, M, stage, isSmall).temp
         /\ PartialCall(hs, T, M, stage, isSmall).seq \in {hs.seq, hs.seq + 1}
         /\ stage = "counted" =>
              /\ PartialCall(hs, T, M, stage, isSmall).seq = hs.seq + 1
              /\ hs.seq + 1 \in PartialCall(hs, T, M, stage, isSmall).rowCounts
<1> DEFINE joined == Materialize(hs, M)
           issued == Register(joined, T)
           counted == CountRows(issued, isSmall)
           after == PartialCall(hs, T, M, stage, isSmall)
<1>1. /\ joined \in HarnessType /\ joined.views = hs.views /\ joined.rowCounts = hs.rowCounts
      /\ joined.temp = hs.temp \cup M /\ joined.seq = hs.seq
  BY MaterializeTyped
<1>2. /\ issued \in HarnessType /\ issued.views = hs.views \cup {hs.seq + 1}
      /\ issued.rowCounts = hs.rowCounts /\ issued.temp = hs.temp \cup M
      /\ issued.seq = hs.seq + 1
  <2> HIDE DEF joined
  <2> QED BY <1>1, RegisterTyped
<1>3. /\ counted \in HarnessType /\ counted.views = hs.views \cup {hs.seq + 1}
      /\ counted.rowCounts = hs.rowCounts \cup {hs.seq + 1} /\ counted.temp = hs.temp \cup M
      /\ counted.seq = hs.seq + 1
  <2>1. hs.seq + 1 \in Handle
    BY MaxHandlesAssumption DEF HarnessType, Handle
  <2> HIDE DEF issued
  <2> QED BY <1>2, <2>1, CountRowsTyped
<1>4. after = CASE stage = "checked"      -> hs
                [] stage = "materialized" -> joined
                [] stage = "registered"   -> issued
                [] stage = "counted"      -> counted
  BY DEF PartialCall
<1> HIDE DEF joined, issued, counted
<1>5. CASE stage = "checked"
  <2>1. after = hs
    BY <1>4, <1>5
  <2> HIDE DEF after
  <2>2. after \in HarnessType
    BY <2>1
  <2> QED BY <1>5, <2>1, <2>2 DEF after
<1>6. CASE stage = "materialized"
  <2>1. after = joined
    BY <1>4, <1>6
  <2> QED BY <1>1, <1>6, <2>1
<1>7. CASE stage = "registered"
  <2>1. after = issued
    BY <1>4, <1>7
  <2> QED BY <1>2, <1>7, <2>1
<1>8. CASE stage = "counted"
  <2>1. after = counted
    BY <1>4, <1>8
  <2> QED BY <1>3, <2>1
<1> QED BY <1>5, <1>6, <1>7, <1>8 DEF Stage

\* Wherever a call stopped, the bookkeeping it leaves is coherent.
LEMMA PartialCallCoherent ==
  ASSUME NEW hs \in HarnessType, Coherent(hs), hs.seq < MaxHandles,
         NEW T \in SUBSET Resolvable(hs), NEW M \in SUBSET Materializable(hs, T),
         NEW stage \in Stage, NEW isSmall \in BOOLEAN
  PROVE  Coherent(PartialCall(hs, T, M, stage, isSmall))
<1> DEFINE joined == Materialize(hs, M)
           issued == Register(joined, T)
           counted == CountRows(issued, isSmall)
           after == PartialCall(hs, T, M, stage, isSmall)
<1>1. M \in SUBSET Handle
  BY DEF Materializable, HarnessType
<1>2. /\ joined \in HarnessType /\ Coherent(joined)
      /\ joined.seq = hs.seq /\ T \in SUBSET Resolvable(joined)
  BY <1>1, MaterializeTyped, MaterializeCoherent DEF Resolvable
<1>3. /\ issued \in HarnessType /\ Coherent(issued)
      /\ issued.seq \in issued.views /\ issued.seq \notin issued.materialized
  <2> HIDE DEF joined
  <2>1. /\ issued \in HarnessType /\ Coherent(issued) /\ issued.seq = joined.seq + 1
        /\ issued.views = joined.views \cup {joined.seq + 1}
        /\ issued.materialized = joined.materialized
    BY <1>2, RegisterTyped, RegisterCoherent
  <2>2. joined.seq + 1 \notin joined.materialized
    BY <1>2 DEF Coherent, HarnessType
  <2> QED BY <2>1, <2>2
<1>4. Coherent(counted)
  <2> HIDE DEF issued
  <2> QED BY <1>3, CountRowsCoherent
<1>5. after = CASE stage = "checked"      -> hs
                [] stage = "materialized" -> joined
                [] stage = "registered"   -> issued
                [] stage = "counted"      -> counted
  BY DEF PartialCall
<1> HIDE DEF joined, issued, counted
<1>6. after \in {hs, joined, issued, counted}
  BY <1>5 DEF Stage
<1> QED BY <1>2, <1>3, <1>4, <1>6

\* bounded_harness_execution: whatever stage the deadline caught the call at,
\* the restored harness is the one the call started from.
LEMMA RestoreUndoes ==
  ASSUME NEW hs \in HarnessType, hs.seq < MaxHandles, NEW T,
         NEW M \in SUBSET Handle, NEW stage \in Stage, NEW isSmall \in BOOLEAN
  PROVE  RestoreInterrupted(hs, PartialCall(hs, T, M, stage, isSmall)) = hs
<1> DEFINE after == PartialCall(hs, T, M, stage, isSmall)
<1>1. after \in HarnessType /\ hs.temp \subseteq after.temp
  BY PartialCallTyped
<1>2. after.temp \ (after.temp \ hs.temp) = hs.temp
  BY <1>1
<1> HIDE DEF after
<1>3. RestoreInterrupted(hs, after) = hs
  BY <1>1, <1>2 DEF RestoreInterrupted, HarnessType
<1> QED BY <1>3 DEF after
===============================================================================
