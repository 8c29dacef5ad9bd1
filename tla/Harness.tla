------------------------------- MODULE Harness -------------------------------
(***************************************************************************)
(* The SQLite Harness of src/harness/executor.py as far as its bookkeeping *)
(* goes: the view registry, the handle counter, the cached row counts and  *)
(* the TEMP tables that cache small join inputs, together with the         *)
(* snapshot-and-restore boundary that RL and evaluation put around a call. *)
(*                                                                         *)
(* A harness is a record; every operator maps a harness to a harness.      *)
(* A derived handle is the number `_n` it was issued under (the kind in    *)
(* its name is left out), 0 stands for any source table, whose view is     *)
(* never rewritten.  Of a view's SQL text only the cache tables it reads   *)
(* matter here: a text that reads a dropped cache can never run again.     *)
(***************************************************************************)
EXTENDS Naturals

CONSTANT MaxHandles   \* the handles an episode can issue (one per step)

ASSUME MaxHandlesAssumption == MaxHandles \in Nat \ {0}

Handle    == 1 .. MaxHandles
SourceRef == 0
Ref       == 0 .. MaxHandles

(***************************************************************************)
(*   views         derived handles registered in Harness.views             *)
(*   reads         the cache tables the SQL text of a view reads           *)
(*   rowCounts     handles with an entry in _row_counts                    *)
(*   small         those whose count is within _JOIN_CACHE_MAX_ROWS        *)
(*   materialized  _materialized_handles                                   *)
(*   temp          handles whose cache table exists in temp.sqlite_master  *)
(*   seq           _n                                                      *)
(***************************************************************************)
HarnessType ==
  [ views : SUBSET Handle, reads : [Handle -> SUBSET Handle],
    rowCounts : SUBSET Handle, small : SUBSET Handle,
    materialized : SUBSET Handle, temp : SUBSET Handle,
    seq : 0 .. MaxHandles ]

EmptyHarness ==
  [ views |-> {}, reads |-> [h \in Handle |-> {}], rowCounts |-> {},
    small |-> {}, materialized |-> {}, temp |-> {}, seq |-> 0 ]

\* The references _sql resolves: a source table or a registered handle.
Resolvable(hs) == {SourceRef} \cup hs.views

\* The references whose rows can be read: a text whose COUNT(*) raised raises
\* again.
Readable(hs) == {SourceRef} \cup hs.rowCounts

\* The cache tables a new text over the inputs T reads, since _src inlines
\* the text of every input.
ReadsOf(hs, T) == UNION { hs.reads[t] : t \in T \cap Handle }

\* The inputs _materialize_small_join_input does not return early for.
Materializable(hs, T) ==
  ((T \cap hs.views) \cap hs.small) \ hs.materialized

\* The cache tables of the handles in M are created and their views made to
\* read them.
MaterializeUnmarked(hs, M) ==
  [hs EXCEPT !.temp = @ \cup M,
             !.reads = [h \in Handle |-> IF h \in M THEN {h} ELSE @[h]]]

Materialize(hs, M) ==
  [hs EXCEPT !.temp = @ \cup M,
             !.reads = [h \in Handle |-> IF h \in M THEN {h} ELSE @[h]],
             !.materialized = @ \cup M]

\* The first half of _new: the number is taken and the view registered,
\* before the text has been run once.
Register(hs, T) ==
  LET n == hs.seq + 1 IN
  [hs EXCEPT !.seq = n,
             !.views = @ \cup {n},
             !.reads = [@ EXCEPT ![n] = ReadsOf(hs, T)]]

\* The second half of _new: COUNT(*) has run and is remembered for the handle
\* issued last; isSmall says on which side of the limit it lies.
CountRows(hs, isSmall) ==
  [hs EXCEPT !.rowCounts = @ \cup {hs.seq},
             !.small = IF isSmall THEN @ \cup {hs.seq} ELSE @ \ {hs.seq}]

\* What bounded_harness_execution does when the call was interrupted: the
\* Python bookkeeping comes from the snapshot, and the cache tables that were
\* not there before are dropped.
RestoreWithoutCaches(before, hs) ==
  [hs EXCEPT !.views = before.views, !.reads = before.reads, !.seq = before.seq]

RestoreByRescan(before, hs) == [before EXCEPT !.views = {}, !.rowCounts = {}]

RestoreInterrupted(before, hs) ==
  [hs EXCEPT !.views = before.views,
             !.reads = before.reads,
             !.seq = before.seq,
             !.rowCounts = before.rowCounts,
             !.small = before.small,
             !.materialized = before.materialized,
             !.temp = @ \ (@ \ before.temp)]

(***************************************************************************)
(* How far a call that issues a handle got before an exception left it.    *)
(***************************************************************************)
Stage == {"checked", "materialized", "registered", "counted"}

PartialCall(hs, T, M, stage, isSmall) ==
  LET joined == Materialize(hs, M)
      issued == Register(joined, T)
  IN CASE stage = "checked"      -> hs
       [] stage = "materialized" -> joined
       [] stage = "registered"   -> issued
       [] stage = "counted"      -> CountRows(issued, isSmall)

(***************************************************************************)
(* The bookkeeping is coherent: handles come from the counter, a cache     *)
(* table exists exactly for the handles marked as materialized, whose view *)
(* reads that table and nothing else, and no view reads a dropped table.   *)
(***************************************************************************)
Coherent(hs) ==
  /\ hs.views \subseteq 1 .. hs.seq
  /\ hs.rowCounts \subseteq hs.views
  /\ hs.small \subseteq hs.rowCounts
  /\ hs.materialized = hs.temp
  /\ hs.materialized \subseteq hs.small
  /\ \A m \in hs.materialized : hs.reads[m] = {m}
  /\ \A v \in hs.views : hs.reads[v] \subseteq hs.temp
=============================================================================
