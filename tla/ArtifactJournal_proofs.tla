------------------------ MODULE ArtifactJournal_proofs ------------------------
(***************************************************************************)
(* Proofs about the result directory of ArtifactJournal, for any examples, *)
(* fsync period and number of crashes and runner errors: what is done is   *)
(* what all.jsonl says, no crash or resume makes it say less, and the      *)
(* projections follow it.  The journal always is a sequence of records,    *)
(* possibly with one torn line after it or with its last newline missing;  *)
(* so is each split file, and its records are the first ones that the      *)
(* journal has of its verdict.                                             *)
(***************************************************************************)
EXTENDS ArtifactJournal, WellFoundedInduction, TLAPS

OnceEach(records) ==
  \A i, k \in DOMAIN records : i # k => records[i].example # records[k].example

Whole(records)      == [lines |-> records, sealed |-> TRUE]
Unsealed(records)   == [lines |-> records, sealed |-> FALSE]
TornAfter(records)  == [lines |-> Append(records, Garbled), sealed |-> FALSE]

\* The file holds these records.
Holds(f, records) ==
  \/ f = Whole(records)
  \/ f = Unsealed(records) /\ records # <<>>
  \/ f = TornAfter(records)

JournalHolds == \E records \in Seq(Record) : OnceEach(records) /\ Holds(journal, records)

Opened == {"reconciling", "rebuilding success", "rebuilding failure", "rebuilding cases",
           "checking", "running", "projecting", "publishing"}
Closed == {"down", "claiming", "claiming to resume"}

JournalInv ==
  /\ JournalHolds
  /\ completed \subseteq Examples /\ failed \subseteq Examples
  /\ phase \in Opened => journal.sealed /\ completed = Decided
  /\ phase \in Closed => completed = {}
  /\ manifest # "written" => journal = Empty /\ phase \in Closed
  /\ phase \in {"claiming", "claiming to resume"} => manifest = "none"

\* What the operator reads when a process has ended: of the examples without a
\* verdict those are deferred that it said so of, and exit code 0 leaves no others.
Reported ==
  /\ allowMissing \in BOOLEAN /\ outages \in 0 .. MaxOutages
  /\ deferred \subseteq Examples \ Decided
  /\ deferred # {} => allowMissing
  /\ phase # "down" => exit = "none"
  /\ exit = "clean" => Examples \ Decided = deferred

-----------------------------------------------------------------------------
(***************************************************************************)
(* The file.                                                               *)
(***************************************************************************)
\* However it ends, the reader gets the records and the repair keeps them.
LEMMA HoldsParsed ==
  ASSUME NEW f, NEW records \in Seq(Record), Holds(f, records)
  PROVE  Parsed(f) = records /\ ~ Malformed(f)
<1> USE ArtifactAssumption
<1>1. CASE f = Whole(records)
  BY <1>1 DEF Whole, Parsed, TornTail, Malformed
<1>2. CASE f = Unsealed(records) /\ records # <<>>
  <2>1. Last(records) # Garbled
    BY <1>2 DEF Last
  <2>2. \A i \in DOMAIN records : records[i] # Garbled
    OBVIOUS
  <2> QED BY <1>2, <2>1, <2>2 DEF Unsealed, Parsed, TornTail, Malformed
<1>3. CASE f = TornAfter(records)
  <2>1. Last(f.lines) = Garbled /\ Front(f.lines) = records
    BY <1>3 DEF TornAfter, Last, Front
  <2>2. Len(f.lines) = Len(records) + 1 /\ DOMAIN f.lines = 1 .. Len(f.lines)
    BY <1>3 DEF TornAfter
  <2>3. \A i \in 1 .. Len(records) : f.lines[i] # Garbled
    BY <1>3 DEF TornAfter
  <2> QED BY <1>3, <2>1, <2>2, <2>3 DEF TornAfter, Parsed, TornTail, Malformed
<1> QED BY <1>1, <1>2, <1>3 DEF Holds

\* What a crash inside an append leaves: the line is there, whole, unsealed or
\* torn, or it is not.
LEMMA CutAppend ==
  ASSUME NEW records \in Seq(Record), NEW r \in Record,
         NEW f \in Cut(Added(Whole(records), r), Len(records))
  PROVE  Holds(f, records) \/ Holds(f, Append(records, r))
<1> DEFINE more == Append(records, r)
<1>1. Added(Whole(records), r) = Whole(more)
  BY DEF Added, Whole
<1>2. Len(more) = Len(records) + 1 /\ more # <<>> /\ more \in Seq(Record) /\ Len(records) \in Nat
  OBVIOUS
<1>3. SubSeq(more, 1, Len(records)) = records /\ SubSeq(more, 1, Len(records) + 1) = more
  OBVIOUS
<1>4. CASE f = Whole(more)
  BY <1>2, <1>4 DEF Holds
<1>5. CASE \E k \in Len(records) .. (Len(more) - 1) :
             f = [lines |-> SubSeq(more, 1, k), sealed |-> TRUE]
  <2>1. PICK k \in Len(records) .. (Len(more) - 1) :
               f = [lines |-> SubSeq(more, 1, k), sealed |-> TRUE]
    BY <1>5
  <2>2. k = Len(records)
    BY <1>2
  <2> HIDE DEF more
  <2> QED BY <2>1, <2>2, <1>3 DEF Holds, Whole
<1>6. CASE \E k \in Len(records) .. (Len(more) - 1) :
             f = [lines |-> Append(SubSeq(more, 1, k), Garbled), sealed |-> FALSE]
  <2>1. PICK k \in Len(records) .. (Len(more) - 1) :
               f = [lines |-> Append(SubSeq(more, 1, k), Garbled), sealed |-> FALSE]
    BY <1>6
  <2>2. k = Len(records)
    BY <1>2
  <2> HIDE DEF more
  <2> QED BY <2>1, <2>2, <1>3 DEF Holds, TornAfter
<1>7. CASE \E k \in (Len(records) + 1) .. Len(more) :
             f = [lines |-> SubSeq(more, 1, k), sealed |-> FALSE]
  <2>1. PICK k \in (Len(records) + 1) .. Len(more) :
               f = [lines |-> SubSeq(more, 1, k), sealed |-> FALSE]
    BY <1>7
  <2>2. k = Len(records) + 1
    BY <1>2
  <2> HIDE DEF more
  <2>3. f = Unsealed(more)
    BY <2>1, <2>2, <1>3 DEF Unsealed
  <2> QED BY <2>3, <1>2 DEF Holds, more
<1> QED
  <2>1. f \in Cut(Whole(more), Len(records))
    BY <1>1
  <2>2. Whole(more).lines = more
    BY DEF Whole
  <2> HIDE DEF more
  <2> QED BY <2>1, <2>2, <1>4, <1>5, <1>6, <1>7 DEF Cut

\* One more record, of an example that has none yet.
LEMMA OneMore ==
  ASSUME NEW records \in Seq(Record), OnceEach(records), NEW r \in Record,
         \A i \in DOMAIN records : records[i].example # r.example
  PROVE  /\ Append(records, r) \in Seq(Record)
         /\ OnceEach(Append(records, r))
         /\ ToSet(Append(records, r)) = ToSet(records) \cup {r}
<1> DEFINE more == Append(records, r)
<1>1. /\ more \in Seq(Record) /\ Len(records) \in Nat
      /\ DOMAIN records = 1 .. Len(records) /\ DOMAIN more = 1 .. (Len(records) + 1)
      /\ \A i \in 1 .. Len(records) : more[i] = records[i]
      /\ more[Len(records) + 1] = r
  OBVIOUS
<1> HIDE DEF more
<1>2. OnceEach(more)
  BY <1>1 DEF OnceEach
<1>3. ToSet(more) = ToSet(records) \cup {r}
  BY <1>1 DEF ToSet
<1> QED BY <1>1, <1>2, <1>3 DEF more

\* A reader of all.jsonl gets the records it holds.
LEMMA Reading ==
  ASSUME NEW records \in Seq(Record), Holds(journal, records)
  PROVE  Recorded = ToSet(records) /\ Decided = Indices(records)
<1>1. Recorded = ToSet(records)
  BY HoldsParsed DEF Recorded
<1> QED BY <1>1 DEF Decided, Indices, ToSet

\* A sealed journal is its records.
LEMMA Sealed ==
  ASSUME NEW records \in Seq(Record), Holds(journal, records), journal.sealed
  PROVE  journal = Whole(records)
BY DEF Holds, Whole, Unsealed, TornAfter

LEMMA SameJournal ==
  ASSUME journal' = journal
  PROVE  (JournalHolds' <=> JournalHolds) /\ Recorded' = Recorded /\ Decided' = Decided
BY DEF JournalHolds, Recorded, Decided

\* append, whether it returns or is cut short: the verdict is entered once or
\* not at all.
LEMMA Appending ==
  ASSUME JournalInv, phase = "running", NEW record \in Results,
         journal' \in Cut(Added(journal, record), Len(journal.lines))
  PROVE  /\ JournalHolds'
         /\ Recorded' = Recorded \/ Ledger!Enter(record)
         /\ journal' = Added(journal, record) =>
              journal'.sealed /\ Recorded' = Recorded \cup {record}
<1>1. record \in Record /\ record.example \notin completed
  BY DEF Results, Pending, Record, JournalInv
<1>2. PICK records \in Seq(Record) : OnceEach(records) /\ Holds(journal, records)
  BY DEF JournalInv, JournalHolds
<1>3. journal = Whole(records) /\ completed = Decided
  BY <1>2, Sealed DEF JournalInv, Opened
<1>4. Recorded = ToSet(records) /\ Decided = Indices(records)
  BY <1>2, Reading
<1>5. \A i \in DOMAIN records : records[i].example # record.example
  BY <1>1, <1>3, <1>4 DEF Indices
<1> DEFINE more == Append(records, record)
<1>6. more \in Seq(Record) /\ OnceEach(more) /\ ToSet(more) = Recorded \cup {record}
  BY <1>1, <1>2, <1>4, <1>5, OneMore
<1>7. Holds(journal', records) \/ Holds(journal', more)
  BY <1>1, <1>3, CutAppend DEF Whole
<1>8. Added(journal, record) = Whole(more)
  BY <1>3 DEF Added, Whole
<1> HIDE DEF more
<1>9. JournalHolds'
  BY <1>2, <1>6, <1>7 DEF JournalHolds
<1>10. Recorded' = Recorded \/ Recorded' = Recorded \cup {record}
  BY <1>4, <1>6, <1>7, HoldsParsed DEF Recorded
<1>11. \A entry \in Recorded : entry.example # record.example
  BY <1>4, <1>5 DEF ToSet
<1>12. ASSUME journal' = Added(journal, record)
       PROVE  journal'.sealed /\ Recorded' = Recorded \cup {record}
  <2>1. journal' = Whole(more) /\ Holds(journal', more)
    BY <1>8, <1>12 DEF Holds
  <2> QED BY <2>1, <1>6, HoldsParsed DEF Whole, Recorded
<1> QED BY <1>9, <1>10, <1>11, <1>12 DEF Ledger!Enter

-----------------------------------------------------------------------------
(***************************************************************************)
(* The invariant is inductive, and a step enters at most one verdict.      *)
(***************************************************************************)
LEMMA InitHolds == Init => JournalInv /\ Recorded = {}
<1> SUFFICES ASSUME Init PROVE JournalInv /\ Recorded = {}
  OBVIOUS
<1>1. <<>> \in Seq(Record) /\ OnceEach(<<>>) /\ Holds(journal, <<>>)
  BY DEF Init, Empty, OnceEach, Holds, Whole
<1>2. ToSet(<<>>) = {}
  BY DEF ToSet
<1>3. Recorded = {}
  BY <1>1, <1>2, Reading
<1> QED BY <1>1, <1>3 DEF Init, JournalInv, JournalHolds, Opened, Closed

LEMMA LaunchKeeps ==
  ASSUME JournalInv, NEW resume \in BOOLEAN, Launch(resume)
  PROVE  JournalInv' /\ Recorded' = Recorded
<1>1. journal' = journal /\ manifest' = manifest
  BY DEF Launch, disk
<1> QED BY <1>1, SameJournal DEF JournalInv, Launch, Down, disk, memory, counters, Opened, Closed

LEMMA WriteManifestKeeps ==
  ASSUME JournalInv, WriteManifest
  PROVE  JournalInv' /\ Recorded' = Recorded
<1>1. journal' = journal
  BY DEF WriteManifest
<1>2. phase \in {"claiming", "claiming to resume"} /\ manifest = "none"
  BY DEF WriteManifest, JournalInv
<1>3. journal = Empty /\ completed = {}
  BY <1>2 DEF JournalInv, Closed
<1>4. journal.sealed
  BY <1>3 DEF Empty
<1>5. Decided = {}
  BY <1>3 DEF Decided, Recorded, Parsed, TornTail, Empty, ToSet
<1>6. UNCHANGED <<completed, failed>> /\ manifest' = "written" /\ phase' \in {"checking", "loading"}
  BY DEF WriteManifest, memory
<1> QED BY <1>1, <1>3, <1>4, <1>5, <1>6, SameJournal DEF JournalInv, Opened, Closed

LEMMA LoadJournalKeeps ==
  ASSUME JournalInv, LoadJournal
  PROVE  JournalInv' /\ Recorded' = Recorded
<1>1. PICK records \in Seq(Record) : OnceEach(records) /\ Holds(journal, records)
  BY DEF JournalInv, JournalHolds
<1>2. Parsed(journal) = records /\ ~ Malformed(journal)
  BY <1>1, HoldsParsed
<1>3. ~ Unreadable(journal)
  BY <1>1, <1>2 DEF Unreadable, OnceEach
<1>4. journal' = Whole(records) /\ completed' = Indices(records) /\ phase' = "reconciling"
  BY <1>2, <1>3 DEF LoadJournal, Repaired, Whole
<1>5. Holds(journal', records)
  BY <1>4 DEF Holds
<1>6. Recorded' = ToSet(records) /\ Recorded = ToSet(records)
  BY <1>1, <1>5, HoldsParsed DEF Recorded
<1>7. Decided' = Decided /\ Decided = Indices(records)
  BY <1>1, <1>6, Reading DEF Decided
<1>8. JournalHolds'
  BY <1>1, <1>5 DEF JournalHolds
<1>9. journal'.sealed
  BY <1>4 DEF Whole
<1>10. UNCHANGED <<failed, manifest>> /\ manifest = "written"
  BY <1>3 DEF LoadJournal, JournalInv, Closed
<1>11. Indices(records) \subseteq Examples
  <2>1. \A i \in DOMAIN records : records[i] \in Record
    BY <1>1
  <2> QED BY <2>1 DEF Indices, Record
<1>12. failed \subseteq Examples
  BY DEF JournalInv
<1> QED BY <1>4, <1>6, <1>7, <1>8, <1>9, <1>10, <1>11, <1>12 DEF JournalInv, Opened, Closed

\* Reconciling and rebuilding the projections leaves the journal alone.
LEMMA ReconcileKeeps ==
  ASSUME JournalInv, Reconcile
  PROVE  JournalInv' /\ Recorded' = Recorded
BY SameJournal DEF JournalInv, Reconcile, Down, disk, memory, counters, Opened, Closed

LEMMA RebuildSplitKeeps ==
  ASSUME JournalInv, NEW verdict \in BOOLEAN, RebuildSplit(verdict)
  PROVE  JournalInv' /\ Recorded' = Recorded
<1>1. UNCHANGED <<manifest, journal, completed, failed>>
  BY DEF RebuildSplit, memory
<1>2. phase \in Opened /\ phase' \in Opened /\ phase \notin Closed /\ phase' \notin Closed
  BY DEF RebuildSplit, Opened, Closed
<1> QED BY <1>1, <1>2, SameJournal DEF JournalInv, Closed

LEMMA RebuildCaseKeeps ==
  ASSUME JournalInv, RebuildCase
  PROVE  JournalInv' /\ Recorded' = Recorded
<1>1. UNCHANGED <<manifest, journal, completed, failed>>
  BY DEF RebuildCase, memory
<1>2. phase \in Opened /\ phase' \in Opened /\ phase \notin Closed /\ phase' \notin Closed
  BY DEF RebuildCase, Opened, Closed
<1> QED BY <1>1, <1>2, SameJournal DEF JournalInv, Closed

LEMMA CheckDatabasesKeeps ==
  ASSUME JournalInv, CheckDatabases
  PROVE  JournalInv' /\ Recorded' = Recorded
<1>1. UNCHANGED <<manifest, journal>> /\ phase = "checking" /\ manifest = "written"
  BY DEF CheckDatabases, disk, JournalInv, Closed
<1>2. \/ phase' = "running" /\ UNCHANGED <<completed, failed>>
      \/ phase' = "down" /\ completed' = {} /\ failed' = {}
  BY DEF CheckDatabases, memory, Down
<1> QED BY <1>1, <1>2, SameJournal DEF JournalInv, Opened, Closed

LEMMA CommitJournalKeeps ==
  ASSUME JournalInv, NEW record \in Results, CommitJournal(record)
  PROVE  JournalInv' /\ (Recorded' = Recorded \/ Ledger!Enter(record))
<1>1. journal' = Added(journal, record) /\ journal' \in Cut(Added(journal, record), Len(journal.lines))
  BY DEF CommitJournal, Cut
<1>2. /\ JournalHolds'
      /\ Recorded' = Recorded \/ Ledger!Enter(record)
      /\ journal'.sealed /\ Recorded' = Recorded \cup {record}
  BY <1>1, Appending DEF CommitJournal
<1>3. Decided' = Decided \cup {record.example}
  BY <1>2 DEF Decided
<1>4. completed' = completed \cup {record.example} /\ completed = Decided
  BY DEF CommitJournal, JournalInv, Opened
<1>5. phase = "running" /\ phase' = "projecting" /\ UNCHANGED <<manifest, failed>>
  BY DEF CommitJournal
<1>6. record.example \in Examples
  BY DEF Results, Pending
<1> QED BY <1>2, <1>3, <1>4, <1>5, <1>6 DEF JournalInv, Opened, Closed

LEMMA ProjectSplitKeeps ==
  ASSUME JournalInv, ProjectSplit
  PROVE  JournalInv' /\ Recorded' = Recorded
<1>1. UNCHANGED <<manifest, journal, completed, failed>>
  BY DEF ProjectSplit, memory
<1>2. phase \in Opened /\ phase' \in Opened /\ phase \notin Closed /\ phase' \notin Closed
  BY DEF ProjectSplit, Opened, Closed
<1> QED BY <1>1, <1>2, SameJournal DEF JournalInv, Closed

LEMMA PublishCaseKeeps ==
  ASSUME JournalInv, PublishCase
  PROVE  JournalInv' /\ Recorded' = Recorded
<1>1. UNCHANGED <<manifest, journal, completed, failed>>
  BY DEF PublishCase
<1>2. phase \in Opened /\ phase' \in Opened /\ phase \notin Closed /\ phase' \notin Closed
  BY DEF PublishCase, Opened, Closed
<1> QED BY <1>1, <1>2, SameJournal DEF JournalInv, Closed

LEMMA RunnerErrorKeeps ==
  ASSUME JournalInv, NEW example \in Pending, RunnerError(example)
  PROVE  JournalInv' /\ Recorded' = Recorded
<1>1. UNCHANGED <<manifest, journal, completed, phase>>
  BY DEF RunnerError, disk
<1>2. failed' \subseteq Examples
  BY DEF RunnerError, Pending, JournalInv
<1> QED BY <1>1, <1>2, SameJournal DEF JournalInv

LEMMA FinishKeeps ==
  ASSUME JournalInv, Finish
  PROVE  JournalInv' /\ Recorded' = Recorded
<1>1. UNCHANGED <<manifest, journal>> /\ phase' = "down" /\ completed' = {} /\ failed' = {}
  BY DEF Finish, Down, disk
<1>2. manifest = "written"
  BY DEF Finish, JournalInv, Opened, Closed
<1> QED BY <1>1, <1>2, SameJournal DEF JournalInv, Opened, Closed

LEMMA CrashKeeps ==
  ASSUME JournalInv, NEW powerLoss \in BOOLEAN, Crash(powerLoss)
  PROVE  /\ JournalInv'
         /\ Recorded' = Recorded \/ \E record \in Results : Ledger!Enter(record)
<1>1. /\ phase' = "down" /\ completed' = {} /\ failed' = {}
      /\ journal' \in JournalRemains
      /\ phase \notin {"claiming", "claiming to resume"} => manifest' = manifest
  BY DEF Crash, Down
<1>2. CASE journal' = journal
  <2>1. manifest' # "written" => journal = Empty
    BY <1>1 DEF JournalInv
  <2> QED BY <1>1, <1>2, <2>1, SameJournal DEF JournalInv, Opened, Closed
<1>3. CASE phase = "running" /\ \E record \in Results :
             journal' \in Cut(Added(journal, record), Len(journal.lines))
  <2>1. PICK record \in Results : journal' \in Cut(Added(journal, record), Len(journal.lines))
    BY <1>3
  <2>2. JournalHolds' /\ (Recorded' = Recorded \/ Ledger!Enter(record))
    BY <1>3, <2>1, Appending
  <2>3. manifest' = "written"
    BY <1>1, <1>3 DEF JournalInv, Closed
  <2> QED BY <1>1, <2>2, <2>3 DEF JournalInv, Opened, Closed
<1> QED BY <1>1, <1>2, <1>3 DEF JournalRemains

LEMMA StepHolds ==
  ASSUME JournalInv, [Next]_vars
  PROVE  JournalInv' /\ [Ledger!LedgerNext]_Recorded
<1>1. Results \subseteq Ledger!Record
  BY DEF Results, Pending, Ledger!Record
<1>2. CASE UNCHANGED vars
  <2>1. UNCHANGED <<manifest, journal, completed, failed, phase>>
    BY <1>2 DEF vars, disk, memory
  <2> QED BY <2>1, SameJournal DEF JournalInv
<1>3. ASSUME NEW resume \in BOOLEAN, Launch(resume) PROVE JournalInv' /\ Recorded' = Recorded
  BY <1>3, LaunchKeeps
<1>4. CASE RunnerStep
  BY <1>1, <1>4, WriteManifestKeeps, LoadJournalKeeps, ReconcileKeeps, RebuildSplitKeeps,
     RebuildCaseKeeps, CheckDatabasesKeeps, CommitJournalKeeps, ProjectSplitKeeps,
     PublishCaseKeeps, FinishKeeps
     DEF RunnerStep, Ledger!LedgerNext
<1>5. ASSUME NEW example \in Pending, RunnerError(example) PROVE JournalInv' /\ Recorded' = Recorded
  BY <1>5, RunnerErrorKeeps
<1>6. ASSUME NEW powerLoss \in BOOLEAN, Crash(powerLoss)
      PROVE  JournalInv' /\ [Ledger!LedgerNext]_Recorded
  BY <1>1, <1>6, CrashKeeps DEF Ledger!LedgerNext
<1> QED BY <1>2, <1>3, <1>4, <1>5, <1>6 DEF Next

-----------------------------------------------------------------------------
(***************************************************************************)
(* What a process reports: its exit code and the examples it deferred.     *)
(***************************************************************************)
LEMMA InitReported == Init => Reported
BY ArtifactAssumption DEF Init, Reported

\* A step that enters no verdict and neither looks for databases nor ends well.
LEMMA SameReport ==
  ASSUME Reported, Decided' = Decided, UNCHANGED <<allowMissing, outages, deferred>>,
         phase' # "down" => exit' = "none", exit' = "clean" => Examples \ Decided = deferred
  PROVE  Reported'
BY DEF Reported

LEMMA LaunchReports ==
  ASSUME JournalInv, Reported, NEW resume \in BOOLEAN, Launch(resume)
  PROVE  Reported'
<1>1. Decided' = Decided
  BY LaunchKeeps DEF Decided
<1>2. UNCHANGED <<allowMissing, outages>> /\ deferred' = {}
  BY DEF Launch, disk, counters
<1>3. exit' = "none" \/ Down("unclaimed") \/ Down("exists")
  BY DEF Launch
<1>4. exit' = "none" \/ (phase' = "down" /\ exit' # "clean")
  BY <1>3 DEF Down
<1> QED BY <1>1, <1>2, <1>4 DEF Reported

LEMMA CheckDatabasesReports ==
  ASSUME JournalInv, Reported, CheckDatabases
  PROVE  Reported'
<1>1. Decided' = Decided /\ completed = Decided
  BY CheckDatabasesKeeps DEF Decided, CheckDatabases, JournalInv, Opened
<1>2. UNCHANGED allowMissing /\ phase # "down"
  BY DEF CheckDatabases, disk
<1>3. PICK missing \in SUBSET (Examples \ completed) :
         /\ missing # {} => outages < MaxOutages
         /\ outages' = IF missing = {} THEN outages ELSE outages + 1
         /\ IF missing # {} /\ ~allowMissing
              THEN Down("unavailable") /\ UNCHANGED deferred
              ELSE phase' = "running" /\ deferred' = missing /\ UNCHANGED <<memory, exit>>
  BY DEF CheckDatabases
<1>4. outages' \in 0 .. MaxOutages
  BY <1>3, ArtifactAssumption DEF Reported
<1>5. CASE missing # {} /\ ~allowMissing
  BY <1>1, <1>2, <1>3, <1>4, <1>5 DEF Reported, Down
<1>6. CASE missing = {} \/ allowMissing
  BY <1>1, <1>2, <1>3, <1>4, <1>6 DEF Reported
<1> QED BY <1>5, <1>6

\* The example whose verdict is entered is not a deferred one.
LEMMA EnterReports ==
  ASSUME Reported, NEW record \in Results, Recorded' = Recorded \/ Ledger!Enter(record),
         UNCHANGED <<allowMissing, outages, deferred>>, exit' = "none"
  PROVE  Reported'
<1>1. record.example \notin deferred
  BY DEF Results, Pending
<1>2. Decided' = Decided \/ Decided' = Decided \cup {record.example}
  BY DEF Ledger!Enter, Decided
<1> QED BY <1>1, <1>2 DEF Reported

LEMMA FinishReports ==
  ASSUME JournalInv, Reported, Finish
  PROVE  Reported'
<1>1. Decided' = Decided /\ completed = Decided
  BY FinishKeeps DEF Decided, Finish, JournalInv, Opened
<1>2. UNCHANGED <<allowMissing, outages, deferred>> /\ phase' = "down" /\ exit' = ExitCode
  BY DEF Finish, Down, disk, counters
<1>3. exit' = "clean" => Examples \ Decided = deferred
  BY <1>1, <1>2 DEF ExitCode, Finish, Pending, Reported
<1> QED BY <1>1, <1>2, <1>3, SameReport

LEMMA CrashReports ==
  ASSUME JournalInv, Reported, NEW powerLoss \in BOOLEAN, Crash(powerLoss)
  PROVE  Reported'
<1>1. UNCHANGED <<allowMissing, outages, deferred>> /\ exit' = "none"
  BY DEF Crash, Down
<1>2. CASE Recorded' = Recorded
  BY <1>1, <1>2, SameReport DEF Decided
<1>3. CASE \E record \in Results : Ledger!Enter(record)
  BY <1>1, <1>3, EnterReports
<1> QED BY <1>2, <1>3, CrashKeeps

\* Every other step of a process at work.
LEMMA WorkReports ==
  ASSUME JournalInv, Reported,
         \/ WriteManifest \/ LoadJournal \/ Reconcile \/ RebuildCase \/ ProjectSplit \/ PublishCase
         \/ \E verdict \in BOOLEAN : RebuildSplit(verdict)
         \/ \E example \in Pending : RunnerError(example)
  PROVE  Reported'
<1>1. Decided' = Decided
  BY WriteManifestKeeps, LoadJournalKeeps, ReconcileKeeps, RebuildCaseKeeps, ProjectSplitKeeps,
     PublishCaseKeeps, RebuildSplitKeeps, RunnerErrorKeeps DEF Decided
<1>2. UNCHANGED <<allowMissing, outages, deferred>>
  BY DEF WriteManifest, LoadJournal, Reconcile, RebuildCase, ProjectSplit, PublishCase,
         RebuildSplit, RunnerError, disk, counters
<1>3. phase # "down"
  BY DEF WriteManifest, LoadJournal, Reconcile, RebuildCase, ProjectSplit, PublishCase,
         RebuildSplit, RunnerError
<1>4. exit' = exit \/ Down("refused")
  BY DEF WriteManifest, LoadJournal, Reconcile, RebuildCase, ProjectSplit, PublishCase,
         RebuildSplit, RunnerError
<1>5. phase' # "down" => exit' = "none"
  BY <1>3, <1>4 DEF Reported, Down
<1>6. exit' # "clean"
  BY <1>3, <1>4 DEF Reported, Down
<1> QED BY <1>1, <1>2, <1>5, <1>6, SameReport

LEMMA StepReports ==
  ASSUME JournalInv, Reported, [Next]_vars
  PROVE  Reported'
<1>1. CASE UNCHANGED vars
  <2>1. UNCHANGED <<journal, allowMissing, outages, deferred, phase, exit>>
    BY <1>1 DEF vars, disk, counters
  <2> QED BY <2>1, SameJournal DEF Reported
<1>2. ASSUME NEW record \in Results, CommitJournal(record) PROVE Reported'
  <2>1. UNCHANGED <<allowMissing, outages, deferred>> /\ exit' = "none"
    BY <1>2 DEF CommitJournal, counters, Reported
  <2> QED BY <1>2, <2>1, CommitJournalKeeps, EnterReports
<1>3. CASE RunnerStep
  BY <1>2, <1>3, CheckDatabasesReports, FinishReports, WorkReports DEF RunnerStep
<1> QED BY <1>1, <1>3, LaunchReports, WorkReports, CrashReports DEF Next

-----------------------------------------------------------------------------
(***************************************************************************)
(* The theorems.                                                           *)
(***************************************************************************)
\* The journal is always whole records, one per example, up to a torn end, and
\* the runner's index of done examples is that of the journal.
THEOREM InvariantHolds == Spec => []JournalInv
BY InitHolds, StepHolds, PTL DEF Spec

\* No example is evaluated again and none is skipped: while the runner works,
\* what it thinks done is in the journal and nothing else is.
THEOREM DoneIsJournal == Spec => []CompletedIsJournal
<1>1. JournalInv => CompletedIsJournal
  BY DEF JournalInv, CompletedIsJournal, Opened, TornTail
<1> QED BY <1>1, InvariantHolds, PTL

\* What a process says of the examples when it ends holds in every state.
THEOREM ReportHolds == Spec => []Reported
BY InitReported, StepReports, InvariantHolds, PTL DEF Spec

\* Exit code 0 says that the examples without a verdict are exactly those that the
\* process reported as deferred, and that there are none unless the run allows
\* missing task databases (main of rollout_passk.py).
THEOREM CleanExitLeavesDeferred == Spec => []CleanExitIsComplete
<1>1. Reported => CleanExitIsComplete
  BY DEF Reported, CleanExitIsComplete
<1> QED BY <1>1, ReportHolds, PTL

\* The directory implements the ledger: verdicts are entered once and never lost
\* or replaced, however often the runner is killed and resumed.
THEOREM DirectoryIsLedger == Spec => LedgerKept
<1>1. Init => Ledger!LedgerInit
  BY InitHolds DEF Ledger!LedgerInit
<1> QED BY <1>1, InitHolds, StepHolds, InvariantHolds, PTL DEF Spec, LedgerKept, Ledger!LedgerSpec

-----------------------------------------------------------------------------
(***************************************************************************)
(* What one split file holds of a journal, computed record by record.  The *)
(* computation is a recursive function, so what is known of it is proved by*)
(* a smallest counterexample.                                              *)
(***************************************************************************)
\* f lists, for the first k of n records, the ones with this verdict.
Splits(f, records, verdict, n) ==
  f = [k \in 0 .. n |-> IF k = 0 THEN <<>>
                        ELSE IF records[k].correct = verdict THEN Append(f[k - 1], records[k])
                        ELSE f[k - 1]]

\* A set of numbers that has a member has a least one.
LEMMA LeastNumber ==
  ASSUME NEW S, S \subseteq Nat, S # {}
  PROVE  \E n \in S : \A m \in S : n <= m
<1>1. PICK n \in S : \A m \in S : ~ (<<m, n>> \in OpToRel(<, Nat))
  BY NatLessThanWellFounded, WFMin
<1>2. \A m \in S : ~ (m < n)
  BY <1>1 DEF OpToRel
<1> QED BY <1>2

LEMMA SplitExists ==
  ASSUME NEW records, NEW verdict, NEW n \in Nat
  PROVE  \E f : Splits(f, records, verdict, n)
<1> DEFINE None == { k \in Nat : ~ \E f : Splits(f, records, verdict, k) }
<1> SUFFICES ASSUME None # {} PROVE FALSE
  OBVIOUS
<1>1. PICK k \in None : \A m \in None : k <= m
  <2> HIDE DEF None
  <2>1. None \subseteq Nat
    BY DEF None
  <2> QED BY <2>1, LeastNumber
<1>2. k # 0
  <2>1. Splits([i \in 0 .. 0 |-> <<>>], records, verdict, 0)
    BY DEF Splits
  <2> QED BY <1>1, <2>1
<1>3. PICK f : Splits(f, records, verdict, k - 1)
  BY <1>1, <1>2
<1> DEFINE last == IF records[k].correct = verdict THEN Append(f[k - 1], records[k])
                   ELSE f[k - 1]
           g == [i \in 0 .. k |-> IF i = k THEN last ELSE f[i]]
<1>4. Splits(g, records, verdict, k)
  <2>1. k \in Nat /\ k # 0
    BY <1>1, <1>2
  <2>2. g[k] = last /\ \A i \in 0 .. (k - 1) : g[i] = f[i]
    BY <2>1
  <2>3. \A i \in 0 .. (k - 1) : f[i] = IF i = 0 THEN <<>>
                        ELSE IF records[i].correct = verdict THEN Append(f[i - 1], records[i])
                        ELSE f[i - 1]
    BY <1>3 DEF Splits
  <2>4. \A i \in 0 .. k : g[i] = IF i = 0 THEN <<>>
                        ELSE IF records[i].correct = verdict THEN Append(g[i - 1], records[i])
                        ELSE g[i - 1]
    <3> TAKE i \in 0 .. k
    <3>1. CASE i = k
      BY <3>1, <2>1, <2>2
    <3>2. CASE i \in 0 .. (k - 1) /\ i # 0
      <4>1. i - 1 \in 0 .. (k - 1)
        BY <3>2, <2>1
      <4> HIDE DEF g
      <4> QED BY <3>2, <4>1, <2>2, <2>3
    <3>3. CASE i = 0
      BY <3>3, <2>1, <2>2, <2>3
    <3> QED BY <3>1, <3>2, <3>3, <2>1
  <2> HIDE DEF last
  <2>5. g = [i \in 0 .. k |-> g[i]]
    OBVIOUS
  <2> HIDE DEF g
  <2> QED BY <2>4, <2>5 DEF Splits
<1> QED BY <1>1, <1>4

\* Expected is the last step of such a computation.
LEMMA ExpectedSplits ==
  ASSUME NEW records, NEW verdict, Len(records) \in Nat
  PROVE  \E f : /\ Splits(f, records, verdict, Len(records))
               /\ Expected(records, verdict) = f[Len(records)]
<1>1. PICK f : Splits(f, records, verdict, Len(records))
  BY SplitExists
<1> QED BY <1>1 DEF Splits, Expected

\* The first n records alone decide the first n steps.
LEMMA SplitsAgree ==
  ASSUME NEW records, NEW more, NEW verdict, NEW n \in Nat, NEW m \in Nat, n <= m,
         \A i \in 1 .. n : more[i] = records[i],
         NEW f, Splits(f, records, verdict, n), NEW g, Splits(g, more, verdict, m)
  PROVE  g[n] = f[n]
<1> DEFINE Differ == { k \in Nat : k <= n /\ g[k] # f[k] }
<1> SUFFICES ASSUME Differ # {} PROVE FALSE
  OBVIOUS
<1>1. PICK k \in Differ : \A i \in Differ : k <= i
  <2> HIDE DEF Differ
  <2>1. Differ \subseteq Nat
    BY DEF Differ
  <2> QED BY <2>1, LeastNumber
<1>2. k \in 0 .. n /\ k \in 0 .. m
  OBVIOUS
<1>3. /\ f[k] = IF k = 0 THEN <<>>
                ELSE IF records[k].correct = verdict THEN Append(f[k - 1], records[k])
                ELSE f[k - 1]
      /\ g[k] = IF k = 0 THEN <<>>
                ELSE IF more[k].correct = verdict THEN Append(g[k - 1], more[k])
                ELSE g[k - 1]
  BY <1>2 DEF Splits
<1>4. CASE k # 0
  <2>1. k - 1 \in Nat /\ k - 1 <= n /\ ~ (k <= k - 1) /\ k \in 1 .. n
    BY <1>1, <1>4
  <2>2. g[k - 1] = f[k - 1]
    BY <1>1, <2>1
  <2>3. more[k] = records[k]
    BY <2>1
  <2>4. g[k] = f[k]
    BY <1>3, <1>4, <2>2, <2>3
  <2> QED BY <2>4
<1>5. CASE k = 0
  BY <1>3, <1>5
<1> QED BY <1>4, <1>5

\* A projection is a sequence of records.
LEMMA SplitsTyped ==
  ASSUME NEW records \in Seq(Record), NEW verdict,
         NEW f, Splits(f, records, verdict, Len(records))
  PROVE  f[Len(records)] \in Seq(Record)
<1> DEFINE Untyped == { k \in Nat : k <= Len(records) /\ f[k] \notin Seq(Record) }
<1> SUFFICES ASSUME Untyped # {} PROVE FALSE
  OBVIOUS
<1>1. PICK k \in Untyped : \A i \in Untyped : k <= i
  <2> HIDE DEF Untyped
  <2>1. Untyped \subseteq Nat
    BY DEF Untyped
  <2> QED BY <2>1, LeastNumber
<1>2. k \in 0 .. Len(records)
  OBVIOUS
<1>3. f[k] = IF k = 0 THEN <<>>
             ELSE IF records[k].correct = verdict THEN Append(f[k - 1], records[k])
             ELSE f[k - 1]
  BY <1>2 DEF Splits
<1>4. CASE k # 0
  <2>1. k - 1 \in Nat /\ k - 1 <= Len(records) /\ ~ (k <= k - 1) /\ k \in 1 .. Len(records)
    BY <1>1, <1>4
  <2>2. f[k - 1] \in Seq(Record) /\ records[k] \in Record
    BY <1>1, <2>1
  <2>3. f[k] \in Seq(Record)
    BY <1>3, <1>4, <2>2
  <2> QED BY <2>3
<1>5. CASE k = 0
  <2>1. f[k] = <<>> /\ <<>> \in Seq(Record)
    BY <1>3, <1>5
  <2> QED BY <2>1
<1> QED BY <1>4, <1>5

LEMMA ExpectedTyped ==
  ASSUME NEW records \in Seq(Record), NEW verdict
  PROVE  Expected(records, verdict) \in Seq(Record)
BY ExpectedSplits, SplitsTyped

LEMMA ExpectedEmpty ==
  ASSUME NEW verdict
  PROVE  Expected(<<>>, verdict) = <<>>
<1>1. PICK f : Splits(f, <<>>, verdict, 0) /\ Expected(<<>>, verdict) = f[0]
  BY ExpectedSplits
<1> QED BY <1>1 DEF Splits

\* One more record of the journal is one more of its own projection.
LEMMA ExpectedAppend ==
  ASSUME NEW records \in Seq(Record), NEW r \in Record, NEW verdict
  PROVE  Expected(Append(records, r), verdict)
           = IF r.correct = verdict THEN Append(Expected(records, verdict), r)
             ELSE Expected(records, verdict)
<1> DEFINE more == Append(records, r)
           n    == Len(records)
<1>1. /\ n \in Nat /\ Len(more) = n + 1 /\ more[n + 1] = r
      /\ \A i \in 1 .. n : more[i] = records[i]
  OBVIOUS
<1> HIDE DEF more
<1>2. PICK f : Splits(f, records, verdict, n) /\ Expected(records, verdict) = f[n]
  BY <1>1, ExpectedSplits
<1> HIDE DEF n
<1>3. PICK g : Splits(g, more, verdict, n + 1) /\ Expected(more, verdict) = g[n + 1]
  BY <1>1, ExpectedSplits
<1>4. g[n] = f[n]
  BY <1>1, <1>2, <1>3, SplitsAgree
<1>5. g[n + 1] = IF more[n + 1].correct = verdict THEN Append(g[n], more[n + 1]) ELSE g[n]
  <2>1. n + 1 \in 0 .. (n + 1) /\ n + 1 # 0 /\ (n + 1) - 1 = n
    BY <1>1
  <2> QED BY <1>3, <2>1 DEF Splits
<1> QED BY <1>1, <1>2, <1>3, <1>4, <1>5 DEF more

-----------------------------------------------------------------------------
(***************************************************************************)
(* The first records of a file.                                            *)
(***************************************************************************)
\* The file holds the first of these records.
Begins(f, records) == \E n \in 0 .. Len(records) : Holds(f, SubSeq(records, 1, n))

LEMMA HoldsTyped ==
  ASSUME NEW records \in Seq(Record), NEW f, Holds(f, records)
  PROVE  f \in File(Record) /\ Len(f.lines) \in Nat /\ Len(records) <= Len(f.lines)
<1>1. /\ records \in Seq(Record \cup {Garbled})
      /\ Append(records, Garbled) \in Seq(Record \cup {Garbled})
  OBVIOUS
<1>2. Len(Append(records, Garbled)) = Len(records) + 1 /\ Len(records) \in Nat
  OBVIOUS
<1>3. CASE f = Whole(records)
  BY <1>1, <1>2, <1>3 DEF Whole, File
<1>4. CASE f = Unsealed(records)
  BY <1>1, <1>2, <1>4 DEF Unsealed, File
<1>5. CASE f = TornAfter(records)
  BY <1>1, <1>2, <1>5 DEF TornAfter, File
<1> QED BY <1>3, <1>4, <1>5 DEF Holds

\* The first records of the first records.
LEMMA Shorter ==
  ASSUME NEW records \in Seq(Record), NEW n \in 0 .. Len(records)
  PROVE  /\ SubSeq(records, 1, n) \in Seq(Record) /\ Len(SubSeq(records, 1, n)) = n
         /\ \A m \in 0 .. n : SubSeq(SubSeq(records, 1, n), 1, m) = SubSeq(records, 1, m)
OBVIOUS

LEMMA BeginsOfBegins ==
  ASSUME NEW records \in Seq(Record), NEW n \in 0 .. Len(records),
         NEW f, Begins(f, SubSeq(records, 1, n))
  PROVE  Begins(f, records)
<1>1. PICK m \in 0 .. n : Holds(f, SubSeq(SubSeq(records, 1, n), 1, m))
  BY Shorter DEF Begins
<1>2. SubSeq(SubSeq(records, 1, n), 1, m) = SubSeq(records, 1, m)
  BY Shorter
<1>3. m \in 0 .. Len(records)
  OBVIOUS
<1> QED BY <1>1, <1>2, <1>3 DEF Begins

LEMMA BeginsWhole ==
  ASSUME NEW records \in Seq(Record), NEW f, Holds(f, records)
  PROVE  Begins(f, records)
<1>1. SubSeq(records, 1, Len(records)) = records /\ Len(records) \in 0 .. Len(records)
  OBVIOUS
<1> QED BY <1>1 DEF Begins

LEMMA BeginsMore ==
  ASSUME NEW records \in Seq(Record), NEW r \in Record, NEW f, Begins(f, records)
  PROVE  Begins(f, Append(records, r))
<1> DEFINE more == Append(records, r)
<1>1. more \in Seq(Record) /\ Len(records) \in 0 .. Len(more)
      /\ SubSeq(more, 1, Len(records)) = records
  OBVIOUS
<1> HIDE DEF more
<1> QED BY <1>1, BeginsOfBegins DEF more

\* Whatever a crash leaves of a file, it still holds the first records, the
\* lines that were safe among them.
LEMMA CutBegins ==
  ASSUME NEW records \in Seq(Record), NEW f, Holds(f, records),
         NEW kept \in Nat, kept <= Len(f.lines), NEW g \in Cut(f, kept)
  PROVE  Begins(g, records) /\ kept <= Len(g.lines)
<1>1. Len(records) \in Nat /\ f \in File(Record)
  BY HoldsTyped
<1>2. f.lines = records \/ (f = TornAfter(records) /\ f.lines = Append(records, Garbled))
  BY DEF Holds, Whole, Unsealed, TornAfter
<1>3. Len(f.lines) \in {Len(records), Len(records) + 1}
  BY <1>1, <1>2
<1>4. \A k \in 0 .. Len(records) :
         SubSeq(f.lines, 1, k) = SubSeq(records, 1, k) /\ Len(SubSeq(records, 1, k)) = k
  BY <1>2
<1>5. CASE g = f
  BY <1>5, BeginsWhole
<1>6. ASSUME NEW k \in kept .. (Len(f.lines) - 1),
             g = [lines |-> SubSeq(f.lines, 1, k), sealed |-> TRUE]
      PROVE  Begins(g, records) /\ kept <= Len(g.lines)
  <2>1. k \in 0 .. Len(records)
    BY <1>1, <1>3
  <2>2. g = Whole(SubSeq(records, 1, k)) /\ Len(g.lines) = k
    BY <1>4, <1>6, <2>1 DEF Whole
  <2> QED BY <2>1, <2>2 DEF Begins, Holds
<1>7. ASSUME NEW k \in kept .. (Len(f.lines) - 1),
             g = [lines |-> Append(SubSeq(f.lines, 1, k), Garbled), sealed |-> FALSE]
      PROVE  Begins(g, records) /\ kept <= Len(g.lines)
  <2>1. k \in 0 .. Len(records)
    BY <1>1, <1>3
  <2>2. SubSeq(records, 1, k) \in Seq(Record)
    BY <2>1, Shorter
  <2>3. Len(Append(SubSeq(records, 1, k), Garbled)) = k + 1
    BY <1>4, <2>1, <2>2
  <2>4. g = TornAfter(SubSeq(records, 1, k))
    BY <1>4, <1>7, <2>1 DEF TornAfter
  <2>5. kept <= Len(g.lines)
    BY <2>1, <2>3, <2>4 DEF TornAfter
  <2> QED BY <2>1, <2>4, <2>5 DEF Begins, Holds
<1>8. ASSUME NEW k \in (kept + 1) .. Len(f.lines),
             g = [lines |-> SubSeq(f.lines, 1, k), sealed |-> FALSE]
      PROVE  Begins(g, records) /\ kept <= Len(g.lines)
  <2>1. CASE k \in 0 .. Len(records)
    <3>1. g = Unsealed(SubSeq(records, 1, k)) /\ Len(g.lines) = k
      BY <1>4, <1>8, <2>1 DEF Unsealed
    <3>2. k # 0 /\ kept <= k
      OBVIOUS
    <3>3. SubSeq(records, 1, k) # <<>>
      BY <1>4, <2>1, <3>2
    <3> QED BY <2>1, <3>1, <3>2, <3>3 DEF Begins, Holds
  <2>2. CASE k \notin 0 .. Len(records)
    <3>1. k = Len(f.lines) /\ f = TornAfter(records)
      BY <1>1, <1>2, <1>3, <2>2
    <3>2. SubSeq(f.lines, 1, k) = f.lines
      <4>1. f.lines \in Seq(Record \cup {Garbled})
        BY <1>1 DEF File
      <4> QED BY <3>1, <4>1
    <3>3. g = [lines |-> f.lines, sealed |-> FALSE]
      BY <1>8, <3>1, <3>2
    <3>4. g = f
      BY <1>2, <3>1, <3>3 DEF TornAfter
    <3> QED BY <3>4, <1>5
  <2> QED BY <2>1, <2>2
<1> QED BY <1>5, <1>6, <1>7, <1>8 DEF Cut

-----------------------------------------------------------------------------
(***************************************************************************)
(* The projections follow the journal.                                     *)
(***************************************************************************)
\* What one split file will hold.
Projection(verdict) == Expected(Parsed(journal), verdict)
Settled(verdict)    == split[verdict] = Whole(Projection(verdict))

\* Nothing in a projection is missing from the journal or out of its order.
NothingForeign ==
  /\ \A verdict \in BOOLEAN : Begins(split[verdict], Projection(verdict))
  /\ cases \subseteq Recorded

\* How far the projections of a process at work have got.
Projected ==
  /\ phase = "rebuilding failure" => Settled(TRUE)
  /\ phase \in {"rebuilding cases", "checking", "running", "publishing"} =>
       \A verdict \in BOOLEAN : Settled(verdict)
  /\ phase = "projecting" =>
       \A verdict \in BOOLEAN :
          Whole(Projection(verdict)) = IF inFlight.correct = verdict
                                         THEN Added(split[verdict], inFlight) ELSE split[verdict]
  /\ phase \in {"projecting", "publishing"} =>
       inFlight \in Record /\ cases \cup {inFlight} = Recorded
  /\ phase \in {"checking", "running"} => cases = Recorded
  /\ manifest # "written" => split = [verdict \in BOOLEAN |-> Empty] /\ cases = {}

\* TypeOK up to what Reported says of it: the process and the directory.
ProcessTyped ==
  /\ phase \in {"down", "claiming", "claiming to resume", "loading", "reconciling",
                "rebuilding success", "rebuilding failure", "rebuilding cases",
                "checking", "running", "projecting", "publishing"}
  /\ completed \subseteq Examples
  /\ inFlight \in Record \cup {NoRecord}
  /\ failed \subseteq Examples
  /\ appendCount \in Nat
  /\ exit \in {"none", "clean", "retry", "unclaimed", "exists", "unavailable"}

DirectoryTyped ==
  /\ manifest \in {"none", "leftover", "written"}
  /\ journal \in File(Record)
  /\ split \in [BOOLEAN -> File(Record)]
  /\ durable \in [BOOLEAN -> Nat]
  /\ \A verdict \in BOOLEAN : durable[verdict] <= Len(split[verdict].lines)
  /\ cases \subseteq Record
  /\ crashes \in 0..MaxCrashes
  /\ runnerErrors \in 0..MaxRunnerErrors

ProjectionInv == ProcessTyped /\ DirectoryTyped /\ NothingForeign /\ Projected

LEMMA JournalRecords ==
  ASSUME JournalInv
  PROVE  /\ Parsed(journal) \in Seq(Record) /\ OnceEach(Parsed(journal))
         /\ Holds(journal, Parsed(journal)) /\ ~ Malformed(journal)
         /\ journal \in File(Record)
         /\ journal.sealed => journal = Whole(Parsed(journal)) /\ journal.lines = Parsed(journal)
         /\ Recorded \subseteq Record
<1>1. PICK records \in Seq(Record) : OnceEach(records) /\ Holds(journal, records)
  BY DEF JournalInv, JournalHolds
<1>2. Parsed(journal) = records /\ ~ Malformed(journal)
  BY <1>1, HoldsParsed
<1>3. journal \in File(Record)
  BY <1>1, HoldsTyped
<1>4. journal.sealed => journal = Whole(records) /\ journal.lines = records
  BY <1>1, Sealed DEF Whole
<1>5. Recorded \subseteq Record
  BY <1>2 DEF Recorded, ToSet
<1> QED BY <1>1, <1>2, <1>3, <1>4, <1>5

LEMMA JournalStaysTyped ==
  ASSUME JournalInv'
  PROVE  journal' \in File(Record) /\ completed' \subseteq Examples
<1>1. PICK records \in Seq(Record) : Holds(journal', records)
  BY DEF JournalInv, JournalHolds
<1> QED BY <1>1, HoldsTyped DEF JournalInv

LEMMA ProjectionTyped ==
  ASSUME JournalInv, NEW verdict
  PROVE  Projection(verdict) \in Seq(Record)
BY JournalRecords, ExpectedTyped DEF Projection

\* A step that changes neither the journal nor a projection.
LEMMA SameProjections ==
  ASSUME journal' = journal, split' = split, cases' = cases
  PROVE  /\ \A verdict \in BOOLEAN : Projection(verdict)' = Projection(verdict)
                                     /\ (Settled(verdict)' <=> Settled(verdict))
         /\ NothingForeign' <=> NothingForeign
         /\ Recorded' = Recorded
BY DEF Projection, Settled, NothingForeign, Recorded

LEMMA TypedHalves ==
  ProcessTyped /\ DirectoryTyped /\ Reported => TypeOK /\ NeverRefusesItself
BY DEF TypeOK, NeverRefusesItself, ProcessTyped, DirectoryTyped, Reported

LEMMA DownTyped ==
  ASSUME NEW how \in {"none", "clean", "retry", "unclaimed", "exists", "unavailable"}, Down(how)
  PROVE  ProcessTyped'
BY DEF Down, ProcessTyped

LEMMA ProjectionInit == Init => ProjectionInv
<1> SUFFICES ASSUME Init PROVE ProjectionInv
  OBVIOUS
<1>1. Empty \in File(Record) /\ Len(Empty.lines) = 0 /\ Empty = Whole(<<>>)
  BY DEF Empty, File, Whole
<1>2. ProcessTyped /\ DirectoryTyped
  BY <1>1, ArtifactAssumption DEF Init, ProcessTyped, DirectoryTyped
<1>3. Parsed(journal) = <<>>
  BY DEF Init, Empty, Parsed, TornTail
<1>4. \A verdict \in BOOLEAN : Begins(split[verdict], Projection(verdict))
  <2> TAKE verdict \in BOOLEAN
  <2>1. Projection(verdict) = <<>> /\ split[verdict] = Whole(<<>>)
    BY <1>1, <1>3, ExpectedEmpty DEF Projection, Init
  <2>2. <<>> \in Seq(Record) /\ Holds(Whole(<<>>), <<>>)
    BY DEF Holds
  <2> QED BY <2>1, <2>2, BeginsWhole
<1>5. NothingForeign
  BY <1>4 DEF NothingForeign, Init
<1> QED BY <1>2, <1>5 DEF Init, ProjectionInv, Projected

LEMMA LaunchProjects ==
  ASSUME JournalInv, ProjectionInv, NEW resume \in BOOLEAN, Launch(resume)
  PROVE  ProjectionInv'
<1>1. UNCHANGED <<manifest, journal, split, durable, cases, crashes, runnerErrors>>
  BY DEF Launch, disk, counters
<1>2. phase' \in {"claiming to resume", "claiming", "loading", "down"}
  BY DEF Launch, Down
<1>3. CASE exit' = "none" /\ UNCHANGED <<completed, inFlight, failed, appendCount>>
  BY <1>1, <1>2, <1>3, SameProjections
     DEF ProjectionInv, ProcessTyped, DirectoryTyped, Projected
<1>4. CASE \E how \in {"unclaimed", "exists"} : Down(how)
  BY <1>1, <1>2, <1>4, SameProjections, DownTyped DEF ProjectionInv, DirectoryTyped, Projected
<1> QED BY <1>3, <1>4 DEF Launch, memory

LEMMA WriteManifestProjects ==
  ASSUME JournalInv, ProjectionInv, WriteManifest
  PROVE  ProjectionInv'
<1>1. UNCHANGED <<journal, split, durable, cases, crashes, runnerErrors,
                  completed, inFlight, failed, appendCount, exit>>
  BY DEF WriteManifest, counters, memory
<1>2. phase' \in {"checking", "loading"} /\ manifest' = "written"
  BY DEF WriteManifest
<1>3. manifest = "none"
  BY DEF WriteManifest, JournalInv
<1>4. journal = Empty /\ cases = {} /\ \A verdict \in BOOLEAN : split[verdict] = Empty
  BY <1>3 DEF ProjectionInv, Projected, JournalInv
<1>5. Parsed(journal) = <<>> /\ Empty = Whole(<<>>)
  BY <1>4 DEF Empty, Parsed, TornTail, Whole
<1>6. Recorded = {} /\ \A verdict \in BOOLEAN : Settled(verdict)
  BY <1>4, <1>5, ExpectedEmpty DEF Recorded, ToSet, Settled, Projection
<1> QED BY <1>1, <1>2, <1>4, <1>6, SameProjections
        DEF ProjectionInv, ProcessTyped, DirectoryTyped, Projected

LEMMA LoadJournalProjects ==
  ASSUME JournalInv, ProjectionInv, LoadJournal
  PROVE  ProjectionInv'
<1>1. ~ Unreadable(journal)
  BY JournalRecords DEF Unreadable, OnceEach
<1>2. /\ journal' = Whole(Parsed(journal)) /\ phase' = "reconciling"
      /\ UNCHANGED <<manifest, split, durable, cases, crashes, runnerErrors,
                     inFlight, failed, appendCount, exit>>
  BY <1>1 DEF LoadJournal, Repaired, Whole, counters
<1>3. journal' \in File(Record) /\ completed' \subseteq Examples
  BY LoadJournalKeeps, JournalStaysTyped
<1>4. Parsed(journal') = Parsed(journal)
  <2>1. Holds(journal', Parsed(journal))
    BY <1>2 DEF Holds
  <2> QED BY <2>1, JournalRecords, HoldsParsed
<1>5. NothingForeign'
  BY <1>2, <1>4 DEF ProjectionInv, NothingForeign, Projection, Recorded
<1> QED BY <1>2, <1>3, <1>5 DEF ProjectionInv, ProcessTyped, DirectoryTyped, Projected

\* A file that begins some records is readable, and a sealed one that is not
\* shorter is all of them.
LEMMA BeginsParsed ==
  ASSUME NEW records \in Seq(Record), NEW f, Begins(f, records)
  PROVE  /\ ~ Malformed(f) /\ IsPrefix(Parsed(f), records)
         /\ f.sealed /\ ~ (Len(Parsed(f)) < Len(records)) => f = Whole(records)
<1>1. PICK n \in 0 .. Len(records) : Holds(f, SubSeq(records, 1, n))
  BY DEF Begins
<1>2. SubSeq(records, 1, n) \in Seq(Record) /\ Len(SubSeq(records, 1, n)) = n
  BY Shorter
<1>3. Parsed(f) = SubSeq(records, 1, n) /\ ~ Malformed(f)
  BY <1>1, <1>2, HoldsParsed
<1>4. IsPrefix(Parsed(f), records)
  <2>1. SubSeq(SubSeq(records, 1, n), 1, n) = SubSeq(records, 1, n)
    BY Shorter
  <2> QED BY <1>2, <1>3, <2>1 DEF IsPrefix
<1>5. ASSUME f.sealed, ~ (Len(Parsed(f)) < Len(records))
      PROVE  f = Whole(records)
  <2>1. n = Len(records) /\ SubSeq(records, 1, n) = records
    BY <1>2, <1>3, <1>5
  <2> QED BY <1>1, <1>5, <2>1 DEF Holds, Whole, Unsealed, TornAfter
<1> QED BY <1>3, <1>4, <1>5

LEMMA ReconcileProjects ==
  ASSUME JournalInv, ProjectionInv, Reconcile
  PROVE  ProjectionInv'
<1>1. journal.lines = Parsed(journal)
  BY JournalRecords DEF JournalInv, Reconcile, Opened
<1>2. \A verdict \in BOOLEAN :
         /\ Projection(verdict) \in Seq(Record) /\ Begins(split[verdict], Projection(verdict))
         /\ Expected(journal.lines, verdict) = Projection(verdict)
  BY <1>1, ProjectionTyped DEF ProjectionInv, NothingForeign, Projection
<1>3. ~ Conflict
  BY <1>1, <1>2, BeginsParsed DEF Conflict, ProjectionInv, NothingForeign, Recorded
<1>4. /\ UNCHANGED <<manifest, journal, split, durable, cases, crashes, runnerErrors,
                     completed, inFlight, failed, appendCount, exit>>
      /\ phase' = IF Behind THEN "rebuilding success" ELSE "checking"
  BY <1>3 DEF Reconcile, memory, disk, counters
<1>5. ~ Behind => cases = Recorded /\ \A verdict \in BOOLEAN : Settled(verdict)
  BY <1>1, <1>2, BeginsParsed DEF Behind, Recorded, Settled
<1>6. manifest = "written"
  BY DEF JournalInv, Reconcile, Closed
<1> QED BY <1>4, <1>5, <1>6, SameProjections
        DEF ProjectionInv, ProcessTyped, DirectoryTyped, Projected

LEMMA WholeTyped ==
  ASSUME NEW records \in Seq(Record)
  PROVE  /\ Whole(records) \in File(Record) /\ Holds(Whole(records), records)
         /\ Begins(Whole(records), records)
         /\ Whole(records).lines = records /\ Whole(records).sealed /\ Len(records) \in Nat
<1>1. Holds(Whole(records), records)
  BY DEF Holds
<1> QED BY <1>1, BeginsWhole, HoldsTyped DEF Whole

LEMMA RebuildSplitProjects ==
  ASSUME JournalInv, ProjectionInv, NEW verdict \in BOOLEAN, RebuildSplit(verdict)
  PROVE  ProjectionInv'
<1>1. journal.lines = Parsed(journal) /\ manifest = "written"
  BY JournalRecords DEF JournalInv, RebuildSplit, Opened, Closed
<1> DEFINE records == Projection(verdict)
<1>2. /\ UNCHANGED <<manifest, journal, cases, crashes, runnerErrors,
                     completed, inFlight, failed, appendCount, exit>>
      /\ split' = [split EXCEPT ![verdict] = Whole(records)]
      /\ durable' = [durable EXCEPT ![verdict] = Len(records)]
      /\ phase = IF verdict THEN "rebuilding success" ELSE "rebuilding failure"
      /\ phase' = IF verdict THEN "rebuilding failure" ELSE "rebuilding cases"
  BY <1>1 DEF RebuildSplit, memory, counters, Whole, Projection
<1>3. \A v \in BOOLEAN : Projection(v)' = Projection(v)
  BY <1>2 DEF Projection
<1>4. records \in Seq(Record)
  BY ProjectionTyped
<1> HIDE DEF records
<1>5. split'[verdict] = Whole(records) /\ durable'[verdict] = Len(records)
      /\ \A v \in BOOLEAN \ {verdict} : split'[v] = split[v] /\ durable'[v] = durable[v]
  BY <1>2 DEF ProjectionInv, DirectoryTyped
<1>6. DirectoryTyped'
  <2>1. split' \in [BOOLEAN -> File(Record)] /\ durable' \in [BOOLEAN -> Nat]
    BY <1>2, <1>4, WholeTyped DEF ProjectionInv, DirectoryTyped
  <2>2. \A v \in BOOLEAN : durable'[v] <= Len(split'[v].lines)
    BY <1>4, <1>5, WholeTyped DEF ProjectionInv, DirectoryTyped
  <2> QED BY <1>2, <2>1, <2>2 DEF ProjectionInv, DirectoryTyped
<1>7. NothingForeign'
  <2>1. \A v \in BOOLEAN : Begins(split'[v], Projection(v)')
    BY <1>3, <1>4, <1>5, WholeTyped DEF ProjectionInv, NothingForeign, records
  <2> QED BY <1>2, <2>1 DEF ProjectionInv, NothingForeign, Recorded
<1>8. /\ Settled(verdict)'
      /\ verdict = FALSE => \A v \in BOOLEAN : Settled(v)'
  BY <1>2, <1>3, <1>5 DEF Settled, records, ProjectionInv, Projected
<1>9. Projected'
  <2>1. CASE verdict = TRUE
    BY <1>1, <1>2, <1>8, <2>1 DEF Projected
  <2>2. CASE verdict = FALSE
    BY <1>1, <1>2, <1>8, <2>2 DEF Projected
  <2> QED BY <2>1, <2>2
<1>10. ProcessTyped'
  BY <1>2 DEF ProjectionInv, ProcessTyped
<1> QED BY <1>6, <1>7, <1>9, <1>10 DEF ProjectionInv

LEMMA RebuildCaseProjects ==
  ASSUME JournalInv, ProjectionInv, RebuildCase
  PROVE  ProjectionInv'
<1>1. journal.lines = Parsed(journal) /\ manifest = "written" /\ Recorded \subseteq Record
  BY JournalRecords DEF JournalInv, RebuildCase, Opened, Closed
<1>2. /\ UNCHANGED <<manifest, journal, split, durable, crashes, runnerErrors,
                     completed, inFlight, failed, appendCount, exit>>
      /\ phase = "rebuilding cases"
  BY DEF RebuildCase, memory, counters
<1>3. \A v \in BOOLEAN : Projection(v)' = Projection(v) /\ (Settled(v)' <=> Settled(v))
  BY <1>2 DEF Projection, Settled
<1>4. /\ cases' \subseteq Recorded /\ phase' \in {"checking", "rebuilding cases"}
      /\ phase' = "checking" => cases' = Recorded
  <2>1. \A i \in DOMAIN journal.lines : journal.lines[i] \in Recorded
    BY <1>1 DEF Recorded, ToSet
  <2>2. cases \subseteq Recorded /\ ToSet(journal.lines) = Recorded
    BY <1>1 DEF ProjectionInv, NothingForeign, Recorded
  <2>3. CASE Recorded \subseteq cases
    <3>1. cases = Recorded
      BY <2>2, <2>3
    <3>2. phase' = "checking" /\ cases' = cases
      BY <2>2, <2>3 DEF RebuildCase
    <3> QED BY <3>1, <3>2
  <2>4. CASE ~ (Recorded \subseteq cases)
    <3>1. phase' = phase /\ \E i \in DOMAIN journal.lines : cases' = cases \cup {journal.lines[i]}
      BY <2>2, <2>4 DEF RebuildCase
    <3>2. cases' \subseteq Recorded
      BY <2>1, <2>2, <3>1
    <3> QED BY <1>2, <3>1, <3>2
  <2> QED BY <2>3, <2>4
<1>5. NothingForeign'
  BY <1>2, <1>3, <1>4 DEF ProjectionInv, NothingForeign, Recorded
<1>6. Projected'
  BY <1>1, <1>2, <1>3, <1>4 DEF ProjectionInv, Projected, Recorded
<1>7. ProcessTyped' /\ DirectoryTyped'
  BY <1>1, <1>2, <1>4 DEF ProjectionInv, ProcessTyped, DirectoryTyped
<1> QED BY <1>5, <1>6, <1>7 DEF ProjectionInv

LEMMA CheckDatabasesProjects ==
  ASSUME JournalInv, ProjectionInv, CheckDatabases
  PROVE  ProjectionInv'
<1>1. /\ UNCHANGED <<manifest, journal, split, durable, cases, crashes, runnerErrors>>
      /\ phase = "checking" /\ manifest = "written"
  BY DEF CheckDatabases, disk, JournalInv, Closed
<1>2. CASE phase' = "running" /\ UNCHANGED memory /\ UNCHANGED exit
  BY <1>1, <1>2, SameProjections
     DEF memory, ProjectionInv, ProcessTyped, DirectoryTyped, Projected
<1>3. CASE Down("unavailable")
  <2>1. phase' = "down" /\ ProcessTyped'
    BY <1>3, DownTyped DEF Down
  <2> QED BY <1>1, <2>1, SameProjections DEF ProjectionInv, DirectoryTyped, Projected
<1> QED BY <1>2, <1>3 DEF CheckDatabases

\* A record added to the journal is added to the projection of its verdict.
LEMMA AddedWhole ==
  ASSUME NEW records \in Seq(Record), NEW r \in Record
  PROVE  Added(Whole(records), r) = Whole(Append(records, r))
BY DEF Added, Whole

LEMMA CommitJournalProjects ==
  ASSUME JournalInv, ProjectionInv, NEW record \in Results, CommitJournal(record)
  PROVE  ProjectionInv'
<1> DEFINE records == Parsed(journal)
<1>1. records \in Seq(Record) /\ journal = Whole(records) /\ manifest = "written"
  BY JournalRecords DEF JournalInv, CommitJournal, Opened, Closed
<1>2. record \in Record
  BY DEF Results, Pending, Record
<1>3. /\ UNCHANGED <<manifest, split, durable, cases, crashes, runnerErrors, failed, exit>>
      /\ journal' = Added(journal, record) /\ completed' = completed \cup {record.example}
      /\ inFlight' = record /\ appendCount' = appendCount + 1
      /\ phase = "running" /\ phase' = "projecting"
  BY DEF CommitJournal, counters
<1>4. journal' \in File(Record) /\ completed' \subseteq Examples
  BY CommitJournalKeeps, JournalStaysTyped
<1>5. Parsed(journal') = Append(records, record)
  <2>1. Append(records, record) \in Seq(Record) /\ Holds(journal', Append(records, record))
    BY <1>1, <1>2, <1>3, AddedWhole DEF Holds
  <2> QED BY <2>1, HoldsParsed
<1>6. \A v \in BOOLEAN :
         /\ Projection(v) \in Seq(Record) /\ split[v] = Whole(Projection(v))
         /\ Projection(v)' = IF record.correct = v THEN Append(Projection(v), record)
                             ELSE Projection(v)
  BY <1>1, <1>2, <1>3, <1>5, ExpectedAppend, ProjectionTyped
     DEF Projection, ProjectionInv, Projected, Settled
<1>7. \A v \in BOOLEAN : Begins(split'[v], Projection(v)')
  <2> TAKE v \in BOOLEAN
  <2>1. Begins(split[v], Projection(v)) /\ Projection(v) \in Seq(Record)
    BY <1>6, WholeTyped
  <2> QED BY <1>2, <1>3, <1>6, <2>1, BeginsMore
<1>8. Recorded' = Recorded \cup {record}
  <2>1. ToSet(Append(records, record)) = ToSet(records) \cup {record}
    <3>1. /\ Len(records) \in Nat /\ DOMAIN records = 1 .. Len(records)
          /\ DOMAIN Append(records, record) = 1 .. (Len(records) + 1)
          /\ \A i \in 1 .. Len(records) : Append(records, record)[i] = records[i]
          /\ Append(records, record)[Len(records) + 1] = record
      BY <1>1, <1>2
    <3> HIDE DEF records
    <3> QED BY <3>1 DEF ToSet
  <2> QED BY <1>5, <2>1 DEF Recorded
<1>9. cases = Recorded
  BY <1>3 DEF ProjectionInv, Projected
<1>10. \A v \in BOOLEAN :
         Whole(Projection(v)') = IF inFlight'.correct = v
                                   THEN Added(split'[v], inFlight') ELSE split'[v]
  BY <1>2, <1>3, <1>6, AddedWhole
<1>11. NothingForeign'
  BY <1>3, <1>7, <1>8, <1>9 DEF NothingForeign
<1>12. Projected'
  BY <1>1, <1>2, <1>3, <1>8, <1>9, <1>10 DEF Projected
<1>13. ProcessTyped' /\ DirectoryTyped'
  BY <1>2, <1>3, <1>4 DEF ProjectionInv, ProcessTyped, DirectoryTyped
<1> QED BY <1>11, <1>12, <1>13 DEF ProjectionInv

LEMMA ProjectSplitProjects ==
  ASSUME JournalInv, ProjectionInv, ProjectSplit
  PROVE  ProjectionInv'
<1> DEFINE verdict == inFlight.correct
           file    == Added(split[verdict], inFlight)
<1>1. /\ UNCHANGED <<manifest, journal, cases, crashes, runnerErrors,
                     completed, inFlight, failed, appendCount, exit>>
      /\ split' = [split EXCEPT ![verdict] = file]
      /\ durable' = durable \/ durable' = [durable EXCEPT ![verdict] = Len(file.lines)]
      /\ phase = "projecting" /\ phase' = "publishing" /\ manifest = "written"
  BY DEF ProjectSplit, memory, counters, JournalInv, Closed
<1>2. inFlight \in Record /\ verdict \in BOOLEAN /\ cases \cup {inFlight} = Recorded
  BY <1>1 DEF ProjectionInv, Projected, Record
<1>3. \A v \in BOOLEAN : Projection(v)' = Projection(v) /\ Projection(v) \in Seq(Record)
  BY <1>1, ProjectionTyped DEF Projection
<1>4. file = Whole(Projection(verdict))
      /\ \A v \in BOOLEAN \ {verdict} : split[v] = Whole(Projection(v))
  BY <1>1, <1>2 DEF ProjectionInv, Projected
<1>5. Len(split[verdict].lines) <= Len(file.lines) /\ Len(file.lines) \in Nat
  <2>1. split[verdict].lines \in Seq(Record \cup {Garbled})
    BY <1>2 DEF ProjectionInv, DirectoryTyped, File
  <2> QED BY <2>1 DEF Added
<1> HIDE DEF file, verdict
<1>6. split'[verdict] = file /\ \A v \in BOOLEAN \ {verdict} : split'[v] = split[v]
  BY <1>1, <1>2 DEF ProjectionInv, DirectoryTyped
<1>7. \A v \in BOOLEAN : split'[v] = Whole(Projection(v))
  BY <1>4, <1>6
<1>8. DirectoryTyped'
  <2>1. split' \in [BOOLEAN -> File(Record)]
    BY <1>1, <1>2, <1>3, <1>4, WholeTyped DEF ProjectionInv, DirectoryTyped
  <2>2. durable' \in [BOOLEAN -> Nat]
    BY <1>1, <1>2, <1>5 DEF ProjectionInv, DirectoryTyped
  <2>3. \A v \in BOOLEAN : durable'[v] <= Len(split'[v].lines)
    <3>1. \A v \in BOOLEAN : durable[v] \in Nat /\ durable[v] <= Len(split[v].lines)
                             /\ Len(split[v].lines) \in Nat
      BY DEF ProjectionInv, DirectoryTyped, File
    <3>2. durable'[verdict] \in {durable[verdict], Len(file.lines)}
          /\ \A v \in BOOLEAN \ {verdict} : durable'[v] = durable[v]
      BY <1>1, <1>2 DEF ProjectionInv, DirectoryTyped
    <3>3. durable'[verdict] <= Len(split'[verdict].lines)
      BY <1>2, <1>5, <1>6, <3>1, <3>2
    <3> QED BY <1>6, <3>1, <3>2, <3>3
  <2> QED BY <1>1, <2>1, <2>2, <2>3 DEF ProjectionInv, DirectoryTyped
<1>9. NothingForeign'
  BY <1>1, <1>3, <1>7, WholeTyped DEF ProjectionInv, NothingForeign, Recorded
<1>10. Projected'
  BY <1>1, <1>2, <1>3, <1>7 DEF ProjectionInv, Projected, Settled, Recorded
<1>11. ProcessTyped'
  BY <1>1 DEF ProjectionInv, ProcessTyped
<1> QED BY <1>8, <1>9, <1>10, <1>11 DEF ProjectionInv

LEMMA PublishCaseProjects ==
  ASSUME JournalInv, ProjectionInv, PublishCase
  PROVE  ProjectionInv'
<1>1. /\ UNCHANGED <<manifest, journal, split, durable, crashes, runnerErrors,
                     completed, failed, appendCount, exit>>
      /\ phase = "publishing" /\ phase' = "running"
      /\ cases' = cases \cup {inFlight} /\ inFlight' = NoRecord
  BY DEF PublishCase, counters
<1>2. cases' = Recorded /\ Recorded \subseteq Record /\ manifest = "written"
  BY <1>1, JournalRecords DEF ProjectionInv, Projected, JournalInv, Closed
<1>3. \A v \in BOOLEAN : Projection(v)' = Projection(v) /\ (Settled(v)' <=> Settled(v))
  BY <1>1 DEF Projection, Settled
<1>4. NothingForeign' /\ Projected'
  BY <1>1, <1>2, <1>3 DEF ProjectionInv, NothingForeign, Projected, Recorded
<1> QED BY <1>1, <1>2, <1>4 DEF ProjectionInv, ProcessTyped, DirectoryTyped

LEMMA RunnerErrorProjects ==
  ASSUME JournalInv, ProjectionInv, NEW example \in Pending, RunnerError(example)
  PROVE  ProjectionInv'
<1>1. /\ UNCHANGED <<manifest, journal, split, durable, cases, crashes,
                     completed, inFlight, appendCount, phase, exit>>
      /\ failed' = failed \cup {example} /\ phase = "running"
      /\ runnerErrors' = runnerErrors + 1 /\ runnerErrors < MaxRunnerErrors
      /\ example \in Examples
  BY DEF RunnerError, disk, Pending
<1>2. DirectoryTyped'
  BY <1>1, ArtifactAssumption DEF ProjectionInv, DirectoryTyped
<1>3. ProcessTyped'
  BY <1>1 DEF ProjectionInv, ProcessTyped
<1> QED BY <1>1, <1>2, <1>3, SameProjections DEF ProjectionInv, Projected

LEMMA FinishProjects ==
  ASSUME JournalInv, ProjectionInv, Finish
  PROVE  ProjectionInv'
<1>1. UNCHANGED <<manifest, journal, split, durable, cases, crashes, runnerErrors>>
      /\ Down(ExitCode) /\ ExitCode \in {"clean", "retry"} /\ phase' = "down"
  BY DEF Finish, disk, counters, ExitCode, Down
<1> QED BY <1>1, SameProjections, DownTyped DEF ProjectionInv, DirectoryTyped, Projected

\* What a crash leaves of a projection still begins the one it was cut from, and
\* keeps its fsynced lines.
LEMMA RemainsBegins ==
  ASSUME JournalInv, ProjectionInv, NEW verdict \in BOOLEAN, NEW powerLoss \in BOOLEAN,
         NEW f \in Remains(verdict, powerLoss)
  PROVE  /\ Begins(f, Projection(verdict)) /\ f \in File(Record) /\ Len(f.lines) \in Nat
         /\ ~ powerLoss => durable[verdict] <= Len(f.lines)
         /\ split[verdict] = Empty /\ phase # "projecting" => f = Empty
<1> DEFINE writing == phase = "projecting" /\ inFlight.correct = verdict
           file    == IF writing THEN Added(split[verdict], inFlight) ELSE split[verdict]
           kept    == IF powerLoss THEN durable[verdict] ELSE Len(split[verdict].lines)
<1>1. f = file \/ f \in Cut(file, kept)
  BY DEF Remains
<1>2. /\ Projection(verdict) \in Seq(Record) /\ Begins(split[verdict], Projection(verdict))
      /\ durable[verdict] \in Nat /\ durable[verdict] <= Len(split[verdict].lines)
      /\ split[verdict].lines \in Seq(Record \cup {Garbled})
  BY ProjectionTyped DEF ProjectionInv, NothingForeign, DirectoryTyped, File
<1>3. Begins(file, Projection(verdict))
  <2>1. CASE writing
    BY <1>2, <2>1, WholeTyped DEF ProjectionInv, Projected
  <2> QED BY <1>2, <2>1
<1>4. Len(split[verdict].lines) \in Nat /\ Len(split[verdict].lines) <= Len(file.lines)
  BY <1>2 DEF Added
<1>5. kept \in Nat /\ kept <= Len(file.lines) /\ (~ powerLoss => durable[verdict] <= kept)
  BY <1>2, <1>4
<1> HIDE DEF file, kept
<1>6. f \in Cut(file, kept)
  BY <1>1 DEF Cut
<1>7. PICK n \in 0 .. Len(Projection(verdict)) : Holds(file, SubSeq(Projection(verdict), 1, n))
  BY <1>3 DEF Begins
<1>8. Begins(f, SubSeq(Projection(verdict), 1, n)) /\ kept <= Len(f.lines)
  BY <1>2, <1>5, <1>6, <1>7, Shorter, CutBegins
<1>9. Begins(f, Projection(verdict))
  BY <1>2, <1>8, BeginsOfBegins
<1>10. f \in File(Record) /\ Len(f.lines) \in Nat
  <2>1. PICK m \in 0 .. Len(Projection(verdict)) : Holds(f, SubSeq(Projection(verdict), 1, m))
    BY <1>9 DEF Begins
  <2> QED BY <1>2, <2>1, Shorter, HoldsTyped
<1>11. ASSUME split[verdict] = Empty, phase # "projecting"
       PROVE  f = Empty
  <2>1. file = Empty /\ Len(file.lines) = 0
    BY <1>11 DEF file, Empty
  <2> QED BY <1>5, <1>6, <2>1 DEF Cut
<1> QED BY <1>2, <1>5, <1>8, <1>9, <1>10, <1>11

\* A crash in an append leaves the records, or one more.
LEMMA CrashedJournal ==
  ASSUME JournalInv, ProjectionInv, journal' \in JournalRemains
  PROVE  /\ Recorded \subseteq Recorded'
         /\ \A verdict \in BOOLEAN : \A f :
               Begins(f, Projection(verdict)) => Begins(f, Projection(verdict)')
<1>1. CASE journal' = journal
  BY <1>1 DEF Recorded, Projection
<1>2. ASSUME phase = "running", NEW record \in Results,
             journal' \in Cut(Added(journal, record), Len(journal.lines))
      PROVE  \/ Parsed(journal') = Parsed(journal)
             \/ Parsed(journal') = Append(Parsed(journal), record)
  <2> DEFINE records == Parsed(journal)
  <2>1. records \in Seq(Record) /\ journal = Whole(records) /\ journal.lines = records
    BY <1>2, JournalRecords DEF JournalInv, Opened
  <2>2. record \in Record
    BY DEF Results, Pending, Record
  <2> HIDE DEF records
  <2>3. Holds(journal', records) \/ Holds(journal', Append(records, record))
    BY <1>2, <2>1, <2>2, CutAppend
  <2>4. Append(records, record) \in Seq(Record)
    BY <2>1, <2>2
  <2> QED BY <2>1, <2>3, <2>4, HoldsParsed DEF records
<1>3. CASE \E record \in Results : Parsed(journal') = Append(Parsed(journal), record)
  <2>1. PICK record \in Results : Parsed(journal') = Append(Parsed(journal), record)
    BY <1>3
  <2>2. record \in Record /\ Parsed(journal) \in Seq(Record)
    BY JournalRecords DEF Results, Pending, Record
  <2>3. Recorded \subseteq Recorded'
    <3>1. \A i \in DOMAIN Parsed(journal) :
             i \in DOMAIN Parsed(journal') /\ Parsed(journal')[i] = Parsed(journal)[i]
      BY <2>1, <2>2
    <3> QED BY <3>1 DEF Recorded, ToSet
  <2>4. ASSUME NEW verdict \in BOOLEAN, NEW f, Begins(f, Projection(verdict))
        PROVE  Begins(f, Projection(verdict)')
    <3>1. Projection(verdict) \in Seq(Record)
      BY ProjectionTyped
    <3>2. Projection(verdict)' \in {Projection(verdict), Append(Projection(verdict), record)}
      BY <2>1, <2>2, ExpectedAppend DEF Projection
    <3> QED BY <2>2, <2>4, <3>1, <3>2, BeginsMore
  <2> QED BY <2>3, <2>4
<1>4. CASE Parsed(journal') = Parsed(journal)
  BY <1>4 DEF Recorded, Projection
<1> QED BY <1>1, <1>2, <1>3, <1>4 DEF JournalRemains

LEMMA CrashProjects ==
  ASSUME JournalInv, ProjectionInv, NEW powerLoss \in BOOLEAN, Crash(powerLoss)
  PROVE  ProjectionInv'
<1>1. /\ Down("none") /\ phase' = "down"
      /\ UNCHANGED <<cases, runnerErrors>>
      /\ crashes < MaxCrashes /\ crashes' = crashes + 1
      /\ journal' \in JournalRemains
      /\ manifest' \in IF phase \in {"claiming", "claiming to resume"}
                         THEN {"none", "leftover", "written"} ELSE {manifest}
      /\ durable' = IF powerLoss THEN [v \in BOOLEAN |-> Len(split'[v].lines)] ELSE durable
  BY DEF Crash, Down
<1>2. /\ split' = [v \in BOOLEAN |-> split'[v]]
      /\ \A v \in BOOLEAN : split'[v] \in Remains(v, powerLoss)
  BY DEF Crash
<1>3. /\ journal' \in File(Record)
      /\ Recorded \subseteq Recorded'
      /\ \A v \in BOOLEAN : \A f : Begins(f, Projection(v)) => Begins(f, Projection(v)')
  BY <1>1, CrashKeeps, JournalStaysTyped, CrashedJournal
<1>4. \A v \in BOOLEAN :
         /\ Begins(split'[v], Projection(v)) /\ split'[v] \in File(Record)
         /\ Len(split'[v].lines) \in Nat
         /\ ~ powerLoss => durable[v] <= Len(split'[v].lines)
         /\ split[v] = Empty /\ phase # "projecting" => split'[v] = Empty
  BY <1>2, RemainsBegins
<1>5. NothingForeign'
  BY <1>1, <1>3, <1>4 DEF ProjectionInv, NothingForeign
<1>6. DirectoryTyped'
  <2>1. split' \in [BOOLEAN -> File(Record)]
    BY <1>2, <1>4
  <2>2. durable' \in [BOOLEAN -> Nat] /\ \A v \in BOOLEAN : durable'[v] <= Len(split'[v].lines)
    <3>1. CASE powerLoss
      <4>1. durable' = [v \in BOOLEAN |-> Len(split'[v].lines)]
        BY <1>1, <3>1
      <4>2. \A v \in BOOLEAN : durable'[v] = Len(split'[v].lines)
        BY <4>1
      <4> QED BY <1>4, <4>1, <4>2
    <3>2. CASE ~ powerLoss
      BY <1>1, <1>4, <3>2 DEF ProjectionInv, DirectoryTyped
    <3> QED BY <3>1, <3>2
  <2>3. manifest' \in {"none", "leftover", "written"}
    BY <1>1 DEF ProjectionInv, DirectoryTyped
  <2>4. crashes' \in 0 .. MaxCrashes
    <3>1. crashes \in 0 .. MaxCrashes /\ crashes < MaxCrashes /\ crashes' = crashes + 1
      BY <1>1 DEF ProjectionInv, DirectoryTyped
    <3> QED BY <3>1, ArtifactAssumption
  <2>5. cases' \subseteq Record /\ runnerErrors' \in 0 .. MaxRunnerErrors
    BY <1>1 DEF ProjectionInv, DirectoryTyped
  <2> QED BY <1>3, <2>1, <2>2, <2>3, <2>4, <2>5 DEF DirectoryTyped
<1>7. Projected'
  <2>1. ASSUME manifest' # "written"
        PROVE  split' = [v \in BOOLEAN |-> Empty] /\ cases' = {}
    <3>1. manifest # "written" /\ phase # "projecting"
      BY <1>1, <2>1 DEF JournalInv, Closed
    <3>2. cases = {} /\ \A v \in BOOLEAN : split[v] = Empty
      BY <3>1 DEF ProjectionInv, Projected
    <3> QED BY <1>1, <1>2, <1>4, <3>1, <3>2
  <2> QED BY <1>1, <2>1 DEF Projected
<1>8. ProcessTyped'
  BY <1>1, DownTyped DEF ProjectionInv, ProcessTyped
<1> QED BY <1>5, <1>6, <1>7, <1>8 DEF ProjectionInv

LEMMA ProjectionStep ==
  ASSUME JournalInv, ProjectionInv, [Next]_vars
  PROVE  ProjectionInv'
<1>1. CASE UNCHANGED vars
  <2>1. UNCHANGED <<manifest, journal, split, durable, cases, phase, completed, inFlight,
                    failed, appendCount, exit, crashes, runnerErrors>>
    BY <1>1 DEF vars, disk, memory, counters
  <2>2. ProcessTyped' /\ DirectoryTyped'
    BY <2>1 DEF ProjectionInv, ProcessTyped, DirectoryTyped
  <2>3. Projected'
    BY <2>1, SameProjections DEF ProjectionInv, Projected
  <2> QED BY <2>1, <2>2, <2>3, SameProjections DEF ProjectionInv
<1>2. CASE RunnerStep
  BY <1>2, WriteManifestProjects, LoadJournalProjects, ReconcileProjects, RebuildSplitProjects,
     RebuildCaseProjects, CheckDatabasesProjects, CommitJournalProjects, ProjectSplitProjects,
     PublishCaseProjects, FinishProjects DEF RunnerStep
<1> QED BY <1>1, <1>2, LaunchProjects, RunnerErrorProjects, CrashProjects DEF Next

-----------------------------------------------------------------------------
(***************************************************************************)
(* The theorems about the projections.                                     *)
(***************************************************************************)
\* In every phase, after every crash, what the split files and the case files
\* hold is in the journal, in its order.
THEOREM ProjectionsHold == Spec => []ProjectionInv
BY InitHolds, ProjectionInit, InvariantHolds, ProjectionStep, PTL DEF Spec

\* No more lines count as fsynced than the file has, and every variable keeps to
\* its kind.
THEOREM DirectoryIsTyped == Spec => []TypeOK
<1>1. ProjectionInv /\ Reported => TypeOK
  BY TypedHalves DEF ProjectionInv
<1> QED BY <1>1, ProjectionsHold, ReportHolds, PTL

\* The fail-closed checks of the load and of the reconciliation never fire on
\* what the runner itself left behind, after any crashes, also in repairs.
THEOREM NothingRefused == Spec => []NeverRefusesItself
<1>1. ProjectionInv /\ Reported => NeverRefusesItself
  BY TypedHalves DEF ProjectionInv
<1> QED BY <1>1, ProjectionsHold, ReportHolds, PTL

\* Whenever append returns or a resume gets to the examples, the projections say
\* exactly what the journal says.
THEOREM ProjectionsSettle == Spec => []ProjectionsSettled
<1>1. JournalInv /\ ProjectionInv => ProjectionsSettled
  <2> SUFFICES ASSUME JournalInv, ProjectionInv, phase \in {"checking", "running"}
               PROVE  ProjectionsSettled
    BY DEF ProjectionsSettled
  <2>1. journal.sealed /\ journal.lines = Parsed(journal)
    BY JournalRecords DEF JournalInv, Opened
  <2> QED
    BY <2>1
       DEF ProjectionsSettled, ProjectionInv, Projected, Settled, Whole, Projection, Recorded
<1> QED BY <1>1, InvariantHolds, ProjectionsHold, PTL
=============================================================================
