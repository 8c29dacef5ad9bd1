---- MODULE ArtifactJournal ----
(* The result directory of an evaluation run and the runner that fills it:
   ArtifactWriter in src/eval/artifacts.py, driven by main in
   src/eval/rollout_passk.py.  all.jsonl is the journal; success.jsonl,
   failure.jsonl and one case file per example are projections of it.  The
   runner can be killed, or the machine lose power, between any two steps and in
   the middle of any append. *)
EXTENDS JsonlFile, FiniteSets

CONSTANTS Examples,        \* example_index values of the run
          FsyncEvery,      \* ARTIFACT_FSYNC_EVERY: projections are fsynced every n-th append, 0 never
          MaxCrashes,      \* bound: kills and power losses
          MaxRunnerErrors, \* bound: unhandled per-example exceptions
          MaxOutages,      \* bound: starts that find task databases missing
          NoRecord         \* inFlight when no append is under way

VARIABLES
    manifest,      \* "none", "leftover" (only its temporary file) or "written"
    allowMissing,  \* its allow_missing_task_databases: every start gives it again
    journal,       \* all.jsonl
    split,         \* split[TRUE] is success.jsonl, split[FALSE] failure.jsonl
    durable,       \* durable[v]: lines of split[v] known to be fsynced
    cases,         \* records published as success_cases/q*.json and failure_cases/q*.json
    phase,         \* where the runner is; "down" when no process runs
    completed,     \* ArtifactWriter.completed
    inFlight,      \* the record append is writing
    failed,        \* examples whose future raised in this process
    appendCount,   \* ArtifactWriter.append_count
    exit,          \* how the last process ended; "none" while it runs or if it was killed
    deferred,      \* the examples it reported as operationally deferred
    crashes, runnerErrors, outages

disk == <<manifest, allowMissing, journal, split, durable, cases>>
memory == <<completed, inFlight, failed, appendCount>>
counters == <<crashes, runnerErrors, outages>>
vars == <<disk, memory, phase, exit, deferred, counters>>

Record == [example : Examples, correct : BOOLEAN]

ASSUME ArtifactAssumption ==
    /\ FsyncEvery \in Nat
    /\ MaxCrashes \in Nat
    /\ MaxRunnerErrors \in Nat
    /\ MaxOutages \in Nat
    /\ Garbled \notin Record
    /\ NoRecord \notin Record

(* Mutant: the indices already in the journal are not remembered. *)
NoIndices(records) == {}

Indices(records) == {records[i].example : i \in DOMAIN records}

(* The records of one split, in journal order. *)
Expected(records, verdict) ==
    LET upTo[n \in 0..Len(records)] ==
          IF n = 0 THEN <<>>
          ELSE IF records[n].correct = verdict THEN Append(upTo[n - 1], records[n])
          ELSE upTo[n - 1]
    IN  upTo[Len(records)]

(* Mutant: runner errors of this process are forgotten at the end. *)
ExitAlwaysZero == "clean"

(* main returns 2 when an example failed and was left for a later --resume; the
   deferred examples do not count. *)
ExitCode == IF failed = {} THEN "clean" ELSE "retry"

Init ==
    /\ manifest = "none"
    /\ allowMissing \in BOOLEAN
    /\ journal = Empty
    /\ split = [verdict \in BOOLEAN |-> Empty]
    /\ durable = [verdict \in BOOLEAN |-> 0]
    /\ cases = {}
    /\ phase = "down"
    /\ completed = {}
    /\ inFlight = NoRecord
    /\ failed = {}
    /\ appendCount = 0
    /\ exit = "none"
    /\ deferred = {}
    /\ crashes = 0
    /\ runnerErrors = 0
    /\ outages = 0

(* The process ends and its memory is gone. *)
Down(how) ==
    /\ phase' = "down"
    /\ exit' = how
    /\ completed' = {}
    /\ inFlight' = NoRecord
    /\ failed' = {}
    /\ appendCount' = 0

----
(* Starting and resuming *)

(* The operator starts the runner, with or without --resume.  Anything found in
   a directory without a manifest, and a manifest without --resume, is refused. *)
Launch(resume) ==
    /\ phase = "down"
    /\ deferred' = {}
    /\ \/ /\ manifest = "none"
          /\ phase' = IF resume THEN "claiming to resume" ELSE "claiming"
          /\ exit' = "none" /\ UNCHANGED memory
       \/ /\ manifest = "leftover"
          /\ Down("unclaimed")
       \/ /\ manifest = "written" /\ ~resume
          /\ Down("exists")
       \/ /\ manifest = "written" /\ resume
          /\ phase' = "loading"
          /\ exit' = "none" /\ UNCHANGED memory
    /\ UNCHANGED <<disk, counters>>

WriteManifest ==
    /\ phase \in {"claiming", "claiming to resume"}
    /\ manifest' = "written"
    /\ phase' = IF phase = "claiming" THEN "checking" ELSE "loading"
    /\ UNCHANGED <<allowMissing, journal, split, durable, cases, memory, exit, deferred,
                   counters>>

(* Mutant: any line that does not parse makes the journal unusable. *)
UnreadableTail(f) ==
    \/ \E i \in DOMAIN f.lines : f.lines[i] = Garbled
    \/ \E i, k \in DOMAIN Parsed(f) : i # k /\ Parsed(f)[i].example = Parsed(f)[k].example

(* A malformed complete line, or two records of one example. *)
Unreadable(f) ==
    \/ Malformed(f)
    \/ \E i, k \in DOMAIN Parsed(f) : i # k /\ Parsed(f)[i].example = Parsed(f)[k].example

LoadJournal ==
    /\ phase = "loading"
    /\ IF Unreadable(journal)
         THEN Down("refused") /\ UNCHANGED journal
         ELSE /\ journal' = Repaired(journal)
              /\ completed' = Indices(journal'.lines)
              /\ phase' = "reconciling"
              /\ UNCHANGED <<inFlight, failed, appendCount, exit>>
    /\ UNCHANGED <<manifest, allowMissing, split, durable, cases, deferred, counters>>

(* A projection that is not a prefix of what the journal says, or a case file it
   does not account for. *)
Conflict ==
    \/ \E verdict \in BOOLEAN :
          \/ Malformed(split[verdict])
          \/ ~IsPrefix(Parsed(split[verdict]), Expected(journal.lines, verdict))
    \/ ~(cases \subseteq ToSet(journal.lines))

(* Mutant: projections are compared by their record counts alone. *)
BehindByCount ==
    \/ \E verdict \in BOOLEAN :
          Len(split[verdict].lines) < Len(Expected(journal.lines, verdict))
    \/ cases # ToSet(journal.lines)

(* A shorter projection, a torn or unsealed one, or a missing case file. *)
Behind ==
    \/ \E verdict \in BOOLEAN :
          \/ ~split[verdict].sealed
          \/ Len(Parsed(split[verdict])) < Len(Expected(journal.lines, verdict))
    \/ cases # ToSet(journal.lines)

Reconcile ==
    /\ phase = "reconciling"
    /\ IF Conflict THEN Down("refused")
       ELSE /\ phase' = IF Behind THEN "rebuilding success" ELSE "checking"
            /\ UNCHANGED <<memory, exit>>
    /\ UNCHANGED <<disk, deferred, counters>>

(* One split file is replaced atomically. *)
RebuildSplit(verdict) ==
    LET records == Expected(journal.lines, verdict)
    IN  /\ phase = IF verdict THEN "rebuilding success" ELSE "rebuilding failure"
        /\ split' = [split EXCEPT ![verdict] = [lines |-> records, sealed |-> TRUE]]
        /\ durable' = [durable EXCEPT ![verdict] = Len(records)]
        /\ phase' = IF verdict THEN "rebuilding failure" ELSE "rebuilding cases"
        /\ UNCHANGED <<manifest, allowMissing, journal, cases, memory, exit, deferred, counters>>

(* The case files are rewritten one by one in journal order; rewriting one that
   is there already leaves it as it is. *)
RebuildCase ==
    /\ phase = "rebuilding cases"
    /\ IF ToSet(journal.lines) \subseteq cases
         THEN phase' = "checking" /\ UNCHANGED cases
         ELSE /\ \E i \in DOMAIN journal.lines :
                    /\ journal.lines[i] \notin cases
                    /\ ToSet(SubSeq(journal.lines, 1, i - 1)) \subseteq cases
                    /\ cases' = cases \cup {journal.lines[i]}
              /\ UNCHANGED phase
    /\ UNCHANGED <<manifest, allowMissing, journal, split, durable, memory, exit, deferred,
                   counters>>

(* Examples whose task database is not there are set aside for a later start if
   the run allows it, and stop this one if not. *)
CheckDatabases ==
    /\ phase = "checking"
    /\ \E missing \in SUBSET (Examples \ completed) :
          /\ missing # {} => outages < MaxOutages
          /\ outages' = IF missing = {} THEN outages ELSE outages + 1
          /\ IF missing # {} /\ ~allowMissing
               THEN Down("unavailable") /\ UNCHANGED deferred
               ELSE /\ phase' = "running"
                    /\ deferred' = missing
                    /\ UNCHANGED <<memory, exit>>
    /\ UNCHANGED <<disk, crashes, runnerErrors>>

----
(* Running: futures complete in any order *)

Pending == Examples \ (completed \cup failed \cup deferred)

Results == [example : Pending, correct : BOOLEAN]

(* append: the journal line is fsynced before any projection is touched. *)
CommitJournal(record) ==
    /\ phase = "running"
    /\ journal' = Added(journal, record)
    /\ completed' = completed \cup {record.example}
    /\ inFlight' = record
    /\ appendCount' = appendCount + 1
    /\ phase' = "projecting"
    /\ UNCHANGED <<manifest, allowMissing, split, durable, cases, failed, exit, deferred,
                   counters>>

ProjectSplit ==
    LET verdict == inFlight.correct
        file == Added(split[verdict], inFlight)
        fsync == FsyncEvery > 0 /\ appendCount % FsyncEvery = 0
    IN  /\ phase = "projecting"
        /\ split' = [split EXCEPT ![verdict] = file]
        /\ durable' = IF fsync THEN [durable EXCEPT ![verdict] = Len(file.lines)]
                               ELSE durable
        /\ phase' = "publishing"
        /\ UNCHANGED <<manifest, allowMissing, journal, cases, memory, exit, deferred, counters>>

PublishCase ==
    /\ phase = "publishing"
    /\ cases' = cases \cup {inFlight}
    /\ inFlight' = NoRecord
    /\ phase' = "running"
    /\ UNCHANGED <<manifest, allowMissing, journal, split, durable, completed, failed,
                   appendCount, exit, deferred, counters>>

(* append_runner_error: the example stays out of the journal, for --resume. *)
RunnerError(example) ==
    /\ phase = "running"
    /\ runnerErrors < MaxRunnerErrors
    /\ failed' = failed \cup {example}
    /\ runnerErrors' = runnerErrors + 1
    /\ UNCHANGED <<disk, completed, inFlight, appendCount, phase, exit, deferred, crashes,
                   outages>>

Finish ==
    /\ phase = "running"
    /\ Pending = {}
    /\ Down(ExitCode)
    /\ UNCHANGED <<disk, deferred, counters>>

----
(* Crashes *)

(* What is left of one split file: a killed process has handed the lines before
   the current one to the kernel; a power loss keeps only the fsynced ones. *)
Remains(verdict, powerLoss) ==
    LET writing == phase = "projecting" /\ inFlight.correct = verdict
        file == IF writing THEN Added(split[verdict], inFlight) ELSE split[verdict]
    IN  IF writing \/ powerLoss
          THEN Cut(file, IF powerLoss THEN durable[verdict] ELSE Len(split[verdict].lines))
          ELSE {file}

(* The journal is fsynced line by line, so only the line being written can tear. *)
JournalRemains ==
    {journal} \cup
    IF phase = "running"
      THEN UNION {Cut(Added(journal, record), Len(journal.lines)) : record \in Results}
      ELSE {}

Crash(powerLoss) ==
    /\ phase # "down"
    /\ crashes < MaxCrashes
    /\ crashes' = crashes + 1
    /\ manifest' \in IF phase \in {"claiming", "claiming to resume"}
                       THEN {"none", "leftover", "written"} ELSE {manifest}
    /\ journal' \in JournalRemains
    /\ \E s \in Remains(TRUE, powerLoss), f \in Remains(FALSE, powerLoss) :
          split' = [verdict \in BOOLEAN |-> IF verdict THEN s ELSE f]
    /\ durable' = IF powerLoss THEN [v \in BOOLEAN |-> Len(split'[v].lines)] ELSE durable
    /\ Down("none")
    /\ UNCHANGED <<allowMissing, cases, deferred, runnerErrors, outages>>

----
RunnerStep ==
    \/ WriteManifest
    \/ LoadJournal
    \/ Reconcile
    \/ \E verdict \in BOOLEAN : RebuildSplit(verdict)
    \/ RebuildCase
    \/ CheckDatabases
    \/ \E record \in Results : CommitJournal(record)
    \/ ProjectSplit
    \/ PublishCase
    \/ Finish

Next ==
    \/ \E resume \in BOOLEAN : Launch(resume)
    \/ RunnerStep
    \/ \E example \in Pending : RunnerError(example)
    \/ \E powerLoss \in BOOLEAN : Crash(powerLoss)

(* A live process keeps going, and somebody reruns a runner that has stopped with
   --resume, as it asks for after an error and its users do after a deferral. *)
Spec == /\ Init /\ [][Next]_vars
        /\ WF_vars(RunnerStep)
        /\ WF_vars(Launch(TRUE))

----
(* Properties *)

(* The verdicts a reader of all.jsonl gets. *)
Recorded == ToSet(Parsed(journal))

Decided == {record.example : record \in Recorded}

(* Every variable keeps to its kind, and no more lines count as fsynced than
   the file has. *)
TypeOK ==
    /\ manifest \in {"none", "leftover", "written"}
    /\ allowMissing \in BOOLEAN
    /\ journal \in File(Record)
    /\ split \in [BOOLEAN -> File(Record)]
    /\ durable \in [BOOLEAN -> Nat]
    /\ \A verdict \in BOOLEAN : durable[verdict] <= Len(split[verdict].lines)
    /\ cases \subseteq Record
    /\ phase \in {"down", "claiming", "claiming to resume", "loading", "reconciling",
                  "rebuilding success", "rebuilding failure", "rebuilding cases",
                  "checking", "running", "projecting", "publishing"}
    /\ completed \subseteq Examples
    /\ inFlight \in Record \cup {NoRecord}
    /\ failed \subseteq Examples
    /\ appendCount \in Nat
    /\ exit \in {"none", "clean", "retry", "refused", "unclaimed", "exists", "unavailable"}
    /\ deferred \subseteq Examples
    /\ crashes \in 0..MaxCrashes
    /\ runnerErrors \in 0..MaxRunnerErrors
    /\ outages \in 0..MaxOutages

(* The runner never meets a directory that it cannot resume after its own
   crashes: the fail-closed checks of _load_and_repair_journal and
   _reconcile_projections only ever fire on somebody else's edits. *)
NeverRefusesItself == exit # "refused"

(* Whenever append returns or a resume gets to the examples, the projections say
   exactly what the journal says. *)
ProjectionsSettled ==
    phase \in {"checking", "running"} =>
      /\ journal.sealed
      /\ \A verdict \in BOOLEAN :
            split[verdict] = [lines |-> Expected(journal.lines, verdict), sealed |-> TRUE]
      /\ cases = ToSet(journal.lines)

(* What the runner thinks done is in the journal, and nothing else is: no example
   is evaluated again and none is skipped. *)
CompletedIsJournal ==
    phase \in {"checking", "running", "projecting", "publishing"} =>
      /\ ~TornTail(journal)
      /\ completed = Decided

(* Exit code 0 means that every example has its verdict except those that the same
   process reported as deferred, and nothing is ever deferred unless the run allows
   missing databases. *)
CleanExitIsComplete ==
    exit = "clean" =>
      /\ Examples \ Decided = deferred
      /\ deferred # {} => allowMissing

(* The directory behaves as the ledger of VerdictLedger. *)
Ledger == INSTANCE VerdictLedger WITH ledger <- Recorded
LedgerKept == Ledger!LedgerSpec

(* Every example gets a verdict in the end, whatever crashes, runner errors and
   missing databases come in between, unless the very first start was killed inside
   the manifest write: what that leaves needs a hand to clear.  The databases are
   there in the end (MaxOutages). *)
EventuallyRecorded ==
    <>(manifest = "leftover" \/ Decided = Examples)
====
