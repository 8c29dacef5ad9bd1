----------------------------- MODULE ScreenStage -----------------------------
(***************************************************************************)
(* One stage of the Arm B screen: from a frozen plan to a published pool   *)
(* of rollouts.  An operator starts invocations of the driver: prepare,    *)
(* one worker per shard, finalize.  An invocation is a shell that holds    *)
(* the lock of its job and runs one program after another (the group       *)
(* resume helper, the generator, the stage manager).  Its children hold    *)
(* the lock too, so a program that outlives a killed shell keeps it.       *)
(* Everything an invocation knows is in the stage's files.  Directories    *)
(* moved to quarantine are never read again and are left out.              *)
(***************************************************************************)
EXTENDS FiniteSets, Integers

CONSTANTS
  Task, Shard,
  ShardOf,       \* the assignment of the tasks to the shards
  Content,       \* what a sampled group can be
  Invocation,
  Control,       \* the job that is not a shard: prepare and finalize
  None,
  MaxCrashes     \* bound: kills and failures in a behaviour

ASSUME StageAssumption ==
  /\ ShardOf \in [Task -> Shard] /\ \A s \in Shard : \E t \in Task : ShardOf[t] = s
  /\ Control \notin Shard /\ None \notin Shard \cup {Control} \cup Content
  /\ MaxCrashes \in Nat

VARIABLES
  plan,        \* the assignment file of each shard and, for Control, the plan
               \* that freezes them: the file, or what its temporary holds
  groups,      \* groups/<task>.json of the workers
  partial,     \* groups/<task>.json.next
  marker,      \* worker_complete.json: the groups it records, or None
  uncommitted, \* worker_complete.json.next
  transaction, \* the pool being assembled, or None
  pool,        \* the canonical pool, or None
  job,         \* what each invocation was started for
  at,          \* where it is
  shell,       \* its shell is alive
  crashes

files == <<plan, groups, partial, marker, uncommitted, transaction, pool>>
vars  == <<files, job, at, shell, crashes>>

Job == Shard \cup {Control}
TasksOf(s) == { t \in Task : ShardOf[t] = s }

Nowhere  == "nowhere"
AtWorker == {"resume", "generate", "replace", "verify", "mark", "commit"}
AtPlan   == {"write", "flush", "freeze"}
AtPool   == {"assemble", "link", "rows", "install", "digest", "describe", "check", "publish"}

Unsampled == [t \in Task |-> None]
NewTransaction == [groups |-> Unsampled, next |-> FALSE, rows |-> None, manifest |-> None]

Init ==
  /\ plan = [j \in Job |-> "absent"]
  /\ groups = Unsampled /\ partial = Unsampled
  /\ marker = [s \in Shard |-> None]
  /\ uncommitted = [s \in Shard |-> "absent"]
  /\ transaction = None /\ pool = None
  /\ job = [i \in Invocation |-> None]
  /\ at = [i \in Invocation |-> Nowhere]
  /\ shell = [i \in Invocation |-> TRUE]
  /\ crashes = 0

\* The next program of an invocation is started by its shell, if that is alive.
Exit(i) ==
  /\ job' = [job EXCEPT ![i] = None]
  /\ at' = [at EXCEPT ![i] = Nowhere]
  /\ shell' = [shell EXCEPT ![i] = TRUE]
  /\ UNCHANGED crashes

Goto(i, place) == at' = [at EXCEPT ![i] = place] /\ UNCHANGED <<job, shell, crashes>>
Then(i, place) == IF shell[i] THEN Goto(i, place) ELSE Exit(i)

(***************************************************************************)
(* flock -n on the lock of the job.                                        *)
(***************************************************************************)
ShellLocked(j) == \E i \in Invocation : job[i] = j /\ shell[i]
Locked(j)      == \E i \in Invocation : job[i] = j

\* verify_plan: worker and finalize start on nothing less.
PlanVerified == \A j \in Job : plan[j] = "frozen"

Launch(i, j) ==
  /\ at[i] = Nowhere /\ ~ Locked(j)
  /\ j \in Shard => PlanVerified
  /\ job' = [job EXCEPT ![i] = j]
  /\ at' = [at EXCEPT ![i] =
             IF j \in Shard THEN "resume" ELSE IF PlanVerified THEN "assemble" ELSE "write"]
  /\ UNCHANGED <<files, shell, crashes>>

(***************************************************************************)
(* prepare: each assignment and, when all are there, the plan is written   *)
(* beside its name and moved there.  What an interrupted write left is     *)
(* taken only if it is whole, and blocks every later prepare if it is not. *)
(***************************************************************************)
\* The file prepare comes to next.  What it left behind is the first that is
\* missing; the shards are taken in any order.
Interrupted == { j \in Job : plan[j] \in {"torn", "written"} }
Unassigned  == { s \in Shard : plan[s] # "frozen" }
ToWrite     == IF Interrupted # {} THEN Interrupted
               ELSE IF Unassigned # {} THEN Unassigned ELSE {Control}

WritePlan(i) ==
  /\ at[i] = "write"
  /\ \E j \in ToWrite :
       CASE plan[j] = "absent"  -> plan' = [plan EXCEPT ![j] = "torn"] /\ Goto(i, "flush")
         [] plan[j] = "written" -> plan' = plan /\ Goto(i, "freeze")
         [] OTHER               -> plan' = plan /\ Exit(i)
  /\ UNCHANGED <<groups, partial, marker, uncommitted, transaction, pool>>

FlushPlan(i) ==
  /\ at[i] = "flush"
  /\ \E j \in Job : plan[j] = "torn" /\ plan' = [plan EXCEPT ![j] = "written"]
  /\ Goto(i, "freeze")
  /\ UNCHANGED <<groups, partial, marker, uncommitted, transaction, pool>>

FreezePlan(i) ==
  /\ at[i] = "freeze"
  /\ \E j \in Job :
       /\ plan[j] = "written" /\ plan' = [plan EXCEPT ![j] = "frozen"]
       /\ IF j = Control THEN Exit(i) ELSE Goto(i, "write")
  /\ UNCHANGED <<groups, partial, marker, uncommitted, transaction, pool>>

(***************************************************************************)
(* worker                                                                  *)
(***************************************************************************)
\* The helper takes unfinished groups away, then the shell looks at the marker.
Resume(i) ==
  LET s == job[i] IN
  /\ at[i] = "resume"
  /\ partial' = [t \in Task |-> IF ShardOf[t] = s THEN None ELSE partial[t]]
  /\ IF marker[s] = None /\ uncommitted[s] = "absent" THEN Then(i, "generate") ELSE Exit(i)
  /\ UNCHANGED <<plan, groups, marker, uncommitted, transaction, pool>>

AllOf(s)   == TasksOf(s)
Pending(s) == { t \in TasksOf(s) : groups[t] = None }

\* One group at a time: the episodes are collected, then written beside its name.
Generate(i) ==
  LET s == job[i] IN
  /\ at[i] = "generate"
  /\ IF Pending(s) = {}
       THEN Then(i, "verify") /\ UNCHANGED partial
       ELSE /\ \E t \in Pending(s), c \in Content : partial' = [partial EXCEPT ![t] = c]
            /\ Goto(i, "replace")
  /\ UNCHANGED <<plan, groups, marker, uncommitted, transaction, pool>>

ReplaceGroup(i) ==
  /\ at[i] = "replace"
  /\ \E t \in TasksOf(job[i]) :
       /\ partial[t] # None
       /\ groups' = [groups EXCEPT ![t] = partial[t]]
       /\ partial' = [partial EXCEPT ![t] = None]
  /\ Goto(i, "generate")
  /\ UNCHANGED <<plan, marker, uncommitted, transaction, pool>>

\* complete-worker: the directory holds exactly the groups of the shard.
ShardWhole(s) == \A t \in TasksOf(s) : groups[t] # None /\ partial[t] = None
WholeRecord(s) == groups
Record(s) == [t \in TasksOf(s) |-> groups[t]]

VerifyWorker(i) ==
  LET s == job[i] IN
  /\ at[i] = "verify"
  /\ IF ShardWhole(s)
       THEN uncommitted' = [uncommitted EXCEPT ![s] = "torn"] /\ Goto(i, "mark")
       ELSE Exit(i) /\ UNCHANGED uncommitted
  /\ UNCHANGED <<plan, groups, partial, marker, transaction, pool>>

WriteMarker(i) ==
  /\ at[i] = "mark"
  /\ uncommitted' = [uncommitted EXCEPT ![job[i]] = "written"] /\ Goto(i, "commit")
  /\ UNCHANGED <<plan, groups, partial, marker, transaction, pool>>

Copied    == "written"
Committed == "absent"

CommitMarker(i) ==
  LET s == job[i] IN
  /\ at[i] = "commit"
  /\ marker' = [marker EXCEPT ![s] = Record(s)]
  /\ uncommitted' = [uncommitted EXCEPT ![s] = Committed]
  /\ Exit(i)
  /\ UNCHANGED <<plan, groups, partial, transaction, pool>>

(***************************************************************************)
(* finalize                                                                *)
(***************************************************************************)
\* _verify_all_workers, check_only
SealVerified(s) ==
  /\ ShardWhole(s)
  /\ marker[s] # None /\ marker[s] = Record(s) /\ uncommitted[s] = "absent"

\* verify_pool of a directory
Whole(d) ==
  /\ d.groups = groups /\ ~ d.next
  /\ d.rows = groups /\ d.manifest = groups

\* prepare-pool-transaction: what an interrupted finalize left is either whole
\* or goes to quarantine.
Untouchable == FALSE
Incomplete  == transaction # None /\ ~ Whole(transaction)

Assemble(i) ==
  /\ at[i] = "assemble"
  /\ IF pool = None /\ \A s \in Shard : SealVerified(s)
       THEN IF transaction # None /\ Whole(transaction)
              THEN transaction' = transaction /\ Then(i, "rows")
              ELSE IF transaction = None \/ Incomplete
                     THEN transaction' = NewTransaction /\ Goto(i, "link")
                     ELSE transaction' = transaction /\ Exit(i)
       ELSE transaction' = transaction /\ Exit(i)
  /\ UNCHANGED <<plan, groups, partial, marker, uncommitted, pool>>

Edit(d) == transaction' = d /\ UNCHANGED <<plan, groups, partial, marker, uncommitted, pool>>

LinkGroup(i) ==
  /\ at[i] = "link" /\ transaction # None
  /\ \E t \in Task :
       /\ transaction.groups[t] = None
       /\ Edit([transaction EXCEPT !.groups[t] = groups[t]])
       /\ IF \A u \in Task \ {t} : transaction.groups[u] # None
            THEN Then(i, "rows") ELSE Goto(i, "link")

\* --finalize-only: the rows are written beside their name and moved, the
\* manifest is written in place: while it is open it says nothing.
WriteRows(i) ==
  /\ at[i] = "rows" /\ transaction # None
  /\ Edit([transaction EXCEPT !.next = TRUE]) /\ Goto(i, "install")

InstallRows(i) ==
  /\ at[i] = "install" /\ transaction # None
  /\ Edit([transaction EXCEPT !.next = FALSE, !.rows = transaction.groups]) /\ Goto(i, "digest")

OpenManifest(i) ==
  /\ at[i] = "digest" /\ transaction # None
  /\ Edit([transaction EXCEPT !.manifest = None]) /\ Goto(i, "describe")

WriteManifest(i) ==
  /\ at[i] = "describe" /\ transaction # None
  /\ Edit([transaction EXCEPT !.manifest = transaction.rows]) /\ Then(i, "check")

\* verify-pool, and again in publish-pool
CheckPool(i) ==
  /\ at[i] = "check" /\ transaction # None
  /\ IF Whole(transaction) THEN Then(i, "publish") ELSE Exit(i)
  /\ UNCHANGED files

PublishPool(i) ==
  /\ at[i] = "publish" /\ transaction # None /\ pool = None
  /\ pool' = transaction /\ transaction' = None
  /\ Exit(i)
  /\ UNCHANGED <<plan, groups, partial, marker, uncommitted>>

(***************************************************************************)
(* Failures: a whole invocation dies, or its shell alone is killed and the *)
(* program it was waiting for runs on.                                     *)
(***************************************************************************)
Crash(i) ==
  /\ at[i] # Nowhere /\ crashes < MaxCrashes
  /\ crashes' = crashes + 1
  /\ job' = [job EXCEPT ![i] = None]
  /\ at' = [at EXCEPT ![i] = Nowhere]
  /\ shell' = [shell EXCEPT ![i] = TRUE]
  /\ UNCHANGED files

KillShell(i) ==
  /\ at[i] # Nowhere /\ shell[i] /\ crashes < MaxCrashes
  /\ crashes' = crashes + 1
  /\ shell' = [shell EXCEPT ![i] = FALSE]
  /\ UNCHANGED <<files, job, at>>

Run(i) ==
  \/ WritePlan(i) \/ FlushPlan(i) \/ FreezePlan(i)
  \/ Resume(i) \/ Generate(i) \/ ReplaceGroup(i)
  \/ VerifyWorker(i) \/ WriteMarker(i) \/ CommitMarker(i)
  \/ Assemble(i) \/ LinkGroup(i) \/ WriteRows(i) \/ InstallRows(i)
  \/ OpenManifest(i) \/ WriteManifest(i) \/ CheckPool(i) \/ PublishPool(i)

Next == \E i \in Invocation :
  \/ Run(i)
  \/ \E j \in Job : Launch(i, j)
  \/ Crash(i)
  \/ KillShell(i)

\* A started program ends, and the operator starts every job again and again.
Fairness ==
  /\ \A i \in Invocation : WF_vars(Run(i))
  /\ \A j \in Job : SF_vars(\E i \in Invocation : Launch(i, j))

Spec == Init /\ [][Next]_vars /\ Fairness
-----------------------------------------------------------------------------
(***************************************************************************)
(* Properties                                                              *)
(***************************************************************************)
Group == Content \cup {None}
Directory == [groups : [Task -> Group], next : BOOLEAN,
              rows : [Task -> Group] \cup {None}, manifest : [Task -> Group] \cup {None}]

\* No directory is the absence of one.
ASSUME NoneAssumption == None \notin Directory

FilesTyped ==
  /\ plan \in [Job -> {"absent", "torn", "written", "frozen"}]
  /\ groups \in [Task -> Group] /\ partial \in [Task -> Group]
  /\ marker \in [Shard -> {None} \cup UNION { [TasksOf(s) -> Content] : s \in Shard }]
  /\ uncommitted \in [Shard -> {"absent", "torn", "written"}]
  /\ transaction \in Directory \cup {None} /\ pool \in Directory \cup {None}

InvocationsTyped ==
  /\ job \in [Invocation -> Job \cup {None}]
  /\ at \in [Invocation -> {Nowhere} \cup AtWorker \cup AtPlan \cup AtPool]
  /\ shell \in [Invocation -> BOOLEAN]
  /\ crashes \in 0 .. MaxCrashes

TypeOK == FilesTyped /\ InvocationsTyped

\* "a worker or an interrupted --finalize-only pass can never create a partially
\* canonical pool": at every moment a pool that can be seen at its path has all
\* groups, their rows, and the manifest of those rows.
NoPartialPool == pool # None => Whole(pool)

\* A shard with a marker stays what the marker says, whatever is started on it
\* later, so finalize never fails on it.
SealsHold == \A s \in Shard : marker[s] # None => SealVerified(s)

\* However often invocations die, the pool gets published once the operator has
\* started each job often enough; only a death in the write of the temporary of an
\* assignment or of the plan, or before a marker's is moved, can stop the stage.
Stopped ==
  \/ (\E j \in Job : plan[j] = "torn") /\ ~ Locked(Control)
  \/ \E s \in Shard : marker[s] = None /\ uncommitted[s] # "absent" /\ ~ Locked(s)
StagePublishes == <>(pool # None \/ Stopped)

(***************************************************************************)
(* Refinement                                                              *)
(***************************************************************************)
SealedShards  == { s \in Shard : marker[s] # None /\ marker[s] = Record(s) }
PublishedRows == IF pool = None THEN None ELSE IF Whole(pool) THEN pool.rows ELSE Unsampled

Stage == INSTANCE FixedPool WITH sampled <- groups, sealed <- SealedShards, published <- PublishedRows

\* A group is sampled once, a shard is sealed once, and the pool is published
\* once, from what was sealed.
KeepsFixedPool == Stage!FixedPoolSpec
=============================================================================
