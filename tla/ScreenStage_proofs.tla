-------------------------- MODULE ScreenStage_proofs --------------------------
(***************************************************************************)
(* Proofs about ScreenStage for any tasks, shards, invocations and number  *)
(* of crashes.  Two facts carry them: a job has one owner at a time, the   *)
(* programs that outlive their shell included, and what the owner found    *)
(* when it started is still so, because only the owner changes it.         *)
(***************************************************************************)
EXTENDS ScreenStage, TLAPS

\* Nobody is started for a job somebody still has.
OneOwner == \A i, k \in Invocation : job[i] # None /\ job[i] = job[k] => i = k

JobFits ==
  \A i \in Invocation :
    /\ at[i] = Nowhere => job[i] = None
    /\ at[i] \in AtWorker => job[i] \in Shard
    /\ at[i] \in AtPlan \cup AtPool => job[i] = Control

\* The shard a worker fills has no marker, and it is not filled twice.
WorkerKnows ==
  \A i \in Invocation :
    /\ at[i] \in AtWorker \ {"resume"} => marker[job[i]] = None
    /\ at[i] \in {"generate", "verify"} => \A t \in TasksOf(job[i]) : partial[t] = None
    /\ at[i] = "replace" => \E t \in TasksOf(job[i]) :
         groups[t] = None /\ \A u \in TasksOf(job[i]) \ {t} : partial[u] = None
    /\ at[i] \in {"generate", "replace", "verify"} => uncommitted[job[i]] = "absent"
    /\ at[i] \in {"mark", "commit"} => ShardWhole(job[i])

AllSealed == \A s \in Shard : marker[s] # None

\* A finalize works on sealed shards, and publishes what it has checked.
FinalizeKnows ==
  \A i \in Invocation :
    /\ at[i] \in AtPool \ {"assemble"} => AllSealed
    /\ at[i] = "publish" => Whole(transaction)

PoolSealed == pool # None => AllSealed

IInv ==
  /\ TypeOK
  /\ OneOwner
  /\ JobFits
  /\ WorkerKnows
  /\ SealsHold
  /\ FinalizeKnows
  /\ PoolSealed
  /\ NoPartialPool

-----------------------------------------------------------------------------
(***************************************************************************)
(* Every step keeps the invariant: one lemma per action, one step per part *)
(* of the invariant.                                                       *)
(***************************************************************************)
\* Steps that leave the files of the workers alone.
LEMMA SealsKept ==
  ASSUME SealsHold, UNCHANGED <<groups, partial, marker, uncommitted>> PROVE SealsHold'
  BY DEF SealsHold, SealVerified, ShardWhole, Record

LEMMA RecordsKept ==
  ASSUME NEW s \in Shard, \A t \in TasksOf(s) : groups'[t] = groups[t] PROVE Record(s)' = Record(s)
  BY DEF Record

LEMMA WritePlanKeeps ==
  ASSUME IInv, NEW i \in Invocation, WritePlan(i) PROVE IInv'
<1>1. FilesTyped'
  BY DEF IInv, FilesTyped, TypeOK, WritePlan
<1>2. InvocationsTyped'
  BY DEF IInv, InvocationsTyped, TypeOK, WritePlan, Exit, Goto, AtPlan
<1>3. OneOwner'
  BY DEF IInv, OneOwner, TypeOK, InvocationsTyped, WritePlan, Exit, Goto
<1>4. JobFits'
  BY DEF IInv, JobFits, TypeOK, InvocationsTyped, WritePlan, Exit, Goto, Nowhere, AtWorker,
         AtPlan, AtPool
<1>5. WorkerKnows'
  BY DEF IInv, WorkerKnows, TypeOK, InvocationsTyped, ShardWhole, WritePlan, Exit, Goto, Nowhere,
         AtWorker
<1>6. SealsHold'
  BY SealsKept DEF IInv, WritePlan
<1>7. FinalizeKnows'
  BY DEF IInv, FinalizeKnows, TypeOK, InvocationsTyped, AllSealed, Whole, WritePlan, Exit, Goto,
         Nowhere, AtPool
<1>8. PoolSealed'
  BY DEF IInv, PoolSealed, AllSealed, WritePlan
<1>9. NoPartialPool'
  BY DEF IInv, NoPartialPool, Whole, WritePlan
<1> QED BY <1>1, <1>2, <1>3, <1>4, <1>5, <1>6, <1>7, <1>8, <1>9 DEF IInv, TypeOK

LEMMA FlushPlanKeeps ==
  ASSUME IInv, NEW i \in Invocation, FlushPlan(i) PROVE IInv'
<1>1. FilesTyped'
  BY DEF IInv, FilesTyped, TypeOK, FlushPlan
<1>2. InvocationsTyped'
  BY DEF IInv, InvocationsTyped, TypeOK, FlushPlan, Goto, AtPlan
<1>3. OneOwner'
  BY DEF IInv, OneOwner, FlushPlan, Goto
<1>4. JobFits'
  BY DEF IInv, JobFits, TypeOK, InvocationsTyped, FlushPlan, Goto, Nowhere, AtWorker
<1>5. WorkerKnows'
  BY DEF IInv, WorkerKnows, ShardWhole, FlushPlan, Goto, AtWorker
<1>6. SealsHold'
  BY SealsKept DEF IInv, FlushPlan
<1>7. FinalizeKnows'
  BY DEF IInv, FinalizeKnows, AllSealed, Whole, FlushPlan, Goto, AtPool
<1>8. PoolSealed'
  BY DEF IInv, PoolSealed, AllSealed, FlushPlan
<1>9. NoPartialPool'
  BY DEF IInv, NoPartialPool, Whole, FlushPlan
<1> QED BY <1>1, <1>2, <1>3, <1>4, <1>5, <1>6, <1>7, <1>8, <1>9 DEF IInv, TypeOK

LEMMA FreezePlanKeeps ==
  ASSUME IInv, NEW i \in Invocation, FreezePlan(i) PROVE IInv'
<1>1. FilesTyped'
  BY DEF IInv, FilesTyped, TypeOK, FreezePlan
<1>2. Exit(i) \/ Goto(i, "write")
  BY DEF FreezePlan
<1>3. InvocationsTyped'
  BY <1>2 DEF IInv, InvocationsTyped, TypeOK, Exit, Goto, AtPlan
<1>4. OneOwner'
  BY <1>2 DEF IInv, OneOwner, TypeOK, InvocationsTyped, Exit, Goto
<1>5. JobFits'
  BY <1>2
     DEF IInv, JobFits, TypeOK, InvocationsTyped, FreezePlan, Exit, Goto, Nowhere, AtWorker,
         AtPlan, AtPool
<1>6. UNCHANGED <<groups, partial, marker, uncommitted, transaction, pool>>
  BY DEF FreezePlan
<1>7. WorkerKnows'
  BY <1>2, <1>6
     DEF IInv, WorkerKnows, TypeOK, InvocationsTyped, ShardWhole, Exit, Goto, Nowhere, AtWorker
<1>8. SealsHold'
  BY <1>6, SealsKept DEF IInv
<1>9. FinalizeKnows'
  BY <1>2, <1>6
     DEF IInv, FinalizeKnows, TypeOK, InvocationsTyped, AllSealed, Whole, Exit, Goto, Nowhere,
         AtPool
<1>10. PoolSealed' /\ NoPartialPool'
  BY <1>6 DEF IInv, PoolSealed, AllSealed, NoPartialPool, Whole
<1> QED BY <1>1, <1>3, <1>4, <1>5, <1>7, <1>8, <1>9, <1>10 DEF IInv, TypeOK

LEMMA ResumeKeeps ==
  ASSUME IInv, NEW i \in Invocation, Resume(i) PROVE IInv'
<1>1. FilesTyped'
  BY DEF IInv, FilesTyped, TypeOK, Group, Resume
<1>2. InvocationsTyped'
  BY DEF IInv, InvocationsTyped, TypeOK, Resume, Then, Exit, Goto, AtWorker
<1>3. OneOwner'
  BY DEF IInv, OneOwner, TypeOK, InvocationsTyped, Resume, Then, Exit, Goto
<1>4. JobFits'
  BY DEF IInv, JobFits, TypeOK, InvocationsTyped, Resume, Then, Exit, Goto, Nowhere, AtWorker,
         AtPlan, AtPool
<1>5. WorkerKnows'
  BY DEF IInv, WorkerKnows, TypeOK, InvocationsTyped, ShardWhole, TasksOf, Resume, Then, Exit,
         Goto, Nowhere, AtWorker
<1>6. SealsHold'
  BY RecordsKept DEF IInv, SealsHold, ShardWhole, TasksOf, SealVerified, Resume
<1>7. FinalizeKnows'
  BY DEF IInv, FinalizeKnows, TypeOK, InvocationsTyped, AllSealed, Whole, Resume, Then, Exit,
         Goto, Nowhere, AtPool
<1>8. PoolSealed'
  BY DEF IInv, PoolSealed, AllSealed, Resume
<1>9. NoPartialPool'
  BY DEF IInv, NoPartialPool, Whole, Resume
<1> QED BY <1>1, <1>2, <1>3, <1>4, <1>5, <1>6, <1>7, <1>8, <1>9 DEF IInv, TypeOK

LEMMA GenerateKeeps ==
  ASSUME IInv, NEW i \in Invocation, Generate(i) PROVE IInv'
<1>1. FilesTyped'
  <2>1. partial' \in [Task -> Group]
    <3>1. CASE UNCHANGED partial
      BY <3>1 DEF IInv, TypeOK, FilesTyped
    <3>2. CASE \E t \in Pending(job[i]), c \in Content : partial' = [partial EXCEPT ![t] = c]
      BY <3>2 DEF IInv, TypeOK, FilesTyped, Group
    <3> QED BY <3>1, <3>2 DEF Generate
  <2> QED BY <2>1 DEF IInv, TypeOK, FilesTyped, Generate
<1>2. InvocationsTyped'
  BY DEF IInv, InvocationsTyped, TypeOK, Generate, Then, Exit, Goto, AtWorker
<1>3. OneOwner'
  BY DEF IInv, OneOwner, TypeOK, InvocationsTyped, Generate, Then, Exit, Goto
<1>4. JobFits'
  BY DEF IInv, JobFits, TypeOK, InvocationsTyped, Generate, Then, Exit, Goto, Nowhere, AtWorker,
         AtPlan, AtPool
<1>5. WorkerKnows'
  BY StageAssumption
     DEF IInv, WorkerKnows, TypeOK, FilesTyped, InvocationsTyped, OneOwner, ShardWhole, TasksOf,
         Generate, Then, Pending, Exit, Goto, Nowhere, AtWorker
<1>6. SealsHold'
  BY RecordsKept
     DEF IInv, SealsHold, TypeOK, FilesTyped, ShardWhole, TasksOf, SealVerified, Generate, Pending
<1>7. FinalizeKnows'
  BY StageAssumption
     DEF IInv, FinalizeKnows, TypeOK, InvocationsTyped, OneOwner, JobFits, WorkerKnows, AllSealed,
         Generate, Then, Exit, Goto, Nowhere, AtPool
<1>8. PoolSealed'
  BY DEF IInv, PoolSealed, AllSealed, Generate
<1>9. NoPartialPool'
  BY DEF IInv, NoPartialPool, Whole, Generate
<1> QED BY <1>1, <1>2, <1>3, <1>4, <1>5, <1>6, <1>7, <1>8, <1>9 DEF IInv, TypeOK

LEMMA ReplaceGroupKeeps ==
  ASSUME IInv, NEW i \in Invocation, ReplaceGroup(i) PROVE IInv'
<1>1. FilesTyped'
  <2>1. PICK t \in TasksOf(job[i]) : /\ groups' = [groups EXCEPT ![t] = partial[t]]
                                     /\ partial' = [partial EXCEPT ![t] = None]
    BY DEF ReplaceGroup
  <2>2. groups' \in [Task -> Group] /\ partial' \in [Task -> Group]
    BY <2>1 DEF IInv, TypeOK, FilesTyped, Group
  <2> QED BY <2>2 DEF IInv, TypeOK, FilesTyped, ReplaceGroup
<1>2. InvocationsTyped'
  BY DEF IInv, InvocationsTyped, TypeOK, ReplaceGroup, Goto, AtWorker
<1>3. OneOwner'
  BY DEF IInv, OneOwner, ReplaceGroup, Goto
<1>4. JobFits'
  BY DEF IInv, JobFits, TypeOK, InvocationsTyped, ReplaceGroup, Goto, Nowhere, AtPlan, AtPool
<1>5. WorkerKnows'
  BY StageAssumption
     DEF IInv, WorkerKnows, TypeOK, FilesTyped, InvocationsTyped, OneOwner, JobFits, ShardWhole,
         TasksOf, ReplaceGroup, Goto, AtWorker
<1>6. SealsHold'
  BY RecordsKept DEF IInv, SealsHold, ShardWhole, SealVerified, ReplaceGroup
<1>7. FinalizeKnows'
  BY StageAssumption
     DEF IInv, FinalizeKnows, TypeOK, InvocationsTyped, OneOwner, JobFits, WorkerKnows, AllSealed,
         TasksOf, ReplaceGroup, Goto, Nowhere, AtPool
<1>8. PoolSealed'
  BY DEF IInv, PoolSealed, AllSealed, ReplaceGroup
<1>9. NoPartialPool'
  BY DEF IInv, NoPartialPool, JobFits, WorkerKnows, PoolSealed, AllSealed, ReplaceGroup, AtWorker
<1> QED BY <1>1, <1>2, <1>3, <1>4, <1>5, <1>6, <1>7, <1>8, <1>9 DEF IInv, TypeOK

LEMMA VerifyWorkerKeeps ==
  ASSUME IInv, NEW i \in Invocation, VerifyWorker(i) PROVE IInv'
<1>1. FilesTyped'
  <2>1. uncommitted' \in [Shard -> {"absent", "torn", "written"}]
    BY DEF IInv, TypeOK, FilesTyped, VerifyWorker
  <2> QED BY <2>1 DEF IInv, TypeOK, FilesTyped, VerifyWorker
<1>2. InvocationsTyped'
  BY DEF IInv, InvocationsTyped, TypeOK, VerifyWorker, Exit, Goto, AtWorker
<1>3. OneOwner'
  BY DEF IInv, OneOwner, TypeOK, InvocationsTyped, VerifyWorker, Exit, Goto
<1>4. JobFits'
  BY DEF IInv, JobFits, TypeOK, InvocationsTyped, VerifyWorker, Exit, Goto, Nowhere, AtWorker,
         AtPlan, AtPool
<1>5. WorkerKnows'
  BY StageAssumption
     DEF IInv, WorkerKnows, TypeOK, FilesTyped, InvocationsTyped, OneOwner, JobFits, ShardWhole,
         VerifyWorker, Exit, Goto, Nowhere, AtWorker
<1>6. SealsHold'
  BY StageAssumption, RecordsKept
     DEF IInv, SealsHold, TypeOK, FilesTyped, InvocationsTyped, JobFits, WorkerKnows, ShardWhole,
         SealVerified, VerifyWorker
<1>7. FinalizeKnows'
  BY StageAssumption
     DEF IInv, FinalizeKnows, TypeOK, InvocationsTyped, OneOwner, JobFits, WorkerKnows, SealsHold,
         SealVerified, AllSealed, VerifyWorker, Exit, Goto, Nowhere, AtPool
<1>8. PoolSealed'
  BY DEF IInv, PoolSealed, AllSealed, VerifyWorker
<1>9. NoPartialPool'
  BY DEF IInv, NoPartialPool, Whole, VerifyWorker
<1> QED BY <1>1, <1>2, <1>3, <1>4, <1>5, <1>6, <1>7, <1>8, <1>9 DEF IInv, TypeOK

LEMMA WriteMarkerKeeps ==
  ASSUME IInv, NEW i \in Invocation, WriteMarker(i) PROVE IInv'
<1>1. FilesTyped'
  BY DEF IInv, FilesTyped, TypeOK, WriteMarker
<1>2. InvocationsTyped'
  BY DEF IInv, InvocationsTyped, TypeOK, WriteMarker, Goto, AtWorker
<1>3. OneOwner'
  BY DEF IInv, OneOwner, WriteMarker, Goto
<1>4. JobFits'
  BY DEF IInv, JobFits, TypeOK, InvocationsTyped, WriteMarker, Goto, Nowhere, AtPlan, AtPool
<1>5. WorkerKnows'
  BY StageAssumption
     DEF IInv, WorkerKnows, TypeOK, FilesTyped, OneOwner, ShardWhole, WriteMarker, Goto, AtWorker
<1>6. SealsHold'
  BY StageAssumption, RecordsKept
     DEF IInv, SealsHold, TypeOK, InvocationsTyped, JobFits, WorkerKnows, ShardWhole,
         SealVerified, WriteMarker
<1>7. FinalizeKnows'
  BY DEF IInv, FinalizeKnows, AllSealed, Whole, WriteMarker, Goto, AtPool
<1>8. PoolSealed'
  BY DEF IInv, PoolSealed, AllSealed, WriteMarker
<1>9. NoPartialPool'
  BY DEF IInv, NoPartialPool, Whole, WriteMarker
<1> QED BY <1>1, <1>2, <1>3, <1>4, <1>5, <1>6, <1>7, <1>8, <1>9 DEF IInv, TypeOK

LEMMA CommitMarkerKeeps ==
  ASSUME IInv, NEW i \in Invocation, CommitMarker(i) PROVE IInv'
<1>1. FilesTyped'
  <2>1. job[i] \in Shard
    BY DEF IInv, JobFits, CommitMarker, AtWorker
  <2>2. Record(job[i]) \in [TasksOf(job[i]) -> Content]
    BY DEF IInv, TypeOK, FilesTyped, WorkerKnows, CommitMarker, ShardWhole, TasksOf, Record, Group
  <2>3. marker' \in [Shard -> {None} \cup UNION { [TasksOf(s) -> Content] : s \in Shard }]
    BY <2>2 DEF IInv, TypeOK, FilesTyped, CommitMarker
  <2>4. uncommitted' \in [Shard -> {"absent", "torn", "written"}]
    BY DEF IInv, TypeOK, FilesTyped, CommitMarker, Committed
  <2> QED BY <2>3, <2>4 DEF IInv, TypeOK, FilesTyped, CommitMarker
<1>2. InvocationsTyped'
  BY DEF IInv, InvocationsTyped, TypeOK, CommitMarker, Exit
<1>3. OneOwner'
  BY DEF IInv, OneOwner, CommitMarker, Exit
<1>4. JobFits'
  BY DEF IInv, JobFits, TypeOK, InvocationsTyped, CommitMarker, Exit, Nowhere, AtWorker, AtPlan,
         AtPool
<1>5. WorkerKnows'
  BY StageAssumption
     DEF IInv, WorkerKnows, TypeOK, FilesTyped, InvocationsTyped, OneOwner, ShardWhole,
         CommitMarker, Exit, Nowhere, AtWorker
<1>6. SealsHold'
  BY RecordsKept
     DEF IInv, SealsHold, TypeOK, FilesTyped, WorkerKnows, ShardWhole, SealVerified, CommitMarker,
         Committed
<1>7. FinalizeKnows'
  BY StageAssumption
     DEF IInv, FinalizeKnows, TypeOK, InvocationsTyped, OneOwner, JobFits, WorkerKnows, SealsHold,
         SealVerified, AllSealed, CommitMarker, Exit, Nowhere, AtPool
<1>8. PoolSealed'
  <2>1. marker[job[i]] = None /\ job[i] \in Shard
    BY DEF IInv, JobFits, WorkerKnows, CommitMarker, AtWorker
  <2> QED BY <2>1 DEF IInv, PoolSealed, AllSealed, CommitMarker
<1>9. NoPartialPool'
  BY DEF IInv, NoPartialPool, Whole, CommitMarker
<1> QED BY <1>1, <1>2, <1>3, <1>4, <1>5, <1>6, <1>7, <1>8, <1>9 DEF IInv, TypeOK

LEMMA AssembleKeeps ==
  ASSUME IInv, NEW i \in Invocation, Assemble(i) PROVE IInv'
<1>1. FilesTyped'
  <2>1. NewTransaction \in Directory
    BY DEF NewTransaction, Unsampled, Directory, Group
  <2>2. transaction' \in Directory \cup {None}
    BY <2>1 DEF IInv, TypeOK, FilesTyped, Assemble
  <2> QED BY <2>2 DEF IInv, TypeOK, FilesTyped, Assemble
<1>2. InvocationsTyped'
  BY DEF IInv, InvocationsTyped, TypeOK, Assemble, Then, Exit, Goto, AtPool
<1>3. OneOwner'
  BY DEF IInv, OneOwner, TypeOK, InvocationsTyped, Assemble, Then, Exit, Goto
<1>4. JobFits'
  BY DEF IInv, JobFits, TypeOK, InvocationsTyped, Assemble, Then, Exit, Goto, Nowhere, AtWorker,
         AtPlan, AtPool
<1>5. WorkerKnows'
  BY DEF IInv, WorkerKnows, TypeOK, InvocationsTyped, ShardWhole, Assemble, Then, Exit, Goto,
         Nowhere, AtWorker
<1>6. SealsHold'
  BY SealsKept DEF IInv, Assemble
<1>7. FinalizeKnows'
  BY StageAssumption
     DEF IInv, FinalizeKnows, TypeOK, InvocationsTyped, OneOwner, JobFits, SealVerified,
         AllSealed, Whole, Assemble, Exit, Goto, Nowhere, AtPool
<1>8. PoolSealed'
  BY DEF IInv, PoolSealed, AllSealed, Assemble
<1>9. NoPartialPool'
  BY DEF IInv, NoPartialPool, Whole, Assemble
<1> QED BY <1>1, <1>2, <1>3, <1>4, <1>5, <1>6, <1>7, <1>8, <1>9 DEF IInv, TypeOK

LEMMA LinkGroupKeeps ==
  ASSUME IInv, NEW i \in Invocation, LinkGroup(i) PROVE IInv'
<1>1. FilesTyped'
  <2>1. PICK t \in Task : transaction' = [transaction EXCEPT !.groups[t] = groups[t]]
    BY DEF LinkGroup, Edit
  <2>2. transaction \in Directory
    BY DEF IInv, TypeOK, FilesTyped, LinkGroup
  <2>3. transaction.groups \in [Task -> Group] /\ groups \in [Task -> Group]
    BY <2>2 DEF IInv, TypeOK, FilesTyped, Directory
  <2>4. transaction' = [transaction EXCEPT !.groups = [transaction.groups EXCEPT ![t] = groups[t]]]
    BY <2>1
  <2>5. transaction' \in Directory
    BY <2>2, <2>3, <2>4 DEF Directory
  <2> QED BY <2>5 DEF IInv, TypeOK, FilesTyped, LinkGroup, Edit
<1>2. InvocationsTyped'
  BY DEF IInv, InvocationsTyped, TypeOK, LinkGroup, Then, Exit, Goto, Job, Nowhere, AtWorker,
         AtPlan, AtPool, files
<1>3. OneOwner'
  BY DEF IInv, OneOwner, TypeOK, InvocationsTyped, LinkGroup, Then, Exit, Goto
<1>4. JobFits'
  BY DEF IInv, JobFits, TypeOK, InvocationsTyped, LinkGroup, Then, Exit, Goto, Nowhere, AtWorker,
         AtPlan, AtPool
<1>5. WorkerKnows'
  BY DEF IInv, WorkerKnows, TypeOK, InvocationsTyped, ShardWhole, LinkGroup, Then, Edit, Exit,
         Goto, Nowhere, AtWorker
<1>6. SealsHold'
  BY SealsKept DEF IInv, LinkGroup, Edit
<1>7. FinalizeKnows'
  BY StageAssumption
     DEF IInv, FinalizeKnows, TypeOK, InvocationsTyped, OneOwner, JobFits, AllSealed, TasksOf,
         LinkGroup, Then, Edit, Exit, Goto, Nowhere, AtWorker, AtPlan
<1>8. PoolSealed'
  BY DEF IInv, PoolSealed, AllSealed, LinkGroup, Edit
<1>9. NoPartialPool'
  BY DEF IInv, NoPartialPool, Whole, LinkGroup, Edit
<1> QED BY <1>1, <1>2, <1>3, <1>4, <1>5, <1>6, <1>7, <1>8, <1>9 DEF IInv, TypeOK

LEMMA WriteRowsKeeps ==
  ASSUME IInv, NEW i \in Invocation, WriteRows(i) PROVE IInv'
<1>1. FilesTyped'
  BY DEF IInv, FilesTyped, TypeOK, Directory, WriteRows, Edit
<1>2. InvocationsTyped'
  BY DEF IInv, InvocationsTyped, TypeOK, WriteRows, Goto, AtPool
<1>3. OneOwner'
  BY DEF IInv, OneOwner, WriteRows, Goto
<1>4. JobFits'
  BY DEF IInv, JobFits, TypeOK, InvocationsTyped, WriteRows, Goto, Nowhere, AtWorker
<1>5. WorkerKnows'
  BY DEF IInv, WorkerKnows, ShardWhole, WriteRows, Edit, Goto, AtWorker
<1>6. SealsHold'
  BY SealsKept DEF IInv, WriteRows, Edit
<1>7. FinalizeKnows'
  BY StageAssumption
     DEF IInv, FinalizeKnows, TypeOK, InvocationsTyped, OneOwner, JobFits, AllSealed, Whole,
         WriteRows, Edit, Goto, Nowhere, AtWorker, AtPlan
<1>8. PoolSealed'
  BY DEF IInv, PoolSealed, AllSealed, WriteRows, Edit
<1>9. NoPartialPool'
  BY DEF IInv, NoPartialPool, Whole, WriteRows, Edit
<1> QED BY <1>1, <1>2, <1>3, <1>4, <1>5, <1>6, <1>7, <1>8, <1>9 DEF IInv, TypeOK

LEMMA InstallRowsKeeps ==
  ASSUME IInv, NEW i \in Invocation, InstallRows(i) PROVE IInv'
<1>1. FilesTyped'
  BY DEF IInv, FilesTyped, TypeOK, Directory, InstallRows, Edit
<1>2. InvocationsTyped'
  BY DEF IInv, InvocationsTyped, TypeOK, InstallRows, Goto, AtPool
<1>3. OneOwner'
  BY DEF IInv, OneOwner, InstallRows, Goto
<1>4. JobFits'
  BY DEF IInv, JobFits, TypeOK, InvocationsTyped, InstallRows, Goto, Nowhere, AtWorker
<1>5. WorkerKnows'
  BY DEF IInv, WorkerKnows, ShardWhole, InstallRows, Edit, Goto, AtWorker
<1>6. SealsHold'
  BY SealsKept DEF IInv, InstallRows, Edit
<1>7. FinalizeKnows'
  BY StageAssumption
     DEF IInv, FinalizeKnows, TypeOK, InvocationsTyped, OneOwner, JobFits, AllSealed, InstallRows,
         Edit, Goto, Nowhere, AtWorker, AtPlan
<1>8. PoolSealed'
  BY DEF IInv, PoolSealed, AllSealed, InstallRows, Edit
<1>9. NoPartialPool'
  BY DEF IInv, NoPartialPool, Whole, InstallRows, Edit
<1> QED BY <1>1, <1>2, <1>3, <1>4, <1>5, <1>6, <1>7, <1>8, <1>9 DEF IInv, TypeOK

LEMMA OpenManifestKeeps ==
  ASSUME IInv, NEW i \in Invocation, OpenManifest(i) PROVE IInv'
<1>1. FilesTyped'
  BY DEF IInv, FilesTyped, TypeOK, Directory, OpenManifest, Edit
<1>2. InvocationsTyped'
  BY DEF IInv, InvocationsTyped, TypeOK, OpenManifest, Goto, AtPool
<1>3. OneOwner'
  BY DEF IInv, OneOwner, OpenManifest, Goto
<1>4. JobFits'
  BY DEF IInv, JobFits, TypeOK, InvocationsTyped, OpenManifest, Goto, Nowhere, AtWorker
<1>5. WorkerKnows'
  BY DEF IInv, WorkerKnows, ShardWhole, OpenManifest, Edit, Goto, AtWorker
<1>6. SealsHold'
  BY SealsKept DEF IInv, OpenManifest, Edit
<1>7. FinalizeKnows'
  BY StageAssumption
     DEF IInv, FinalizeKnows, TypeOK, InvocationsTyped, OneOwner, JobFits, AllSealed, Whole,
         OpenManifest, Edit, Goto, Nowhere, AtWorker, AtPlan
<1>8. PoolSealed'
  BY DEF IInv, PoolSealed, AllSealed, OpenManifest, Edit
<1>9. NoPartialPool'
  BY DEF IInv, NoPartialPool, Whole, OpenManifest, Edit
<1> QED BY <1>1, <1>2, <1>3, <1>4, <1>5, <1>6, <1>7, <1>8, <1>9 DEF IInv, TypeOK

LEMMA WriteManifestKeeps ==
  ASSUME IInv, NEW i \in Invocation, WriteManifest(i) PROVE IInv'
<1>1. FilesTyped'
  BY DEF IInv, FilesTyped, TypeOK, Directory, WriteManifest, Edit
<1>2. InvocationsTyped'
  BY DEF IInv, InvocationsTyped, TypeOK, WriteManifest, Then, Exit, Goto, AtPool
<1>3. OneOwner'
  BY DEF IInv, OneOwner, TypeOK, InvocationsTyped, WriteManifest, Then, Exit, Goto
<1>4. JobFits'
  BY DEF IInv, JobFits, TypeOK, InvocationsTyped, WriteManifest, Then, Exit, Goto, Nowhere,
         AtWorker, AtPlan, AtPool
<1>5. WorkerKnows'
  BY DEF IInv, WorkerKnows, TypeOK, InvocationsTyped, ShardWhole, WriteManifest, Then, Edit, Exit,
         Goto, Nowhere, AtWorker
<1>6. SealsHold'
  BY SealsKept DEF IInv, WriteManifest, Edit
<1>7. FinalizeKnows'
  BY StageAssumption
     DEF IInv, FinalizeKnows, TypeOK, InvocationsTyped, OneOwner, JobFits, AllSealed,
         WriteManifest, Then, Edit, Exit, Goto, Nowhere, AtWorker, AtPlan
<1>8. PoolSealed'
  BY DEF IInv, PoolSealed, AllSealed, WriteManifest, Edit
<1>9. NoPartialPool'
  BY DEF IInv, NoPartialPool, Whole, WriteManifest, Edit
<1> QED BY <1>1, <1>2, <1>3, <1>4, <1>5, <1>6, <1>7, <1>8, <1>9 DEF IInv, TypeOK

LEMMA CheckPoolKeeps ==
  ASSUME IInv, NEW i \in Invocation, CheckPool(i) PROVE IInv'
<1>1. FilesTyped'
  BY DEF IInv, FilesTyped, TypeOK, CheckPool, files
<1>2. InvocationsTyped'
  BY DEF IInv, InvocationsTyped, TypeOK, CheckPool, Then, Exit, Goto, AtPool
<1>3. OneOwner'
  BY DEF IInv, OneOwner, TypeOK, InvocationsTyped, CheckPool, Then, Exit, Goto
<1>4. JobFits'
  BY DEF IInv, JobFits, TypeOK, InvocationsTyped, CheckPool, Then, Exit, Goto, Nowhere, AtWorker,
         AtPlan, AtPool
<1>5. WorkerKnows'
  BY DEF IInv, WorkerKnows, TypeOK, InvocationsTyped, ShardWhole, CheckPool, Then, Exit, Goto,
         Nowhere, AtWorker, files
<1>6. SealsHold'
  BY SealsKept DEF IInv, CheckPool, files
<1>7. FinalizeKnows'
  BY DEF IInv, FinalizeKnows, TypeOK, InvocationsTyped, AllSealed, Whole, CheckPool, Exit,
         Nowhere, AtWorker, AtPlan, files
<1>8. PoolSealed'
  BY DEF IInv, PoolSealed, AllSealed, CheckPool, files
<1>9. NoPartialPool'
  BY DEF IInv, NoPartialPool, Whole, CheckPool, files
<1> QED BY <1>1, <1>2, <1>3, <1>4, <1>5, <1>6, <1>7, <1>8, <1>9 DEF IInv, TypeOK

LEMMA PublishPoolKeeps ==
  ASSUME IInv, NEW i \in Invocation, PublishPool(i) PROVE IInv'
<1>1. FilesTyped'
  BY DEF IInv, FilesTyped, TypeOK, PublishPool
<1>2. InvocationsTyped'
  BY DEF IInv, InvocationsTyped, TypeOK, PublishPool, Exit
<1>3. OneOwner'
  BY DEF IInv, OneOwner, PublishPool, Exit
<1>4. JobFits'
  BY DEF IInv, JobFits, TypeOK, InvocationsTyped, PublishPool, Exit, Nowhere, AtWorker, AtPlan,
         AtPool
<1>5. WorkerKnows'
  BY DEF IInv, WorkerKnows, ShardWhole, PublishPool, Exit, Nowhere, AtWorker
<1>6. SealsHold'
  BY SealsKept DEF IInv, PublishPool
<1>7. FinalizeKnows'
  BY StageAssumption
     DEF IInv, FinalizeKnows, TypeOK, InvocationsTyped, OneOwner, JobFits, AllSealed, PublishPool,
         Exit, Nowhere, AtWorker, AtPlan
<1>8. PoolSealed'
  BY DEF IInv, PoolSealed, TypeOK, InvocationsTyped, FinalizeKnows, AllSealed, PublishPool,
         Nowhere, AtWorker, AtPlan
<1>9. NoPartialPool'
  BY DEF IInv, NoPartialPool, FinalizeKnows, Whole, PublishPool
<1> QED BY <1>1, <1>2, <1>3, <1>4, <1>5, <1>6, <1>7, <1>8, <1>9 DEF IInv, TypeOK

LEMMA LaunchKeeps ==
  ASSUME IInv, NEW i \in Invocation, NEW j \in Job, Launch(i, j) PROVE IInv'
<1>1. FilesTyped'
  BY DEF IInv, FilesTyped, TypeOK, Launch, files
<1>2. InvocationsTyped'
  BY DEF IInv, InvocationsTyped, TypeOK, Launch, AtWorker, AtPlan, AtPool
<1>3. OneOwner'
  BY DEF IInv, OneOwner, Launch, Locked
<1>4. JobFits'
  BY StageAssumption
     DEF IInv, JobFits, TypeOK, InvocationsTyped, Launch, Job, AtWorker, AtPlan, AtPool
<1>5. WorkerKnows'
  BY DEF IInv, WorkerKnows, TypeOK, InvocationsTyped, ShardWhole, Launch, AtWorker, files
<1>6. SealsHold'
  BY SealsKept DEF IInv, Launch, files
<1>7. FinalizeKnows'
  BY DEF IInv, FinalizeKnows, AllSealed, Whole, Launch, AtPool, files
<1>8. PoolSealed'
  BY DEF IInv, PoolSealed, AllSealed, Launch, files
<1>9. NoPartialPool'
  BY DEF IInv, NoPartialPool, Whole, Launch, files
<1> QED BY <1>1, <1>2, <1>3, <1>4, <1>5, <1>6, <1>7, <1>8, <1>9 DEF IInv, TypeOK

LEMMA CrashKeeps ==
  ASSUME IInv, NEW i \in Invocation, Crash(i) PROVE IInv'
<1>1. FilesTyped'
  BY DEF IInv, FilesTyped, TypeOK, Crash, files
<1>2. InvocationsTyped'
  BY StageAssumption DEF IInv, InvocationsTyped, TypeOK, Crash
<1>3. OneOwner'
  BY DEF IInv, OneOwner, Crash
<1>4. JobFits'
  BY DEF IInv, JobFits, TypeOK, InvocationsTyped, Crash, Nowhere, AtWorker, AtPlan, AtPool
<1>5. WorkerKnows'
  BY DEF IInv, WorkerKnows, TypeOK, InvocationsTyped, ShardWhole, Crash, Nowhere, AtWorker, files
<1>6. SealsHold'
  BY SealsKept DEF IInv, Crash, files
<1>7. FinalizeKnows'
  BY DEF IInv, FinalizeKnows, AllSealed, Whole, Crash, Nowhere, AtPool, files
<1>8. PoolSealed'
  BY DEF IInv, PoolSealed, AllSealed, Crash, files
<1>9. NoPartialPool'
  BY DEF IInv, NoPartialPool, Whole, Crash, files
<1> QED BY <1>1, <1>2, <1>3, <1>4, <1>5, <1>6, <1>7, <1>8, <1>9 DEF IInv, TypeOK

LEMMA KillShellKeeps ==
  ASSUME IInv, NEW i \in Invocation, KillShell(i) PROVE IInv'
<1>1. FilesTyped'
  BY DEF IInv, FilesTyped, TypeOK, KillShell, files
<1>2. InvocationsTyped'
  BY StageAssumption DEF IInv, InvocationsTyped, TypeOK, KillShell
<1>3. OneOwner'
  BY DEF IInv, OneOwner, KillShell
<1>4. JobFits'
  BY DEF IInv, JobFits, KillShell
<1>5. WorkerKnows'
  BY DEF IInv, WorkerKnows, ShardWhole, KillShell, files
<1>6. SealsHold'
  BY SealsKept DEF IInv, KillShell, files
<1>7. FinalizeKnows'
  BY DEF IInv, FinalizeKnows, AllSealed, Whole, KillShell, files
<1>8. PoolSealed'
  BY DEF IInv, PoolSealed, AllSealed, KillShell, files
<1>9. NoPartialPool'
  BY DEF IInv, NoPartialPool, Whole, KillShell, files
<1> QED BY <1>1, <1>2, <1>3, <1>4, <1>5, <1>6, <1>7, <1>8, <1>9 DEF IInv, TypeOK

LEMMA InitHolds == ASSUME Init PROVE IInv
<1>1. TypeOK
  BY StageAssumption DEF Init, TypeOK, FilesTyped, InvocationsTyped, Unsampled, Group
<1>2. OneOwner /\ JobFits /\ WorkerKnows /\ FinalizeKnows
  BY DEF Init, OneOwner, JobFits, WorkerKnows, FinalizeKnows, Nowhere, AtWorker, AtPlan, AtPool
<1>3. SealsHold /\ PoolSealed /\ NoPartialPool
  BY DEF Init, SealsHold, PoolSealed, NoPartialPool
<1> QED BY <1>1, <1>2, <1>3 DEF IInv

LEMMA StepHolds == ASSUME IInv, [Next]_vars PROVE IInv'
<1>1. CASE UNCHANGED vars
  <2>1. TypeOK'
    BY <1>1 DEF vars, files, IInv, TypeOK, FilesTyped, InvocationsTyped
  <2>2. OneOwner' /\ JobFits' /\ WorkerKnows' /\ FinalizeKnows'
    BY <1>1
       DEF vars, files, IInv, OneOwner, JobFits, WorkerKnows, FinalizeKnows, ShardWhole,
           AllSealed, Whole
  <2>3. SealsHold' /\ PoolSealed' /\ NoPartialPool'
    BY <1>1, SealsKept DEF vars, files, IInv, PoolSealed, AllSealed, NoPartialPool, Whole
  <2> QED BY <2>1, <2>2, <2>3 DEF IInv
<1>2. CASE \E i \in Invocation : Run(i)
  BY <1>2, WritePlanKeeps, FlushPlanKeeps, FreezePlanKeeps, ResumeKeeps, GenerateKeeps,
     ReplaceGroupKeeps, VerifyWorkerKeeps, WriteMarkerKeeps, CommitMarkerKeeps, AssembleKeeps,
     LinkGroupKeeps, WriteRowsKeeps, InstallRowsKeeps, OpenManifestKeeps, WriteManifestKeeps,
     CheckPoolKeeps, PublishPoolKeeps
     DEF Run
<1>3. CASE \E i \in Invocation : (\E j \in Job : Launch(i, j)) \/ Crash(i) \/ KillShell(i)
  BY <1>3, LaunchKeeps, CrashKeeps, KillShellKeeps
<1> QED BY <1>1, <1>2, <1>3 DEF Next

\* A job has one owner, what its owner has found out stays true, and the seals and
\* the pool hold, in every state of a stage.
THEOREM InvariantHolds == Spec => []IInv
<1>1. Init => IInv
  BY InitHolds
<1>2. IInv /\ [Next]_vars => IInv'
  BY StepHolds
<1> QED BY <1>1, <1>2, PTL DEF Spec

\* Every file and every invocation keeps its type, crashes included.
THEOREM Typed == Spec => []TypeOK
<1>1. IInv => TypeOK
  BY DEF IInv
<1> QED BY <1>1, InvariantHolds, PTL

\* No reader ever finds a pool without all groups, their rows and the manifest
\* of those rows, whichever invocations ran and died before
\* (prepare_pool_transaction, publish_pool).
THEOREM PoolNeverPartial == Spec => []NoPartialPool
<1>1. IInv => NoPartialPool
  BY DEF IInv
<1> QED BY <1>1, InvariantHolds, PTL

\* What is started on a sealed shard leaves it as its marker says
\* (run_worker, complete_worker).
THEOREM SealsAlwaysHold == Spec => []SealsHold
<1>1. IInv => SealsHold
  BY DEF IInv
<1> QED BY <1>1, InvariantHolds, PTL

-----------------------------------------------------------------------------
(***************************************************************************)
(* The refinement: a step is a step of FixedPool, or changes no group, no  *)
(* seal and no pool.                                                       *)
(***************************************************************************)
abstract == <<groups, SealedShards, PublishedRows>>

LEMMA SealedKept ==
  ASSUME UNCHANGED <<groups, marker>> PROVE SealedShards' = SealedShards
  BY DEF SealedShards, Record

LEMMA PublishedKept ==
  ASSUME UNCHANGED <<groups, pool>> PROVE PublishedRows' = PublishedRows
  BY DEF PublishedRows, Whole

\* The group a worker moves into place is the first of its task, and its shard
\* is not sealed.
LEMMA ReplaceRefines ==
  ASSUME IInv, NEW i \in Invocation, ReplaceGroup(i) PROVE Stage!FixedPoolNext
<1>1. PICK t \in TasksOf(job[i]) :
        partial[t] # None /\ groups' = [groups EXCEPT ![t] = partial[t]]
  BY DEF ReplaceGroup
<1>2. job[i] \in Shard /\ marker[job[i]] = None
  BY DEF IInv, JobFits, WorkerKnows, ReplaceGroup, AtWorker
<1>3. t \in Task /\ groups[t] = None /\ partial[t] \in Content
  BY <1>1 DEF IInv, TypeOK, FilesTyped, WorkerKnows, ReplaceGroup, TasksOf, Group
<1>4. SealedShards' = SealedShards
  <2>1. ASSUME NEW s \in Shard, s # job[i] PROVE Record(s)' = Record(s)
    BY <1>1, <2>1, RecordsKept DEF TasksOf
  <2> QED BY <1>2, <2>1 DEF SealedShards, ReplaceGroup
<1>5. PublishedRows' = PublishedRows
  BY <1>2 DEF IInv, PoolSealed, AllSealed, PublishedRows, ReplaceGroup
<1>6. Stage!Sample(t)
  BY <1>1, <1>3, <1>4, <1>5 DEF Stage!Sample
<1> QED BY <1>3, <1>6 DEF Stage!FixedPoolNext

LEMMA CommitRefines ==
  ASSUME IInv, NEW i \in Invocation, CommitMarker(i)
  PROVE  Stage!FixedPoolNext \/ UNCHANGED abstract
<1> DEFINE s == job[i]
<1>1. s \in Shard /\ marker[s] = None /\ ShardWhole(s)
  BY DEF IInv, JobFits, WorkerKnows, CommitMarker, AtWorker
<1>2. UNCHANGED <<groups, pool>> /\ marker' = [marker EXCEPT ![s] = Record(s)]
  BY DEF CommitMarker
<1>3. PublishedRows' = PublishedRows
  BY <1>2, PublishedKept
<1>4. \A r \in Shard : Record(r)' = Record(r)
  BY <1>2 DEF Record
<1>5. CASE Record(s) = None
  <2>1. marker' = marker
    BY <1>1, <1>2, <1>5 DEF IInv, TypeOK, FilesTyped
  <2> QED BY <1>2, <1>3, <2>1, SealedKept DEF abstract
<1>6. CASE Record(s) # None
  <2>1. SealedShards' = SealedShards \cup {s}
    BY <1>1, <1>2, <1>4, <1>6 DEF IInv, TypeOK, FilesTyped, SealedShards
  <2>2. Stage!Seal(s)
    BY <1>1, <1>2, <1>3, <2>1 DEF Stage!Seal, ShardWhole, TasksOf, SealedShards
  <2> QED BY <1>1, <2>2 DEF Stage!FixedPoolNext
<1> QED BY <1>5, <1>6

LEMMA PublishRefines ==
  ASSUME IInv, NEW i \in Invocation, PublishPool(i) PROVE Stage!FixedPoolNext
<1>1. AllSealed /\ Whole(transaction)
  BY DEF IInv, FinalizeKnows, PublishPool, AtPool
<1>2. SealedShards = Shard
  BY <1>1 DEF IInv, SealsHold, SealVerified, AllSealed, SealedShards
<1>3. PublishedRows = None
  BY DEF PublishPool, PublishedRows
<1>4. PublishedRows' = groups
  BY <1>1 DEF PublishPool, PublishedRows, Whole
<1>5. SealedShards' = SealedShards
  BY SealedKept DEF PublishPool
<1>6. Stage!Publish
  BY <1>2, <1>3, <1>4, <1>5 DEF Stage!Publish, PublishPool
<1> QED BY <1>6 DEF Stage!FixedPoolNext

LEMMA OthersStutter == ASSUME UNCHANGED <<groups, marker, pool>> PROVE UNCHANGED abstract
  BY SealedKept, PublishedKept DEF abstract

LEMMA StepRefines ==
  ASSUME IInv, [Next]_vars PROVE [Stage!FixedPoolNext]_abstract
<1>1. CASE UNCHANGED vars
  BY <1>1, OthersStutter DEF vars, files
<1>2. ASSUME NEW i \in Invocation, ReplaceGroup(i) \/ CommitMarker(i) \/ PublishPool(i)
      PROVE  Stage!FixedPoolNext \/ UNCHANGED abstract
  BY <1>2, ReplaceRefines, CommitRefines, PublishRefines
<1>3. ASSUME NEW i \in Invocation,
             \/ WritePlan(i) \/ FlushPlan(i) \/ FreezePlan(i) \/ Resume(i) \/ Generate(i)
             \/ VerifyWorker(i) \/ WriteMarker(i) \/ Assemble(i) \/ LinkGroup(i) \/ WriteRows(i)
             \/ InstallRows(i) \/ OpenManifest(i) \/ WriteManifest(i) \/ CheckPool(i)
      PROVE  UNCHANGED <<groups, marker, pool>>
  BY <1>3
     DEF WritePlan, FlushPlan, FreezePlan, Resume, Generate, VerifyWorker, WriteMarker, Assemble,
         LinkGroup, WriteRows, InstallRows, OpenManifest, WriteManifest, CheckPool, Edit, files
<1>4. ASSUME NEW i \in Invocation, (\E j \in Job : Launch(i, j)) \/ Crash(i) \/ KillShell(i)
      PROVE  UNCHANGED <<groups, marker, pool>>
  BY <1>4 DEF Launch, Crash, KillShell, files
<1> QED BY <1>1, <1>2, <1>3, <1>4, OthersStutter DEF Next, Run

LEMMA InitRefines == ASSUME Init PROVE Stage!FixedPoolInit
  BY DEF Init, Stage!FixedPoolInit, Unsampled, SealedShards, PublishedRows

\* For any shards, invocations and crashes: a task is sampled once, a shard
\* sealed once, and the pool published once, as it was sampled
\* (run_worker, finalize_stage and the programs they start).
THEOREM StageIsFixedPool == Spec => KeepsFixedPool
<1>1. Init => Stage!FixedPoolInit
  BY InitRefines
<1>2. IInv /\ [Next]_vars => [Stage!FixedPoolNext]_<<groups, SealedShards, PublishedRows>>
  BY StepRefines DEF abstract
<1> QED BY <1>1, <1>2, InvariantHolds, PTL DEF Spec, KeepsFixedPool, Stage!FixedPoolSpec

-----------------------------------------------------------------------------
(***************************************************************************)
(* What a running program was left by the one before it.                   *)
(***************************************************************************)
Found(i) ==
  /\ at[i] = "flush" => \E j \in Job : plan[j] = "torn"
  /\ at[i] = "freeze" => \E j \in Job : plan[j] = "written"
  /\ at[i] = "replace" => \E t \in TasksOf(job[i]) : partial[t] # None
  /\ at[i] = "mark" => uncommitted[job[i]] = "torn"
  /\ at[i] = "commit" => uncommitted[job[i]] = "written"
  /\ at[i] \in AtPool \ {"assemble"} => transaction # None /\ pool = None
  /\ at[i] = "link" /\ Task # {} => \E t \in Task : transaction.groups[t] = None

\* No program of an invocation finds the temporary file, the transaction or the
\* free canonical path it relies on taken away: not by a second invocation, and
\* not by the program that survived a killed shell.
FilesFound == \A i \in Invocation : Found(i)

\* An invocation of another job changes nothing of that.
LEMMA OthersFound ==
  ASSUME IInv, FilesFound, NEW i \in Invocation, NEW k \in Invocation, k # i, job[i] # None,
         at'[k] = at[k], job'[k] = job[k],
         job[i] # Control => UNCHANGED <<plan, transaction, pool>>,
         \A t \in Task : ShardOf[t] # job[i] => partial'[t] = partial[t],
         \A s \in Shard : s # job[i] => uncommitted'[s] = uncommitted[s]
  PROVE  Found(k)'
<1>1. job[k] # job[i]
  BY DEF IInv, OneOwner
<1>2. Found(k)
  BY DEF FilesFound
<1>3. CASE at[k] \in AtWorker
  <2>1. job[k] \in Shard /\ \A t \in TasksOf(job[k]) : partial'[t] = partial[t]
    BY <1>1, <1>3 DEF IInv, JobFits, TasksOf
  <2> QED BY <1>1, <1>2, <1>3, <2>1 DEF Found, AtWorker, AtPool, TasksOf
<1>4. CASE at[k] \in AtPlan \cup AtPool
  <2>1. job[k] = Control
    BY <1>4 DEF IInv, JobFits
  <2> QED BY <1>1, <1>2, <1>4, <2>1 DEF Found, AtPlan, AtPool
<1>5. CASE at[k] = Nowhere
  BY <1>5 DEF Found, Nowhere, AtPool
<1> QED BY <1>3, <1>4, <1>5 DEF IInv, TypeOK, InvocationsTyped

\* A place that relies on nothing.
LEMMA NothingToFind ==
  ASSUME NEW i \in Invocation,
         at'[i] \in {Nowhere, "write", "resume", "generate", "verify", "assemble"}
  PROVE  Found(i)'
  BY DEF Found, Nowhere, AtPool

LEMMA PlanFound ==
  ASSUME IInv, FilesFound, NEW i \in Invocation, WritePlan(i) \/ FlushPlan(i) \/ FreezePlan(i)
  PROVE  FilesFound'
<1>1. job[i] = Control /\ Control # None
  BY StageAssumption DEF IInv, JobFits, AtPlan, WritePlan, FlushPlan, FreezePlan
<1>2. Found(i)'
  <2>1. CASE WritePlan(i)
    <3>1. PICK j \in Job :
            \/ plan' = [plan EXCEPT ![j] = "torn"] /\ Goto(i, "flush")
            \/ plan' = plan /\ plan[j] = "written" /\ Goto(i, "freeze")
            \/ Exit(i)
      BY <2>1 DEF WritePlan, ToWrite, Interrupted, Unassigned, Job
    <3> QED
      BY <3>1 DEF IInv, TypeOK, FilesTyped, InvocationsTyped, Found, Exit, Goto, Nowhere, AtPool
  <2>2. CASE FlushPlan(i)
    <3>1. PICK j \in Job : plan' = [plan EXCEPT ![j] = "written"]
      BY <2>2 DEF FlushPlan
    <3>2. plan'[j] = "written" /\ at'[i] = "freeze"
      BY <2>2, <3>1 DEF FlushPlan, Goto, IInv, TypeOK, FilesTyped, InvocationsTyped
    <3> QED BY <3>2 DEF Found, AtPool
  <2>3. CASE FreezePlan(i)
    <3>1. at'[i] \in {Nowhere, "write"}
      BY <2>3 DEF FreezePlan, Exit, Goto, IInv, TypeOK, InvocationsTyped
    <3> QED BY <3>1, NothingToFind
  <2> QED BY <2>1, <2>2, <2>3
<1>3. \A k \in Invocation \ {i} : at'[k] = at[k] /\ job'[k] = job[k]
  BY DEF IInv, TypeOK, InvocationsTyped, WritePlan, FlushPlan, FreezePlan, Exit, Goto
<1>4. UNCHANGED <<partial, uncommitted>>
  BY DEF WritePlan, FlushPlan, FreezePlan
<1> QED BY <1>1, <1>2, <1>3, <1>4, OthersFound DEF FilesFound

LEMMA WorkerFound ==
  ASSUME IInv, FilesFound, NEW i \in Invocation,
         \/ Resume(i) \/ Generate(i) \/ ReplaceGroup(i)
         \/ VerifyWorker(i) \/ WriteMarker(i) \/ CommitMarker(i)
  PROVE  FilesFound'
<1>1. job[i] \in Shard /\ job[i] # None
  BY StageAssumption
     DEF IInv, JobFits, AtWorker, Resume, Generate, ReplaceGroup, VerifyWorker, WriteMarker,
         CommitMarker
<1>2. \A k \in Invocation \ {i} : at'[k] = at[k] /\ job'[k] = job[k]
  BY DEF IInv, TypeOK, InvocationsTyped, Resume, Generate, ReplaceGroup, VerifyWorker,
         WriteMarker, CommitMarker, Then, Exit, Goto
<1>3. UNCHANGED <<plan, transaction, pool>>
  BY DEF Resume, Generate, ReplaceGroup, VerifyWorker, WriteMarker, CommitMarker
<1>4. \A t \in Task : ShardOf[t] # job[i] => partial'[t] = partial[t]
  BY DEF IInv, TypeOK, FilesTyped, TasksOf, Pending, Resume, Generate, ReplaceGroup, VerifyWorker,
         WriteMarker, CommitMarker
<1>5. \A s \in Shard : s # job[i] => uncommitted'[s] = uncommitted[s]
  BY DEF IInv, TypeOK, FilesTyped, Resume, Generate, ReplaceGroup, VerifyWorker, WriteMarker,
         CommitMarker
<1>6. ASSUME Resume(i) \/ ReplaceGroup(i) \/ CommitMarker(i) PROVE Found(i)'
  BY <1>6, NothingToFind
     DEF IInv, TypeOK, InvocationsTyped, Resume, ReplaceGroup, CommitMarker, Then, Exit, Goto
<1>7. ASSUME Generate(i) PROVE Found(i)'
  <2>1. CASE Pending(job[i]) = {}
    <3>1. at'[i] \in {"verify", Nowhere}
      BY <1>7, <2>1 DEF IInv, TypeOK, InvocationsTyped, Generate, Then, Exit, Goto
    <3> QED BY <3>1, NothingToFind
  <2>2. CASE Pending(job[i]) # {}
    <3>1. at'[i] = "replace" /\ job'[i] = job[i]
      BY <1>7, <2>2 DEF IInv, TypeOK, InvocationsTyped, Generate, Goto
    <3>2. PICK t \in Pending(job[i]), c \in Content : partial' = [partial EXCEPT ![t] = c]
      BY <1>7, <2>2 DEF Generate
    <3>3. t \in TasksOf(job[i]) /\ partial'[t] # None
      BY <3>2, StageAssumption DEF Pending, TasksOf, IInv, TypeOK, FilesTyped
    <3> QED BY <3>1, <3>3 DEF Found, TasksOf, AtPool
  <2> QED BY <2>1, <2>2
<1>8. ASSUME VerifyWorker(i) \/ WriteMarker(i) PROVE Found(i)'
  BY <1>1, <1>8
     DEF IInv, TypeOK, InvocationsTyped, FilesTyped, VerifyWorker, WriteMarker, Exit, Goto,
         Found, Nowhere, AtPool
<1>9. Found(i)'
  BY <1>6, <1>7, <1>8
<1> QED BY <1>1, <1>2, <1>3, <1>4, <1>5, <1>9, OthersFound DEF FilesFound

LEMMA FinalizeFound ==
  ASSUME IInv, FilesFound, NEW i \in Invocation,
         \/ Assemble(i) \/ LinkGroup(i) \/ WriteRows(i) \/ InstallRows(i)
         \/ OpenManifest(i) \/ WriteManifest(i) \/ CheckPool(i) \/ PublishPool(i)
  PROVE  FilesFound'
<1>1. job[i] = Control /\ Control # None /\ at[i] \in AtPool
  BY StageAssumption
     DEF IInv, JobFits, AtPool, Assemble, LinkGroup, WriteRows, InstallRows, OpenManifest,
         WriteManifest, CheckPool, PublishPool
<1>2. \A k \in Invocation \ {i} : at'[k] = at[k] /\ job'[k] = job[k]
  BY DEF IInv, TypeOK, InvocationsTyped, Assemble, LinkGroup, WriteRows, InstallRows, OpenManifest,
         WriteManifest, CheckPool, PublishPool, Then, Exit, Goto
<1>3. UNCHANGED <<partial, uncommitted>>
  BY DEF Assemble, LinkGroup, WriteRows, InstallRows, OpenManifest, WriteManifest, CheckPool,
         PublishPool, Edit, files
<1>4. Found(i)
  BY DEF FilesFound
<1>5. ASSUME Found(i)' PROVE FilesFound'
  BY <1>1, <1>2, <1>3, <1>5, OthersFound DEF FilesFound
<1>6. ASSUME at'[i] \in AtPool => at'[i] # "link" /\ transaction' # None /\ pool' = None,
             at'[i] \in AtPool \cup {Nowhere}
      PROVE  FilesFound'
  BY <1>5, <1>6 DEF Found, AtPool, Nowhere
<1>7. CASE Assemble(i)
  <2>1. CASE at'[i] = "link"
    <3>1. transaction' = NewTransaction /\ pool' = None
      BY <1>7, <2>1 DEF Assemble, Then, Exit, Goto, IInv, TypeOK, InvocationsTyped, Nowhere
    <3>2. transaction' # None /\ \A t \in Task : transaction'.groups[t] = None
      <4>1. Unsampled \in [Task -> Group] /\ \A t \in Task : Unsampled[t] = None
        BY DEF Unsampled, Group
      <4>2. NewTransaction \in Directory /\ NewTransaction.groups = Unsampled
        BY <4>1 DEF NewTransaction, Directory
      <4> QED BY <3>1, <4>1, <4>2, NoneAssumption
    <3> QED BY <1>5, <2>1, <3>1, <3>2 DEF Found, AtPool
  <2>2. CASE at'[i] # "link"
    <3>1. \/ at'[i] = Nowhere
          \/ at'[i] = "rows" /\ transaction' # None /\ pool' = None
      BY <1>7, <2>2 DEF Assemble, Then, Exit, Goto, IInv, TypeOK, InvocationsTyped
    <3> QED BY <1>6, <3>1 DEF AtPool, Nowhere
  <2> QED BY <2>1, <2>2
<1>8. CASE LinkGroup(i)
  <2>1. PICK t \in Task : transaction' = [transaction EXCEPT !.groups[t] = groups[t]]
                          /\ transaction.groups[t] = None
                          /\ IF \A u \in Task \ {t} : transaction.groups[u] # None
                               THEN Then(i, "rows") ELSE Goto(i, "link")
    BY <1>8 DEF LinkGroup, Edit
  <2>2. transaction \in Directory /\ pool' = None
    BY <1>4, <1>8 DEF LinkGroup, Edit, IInv, TypeOK, FilesTyped, Found, AtPool
  <2>3. /\ transaction' \in Directory
        /\ \A u \in Task \ {t} : transaction'.groups[u] = transaction.groups[u]
    BY <2>1, <2>2 DEF Directory, IInv, TypeOK, FilesTyped
  <2>4. transaction' # None
    BY <2>3, NoneAssumption
  <2>5. CASE \A u \in Task \ {t} : transaction.groups[u] # None
    <3>1. at'[i] \in {"rows", Nowhere}
      BY <2>1, <2>5 DEF Then, Exit, Goto, IInv, TypeOK, InvocationsTyped
    <3> QED BY <1>6, <2>2, <2>4, <3>1 DEF AtPool, Nowhere
  <2>6. CASE \E u \in Task \ {t} : transaction.groups[u] = None
    <3>1. at'[i] = "link"
      BY <2>1, <2>6 DEF Goto, IInv, TypeOK, InvocationsTyped
    <3> QED BY <1>5, <2>2, <2>3, <2>4, <2>6, <3>1 DEF Found, AtPool
  <2> QED BY <2>5, <2>6
<1>9. CASE WriteRows(i) \/ InstallRows(i) \/ OpenManifest(i) \/ WriteManifest(i)
  <2>1. transaction \in Directory /\ pool' = None
    BY <1>4, <1>9
       DEF WriteRows, InstallRows, OpenManifest, WriteManifest, Edit, IInv, TypeOK, FilesTyped,
           Found, AtPool
  <2>2. transaction' \in Directory
    BY <1>9, <2>1 DEF WriteRows, InstallRows, OpenManifest, WriteManifest, Edit, Directory
  <2>3. at'[i] \in {"install", "digest", "describe", "check", Nowhere}
    BY <1>9
       DEF WriteRows, InstallRows, OpenManifest, WriteManifest, Then, Exit, Goto, IInv, TypeOK,
           InvocationsTyped
  <2> QED BY <1>6, <2>1, <2>2, <2>3, NoneAssumption DEF AtPool, Nowhere
<1>10. CASE CheckPool(i)
  <2>1. transaction' # None /\ pool' = None
    BY <1>4, <1>10 DEF CheckPool, files, Found, AtPool
  <2>2. at'[i] \in {"publish", Nowhere}
    BY <1>10 DEF CheckPool, Then, Exit, Goto, IInv, TypeOK, InvocationsTyped
  <2> QED BY <1>6, <2>1, <2>2 DEF AtPool, Nowhere
<1>11. CASE PublishPool(i)
  <2>1. at'[i] = Nowhere
    BY <1>11 DEF PublishPool, Exit, IInv, TypeOK, InvocationsTyped
  <2> QED BY <1>6, <2>1 DEF AtPool, Nowhere
<1> QED BY <1>7, <1>8, <1>9, <1>10, <1>11

LEMMA OutsideFound ==
  ASSUME IInv, FilesFound, NEW i \in Invocation,
         (\E j \in Job : Launch(i, j)) \/ Crash(i) \/ KillShell(i)
  PROVE  FilesFound'
<1>1. UNCHANGED files
  BY DEF Launch, Crash, KillShell
<1>2. \A k \in Invocation \ {i} : at'[k] = at[k] /\ job'[k] = job[k]
  BY DEF IInv, TypeOK, InvocationsTyped, Launch, Crash, KillShell
<1>3. \/ at'[i] = at[i] /\ job'[i] = job[i]
      \/ at'[i] \in {Nowhere, "resume", "assemble", "write"}
  BY DEF IInv, TypeOK, InvocationsTyped, Launch, Crash, KillShell
<1>4. Found(i)'
  BY <1>1, <1>3, NothingToFind DEF FilesFound, Found, files
<1>5. \A k \in Invocation \ {i} : Found(k)'
  BY <1>1, <1>2 DEF FilesFound, Found, files
<1> QED BY <1>4, <1>5 DEF FilesFound

\* Every program finds what the one before it left (flock in run_worker,
\* complete_worker, prepare_pool_transaction, publish_pool).
THEOREM NothingTakenAway == Spec => []FilesFound
<1>1. Init => FilesFound
  BY DEF Init, FilesFound, Found, Nowhere, AtPool
<1>2. IInv /\ FilesFound /\ [Next]_vars => FilesFound'
  <2> SUFFICES ASSUME IInv, FilesFound, [Next]_vars PROVE FilesFound'
    OBVIOUS
  <2>1. CASE UNCHANGED vars
    BY <2>1 DEF vars, files, FilesFound, Found
  <2>2. CASE \E i \in Invocation : Run(i)
    BY <2>2, PlanFound, WorkerFound, FinalizeFound DEF Run
  <2>3. CASE \E i \in Invocation : (\E j \in Job : Launch(i, j)) \/ Crash(i) \/ KillShell(i)
    BY <2>3, OutsideFound
  <2> QED BY <2>1, <2>2, <2>3 DEF Next
<1> QED BY <1>1, <1>2, InvariantHolds, PTL DEF Spec

-----------------------------------------------------------------------------
(***************************************************************************)
(* The plan freezes the assignments.                                       *)
(***************************************************************************)
\* A plan, even a temporary of it, is there only when every assignment is, and
\* whoever samples or finalizes works by a plan that verifies.
PlanFreezes ==
  /\ plan[Control] # "absent" => \A s \in Shard : plan[s] = "frozen"
  /\ \A i \in Invocation : at[i] \in AtWorker \cup AtPool => PlanVerified

\* A file in its place is not written again.
LEMMA PlanSteps ==
  ASSUME IInv, PlanFreezes, NEW i \in Invocation, WritePlan(i) \/ FlushPlan(i) \/ FreezePlan(i)
  PROVE  /\ \A j \in Job : plan[j] = "frozen" => plan'[j] = "frozen"
         /\ plan'[Control] # "absent" => \A s \in Shard : plan'[s] = "frozen"
         /\ at'[i] \in AtPlan \cup {Nowhere}
<1> USE StageAssumption DEF IInv, TypeOK, FilesTyped, InvocationsTyped, PlanFreezes, Job
<1>1. CASE WritePlan(i)
  <2>1. PICK j \in ToWrite :
          \/ plan[j] = "absent" /\ plan' = [plan EXCEPT ![j] = "torn"] /\ Goto(i, "flush")
          \/ plan' = plan /\ (Goto(i, "freeze") \/ Exit(i))
    BY <1>1 DEF WritePlan
  <2>2. at'[i] \in AtPlan \cup {Nowhere}
    BY <2>1 DEF Goto, Exit, AtPlan
  <2>3. j \in Job /\ (j = Control => plan[j] # "absent" \/ Unassigned = {})
    BY <2>1 DEF ToWrite, Interrupted, Unassigned
  <2>4. CASE plan' = plan
    BY <2>2, <2>4
  <2>5. CASE plan[j] = "absent" /\ plan' = [plan EXCEPT ![j] = "torn"]
    <3>1. j = Control => \A s \in Shard : plan'[s] = "frozen"
      BY <2>3, <2>5 DEF Unassigned
    <3>2. j # Control => plan'[Control] = plan[Control] /\ plan[Control] = "absent"
      BY <2>3, <2>5
    <3> QED BY <2>2, <2>3, <2>5, <3>1, <3>2
  <2> QED BY <2>1, <2>4, <2>5
<1>2. CASE FlushPlan(i)
  <2>1. PICK j \in Job : plan[j] = "torn" /\ plan' = [plan EXCEPT ![j] = "written"]
    BY <1>2 DEF FlushPlan
  <2>2. at'[i] \in AtPlan \cup {Nowhere}
    BY <1>2 DEF FlushPlan, Goto, AtPlan
  <2> QED BY <2>1, <2>2
<1>3. CASE FreezePlan(i)
  <2>1. PICK j \in Job : plan[j] = "written" /\ plan' = [plan EXCEPT ![j] = "frozen"]
    BY <1>3 DEF FreezePlan
  <2>2. at'[i] \in AtPlan \cup {Nowhere}
    BY <1>3 DEF FreezePlan, Goto, Exit, AtPlan
  <2> QED BY <2>1, <2>2
<1> QED BY <1>1, <1>2, <1>3

LEMMA PlanFreezesStep ==
  ASSUME IInv, PlanFreezes, [Next]_vars
  PROVE  PlanFreezes'
<1>1. CASE UNCHANGED vars
  BY <1>1 DEF vars, files, PlanFreezes, PlanVerified
<1>2. ASSUME NEW i \in Invocation, WritePlan(i) \/ FlushPlan(i) \/ FreezePlan(i)
      PROVE  PlanFreezes'
  <2>1. \A k \in Invocation \ {i} : at'[k] = at[k]
    BY <1>2 DEF IInv, TypeOK, InvocationsTyped, WritePlan, FlushPlan, FreezePlan, Exit, Goto
  <2>2. at'[i] \notin AtWorker \cup AtPool
    BY <1>2, PlanSteps DEF AtPlan, AtWorker, AtPool, Nowhere
  <2> QED BY <1>2, <2>1, <2>2, PlanSteps DEF PlanFreezes, PlanVerified
<1>3. ASSUME NEW i \in Invocation, NEW j \in Job, Launch(i, j)
      PROVE  PlanFreezes'
  <2>1. plan' = plan /\ \A k \in Invocation \ {i} : at'[k] = at[k]
    BY <1>3 DEF Launch, files, IInv, TypeOK, InvocationsTyped
  <2>2. at'[i] \in AtWorker \cup AtPool => PlanVerified
    BY <1>3 DEF Launch, IInv, TypeOK, InvocationsTyped, AtWorker, AtPool
  <2> QED BY <2>1, <2>2 DEF PlanFreezes, PlanVerified
<1>4. ASSUME NEW i \in Invocation, Crash(i) \/ KillShell(i)
      PROVE  PlanFreezes'
  BY <1>4
     DEF Crash, KillShell, files, PlanFreezes, PlanVerified, IInv, TypeOK, InvocationsTyped,
         AtWorker, AtPool, Nowhere
<1>5. ASSUME NEW i \in Invocation,
             \/ Resume(i) \/ Generate(i) \/ ReplaceGroup(i) \/ VerifyWorker(i)
             \/ WriteMarker(i) \/ CommitMarker(i)
      PROVE  PlanFreezes'
  <2>1. plan' = plan /\ at[i] \in AtWorker
    BY <1>5
       DEF Resume, Generate, ReplaceGroup, VerifyWorker, WriteMarker, CommitMarker, AtWorker
  <2>2. \A k \in Invocation \ {i} : at'[k] = at[k]
    BY <1>5
       DEF Resume, Generate, ReplaceGroup, VerifyWorker, WriteMarker, CommitMarker, Then, Exit,
           Goto, IInv, TypeOK, InvocationsTyped
  <2> QED BY <2>1, <2>2 DEF PlanFreezes, PlanVerified
<1>6. ASSUME NEW i \in Invocation,
             \/ Assemble(i) \/ LinkGroup(i) \/ WriteRows(i) \/ InstallRows(i)
             \/ OpenManifest(i) \/ WriteManifest(i) \/ CheckPool(i) \/ PublishPool(i)
      PROVE  PlanFreezes'
  <2>1. plan' = plan /\ at[i] \in AtPool
    BY <1>6
       DEF Assemble, LinkGroup, WriteRows, InstallRows, OpenManifest, WriteManifest, CheckPool,
           PublishPool, Edit, files, AtPool
  <2>2. \A k \in Invocation \ {i} : at'[k] = at[k]
    BY <1>6
       DEF Assemble, LinkGroup, WriteRows, InstallRows, OpenManifest, WriteManifest, CheckPool,
           PublishPool, Then, Exit, Goto, IInv, TypeOK, InvocationsTyped
  <2> QED BY <2>1, <2>2 DEF PlanFreezes, PlanVerified
<1> QED BY <1>1, <1>2, <1>3, <1>4, <1>5, <1>6 DEF Next, Run

\* Nobody starts on half-written assignments: the plan file appears last, and what
\* a worker or a finalize verified when it started stays so (prepare_plan,
\* verify_plan and the control lock).
THEOREM PlanAlwaysFreezes == Spec => []PlanFreezes
<1>1. Init => PlanFreezes
  BY StageAssumption DEF Init, PlanFreezes, Job, Nowhere, AtWorker, AtPool
<1> QED BY <1>1, PlanFreezesStep, InvariantHolds, PTL DEF Spec
=============================================================================
