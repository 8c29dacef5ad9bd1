--------------------------- MODULE TrainingRun_proofs ---------------------------
(***************************************************************************)
(* The gate of TrainingRun holds for every number of steps, every position *)
(* of the gate and any number of crashes and resumes, prepared or not; and *)
(* so does the sync of the rollout server with the policy that is trained. *)
(***************************************************************************)
EXTENDS TrainingRun, TLAPS

Passed == receipt = "passed"

\* What every phase knows of the gate.  Past it, in whatever phase, the receipt
\* is a pass; between the audit and the publication of its exit code, an exit of
\* zero is worth a receipt; a checkpoint past the gate is the trace of a pass.
GatedPhase ==
  /\ step \in Nat
  /\ phase \in {"sync", "collect", "optimize"} /\ step >= GateStep => Passed
  /\ phase \in {"save", "gate"} /\ step > GateStep => Passed
  /\ phase = "publish" => step = GateStep /\ (exitCode = 0 => Passed)

GatedDirectory ==
  \A s \in DOMAIN checkpoints : s \in Nat /\ (s > GateStep => Passed)

GateInv == GatedPhase /\ GatedDirectory

\* The receipt is written once: a pass stays a pass.
LEMMA PassStays ==
  ASSUME Next, Passed
  PROVE  Passed'
<1>1. receipt' = receipt \/ RunGate
  BY DEF Next, Launch, Resume, Exited, Prepare, Sync, Collect, Optimize, Save, SavedElsewhere,
         PublishGate, Crash, directory
<1>2. CASE RunGate
  BY <1>2 DEF RunGate, Audit, Passed
<1> QED
  BY <1>1, <1>2 DEF Passed

\* The checkpoints only lose entries, or gain the one of the step just trained.
LEMMA CheckpointStep ==
  ASSUME Next
  PROVE  DOMAIN checkpoints' \subseteq DOMAIN checkpoints
           \/ /\ phase = "save"
              /\ DOMAIN checkpoints' = DOMAIN checkpoints \cup {step}
<1>1. CASE Save \/ Crash
  BY <1>1 DEF Save, Crash, Saved
<1>2. CASE Prepare
  BY <1>2 DEF Prepare
<1>3. CASE Launch \/ Resume \/ Exited \/ Sync \/ Collect \/ Optimize \/ SavedElsewhere
             \/ RunGate \/ PublishGate
  BY <1>3 DEF Launch, Resume, Exited, Sync, Collect, Optimize, SavedElsewhere, RunGate,
              PublishGate, directory
<1> QED
  BY <1>1, <1>2, <1>3 DEF Next

LEMMA DirectoryStep ==
  ASSUME GateInv, Next
  PROVE  GatedDirectory'
<1> SUFFICES ASSUME NEW s \in DOMAIN checkpoints'
             PROVE  s \in Nat /\ (s > GateStep => Passed')
  BY DEF GatedDirectory, Passed
<1>1. CASE s \in DOMAIN checkpoints
  BY <1>1, PassStays DEF GateInv, GatedDirectory
<1>2. CASE phase = "save" /\ s = step
  BY <1>2, PassStays DEF GateInv, GatedPhase
<1> QED
  BY <1>1, <1>2, CheckpointStep

\* A process that goes down is not in any phase of training.
LEMMA DeathIsGated ==
  ASSUME Die
  PROVE  GatedPhase'
BY DEF Die, GatedPhase

\* A launch trains only before the gate, or behind a receipt that verified.
LEMMA LaunchIsGated ==
  ASSUME GateInv, Launch \/ Resume
  PROVE  GatedPhase'
<1> USE RunAssumption
<1>1. CASE Launch
  BY <1>1 DEF Launch, Start, FirstPhase, GatedPhase
<1>2. ASSUME phase = "down", NEW s \in DOMAIN checkpoints, Refuse(s)
      PROVE  GatedPhase'
  BY <1>2 DEF Refuse, GatedPhase, GateInv
<1>3. ASSUME NEW s \in DOMAIN checkpoints, Start(s), s < GateStep \/ Passed, receipt' = receipt
      PROVE  GatedPhase'
  BY <1>3 DEF Start, FirstPhase, GatedPhase, GateInv, GatedDirectory, Passed
<1>4. CASE Resume
  <2>1. PICK s \in DOMAIN checkpoints :
           ResumeIncomplete(s) \/ ResumeBeforeGate(s) \/ ResumeAfterGate(s)
    BY <1>4 DEF Resume
  <2>2. phase = "down" /\ receipt' = receipt
    BY <1>4 DEF Resume
  <2>3. CASE ResumeIncomplete(s)
    BY <2>3, <2>2, <1>2 DEF ResumeIncomplete
  <2>4. CASE ResumeBeforeGate(s)
    BY <2>4, <2>2, <1>2, <1>3 DEF ResumeBeforeGate
  <2>5. CASE ResumeAfterGate(s)
    <3>1. Refuse(s) \/ (Start(s) /\ Verify(0))
      BY <2>5 DEF ResumeAfterGate
    <3>2. Verify(0) => Passed
      BY DEF Verify, Passed
    <3> QED
      BY <3>1, <3>2, <2>2, <1>2, <1>3
  <2> QED
    BY <2>1, <2>3, <2>4, <2>5
<1> QED
  BY <1>1, <1>4

\* One update reaches the gate step only through a save.
LEMMA UpdateIsGated ==
  ASSUME GateInv, Sync \/ Collect \/ Optimize \/ Save
  PROVE  GatedPhase'
<1> USE RunAssumption
<1>1. CASE Sync
  BY <1>1 DEF Sync, GatedPhase, GateInv, Passed, directory
<1>2. CASE Collect
  BY <1>2 DEF Collect, GatedPhase, GateInv, Passed
<1>3. CASE Optimize
  <2>1. step' = step + 1 /\ phase = "optimize" /\ receipt' = receipt /\ step \in Nat
    BY <1>3 DEF Optimize, GateInv, GatedPhase, directory
  <2>2. step' = GateStep => phase' = "save"
    BY <1>3 DEF Optimize
  <2>3. phase' \in {"save", "sync", "finished"}
    BY <1>3 DEF Optimize
  <2>4. step >= GateStep => Passed
    BY <2>1 DEF GateInv, GatedPhase
  <2> QED
    BY <2>1, <2>2, <2>3, <2>4 DEF GatedPhase, Passed
<1>4. CASE Save
  BY <1>4 DEF Save, GatedPhase, GateInv, Passed
<1> QED
  BY <1>1, <1>2, <1>3, <1>4

\* The save callback lets a process go on past the gate only after a pass.
LEMMA CallbackIsGated ==
  ASSUME GateInv, SavedElsewhere \/ RunGate \/ PublishGate
  PROVE  GatedPhase'
<1> USE RunAssumption
<1>1. CASE SavedElsewhere
  BY <1>1, DeathIsGated DEF SavedElsewhere, Continue, GatedPhase, GateInv, Passed, directory
<1>2. CASE RunGate
  BY <1>2 DEF RunGate, Audit, GatedPhase, GateInv, Passed
<1>3. CASE PublishGate
  BY <1>3, DeathIsGated DEF PublishGate, GatePasses, Continue, GatedPhase, GateInv, Passed
<1> QED
  BY <1>1, <1>2, <1>3

LEMMA GateInit == Init => GateInv
BY RunAssumption DEF Init, GateInv, GatedPhase, GatedDirectory

LEMMA GateStepLemma == GateInv /\ [Next]_vars => GateInv'
<1> SUFFICES ASSUME GateInv, [Next]_vars
             PROVE  GateInv'
  OBVIOUS
<1>1. CASE UNCHANGED vars
  BY <1>1 DEF vars, process, directory, GateInv, GatedPhase, GatedDirectory, Passed
<1>2. CASE Next
  <2>1. GatedDirectory'
    BY <1>2, DirectoryStep
  <2>2. CASE Exited
    BY <2>2, <2>1 DEF Exited, GateInv, GatedPhase
  <2>3. CASE Prepare
    BY <2>3, <2>1 DEF Prepare, process, GateInv, GatedPhase
  <2>4. CASE Crash
    BY <2>4, <2>1, DeathIsGated DEF Crash, GateInv
  <2>5. CASE Launch \/ Resume
    BY <2>5, <2>1, LaunchIsGated DEF GateInv
  <2>6. CASE Sync \/ Collect \/ Optimize \/ Save
    BY <2>6, <2>1, UpdateIsGated DEF GateInv
  <2>7. CASE SavedElsewhere \/ RunGate \/ PublishGate
    BY <2>7, <2>1, CallbackIsGated DEF GateInv
  <2> QED
    BY <1>2, <2>2, <2>3, <2>4, <2>5, <2>6, <2>7 DEF Next
<1> QED
  BY <1>1, <1>2

\* No process trains on past the gate step, and no checkpoint past it exists,
\* unless the gate's receipt is a pass: on_save blocks the optimizer step and
\* the launcher refuses a resume.
THEOREM GateHolds == Spec => []NoStepBeyondGate
<1>1. GateInv => NoStepBeyondGate
  BY DEF GateInv, GatedPhase, GatedDirectory, NoStepBeyondGate, Passed
<1> QED
  BY <1>1, GateInit, GateStepLemma, PTL DEF Spec

-----------------------------------------------------------------------------
(***************************************************************************)
(* The sync.  The step loaded last is the step of the block only while the *)
(* block is collected and trained on; whoever comes to the next sync, from *)
(* an update, a checkpoint or another process, finds it out of date.       *)
(***************************************************************************)
SyncedPhase ==
  /\ phase \in {"sync", "save", "gate", "publish"} => NeedsSync
  /\ phase = "collect" => server = policy
  /\ phase \in {"collect", "optimize"} => ~ NeedsSync

SyncInv == GateInv /\ SyncedPhase

\* A step that is not part of an update leaves nothing loaded, or the process
\* on its way to the next sync as far out of date as it was.
LEMMA StartIsUnsynced ==
  ASSUME SyncInv, Launch \/ Resume
  PROVE  SyncedPhase'
<1>1. CASE Launch
  BY <1>1 DEF Launch, Start, FirstPhase, SyncedPhase, NeedsSync, Never
<1>2. CASE Resume
  <2>1. PICK s \in DOMAIN checkpoints :
           ResumeIncomplete(s) \/ ResumeBeforeGate(s) \/ ResumeAfterGate(s)
    BY <1>2 DEF Resume
  <2>2. Start(s) \/ Refuse(s)
    BY <2>1 DEF ResumeIncomplete, ResumeBeforeGate, ResumeAfterGate
  <2>3. s \in Nat
    BY DEF SyncInv, GateInv, GatedDirectory
  <2> QED
    BY <2>2, <2>3 DEF Start, FirstPhase, Refuse, SyncedPhase, NeedsSync, Never
<1> QED
  BY <1>1, <1>2

LEMMA UpdateIsSynced ==
  ASSUME SyncInv, Sync \/ Collect \/ Optimize \/ Save
  PROVE  SyncedPhase'
<1>1. CASE Sync
  BY <1>1 DEF Sync, SyncInv, SyncedPhase, NeedsSync
<1>2. CASE Collect
  BY <1>2 DEF Collect, SyncInv, SyncedPhase, NeedsSync
<1>3. CASE Optimize
  BY <1>3 DEF Optimize, SyncInv, SyncedPhase, GateInv, GatedPhase, NeedsSync
<1>4. CASE Save
  BY <1>4 DEF Save, SyncInv, SyncedPhase, NeedsSync
<1> QED
  BY <1>1, <1>2, <1>3, <1>4

LEMMA CallbackIsUnsynced ==
  ASSUME SyncInv, SavedElsewhere \/ RunGate \/ PublishGate
  PROVE  SyncedPhase'
<1>1. CASE Die
  BY <1>1 DEF Die, SyncedPhase
<1>2. CASE Continue /\ phase \in {"gate", "publish"}
  BY <1>2 DEF Continue, SyncInv, SyncedPhase, NeedsSync
<1>3. CASE RunGate
  BY <1>3 DEF RunGate, SyncInv, SyncedPhase, NeedsSync
<1> QED
  BY <1>1, <1>2, <1>3 DEF SavedElsewhere, PublishGate

LEMMA SyncStepLemma == SyncInv /\ [Next]_vars => SyncInv'
<1> SUFFICES ASSUME SyncInv, [Next]_vars
             PROVE  SyncInv'
  OBVIOUS
<1>1. GateInv'
  BY GateStepLemma DEF SyncInv
<1>2. CASE UNCHANGED vars
  BY <1>1, <1>2 DEF vars, process, SyncInv, SyncedPhase, NeedsSync
<1>3. CASE Next
  <2>1. CASE Exited \/ Prepare \/ Crash
    BY <2>1, <1>1 DEF Exited, Prepare, Crash, Die, process, SyncInv, SyncedPhase
  <2> QED
    BY <1>1, <1>3, <2>1, StartIsUnsynced, UpdateIsSynced, CallbackIsUnsynced DEF Next, SyncInv
<1> QED
  BY <1>2, <1>3

\* Every block, and what a crash leaves of one, is collected from the policy it
\* trains: no process collects from the weights, or half the weights, that
\* another left on the rollout server.
THEOREM CollectedOnPolicy == Spec => CollectsOnPolicy
<1>1. Init => SyncInv
  BY GateInit DEF Init, SyncInv, SyncedPhase
<1>2. SyncInv => (log' # log /\ phase = "collect" => server = policy)
  BY DEF SyncInv, SyncedPhase
<1> QED
  BY <1>1, <1>2, SyncStepLemma, PTL DEF Spec, CollectsOnPolicy
=============================================================================
