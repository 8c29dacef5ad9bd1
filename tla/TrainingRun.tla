------------------------------ MODULE TrainingRun ------------------------------
(***************************************************************************)
(* A training run of src/rl/frameworks/trl in its output directory: the    *)
(* trainer process that syncs the policy to the rollout server, collects a *)
(* block of rollouts, steps the optimizer and saves checkpoints; the       *)
(* synchronous checkpoint gate that audits the run at one step; the helper *)
(* that prepares an interrupted directory for a resume; and what a launch  *)
(* does with the directory a dead process left behind.                     *)
(* The optimizer, the checkpoint format and the rollout server are TRL's:  *)
(* here they are a policy version, a copy of it and a version served.      *)
(* A policy is known by its updates: policy[i] names the process whose     *)
(* block the i-th update was trained on, a process being named by the      *)
(* number of deaths before it.                                             *)
(***************************************************************************)
EXTENDS Integers, Sequences, FiniteSetsExt

CONSTANTS
  Steps,         \* optimizer_steps
  GateStep,      \* checkpoint_gate_step
  SaveSteps,     \* save_steps
  MaxDeaths      \* bound: how often the process is killed or raises

ASSUME RunAssumption ==
  /\ Steps \in Nat /\ GateStep \in Nat /\ SaveSteps \in Nat \ {0} /\ MaxDeaths \in Nat
  /\ 0 < GateStep /\ GateStep < Steps
  /\ GateStep % SaveSteps = 0 /\ Steps % SaveSteps = 0

VARIABLES
  supervised,   \* every resume is one the preparation helper called ready
  phase,        \* what the process is doing, "down" when there is none
  step,         \* state.global_step
  policy,       \* the weights
  loaded,       \* _last_loaded_step
  resumedFrom,  \* the step of the checkpoint this process was launched with
  exitCode,     \* returncode of the gate script it ran last
  deaths,       \* times a process died
  ready,        \* the step whose checkpoint is prepared for a resume, or Never
  server,       \* the policy the rollout server holds
  log,          \* rollouts.jsonl, a record per block of one update
  checkpoints,  \* checkpoint-<step>, by step
  receipt,      \* the gate's receipt
  invocation,   \* exit code in checkpoint_gate_step<G>_invocation.json
  verification  \* exit code in ..._resume_verification.json

process   == <<phase, step, policy, loaded, resumedFrom, exitCode>>
directory == <<log, checkpoints, receipt, invocation, verification>>
vars == <<supervised, process, deaths, ready, server, directory>>

Phase   == {"down", "sync", "collect", "optimize", "save", "gate", "publish",
            "refused", "finished"}
Never   == -1          \* no step loaded, or prepared, or no exit code recorded
Exit    == 0 .. 2
Process == 0 .. MaxDeaths
Block   == [step : 0 .. Steps - 1, extent : {"whole", "partial", "torn"}, by : Process]
Receipt == {"none", "passed", "failed"}

Halfway == <<Never>>         \* what files hold that were only partly rewritten
Mixed   == <<Never, Never>>  \* what a server holds whose update was cut off

Init ==
  /\ supervised \in BOOLEAN
  /\ phase = "down" /\ step = 0 /\ policy = <<>>
  /\ loaded = Never /\ resumedFrom = 0 /\ exitCode = Never
  /\ deaths = 0 /\ ready = Never
  /\ server = <<>>
  /\ log = <<>>
  /\ checkpoints = <<>>
  /\ receipt = "none" /\ invocation = Never /\ verification = Never

(***************************************************************************)
(* The audit of the gate script.  It parses the whole log, so a line cut   *)
(* by a crash is an input error; on a continued run it looks only at the   *)
(* rows of the first GateStep blocks.  It passes only on exactly the whole *)
(* blocks 0 .. GateStep - 1; the bounds on their contents and on the       *)
(* weights are a fixed but unknown verdict.                                *)
(***************************************************************************)
Parses == \A i \in DOMAIN log : log[i].extent # "torn"

WholeBlocks(n) ==
  /\ n <= Len(log)
  /\ \A i \in 1 .. n : log[i].step = i - 1 /\ log[i].extent = "whole"

OnSchedule(rows) == Len(rows) = GateStep /\ WholeBlocks(GateStep)

Complete == { s \in DOMAIN checkpoints : checkpoints[s].complete }

Prefix == SubSeq(log, 1, IF Len(log) < GateStep THEN Len(log) ELSE GateStep)

LogVerified  == log
VerifiedRows == Prefix

\* Without --verify-existing: refuses an existing receipt, and otherwise
\* writes one whatever the verdict, if it can be written.
Audit(exit, written) ==
  IF receipt # "none"
    THEN exit = 2 /\ written = receipt
    ELSE \/ exit = 0 /\ Parses /\ OnSchedule(log) /\ written = "passed"
         \/ exit = 1 /\ Parses /\ written = "failed"
         \/ exit = 2 /\ ~Parses /\ written = "failed"
         \/ exit = 2 /\ written = "none"

\* --verify-existing: 2 unless the whole audit can be recomputed and equals
\* the receipt, then the exit code the receipt holds.
Verify(exit) ==
  LET readable == Parses /\ GateStep \in Complete
  IN IF receipt = "passed"
       THEN exit = IF readable /\ OnSchedule(VerifiedRows) THEN 0 ELSE 2
       ELSE exit = 2 \/ (exit = 1 /\ readable)

\* _publish_immutable_json: evidence is written once and then only agreed with.
Agrees(evidence, exit)  == evidence \in {Never, exit}
Publish(evidence, exit) == IF evidence = Never THEN exit ELSE evidence

(***************************************************************************)
(* The preparation helper, run while no process does.  It picks the latest *)
(* complete checkpoint, checks that the log starts with its blocks, drops  *)
(* the rest of the log in one step, and then moves the other checkpoints   *)
(* into quarantine one by one, but for the audited one it is told to keep. *)
(***************************************************************************)
TrimsNothing(s) == log
Trimmed(s)      == SubSeq(log, 1, s)

RetainsLatest(s) == {s}
Retained(s)      == {s} \cup ({GateStep} \cap 1 .. s)

Prepare ==
  /\ phase = "down"
  /\ Complete # {}
  /\ LET latest     == Max(Complete)
         superseded == DOMAIN checkpoints \ Retained(latest)
     IN /\ latest < Steps
        /\ Retained(latest) \subseteq Complete
        /\ WholeBlocks(latest)
        /\ log' = Trimmed(latest)
        /\ \E moved \in SUBSET superseded :
             /\ checkpoints' = [s \in DOMAIN checkpoints \ moved |-> checkpoints[s]]
             /\ \/ moved = superseded /\ ready' = latest /\ UNCHANGED deaths
                \/ moved # superseded /\ ready' = Never
                   /\ deaths < MaxDeaths /\ deaths' = deaths + 1
  /\ UNCHANGED <<supervised, process, server, receipt, invocation, verification>>

(***************************************************************************)
(* A launch, on an empty directory or with a checkpoint to resume from; at *)
(* the last step there is nothing left to train.                           *)
(***************************************************************************)
TrainsOn(s)   == "sync"
FirstPhase(s) == IF s = Steps THEN "finished" ELSE "sync"

Start(s) ==
  /\ phase' = FirstPhase(s)
  /\ step' = s
  /\ policy' = IF s = 0 THEN <<>> ELSE checkpoints[s].policy
  /\ loaded' = Never
  /\ resumedFrom' = s
  /\ ready' = Never

Refuse(s) ==
  /\ phase' = "refused"
  /\ resumedFrom' = s
  /\ UNCHANGED <<step, policy, loaded, ready>>

Launch ==
  /\ phase = "down" /\ deaths = 0 /\ DOMAIN checkpoints = {}
  /\ Start(0)
  /\ UNCHANGED <<supervised, exitCode, deaths, server, directory>>

\* The files of an incomplete checkpoint do not load.
ResumeIncomplete(s) ==
  /\ s \notin Complete
  /\ Refuse(s)
  /\ UNCHANGED <<exitCode, verification>>

\* A checkpoint before the gate is resumed only while there is no receipt.
ResumeBeforeGate(s) ==
  /\ s \in Complete /\ s < GateStep
  /\ IF receipt = "none" THEN Start(s) ELSE Refuse(s)
  /\ UNCHANGED <<exitCode, verification>>

\* One at or after it only with a receipt that verifies.
ResumeAfterGate(s) ==
  /\ s \in Complete /\ s >= GateStep
  /\ IF receipt = "none"
       THEN Refuse(s) /\ UNCHANGED <<exitCode, verification>>
       ELSE /\ exitCode' \in Exit /\ Verify(exitCode')
            /\ verification' = Publish(verification, exitCode')
            /\ IF Agrees(verification, exitCode') /\ exitCode' = 0 THEN Start(s) ELSE Refuse(s)

Resume ==
  /\ phase = "down"
  /\ \E s \in DOMAIN checkpoints :
       /\ supervised => s = ready
       /\ ResumeIncomplete(s) \/ ResumeBeforeGate(s) \/ ResumeAfterGate(s)
  /\ UNCHANGED <<supervised, deaths, server, log, checkpoints, receipt, invocation>>

(***************************************************************************)
(* One update.                                                             *)
(***************************************************************************)
SyncOnce  == loaded = Never
NeedsSync == loaded # step

Sync ==
  /\ phase = "sync"
  /\ server' = IF NeedsSync THEN policy ELSE server
  /\ loaded' = step
  /\ phase' = "collect"
  /\ UNCHANGED <<supervised, ready, step, policy, resumedFrom, exitCode, deaths, directory>>

Logged(extent) == log' = Append(log, [step |-> step, extent |-> extent, by |-> deaths])

Collect ==
  /\ phase = "collect"
  /\ Logged("whole")
  /\ phase' = "optimize"
  /\ UNCHANGED <<supervised, ready, step, policy, loaded, resumedFrom, exitCode,
                 deaths, server,
                 checkpoints, receipt, invocation, verification>>

Optimize ==
  /\ phase = "optimize"
  /\ policy' = Append(policy, deaths)
  /\ step' = step + 1
  /\ phase' = IF step' % SaveSteps = 0 THEN "save"
              ELSE IF step' = Steps THEN "finished" ELSE "sync"
  /\ UNCHANGED <<supervised, ready, loaded, resumedFrom, exitCode, deaths, server,
                 directory>>

\* The checkpoint is on disk before on_save runs.
Saved(weights, complete) ==
  checkpoints' = [s \in DOMAIN checkpoints \cup {step} |->
                    IF s = step THEN [policy |-> weights, complete |-> complete]
                                ELSE checkpoints[s]]

Save ==
  /\ phase = "save"
  /\ Saved(policy, TRUE)
  /\ phase' = "gate"
  /\ UNCHANGED <<supervised, ready, step, policy, loaded, resumedFrom, exitCode,
                 deaths, server,
                 log, receipt, invocation, verification>>

Continue ==
  /\ phase' = IF step = Steps THEN "finished" ELSE "sync"
  /\ UNCHANGED <<step, policy, loaded, resumedFrom, exitCode, deaths>>

Die ==
  /\ deaths < MaxDeaths
  /\ deaths' = deaths + 1
  /\ phase' = "down" /\ step' = 0 /\ policy' = <<>>
  /\ loaded' = Never /\ resumedFrom' = 0 /\ exitCode' = Never

\* on_save away from the gate step: past it a receipt must exist.
SavedElsewhere ==
  /\ phase = "gate" /\ step # GateStep
  /\ IF step > GateStep /\ receipt = "none" THEN Die ELSE Continue
  /\ UNCHANGED <<supervised, ready, server, directory>>

\* on_save at the gate step: the script runs and leaves its receipt, then the
\* exit code is published and checked.
RunGate ==
  /\ phase = "gate" /\ step = GateStep
  /\ exitCode' \in Exit /\ Audit(exitCode', receipt')
  /\ phase' = "publish"
  /\ UNCHANGED <<supervised, ready, step, policy, loaded, resumedFrom, deaths, server,
                 log, checkpoints,
                 invocation, verification>>

ReceiptSuffices == receipt # "none"
GatePasses      == Agrees(invocation, exitCode) /\ exitCode = 0

PublishGate ==
  /\ phase = "publish"
  /\ invocation' = Publish(invocation, exitCode)
  /\ IF GatePasses THEN Continue ELSE Die
  /\ UNCHANGED <<supervised, ready, server, log, checkpoints, receipt, verification>>

(***************************************************************************)
(* The process is killed, or an exception ends it.  A collection cut off   *)
(* leaves no block, fewer rows than a block, or a line cut in the middle;  *)
(* a sync cut off leaves the server with some layers of each policy; a     *)
(* save cut off leaves an incomplete checkpoint, unless it overwrote one.  *)
(***************************************************************************)
Crash ==
  /\ phase \notin {"down", "refused", "finished"}
  /\ Die
  /\ IF phase = "collect"
       THEN UNCHANGED log \/ \E extent \in {"partial", "torn"} : Logged(extent)
       ELSE UNCHANGED log
  /\ IF phase = "sync" /\ NeedsSync THEN server' \in {server, Mixed} ELSE UNCHANGED server
  /\ \/ UNCHANGED checkpoints
     \/ phase = "save" /\ Saved(Halfway, step \in Complete)
  /\ UNCHANGED <<supervised, ready, receipt, invocation, verification>>

\* A refused launch exits, and another checkpoint may be tried.
Exited ==
  /\ phase = "refused"
  /\ phase' = "down" /\ resumedFrom' = 0 /\ exitCode' = Never /\ ready' = Never
  /\ UNCHANGED <<supervised, step, policy, loaded, deaths, server, directory>>

Next ==
  \/ Launch \/ Prepare \/ Resume \/ Exited
  \/ Sync \/ Collect \/ Optimize \/ Save \/ SavedElsewhere \/ RunGate \/ PublishGate
  \/ Crash

Spec == Init /\ [][Next]_vars
-----------------------------------------------------------------------------
(***************************************************************************)
(* Properties                                                              *)
(***************************************************************************)
Weights == Seq(Process \cup {Never})

TypeOK ==
  /\ supervised \in BOOLEAN
  /\ phase \in Phase
  /\ step \in 0 .. Steps /\ policy \in Weights
  /\ loaded \in {Never} \cup 0 .. Steps /\ resumedFrom \in 0 .. Steps
  /\ exitCode \in {Never} \cup Exit /\ deaths \in Process /\ ready \in {Never} \cup 1 .. Steps
  /\ server \in Weights
  /\ log \in Seq(Block)
  /\ DOMAIN checkpoints \subseteq 1 .. Steps
  /\ \A s \in DOMAIN checkpoints : checkpoints[s] \in [policy : Weights, complete : BOOLEAN]
  /\ receipt \in Receipt
  /\ invocation \in {Never} \cup Exit /\ verification \in {Never} \cup Exit

\* "Block the next optimizer step until a source-locked checkpoint gate
\* passes": no process, resumed or not, prepared or not, trains on past the
\* gate step unless the receipt is a pass.
NoStepBeyondGate ==
  /\ phase \in {"sync", "collect", "optimize"} /\ step >= GateStep => receipt = "passed"
  /\ \A s \in DOMAIN checkpoints : s > GateStep => receipt = "passed"

\* "Exact checkpoint resume": when every resume is prepared, the log stays the
\* training record of the weights.  The live weights and those of every complete
\* checkpoint were trained on the first blocks of the log, one whole block per
\* update, whatever was cut off, dropped and collected again in between.
TrainedOn(weights, n) ==
  /\ Len(weights) = n /\ WholeBlocks(n)
  /\ \A i \in 1 .. n : weights[i] = log[i].by

ExactLineage ==
  supervised =>
    /\ TrainedOn(policy, step)
    /\ \A s \in Complete : TrainedOn(checkpoints[s].policy, s)

\* What a pass is worth to the rest of the run: the checkpoint that was audited
\* stays there, complete, and was trained on exactly the blocks the receipt is
\* about, which stay the first of the log.
PassMeansLineage ==
  supervised /\ receipt = "passed" =>
    GateStep \in Complete /\ TrainedOn(checkpoints[GateStep].policy, GateStep)

\* Rollouts are collected from the policy they train: "all samples of one
\* update come from the same synced policy", also in a process that found the
\* server with the weights, or half the weights, of a dead one.
CollectsOnPolicy ==
  [][ log' # log /\ phase = "collect" => server = policy ]_vars

\* A prepared run that passed its gate is never refused, whenever it died.
\* (Without the preparation a line of the log cut by a crash fails the audit,
\* and the failure is immutable evidence.)
PassedRunResumes == supervised /\ phase = "refused" => receipt # "passed"

\* What the helper reports as "resume_ready" for an "exact checkpoint resume"
\* resumes, unless the gate has failed.
ReadyMeansResumable == supervised /\ phase = "refused" => receipt = "failed"
=============================================================================
