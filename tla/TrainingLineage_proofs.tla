------------------------ MODULE TrainingLineage_proofs ------------------------
(***************************************************************************)
(* Exact resumes of TrainingRun, for every number of steps, position of    *)
(* the gate, save interval and number of crashes: when every resume is a   *)
(* prepared one, the log stays the training record of the weights.         *)
(***************************************************************************)
EXTENDS TrainingRun, WellFoundedInduction, TLAPS

Resting == {"down", "refused"}

PhaseStep ==
  /\ phase \in {"sync", "collect", "optimize"} => step < Steps
  /\ phase \in {"save", "gate", "publish"} => step > 0
  /\ phase \in Resting => step = 0 /\ policy = <<>>

Typed == TypeOK /\ PhaseStep

\* A process at work has logged its blocks and nothing else; between the
\* collection and the update it is one block ahead of the weights.
LogMatches ==
  /\ phase \notin Resting => TrainedOn(policy, step)
  /\ phase \notin Resting \cup {"optimize"} => Len(log) = step
  /\ phase = "optimize" => /\ Len(log) = step + 1 /\ WholeBlocks(step + 1)
                           /\ log[step + 1].by = deaths

CheckpointsMatch == \A s \in Complete : TrainedOn(checkpoints[s].policy, s)

\* No checkpoint is ahead of the process, so a save never overwrites one.
NothingAhead ==
  /\ phase \notin Resting => \A s \in DOMAIN checkpoints : s <= step
  /\ phase = "save" => step \notin DOMAIN checkpoints
  /\ phase \in {"gate", "publish"} => step \in Complete

\* What the preparation reported as ready.
ReadyKnows ==
  ready # Never =>
    /\ phase \in Resting
    /\ ready \in Complete /\ Len(log) = ready
    /\ \A s \in DOMAIN checkpoints : s <= ready

FirstLaunch == phase \in Resting /\ deaths = 0 => log = <<>> /\ DOMAIN checkpoints = {}

\* A pass keeps its checkpoint, verifies whenever it is verified, and is never
\* refused.
PassKept ==
  /\ receipt = "passed" => GateStep \in Complete /\ phase # "refused"
  /\ receipt # "failed" => verification \in {Never, 0}

Lineage ==
  supervised => /\ LogMatches /\ CheckpointsMatch /\ NothingAhead
                /\ ReadyKnows /\ FirstLaunch /\ PassKept

LineageInv == Typed /\ Lineage

-----------------------------------------------------------------------------
\* A set of steps that has a member has a largest one.
LEMMA LargestStep ==
  ASSUME NEW S, S \subseteq 1 .. Steps, S # {}
  PROVE  Max(S) \in S /\ \A s \in S : s <= Max(S)
<1> DEFINE T == { Steps - s : s \in S }
<1>1. T \subseteq Nat /\ T # {}
  <2>1. \A s \in S : s \in 1 .. Steps /\ Steps - s \in Nat
    BY RunAssumption
  <2> QED BY <2>1
<1>2. PICK t \in T : \A u \in T : ~ (<<u, t>> \in OpToRel(<, Nat))
  <2> HIDE DEF T
  <2> QED BY <1>1, NatLessThanWellFounded, WFMin
<1>3. \A u \in T : ~ (u < t)
  BY <1>1, <1>2 DEF OpToRel
<1>4. PICK s \in S : t = Steps - s
  BY <1>2
<1>5. \A r \in S : s >= r
  <2> TAKE r \in S
  <2>1. ~ (Steps - r < Steps - s)
    BY <1>3, <1>4
  <2>2. r \in Int /\ s \in Int /\ Steps \in Int
    BY RunAssumption
  <2> QED BY <2>1, <2>2
<1> QED
  BY <1>4, <1>5 DEF Max

-----------------------------------------------------------------------------
LEMMA InitHolds == Init => LineageInv
  BY RunAssumption
     DEF Init, LineageInv, Typed, TypeOK, PhaseStep, Lineage, LogMatches, CheckpointsMatch,
         NothingAhead, ReadyKnows, FirstLaunch, PassKept, Resting, Phase, Process, Receipt,
         Weights, Complete

LEMMA LaunchTyped ==
  ASSUME Typed, Launch
  PROVE  Typed'
  BY RunAssumption
     DEF Launch, Start, FirstPhase, directory, Typed, TypeOK, PhaseStep, Resting, Phase

LEMMA LaunchLineage ==
  ASSUME LineageInv, Launch, supervised
  PROVE  Lineage'
  BY DEF Launch, Start, FirstPhase, directory, LineageInv, Resting, Lineage, LogMatches,
         CheckpointsMatch, NothingAhead, ReadyKnows, FirstLaunch, PassKept, Complete, TrainedOn,
         WholeBlocks

LEMMA PrepareTyped ==
  ASSUME Typed, Prepare
  PROVE  Typed'
<1> DEFINE latest == Max(Complete)
<1>1. latest \in Complete
  BY DEF Prepare, Retained
<1>2. latest \in 1 .. Steps /\ latest <= Len(log)
  BY <1>1 DEF Prepare, WholeBlocks, Typed, TypeOK, Complete
<1>3. log' \in Seq(Block)
  BY <1>2 DEF Prepare, Trimmed, Typed, TypeOK
<1>4. /\ DOMAIN checkpoints' \subseteq DOMAIN checkpoints
      /\ \A s \in DOMAIN checkpoints' : checkpoints'[s] = checkpoints[s]
  BY DEF Prepare
<1>5. ready' \in {Never} \cup 1 .. Steps /\ deaths' \in Process
  BY <1>2, RunAssumption DEF Prepare, Typed, TypeOK, Process
<1>6. UNCHANGED <<supervised, process, server, receipt, invocation, verification>>
  BY DEF Prepare
<1> QED
  BY <1>3, <1>4, <1>5, <1>6 DEF process, Typed, TypeOK, PhaseStep

LEMMA PrepareLineage ==
  ASSUME LineageInv, Prepare, supervised
  PROVE  Lineage'
<1> DEFINE latest == Max(Complete)
<1>1. /\ latest \in Complete /\ \A s \in Complete : s <= latest
      /\ Complete \subseteq 1 .. Steps
  BY LargestStep DEF Prepare, LineageInv, Typed, TypeOK, Complete
<1> HIDE DEF latest
<1>2. WholeBlocks(latest) /\ log' = SubSeq(log, 1, latest)
  BY DEF Prepare, Trimmed, latest
<1>3. PICK moved \in SUBSET (DOMAIN checkpoints \ Retained(latest)) :
        /\ checkpoints' = [s \in DOMAIN checkpoints \ moved |-> checkpoints[s]]
        /\ \/ moved = DOMAIN checkpoints \ Retained(latest) /\ ready' = latest /\ UNCHANGED deaths
           \/ ready' = Never /\ deaths < MaxDeaths /\ deaths' = deaths + 1
  BY DEF Prepare, latest
<1>4. /\ DOMAIN checkpoints' = DOMAIN checkpoints \ moved
      /\ \A s \in DOMAIN checkpoints' : checkpoints'[s] = checkpoints[s]
      /\ Complete' \subseteq Complete /\ latest \in Complete'
  BY <1>1, <1>3 DEF Complete, Retained
<1>5. Len(log') = latest /\ \A i \in 1 .. latest : log'[i] = log[i]
  BY <1>1, <1>2
<1>6. CheckpointsMatch'
  BY <1>1, <1>2, <1>4 DEF LineageInv, Lineage, CheckpointsMatch, TrainedOn, WholeBlocks, Complete
<1>7. phase = "down" /\ UNCHANGED <<phase, step, policy, supervised, receipt, verification>>
  BY DEF Prepare, process
<1>8. ready' # Never => ready' = latest /\ \A s \in DOMAIN checkpoints' : s <= latest
  BY <1>1, <1>3 DEF Retained
<1>9. deaths' # 0
  BY <1>1, <1>3, <1>7
     DEF LineageInv, Lineage, FirstLaunch, Resting, Typed, TypeOK, Process, Complete
<1>10. receipt = "passed" => GateStep \in Complete'
  BY <1>1, <1>3 DEF LineageInv, Lineage, PassKept, Complete, Retained
<1> QED
  BY <1>4, <1>5, <1>6, <1>7, <1>8, <1>9, <1>10
     DEF LineageInv, Lineage, LogMatches, NothingAhead, ReadyKnows, FirstLaunch, PassKept, Resting

LEMMA ExitedTyped ==
  ASSUME Typed, Exited
  PROVE  Typed'
  BY DEF Exited, directory, Typed, TypeOK, PhaseStep, Resting, Phase

LEMMA ExitedLineage ==
  ASSUME LineageInv, Exited, supervised
  PROVE  Lineage'
  BY DEF Exited, directory, LineageInv, Resting, Lineage, LogMatches, CheckpointsMatch,
         NothingAhead, ReadyKnows, FirstLaunch, PassKept, Complete, TrainedOn, WholeBlocks

LEMMA SyncTyped ==
  ASSUME Typed, Sync
  PROVE  Typed'
  BY DEF Sync, directory, Typed, TypeOK, PhaseStep, Resting, Phase

LEMMA SyncLineage ==
  ASSUME LineageInv, Sync, supervised
  PROVE  Lineage'
  BY DEF Sync, directory, LineageInv, Resting, Lineage, LogMatches, CheckpointsMatch,
         NothingAhead, ReadyKnows, FirstLaunch, PassKept, Complete, TrainedOn, WholeBlocks

LEMMA CollectTyped ==
  ASSUME Typed, Collect
  PROVE  Typed'
  BY RunAssumption DEF Collect, Logged, Typed, TypeOK, PhaseStep, Resting, Phase, Block

LEMMA CollectLineage ==
  ASSUME LineageInv, Collect, supervised
  PROVE  Lineage'
  BY DEF Collect, Logged, LineageInv, Resting, Lineage, LogMatches, CheckpointsMatch,
         NothingAhead, ReadyKnows, FirstLaunch, PassKept, Complete, TrainedOn, WholeBlocks

LEMMA OptimizeTyped ==
  ASSUME Typed, Optimize
  PROVE  Typed'
  BY RunAssumption DEF Optimize, directory, Typed, TypeOK, PhaseStep, Resting, Phase, Weights

LEMMA OptimizeLineage ==
  ASSUME LineageInv, Optimize, supervised
  PROVE  Lineage'
  BY DEF Optimize, directory, LineageInv, Typed, TypeOK, Resting, Lineage, LogMatches,
         CheckpointsMatch, NothingAhead, ReadyKnows, FirstLaunch, PassKept, Complete, TrainedOn,
         WholeBlocks

LEMMA SaveTyped ==
  ASSUME Typed, Save
  PROVE  Typed'
<1>1. step \in 1 .. Steps /\ policy \in Weights
  BY DEF Save, Typed, TypeOK, PhaseStep
<1>2. /\ DOMAIN checkpoints' = DOMAIN checkpoints \cup {step}
      /\ \A s \in DOMAIN checkpoints' :
           checkpoints'[s] = IF s = step THEN [policy |-> policy, complete |-> TRUE] ELSE checkpoints[s]
  BY DEF Save, Saved
<1>3. /\ DOMAIN checkpoints' \subseteq 1 .. Steps
      /\ \A s \in DOMAIN checkpoints' : checkpoints'[s] \in [policy : Weights, complete : BOOLEAN]
  <2>1. /\ DOMAIN checkpoints \subseteq 1 .. Steps
        /\ \A s \in DOMAIN checkpoints : checkpoints[s] \in [policy : Weights, complete : BOOLEAN]
    BY DEF Typed, TypeOK
  <2>2. [policy |-> policy, complete |-> TRUE] \in [policy : Weights, complete : BOOLEAN]
    BY <1>1
  <2> QED
    BY <1>1, <1>2, <2>1, <2>2
<1> QED
  BY <1>3 DEF Save, Typed, TypeOK, PhaseStep, Resting, Phase

LEMMA SaveLineage ==
  ASSUME LineageInv, Save, supervised
  PROVE  Lineage'
  BY DEF Save, Saved, LineageInv, Resting, Lineage, LogMatches, CheckpointsMatch, NothingAhead,
         ReadyKnows, FirstLaunch, PassKept, Complete, TrainedOn, WholeBlocks

\* What the two outcomes of the save callback keep, while it leaves the log, the
\* checkpoints and the receipt alone.
LEMMA ContinueLineage ==
  ASSUME LineageInv, Continue, supervised, phase \in {"gate", "publish"},
         UNCHANGED <<supervised, ready, log, checkpoints, receipt, verification>>
  PROVE  Lineage'
<1>1. phase' \in {"sync", "finished"} /\ UNCHANGED <<step, policy>>
  BY DEF Continue
<1>2. LogMatches'
  BY <1>1 DEF LineageInv, Lineage, LogMatches, TrainedOn, WholeBlocks, Resting
<1>3. CheckpointsMatch'
  BY DEF LineageInv, Lineage, CheckpointsMatch, Complete, TrainedOn, WholeBlocks
<1> QED
  BY <1>1, <1>2, <1>3
     DEF LineageInv, Lineage, NothingAhead, ReadyKnows, FirstLaunch, PassKept, Complete, Resting

LEMMA DieLineage ==
  ASSUME LineageInv, Die, supervised, phase \notin Resting,
         UNCHANGED <<supervised, ready, log, checkpoints, receipt, verification>>
  PROVE  Lineage'
<1>1. phase' = "down" /\ deaths' # 0
  BY DEF Die, LineageInv, Typed, TypeOK, Process
<1>2. CheckpointsMatch'
  BY DEF LineageInv, Lineage, CheckpointsMatch, Complete, TrainedOn, WholeBlocks
<1> QED
  BY <1>1, <1>2
     DEF LineageInv, Lineage, LogMatches, NothingAhead, ReadyKnows, FirstLaunch, PassKept,
         Complete, Resting

LEMMA SavedElsewhereTyped ==
  ASSUME Typed, SavedElsewhere
  PROVE  Typed'
<1>1. CASE Continue
  BY <1>1, RunAssumption
     DEF SavedElsewhere, Continue, directory, Typed, TypeOK, PhaseStep, Resting, Phase
<1>2. CASE Die
  BY <1>2, RunAssumption
     DEF SavedElsewhere, Die, directory, Typed, TypeOK, PhaseStep, Phase, Process, Weights
<1> QED
  BY <1>1, <1>2 DEF SavedElsewhere

LEMMA SavedElsewhereLineage ==
  ASSUME LineageInv, SavedElsewhere, supervised
  PROVE  Lineage'
<1>1. UNCHANGED <<supervised, ready, directory>> /\ phase = "gate"
  BY DEF SavedElsewhere
<1>2. CASE Continue
  BY <1>1, <1>2, ContinueLineage DEF directory
<1>3. CASE Die
  BY <1>1, <1>3, DieLineage DEF Resting, directory
<1> QED
  BY <1>2, <1>3 DEF SavedElsewhere

LEMMA RunGateTyped ==
  ASSUME Typed, RunGate
  PROVE  Typed'
  BY DEF RunGate, Audit, Typed, TypeOK, PhaseStep, Resting, Phase, Receipt

LEMMA RunGateLineage ==
  ASSUME LineageInv, RunGate, supervised
  PROVE  Lineage'
  BY DEF RunGate, Audit, LineageInv, PhaseStep, Resting, Lineage, LogMatches, CheckpointsMatch,
         NothingAhead, ReadyKnows, FirstLaunch, PassKept, Complete, TrainedOn, WholeBlocks

LEMMA PublishGateTyped ==
  ASSUME Typed, PublishGate
  PROVE  Typed'
<1>1. CASE Continue
  BY <1>1, RunAssumption
     DEF PublishGate, Continue, Publish, Typed, TypeOK, PhaseStep, Resting, Phase
<1>2. CASE Die
  BY <1>2, RunAssumption
     DEF PublishGate, Die, Publish, Typed, TypeOK, PhaseStep, Phase, Process, Weights
<1> QED
  BY <1>1, <1>2 DEF PublishGate

LEMMA PublishGateLineage ==
  ASSUME LineageInv, PublishGate, supervised
  PROVE  Lineage'
<1>1. UNCHANGED <<supervised, ready, log, checkpoints, receipt, verification>> /\ phase = "publish"
  BY DEF PublishGate
<1>2. CASE Continue
  BY <1>1, <1>2, ContinueLineage
<1>3. CASE Die
  BY <1>1, <1>3, DieLineage DEF Resting
<1> QED
  BY <1>2, <1>3 DEF PublishGate

LEMMA CrashTyped ==
  ASSUME Typed, Crash
  PROVE  Typed'
<1>1. Die /\ UNCHANGED <<supervised, ready, receipt, invocation, verification>>
  BY DEF Crash
<1>2. log' \in Seq(Block)
  <2>1. CASE phase = "collect" /\ \E extent \in {"partial", "torn"} : Logged(extent)
    <3>1. step \in 0 .. Steps - 1 /\ deaths \in Process
      BY <2>1, RunAssumption DEF Typed, TypeOK, PhaseStep
    <3>2. \A extent \in {"partial", "torn"} : [step |-> step, extent |-> extent, by |-> deaths] \in Block
      BY <3>1 DEF Block
    <3> QED
      BY <2>1, <3>2 DEF Logged, Typed, TypeOK
  <2>2. CASE UNCHANGED log
    BY <2>2 DEF Typed, TypeOK
  <2> QED
    BY <2>1, <2>2 DEF Crash
<1>3. server' \in Weights
  <2>1. Mixed \in Weights /\ server \in Weights
    BY DEF Mixed, Typed, TypeOK, Weights
  <2> QED
    BY <2>1 DEF Crash
<1>4. /\ DOMAIN checkpoints' \subseteq 1 .. Steps
      /\ \A s \in DOMAIN checkpoints' : checkpoints'[s] \in [policy : Weights, complete : BOOLEAN]
  <2>1. CASE UNCHANGED checkpoints
    BY <2>1 DEF Typed, TypeOK
  <2>2. CASE phase = "save" /\ Saved(Halfway, step \in Complete)
    <3>1. step \in 1 .. Steps /\ Halfway \in Weights
      BY <2>2 DEF Typed, TypeOK, PhaseStep, Halfway, Weights
    <3>2. /\ DOMAIN checkpoints' = DOMAIN checkpoints \cup {step}
          /\ \A s \in DOMAIN checkpoints' :
               checkpoints'[s] = IF s = step THEN [policy |-> Halfway, complete |-> step \in Complete]
                                 ELSE checkpoints[s]
      BY <2>2 DEF Saved
    <3>3. (step \in Complete) \in BOOLEAN
      OBVIOUS
    <3>4. [policy |-> Halfway, complete |-> step \in Complete] \in [policy : Weights, complete : BOOLEAN]
      BY <3>1
    <3>5. /\ DOMAIN checkpoints \subseteq 1 .. Steps
          /\ \A s \in DOMAIN checkpoints : checkpoints[s] \in [policy : Weights, complete : BOOLEAN]
      BY DEF Typed, TypeOK
    <3> QED
      BY <3>1, <3>2, <3>4, <3>5
  <2> QED
    BY <2>1, <2>2 DEF Crash
<1>5. UNCHANGED ready /\ PhaseStep' /\ phase' \in Phase /\ deaths' \in Process
  BY <1>1, RunAssumption DEF Die, PhaseStep, Phase, Process, Typed, TypeOK
<1>6. policy' \in Weights /\ step' \in 0 .. Steps /\ loaded' = Never /\ resumedFrom' = 0 /\ exitCode' = Never
  BY <1>1, RunAssumption DEF Die, Weights
<1> QED
  BY <1>1, <1>2, <1>3, <1>4, <1>5, <1>6, RunAssumption DEF Typed, TypeOK

LEMMA CrashLineage ==
  ASSUME LineageInv, Crash, supervised
  PROVE  Lineage'
<1>1. /\ phase' = "down" /\ step' = 0 /\ policy' = <<>> /\ deaths' # 0
      /\ UNCHANGED <<supervised, ready, receipt, verification>>
      /\ phase \notin Resting
  BY DEF Crash, Die, Resting, LineageInv, Typed, TypeOK, Process
<1>2. ready = Never
  BY <1>1 DEF LineageInv, Lineage, ReadyKnows
<1>3. Len(log') >= Len(log) /\ \A i \in 1 .. Len(log) : log'[i] = log[i]
  BY DEF Crash, Logged
<1>4. Complete' = Complete /\ \A s \in Complete : checkpoints'[s] = checkpoints[s]
  <2>1. CASE UNCHANGED checkpoints
    BY <2>1 DEF Complete
  <2>2. CASE phase = "save" /\ Saved(Halfway, step \in Complete)
    <3>1. step \notin DOMAIN checkpoints
      BY <2>2 DEF LineageInv, Lineage, NothingAhead
    <3>2. (step \in Complete) = FALSE
      BY <3>1 DEF Complete
    <3>3. /\ DOMAIN checkpoints' = DOMAIN checkpoints \cup {step}
          /\ checkpoints'[step] = [policy |-> Halfway, complete |-> FALSE]
          /\ \A s \in DOMAIN checkpoints : checkpoints'[s] = checkpoints[s]
      BY <2>2, <3>1, <3>2 DEF Saved
    <3> QED
      BY <3>3 DEF Complete
  <2> QED
    BY <2>1, <2>2 DEF Crash
<1>5. CheckpointsMatch'
  <2> SUFFICES ASSUME NEW s \in Complete
               PROVE  TrainedOn(checkpoints[s].policy, s)'
    BY <1>4 DEF CheckpointsMatch
  <2>1. TrainedOn(checkpoints[s].policy, s) /\ s \in 1 .. Steps
    BY DEF LineageInv, Lineage, CheckpointsMatch, Typed, TypeOK, Complete
  <2>2. s <= Len(log) /\ Len(log) \in Nat /\ Len(log') \in Nat
    BY <2>1 DEF TrainedOn, WholeBlocks
  <2>3. checkpoints'[s] = checkpoints[s] /\ \A i \in 1 .. s : log'[i] = log[i]
    BY <1>3, <1>4, <2>1, <2>2
  <2>4. s <= Len(log')
    BY <1>3, <2>1, <2>2
  <2>5. (\A i \in 1 .. s : log[i].step = i - 1 /\ log[i].extent = "whole")
        /\ Len(checkpoints[s].policy) = s
        /\ (\A i \in 1 .. s : checkpoints[s].policy[i] = log[i].by)
    BY <2>1 DEF TrainedOn, WholeBlocks
  <2>6. WholeBlocks(s)'
    BY <2>3, <2>4, <2>5 DEF WholeBlocks
  <2> QED
    BY <2>3, <2>5, <2>6 DEF TrainedOn
<1> QED
  BY <1>1, <1>4, <1>5
     DEF LineageInv, Lineage, LogMatches, NothingAhead, ReadyKnows, FirstLaunch, PassKept, Resting

-----------------------------------------------------------------------------
LEMMA ResumeTyped ==
  ASSUME Typed, Resume
  PROVE  Typed'
<1>1. PICK s \in DOMAIN checkpoints :
        ResumeIncomplete(s) \/ ResumeBeforeGate(s) \/ ResumeAfterGate(s)
  BY DEF Resume
<1>2. /\ phase = "down" /\ s \in 1 .. Steps
      /\ UNCHANGED <<supervised, deaths, server, log, checkpoints, receipt, invocation>>
  BY DEF Resume, Typed, TypeOK
<1>3. exitCode' \in {Never} \cup Exit /\ verification' \in {Never} \cup Exit
  BY <1>1 DEF ResumeIncomplete, ResumeBeforeGate, ResumeAfterGate, Publish, Typed, TypeOK
<1>4. CASE Start(s)
  <2>1. policy' \in Weights
    <3>1. policy' = checkpoints[s].policy
      BY <1>4 DEF Start
    <3>2. checkpoints[s] \in [policy : Weights, complete : BOOLEAN]
      BY DEF Typed, TypeOK
    <3> QED
      BY <3>1, <3>2
  <2>2. /\ phase' \in {"sync", "finished"} /\ (phase' = "sync" => s # Steps)
        /\ step' = s /\ loaded' = Never /\ resumedFrom' = s /\ ready' = Never
    BY <1>4 DEF Start, FirstPhase
  <2>3. PhaseStep'
    BY <1>2, <2>2, RunAssumption DEF PhaseStep, Resting
  <2> QED
    BY <1>2, <1>3, <2>1, <2>2, <2>3 DEF Typed, TypeOK, Phase
<1>5. CASE Refuse(s)
  BY <1>2, <1>3, <1>5 DEF Refuse, Typed, TypeOK, PhaseStep, Resting, Phase
<1> QED
  BY <1>1, <1>4, <1>5 DEF ResumeIncomplete, ResumeBeforeGate, ResumeAfterGate

\* A prepared checkpoint is refused only without a pass: behind the gate the
\* verification of a pass finds the audited blocks and succeeds.
LEMMA ResumeLineage ==
  ASSUME LineageInv, Resume, supervised
  PROVE  Lineage'
<1>1. PICK s \in DOMAIN checkpoints :
        /\ s = ready
        /\ ResumeIncomplete(s) \/ ResumeBeforeGate(s) \/ ResumeAfterGate(s)
  BY DEF Resume
<1>2. /\ phase = "down"
      /\ UNCHANGED <<supervised, deaths, server, log, checkpoints, receipt, invocation>>
  BY DEF Resume
<1>3. /\ s \in 1 .. Steps /\ s # Never /\ s \in Complete /\ Len(log) = s
      /\ \A c \in DOMAIN checkpoints : c <= s
      /\ TrainedOn(checkpoints[s].policy, s) /\ deaths # 0
  <2>1. s \in 1 .. Steps /\ s # Never
    BY DEF LineageInv, Typed, TypeOK, Never
  <2> QED
    BY <1>1, <2>1 DEF LineageInv, Lineage, ReadyKnows, CheckpointsMatch, FirstLaunch
<1>4. receipt = "passed" =>
        /\ GateStep \in Complete /\ s >= GateStep
        /\ Parses /\ OnSchedule(VerifiedRows)
  <2> SUFFICES ASSUME receipt = "passed"
               PROVE  GateStep \in Complete /\ s >= GateStep /\ Parses /\ OnSchedule(VerifiedRows)
    OBVIOUS
  <2>1. GateStep \in Complete /\ s >= GateStep
    BY <1>3 DEF LineageInv, Lineage, PassKept, Complete
  <2>2. log \in Seq(Block) /\ \A i \in 1 .. s : log[i].extent = "whole"
    BY <1>3 DEF TrainedOn, WholeBlocks, LineageInv, Typed, TypeOK
  <2>3. Parses
    BY <1>3, <2>2 DEF Parses
  <2>4. Len(VerifiedRows) = GateStep
    BY <1>3, <2>1, RunAssumption DEF VerifiedRows, Prefix
  <2>5. WholeBlocks(GateStep)
    BY <1>3, <2>1, RunAssumption DEF TrainedOn, WholeBlocks
  <2> QED
    BY <2>1, <2>3, <2>4, <2>5 DEF OnSchedule
<1>5. /\ receipt # "failed" => verification' \in {Never, 0}
      /\ receipt = "passed" => Start(s)
  <2>1. verification \in {Never, 0} \/ receipt = "failed"
    BY DEF LineageInv, Lineage, PassKept
  <2>2. CASE ResumeIncomplete(s)
    BY <1>3, <2>2 DEF ResumeIncomplete
  <2>3. CASE ResumeBeforeGate(s)
    BY <1>3, <1>4, <2>1, <2>3, RunAssumption DEF ResumeBeforeGate
  <2>4. CASE ResumeAfterGate(s) /\ receipt = "none"
    BY <2>1, <2>4 DEF ResumeAfterGate
  <2>5. CASE ResumeAfterGate(s) /\ receipt = "passed"
    <3>1. exitCode' = 0
      BY <1>4, <2>5 DEF ResumeAfterGate, Verify
    <3> QED
      BY <2>1, <2>5, <3>1 DEF ResumeAfterGate, Agrees, Publish
  <2> QED
    BY <1>1, <2>2, <2>3, <2>4, <2>5 DEF LineageInv, Typed, TypeOK, Receipt
<1>6. Start(s) \/ (Refuse(s) /\ receipt # "passed")
  BY <1>1, <1>5 DEF ResumeIncomplete, ResumeBeforeGate, ResumeAfterGate
<1>7. Complete' = Complete /\ CheckpointsMatch'
  BY <1>2 DEF Complete, LineageInv, Lineage, CheckpointsMatch, TrainedOn, WholeBlocks
<1>8. CASE Start(s)
  <2>1. policy' = checkpoints[s].policy /\ step' = s /\ phase' \in {"sync", "finished"} /\ ready' = Never
    BY <1>8 DEF Start, FirstPhase
  <2>2. TrainedOn(policy, step)'
    BY <1>2, <1>3, <2>1 DEF TrainedOn, WholeBlocks
  <2> QED
    BY <1>2, <1>3, <1>5, <1>7, <2>1, <2>2
       DEF LineageInv, Lineage, LogMatches, NothingAhead, ReadyKnows, FirstLaunch, PassKept
<1>9. CASE Refuse(s) /\ receipt # "passed"
  BY <1>1, <1>2, <1>3, <1>5, <1>7, <1>9
     DEF Refuse, Lineage, LogMatches, NothingAhead, ReadyKnows, FirstLaunch, PassKept, Resting
<1> QED
  BY <1>6, <1>8, <1>9

-----------------------------------------------------------------------------
LEMMA StepHolds ==
  ASSUME LineageInv, [Next]_vars
  PROVE  LineageInv'
<1>1. CASE Next
  <2>1. Typed'
    BY <1>1, LaunchTyped, PrepareTyped, ResumeTyped, ExitedTyped, SyncTyped, CollectTyped,
       OptimizeTyped, SaveTyped, SavedElsewhereTyped, RunGateTyped, PublishGateTyped, CrashTyped
       DEF LineageInv, Next
  <2>2. Lineage' \/ ~ supervised
    BY <1>1, LaunchLineage, PrepareLineage, ResumeLineage, ExitedLineage, SyncLineage,
       CollectLineage, OptimizeLineage, SaveLineage, SavedElsewhereLineage, RunGateLineage,
       PublishGateLineage, CrashLineage
       DEF Next
  <2>3. UNCHANGED supervised
    BY <1>1
       DEF Next, Launch, Prepare, Resume, Exited, Sync, Collect, Optimize, Save, SavedElsewhere,
           RunGate, PublishGate, Crash
  <2> QED
    BY <2>1, <2>2, <2>3 DEF LineageInv, Lineage
<1>2. CASE UNCHANGED vars
  BY <1>2
     DEF vars, process, directory, LineageInv, Typed, TypeOK, PhaseStep, Lineage, LogMatches,
         CheckpointsMatch, NothingAhead, ReadyKnows, FirstLaunch, PassKept, TrainedOn,
         WholeBlocks, Complete
<1> QED
  BY <1>1, <1>2

\* Whatever is cut off, dropped, collected again or resumed, each phase knows how
\* the log, the weights and the checkpoints of a prepared run belong together.
THEOREM InvariantHolds == Spec => []LineageInv
<1>1. Init => LineageInv
  BY InitHolds
<1>2. LineageInv /\ [Next]_vars => LineageInv'
  BY StepHolds
<1> QED
  BY <1>1, <1>2, PTL DEF Spec

\* Every variable keeps its type, the invariant's first part.
THEOREM RunTyped == Spec => []TypeOK
<1>1. LineageInv => TypeOK
  BY DEF LineageInv, Typed
<1> QED
  BY <1>1, InvariantHolds, PTL

\* Exact checkpoint resume, the log stays the training record of the live
\* weights and of those in every complete checkpoint.
THEOREM LineageIsExact == Spec => []ExactLineage
<1>1. LineageInv => ExactLineage
  <2> SUFFICES ASSUME LineageInv, supervised
               PROVE  TrainedOn(policy, step) /\ \A s \in Complete : TrainedOn(checkpoints[s].policy, s)
    BY DEF ExactLineage
  <2>1. CASE phase \in Resting
    <3>1. step = 0 /\ policy = <<>> /\ Len(log) \in Nat
      BY <2>1 DEF LineageInv, Typed, PhaseStep
    <3>2. TrainedOn(policy, step)
      BY <3>1 DEF TrainedOn, WholeBlocks
    <3> QED
      BY <3>2 DEF LineageInv, Lineage, CheckpointsMatch
  <2>2. CASE phase \notin Resting
    BY <2>2 DEF LineageInv, Lineage, LogMatches, CheckpointsMatch
  <2> QED
    BY <2>1, <2>2
<1> QED
  BY <1>1, InvariantHolds, PTL

\* A pass keeps its meaning, the audited checkpoint stays, trained on the blocks
\* the receipt is about.
THEOREM PassKeepsLineage == Spec => []PassMeansLineage
<1>1. LineageInv => PassMeansLineage
  BY DEF LineageInv, Lineage, PassKept, CheckpointsMatch, PassMeansLineage
<1> QED
  BY <1>1, InvariantHolds, PTL

\* A prepared run that passed its gate is never refused, at whatever point and
\* however often it died.
THEOREM PassedRunIsResumed == Spec => []PassedRunResumes
<1>1. LineageInv => PassedRunResumes
  BY DEF LineageInv, Lineage, PassKept, PassedRunResumes
<1> QED
  BY <1>1, InvariantHolds, PTL
=============================================================================
