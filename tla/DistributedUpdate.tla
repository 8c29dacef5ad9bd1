-------------------------- MODULE DistributedUpdate --------------------------
(***************************************************************************)
(* A training run on several ranks: torchrun starts one trainer process    *)
(* per rank, src/rl/frameworks/trl.  They share one rollout server and one *)
(* output directory and meet in collectives: the rendezvous of the process *)
(* group, barriers, the FSDP gather of the weights, the agreement on the   *)
(* microbatch count, and one collective per microbatch.  A rank that has   *)
(* reached a collective waits there for all the others.                    *)
(* One optimizer update is one block of rollouts                           *)
(* (gradient_accumulation_steps = 1), so the sync is due at every step.    *)
(* NCCL, the server and torchrun's agent are external: a collective lets   *)
(* the ranks go when all are in it, ranks that meet in different           *)
(* collectives either hang or go on with undefined data, and the agent     *)
(* kills a group of which one process failed.                              *)
(***************************************************************************)
EXTENDS Integers, FiniteSets

CONSTANTS
  Rank,       \* the trainer processes
  Main,       \* rank 0
  Layer,      \* the layers whose merged weights are streamed
  Steps,      \* optimizer_steps
  MaxMicro    \* bound: microbatches of one rank's block

ASSUME GroupAssumption ==
  /\ Main \in Rank
  /\ Layer # {}
  /\ Steps \in Nat \ {0} /\ MaxMicro \in Nat \ {0}

VARIABLES
  sharding,    \* trainer_sharding
  directory,   \* the output directory as rank 0 finds it ("usable": empty, or
               \* named by a resume), "ours" afterwards
  phase,       \* what each rank does, or the collective it waits in
  step,        \* state.global_step of each rank, its policy version
  plan,        \* ranges in the microbatch plan of each rank
  left,        \* ranges whose forward or backward is still to come
  held,        \* the version of each layer in the server
  cached,      \* versions under which the server's prefix cache was filled
  rows         \* blocks in rollouts.rank<r>.jsonl

server == <<held, cached>>
vars   == <<sharding, directory, phase, step, plan, left, server, rows>>

Unloaded == -1          \* a layer of the base model the server started with

Local      == {"launch", "manifest", "stream", "collect", "optimize"}
Collective == {"join", "started", "gather", "synced", "align", "forward",
               "realign", "backward", "end"}
Ended      == {"exited", "failed", "killed", "undefined"}

Init ==
  /\ sharding \in {"fsdp", "replicated"}
  /\ directory \in {"absent", "usable", "occupied"}
  /\ phase  = [r \in Rank |-> "launch"]
  /\ step   = [r \in Rank |-> 0]
  /\ plan   = [r \in Rank |-> 1]
  /\ left   = [r \in Rank |-> 0]
  /\ held   = [l \in Layer |-> Unloaded]
  /\ cached = {}
  /\ rows   = [r \in Rank |-> 0]

(***************************************************************************)
(* Launch: rank 0 owns the directory, refuses one that is in use, and      *)
(* writes the manifest behind the rendezvous; the others only wait for the *)
(* directory to be there.                                                  *)
(***************************************************************************)
LaunchMain ==
  /\ phase[Main] = "launch"
  /\ IF directory = "occupied"
       THEN phase' = [phase EXCEPT ![Main] = "failed"] /\ UNCHANGED directory
       ELSE phase' = [phase EXCEPT ![Main] = "join"] /\ directory' = "ours"
  /\ UNCHANGED <<sharding, step, plan, left, server, rows>>

LaunchOther(r) ==
  /\ r # Main /\ phase[r] = "launch"
  /\ directory # "absent"
  /\ phase' = [phase EXCEPT ![r] = "join"]
  /\ UNCHANGED <<sharding, directory, step, plan, left, server, rows>>

WriteManifest ==
  /\ phase[Main] = "manifest"
  /\ phase' = [phase EXCEPT ![Main] = "started"]
  /\ UNCHANGED <<sharding, directory, step, plan, left, server, rows>>

(***************************************************************************)
(* _sync_policy_weights: under FSDP every rank takes part in the gather    *)
(* and rank 0 streams; a replica that is not rank 0 goes straight to the   *)
(* barrier.                                                                *)
(***************************************************************************)
OthersSkipBarrier(r) ==
  IF sharding = "fsdp" THEN "gather" ELSE IF r = Main THEN "stream" ELSE "collect"

OthersSkipGather(r) ==
  IF r = Main THEN (IF sharding = "fsdp" THEN "gather" ELSE "stream") ELSE "synced"

SyncStart(r) ==
  IF sharding = "fsdp" THEN "gather" ELSE IF r = Main THEN "stream" ELSE "synced"

StreamLayer ==
  /\ phase[Main] = "stream"
  /\ \E l \in Layer :
       /\ held[l] # step[Main]
       /\ held' = [held EXCEPT ![l] = step[Main]]
  /\ UNCHANGED <<sharding, directory, phase, step, plan, left, cached, rows>>

KeepsCache == cached
EmptyCache == {}

ResetPrefixCache ==
  /\ phase[Main] = "stream"
  /\ \A l \in Layer : held[l] = step[Main]
  /\ cached' = EmptyCache
  /\ phase' = [phase EXCEPT ![Main] = "synced"]
  /\ UNCHANGED <<sharding, directory, step, plan, left, held, rows>>

(***************************************************************************)
(* Each rank collects its own block from the shared server, logs it and    *)
(* plans its microbatches; their number depends on the lengths it sampled. *)
(***************************************************************************)
Collect(r) ==
  /\ phase[r] = "collect"
  /\ rows' = [rows EXCEPT ![r] = @ + 1]
  /\ cached' = cached \cup { held[l] : l \in Layer }
  /\ \E n \in 1 .. MaxMicro :
       /\ plan' = [plan EXCEPT ![r] = n]
       /\ left' = [left EXCEPT ![r] = n]
  /\ phase' = [phase EXCEPT ![r] = IF sharding = "fsdp" THEN "align" ELSE "backward"]
  /\ UNCHANGED <<sharding, directory, step, held>>

Optimize(r) ==
  /\ phase[r] = "optimize"
  /\ step' = [step EXCEPT ![r] = @ + 1]
  /\ phase' = [phase EXCEPT ![r] = IF step[r] + 1 = Steps THEN "end" ELSE SyncStart(r)]
  /\ UNCHANGED <<sharding, directory, plan, left, server, rows>>

(***************************************************************************)
(* Collectives.  All ranks are in the same one and leave it together.      *)
(***************************************************************************)
MeetWithoutMain(c) == \A r \in Rank \ {Main} : phase[r] = c
Meet(c)            == \A r \in Rank : phase[r] = c

Rendezvous ==
  /\ Meet("join")
  /\ phase' = [r \in Rank |-> IF r = Main THEN "manifest" ELSE "started"]
  /\ UNCHANGED <<sharding, directory, step, plan, left, server, rows>>

TrainBarrier ==
  /\ Meet("started")
  /\ phase' = [r \in Rank |-> SyncStart(r)]
  /\ UNCHANGED <<sharding, directory, step, plan, left, server, rows>>

Gather ==
  /\ Meet("gather")
  /\ phase' = [r \in Rank |-> IF r = Main THEN "stream" ELSE "synced"]
  /\ UNCHANGED <<sharding, directory, step, plan, left, server, rows>>

SyncBarrier ==
  /\ Meet("synced")
  /\ phase' = [r \in Rank |-> "collect"]
  /\ UNCHANGED <<sharding, directory, step, plan, left, server, rows>>

\* _assert_fsdp_microbatch_alignment: the smallest and the largest plan agree.
Unchecked == TRUE
Aligned   == \A r, s \in Rank : plan[r] = plan[s]

Align ==
  /\ Meet("align")
  /\ phase' = [r \in Rank |-> IF Aligned THEN "forward" ELSE "failed"]
  /\ UNCHANGED <<sharding, directory, step, plan, left, server, rows>>

\* TRL shuffles the scored batch.  training_step restores the length order and
\* so finds the plan again; in any other order the count may differ.
AsShuffled(n) == 1 .. MaxMicro
Resorted(n)   == {n}

PlannedOnce == FALSE
LastRange   == \A r \in Rank : left[r] = 1

\* One forward per range.  After the last one each rank plans the training step.
Forward ==
  /\ Meet("forward")
  /\ IF LastRange
       THEN \E fresh \in [Rank -> 1 .. MaxMicro] :
              /\ \A r \in Rank : fresh[r] \in Resorted(plan[r])
              /\ plan' = fresh /\ left' = fresh
              /\ phase' = [r \in Rank |-> "realign"]
       ELSE /\ left' = [r \in Rank |-> left[r] - 1]
            /\ phase' = [r \in Rank |-> IF left[r] = 1 THEN "realign" ELSE "forward"]
            /\ UNCHANGED plan
  /\ UNCHANGED <<sharding, directory, step, server, rows>>

Realign ==
  /\ Meet("realign")
  /\ phase' = [r \in Rank |-> IF Aligned THEN "backward" ELSE "failed"]
  /\ UNCHANGED <<sharding, directory, step, plan, left, server, rows>>

Backward ==
  /\ Meet("backward")
  /\ left' = [r \in Rank |-> left[r] - 1]
  /\ phase' = [r \in Rank |-> IF left[r] = 1 THEN "optimize" ELSE "backward"]
  /\ UNCHANGED <<sharding, directory, step, plan, server, rows>>

EndBarrier ==
  /\ Meet("end")
  /\ phase' = [r \in Rank |-> "exited"]
  /\ UNCHANGED <<sharding, directory, step, plan, left, server, rows>>

\* The ranks are in different collectives: if NCCL lets them through, what they
\* compute from then on is undefined.
Mispair ==
  /\ \A r \in Rank : phase[r] \in Collective
  /\ \E r, s \in Rank : phase[r] # phase[s]
  /\ phase' = [r \in Rank |-> "undefined"]
  /\ UNCHANGED <<sharding, directory, step, plan, left, server, rows>>

(***************************************************************************)
(* Failures: any process can raise or be killed, wherever it is; then the  *)
(* agent ends the group.                                                   *)
(***************************************************************************)
Fail(r) ==
  /\ phase[r] \notin Ended
  /\ phase' = [phase EXCEPT ![r] = "failed"]
  /\ UNCHANGED <<sharding, directory, step, plan, left, server, rows>>

Agent ==
  /\ \E r \in Rank : phase[r] = "failed"
  /\ \E r \in Rank : phase[r] \notin Ended
  /\ phase' = [r \in Rank |-> IF phase[r] \in Ended THEN phase[r] ELSE "killed"]
  /\ UNCHANGED <<sharding, directory, step, plan, left, server, rows>>

MainStep  == LaunchMain \/ WriteManifest \/ StreamLayer \/ ResetPrefixCache
RankStep(r) == LaunchOther(r) \/ Collect(r) \/ Optimize(r)
GroupStep == \/ Rendezvous \/ TrainBarrier \/ Gather \/ SyncBarrier \/ Align
             \/ Forward \/ Realign \/ Backward \/ EndBarrier

Next ==
  \/ MainStep
  \/ \E r \in Rank : RankStep(r) \/ Fail(r)
  \/ GroupStep
  \/ Mispair
  \/ Agent

\* Every process keeps running, a collective all ranks are in completes, and
\* the agent notices a dead process.
Fairness ==
  /\ WF_vars(MainStep)
  /\ \A r \in Rank : WF_vars(RankStep(r))
  /\ WF_vars(GroupStep)
  /\ WF_vars(Agent)

Spec == Init /\ [][Next]_vars /\ Fairness
-----------------------------------------------------------------------------
(***************************************************************************)
(* Properties                                                              *)
(***************************************************************************)
TypeOK ==
  /\ sharding \in {"fsdp", "replicated"}
  /\ directory \in {"absent", "usable", "occupied", "ours"}
  /\ phase \in [Rank -> Local \cup Collective \cup Ended]
  /\ step \in [Rank -> 0 .. Steps]
  /\ plan \in [Rank -> 1 .. MaxMicro]
  /\ left \in [Rank -> 0 .. MaxMicro]
  /\ held \in [Layer -> {Unloaded} \cup 0 .. Steps]
  /\ cached \subseteq {Unloaded} \cup 0 .. Steps
  /\ rows \in [Rank -> 0 .. Steps]

\* "The barrier also guarantees that all ranks start their next rollout from the
\* same policy version": while any rank samples the shared server, every layer
\* it serves and every prefix it cached are of the version that rank trains.
RolloutsOnPolicy ==
  \A r \in Rank : phase[r] = "collect" =>
    /\ \A l \in Layer : held[l] = step[r]
    /\ cached \subseteq {step[r]}

\* "FSDP ranks must execute the same number of model collectives": however many
\* microbatches each rank sampled, no two ranks of an FSDP run that have not
\* failed ever wait in different collectives of the update.
Waiting(r) == phase[r] \in {"forward", "realign", "backward"}
CollectivesPair ==
  sharding = "fsdp" =>
    /\ \A r \in Rank : phase[r] # "undefined"
    /\ \A r, s \in Rank : Waiting(r) /\ Waiting(s) => phase[r] = phase[s] /\ left[r] = left[s]

\* A rank that is not rank 0 accepts any directory that exists, also one rank 0
\* refuses as in use: still nothing of a run is ever written beside the files
\* of another run.
OccupiedUntouched ==
  directory = "occupied" => \A r \in Rank : rows[r] = 0

\* A rank that fails does not leave the others waiting: an FSDP run ends on
\* every rank.
EveryRankEnds == sharding = "fsdp" => <>(\A r \in Rank : phase[r] \in Ended)

(***************************************************************************)
(* Refinement: the server serves a version once all its layers and its     *)
(* cache belong to it.                                                     *)
(***************************************************************************)
Serves(v) == (\A l \in Layer : held[l] = v) /\ cached \subseteq {v}
Served    == IF \E v \in 0 .. Steps : Serves(v) THEN CHOOSE v \in 0 .. Steps : Serves(v) ELSE -1

Promise == INSTANCE OnPolicy WITH Member <- Rank, version <- step, collected <- rows, served <- Served

\* The run trains on-policy, on every rank and under either sharding.
KeepsOnPolicy == Promise!OnPolicySpec
=============================================================================
