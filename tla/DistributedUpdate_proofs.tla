----------------------- MODULE DistributedUpdate_proofs -----------------------
(***************************************************************************)
(* Proofs about DistributedUpdate for any number of ranks, layers, updates *)
(* and microbatches.  All ranks leave a collective together, so between    *)
(* two collectives the ranks that have not failed are in the same stretch  *)
(* of the update; the invariant says which stretch, and how many blocks    *)
(* every rank, dead ones included, has collected in it.                    *)
(***************************************************************************)
EXTENDS DistributedUpdate, TLAPS

Live(r) == phase[r] \in Local \cup Collective

\* A block is collected and its update is not applied yet.
Pending == {"align", "forward", "realign", "backward", "optimize"}

\* All ranks have the same number of blocks when one of them is here.
Settled == {"launch", "join", "manifest", "started", "optimize", "gather",
            "stream", "synced", "forward", "realign", "end"}

\* Blocks, updates and the phase of one rank go together.
StepsCounted ==
  \A r \in Rank :
    /\ phase[r] \in Pending => rows[r] = step[r] + 1 /\ step[r] < Steps
    /\ Live(r) /\ phase[r] \notin Pending =>
         /\ rows[r] = step[r]
         /\ IF phase[r] = "end" THEN step[r] = Steps ELSE step[r] < Steps
    /\ phase[r] \in {"forward", "backward"} => left[r] >= 1

\* The blocks a rank has, the one it is collecting included.
Due(r) == IF phase[r] = "collect" THEN rows[r] + 1 ELSE rows[r]

BlocksAgree ==
  \A r, s \in Rank :
    /\ Live(r) /\ Live(s) => Due(r) = Due(s)
    /\ phase[s] \in Settled => rows[r] = rows[s]
    /\ phase[s] = "collect" => rows[r] \in {rows[s], rows[s] + 1}
    /\ phase[s] \in {"align", "backward"} => rows[r] \in {rows[s] - 1, rows[s]}

\* While one rank samples the server, every other one samples it too, waits
\* for the end of the sampling, or is gone.
SamplingExcludes ==
  \A r, s \in Rank : phase[r] = "collect" =>
    phase[s] \in {"collect", "align", "backward"} \cup Ended

ServerFollows ==
  /\ \A l \in Layer : held[l] <= step[Main]
  /\ phase[Main] = "synced" => cached = {} /\ \A l \in Layer : held[l] = step[Main]
  /\ cached = {} => rows[Main] = 0 \/ phase[Main] \in {"synced", "collect"} \cup Ended

\* Under FSDP the live ranks are between the same two collectives.
SameStretch(p, q) ==
  \/ p = q
  \/ {p, q} \subseteq {"launch", "join"}
  \/ {p, q} \subseteq {"manifest", "started"}
  \/ {p, q} \subseteq {"optimize", "gather", "end"}
  \/ {p, q} \subseteq {"stream", "synced"}
  \/ {p, q} \subseteq {"collect", "align"}

FsdpInStep ==
  sharding = "fsdp" => \A r, s \in Rank :
    /\ phase[r] # "undefined"
    /\ Live(r) /\ Live(s) => SameStretch(phase[r], phase[s])
    /\ phase[r] \in {"align", "realign"} => left[r] = plan[r]
    /\ Waiting(r) /\ Waiting(s) => left[r] = left[s] /\ plan[r] = plan[s]

\* Only FSDP gathers, aligns and runs its forwards in step.
FsdpOnly ==
  \A r \in Rank : phase[r] \in {"gather", "align", "forward", "realign"} => sharding = "fsdp"

DirectoryOwned ==
  directory = "occupied" => \A r \in Rank :
    /\ rows[r] = 0
    /\ phase[r] \in {"launch", "join"} \cup Ended
    /\ phase[Main] # "join"

IInv ==
  /\ TypeOK
  /\ StepsCounted
  /\ BlocksAgree
  /\ SamplingExcludes
  /\ ServerFollows
  /\ RolloutsOnPolicy
  /\ FsdpInStep
  /\ FsdpOnly
  /\ DirectoryOwned

-----------------------------------------------------------------------------
(***************************************************************************)
(* Every step keeps the invariant: one lemma per action, one step per part *)
(* of the invariant.                                                       *)
(***************************************************************************)
LEMMA LaunchMainKeeps ==
  ASSUME IInv, LaunchMain PROVE IInv'
<1>1. TypeOK'
  BY DEF IInv, TypeOK, LaunchMain, Collective, Ended, server
<1>2. StepsCounted'
  BY DEF IInv, TypeOK, StepsCounted, LaunchMain, Local, Pending, Live
<1>3. BlocksAgree'
  BY GroupAssumption
     DEF IInv, TypeOK, BlocksAgree, SamplingExcludes, LaunchMain, Ended, Settled, Due
<1>4. SamplingExcludes'
  BY DEF IInv, TypeOK, SamplingExcludes, LaunchMain, Ended
<1>5. ServerFollows'
  BY DEF IInv, TypeOK, ServerFollows, LaunchMain, Ended, server
<1>6. RolloutsOnPolicy'
  BY GroupAssumption DEF IInv, TypeOK, SamplingExcludes, RolloutsOnPolicy, LaunchMain, Ended
<1>7. FsdpInStep'
  BY DEF IInv, TypeOK, FsdpInStep, LaunchMain, Local, Collective, Live, SameStretch, Waiting
<1>8. FsdpOnly'
  BY DEF IInv, TypeOK, FsdpOnly, LaunchMain
<1>9. DirectoryOwned'
  BY DEF IInv, TypeOK, DirectoryOwned, LaunchMain, Ended
<1> QED BY <1>1, <1>2, <1>3, <1>4, <1>5, <1>6, <1>7, <1>8, <1>9 DEF IInv

LEMMA LaunchOtherKeeps ==
  ASSUME NEW r \in Rank, IInv, LaunchOther(r) PROVE IInv'
<1>1. TypeOK'
  BY DEF IInv, TypeOK, LaunchOther, Collective, server
<1>2. StepsCounted'
  BY DEF IInv, StepsCounted, LaunchOther, Local, Pending, Live
<1>3. BlocksAgree'
  BY DEF IInv, BlocksAgree, SamplingExcludes, LaunchOther, Ended, Settled, Due
<1>4. SamplingExcludes'
  BY DEF IInv, SamplingExcludes, LaunchOther, Ended
<1>5. ServerFollows'
  BY DEF IInv, ServerFollows, LaunchOther, server
<1>6. RolloutsOnPolicy'
  BY DEF IInv, SamplingExcludes, RolloutsOnPolicy, LaunchOther, Ended
<1>7. FsdpInStep'
  BY DEF IInv, FsdpInStep, LaunchOther, Local, Live, SameStretch, Waiting
<1>8. FsdpOnly'
  BY DEF IInv, FsdpOnly, LaunchOther
<1>9. DirectoryOwned'
  BY DEF IInv, DirectoryOwned, LaunchOther
<1> QED BY <1>1, <1>2, <1>3, <1>4, <1>5, <1>6, <1>7, <1>8, <1>9 DEF IInv

LEMMA WriteManifestKeeps ==
  ASSUME IInv, WriteManifest PROVE IInv'
<1>1. TypeOK'
  BY DEF IInv, TypeOK, WriteManifest, Collective, server
<1>2. StepsCounted'
  BY DEF IInv, StepsCounted, WriteManifest, Local, Pending, Live
<1>3. BlocksAgree'
  BY GroupAssumption DEF IInv, BlocksAgree, SamplingExcludes, WriteManifest, Ended, Settled, Due
<1>4. SamplingExcludes'
  BY DEF IInv, SamplingExcludes, WriteManifest, Ended
<1>5. ServerFollows'
  BY DEF IInv, ServerFollows, WriteManifest, Ended, server
<1>6. RolloutsOnPolicy'
  BY GroupAssumption DEF IInv, SamplingExcludes, RolloutsOnPolicy, WriteManifest, Ended
<1>7. FsdpInStep'
  BY DEF IInv, FsdpInStep, WriteManifest, Local, Live, SameStretch, Waiting
<1>8. FsdpOnly'
  BY DEF IInv, FsdpOnly, WriteManifest
<1>9. DirectoryOwned'
  BY DEF IInv, DirectoryOwned, WriteManifest, Ended
<1> QED BY <1>1, <1>2, <1>3, <1>4, <1>5, <1>6, <1>7, <1>8, <1>9 DEF IInv

LEMMA StreamLayerKeeps ==
  ASSUME IInv, StreamLayer PROVE IInv'
<1>1. TypeOK'
  BY GroupAssumption DEF IInv, TypeOK, StreamLayer
<1>2. StepsCounted'
  BY DEF IInv, StepsCounted, StreamLayer, Live
<1>3. BlocksAgree'
  BY GroupAssumption DEF IInv, BlocksAgree, SamplingExcludes, StreamLayer, Ended, Settled, Due
<1>4. SamplingExcludes'
  BY DEF IInv, SamplingExcludes, StreamLayer
<1>5. ServerFollows'
  BY GroupAssumption DEF IInv, TypeOK, ServerFollows, StreamLayer
<1>6. RolloutsOnPolicy'
  BY GroupAssumption DEF IInv, SamplingExcludes, RolloutsOnPolicy, StreamLayer, Ended
<1>7. FsdpInStep'
  BY DEF IInv, FsdpInStep, StreamLayer, Live, Waiting
<1>8. FsdpOnly'
  BY DEF IInv, FsdpOnly, StreamLayer
<1>9. DirectoryOwned'
  BY DEF IInv, DirectoryOwned, StreamLayer
<1> QED BY <1>1, <1>2, <1>3, <1>4, <1>5, <1>6, <1>7, <1>8, <1>9 DEF IInv

LEMMA ResetPrefixCacheKeeps ==
  ASSUME IInv, ResetPrefixCache PROVE IInv'
<1>1. TypeOK'
  BY DEF IInv, TypeOK, ResetPrefixCache, EmptyCache, Collective
<1>2. StepsCounted'
  BY DEF IInv, StepsCounted, ResetPrefixCache, Local, Pending, Live
<1>3. BlocksAgree'
  BY GroupAssumption DEF IInv, BlocksAgree, SamplingExcludes, ResetPrefixCache, Ended, Settled, Due
<1>4. SamplingExcludes'
  BY DEF IInv, SamplingExcludes, ResetPrefixCache, Ended
<1>5. ServerFollows'
  BY GroupAssumption DEF IInv, TypeOK, ServerFollows, ResetPrefixCache, EmptyCache
<1>6. RolloutsOnPolicy'
  BY DEF IInv, RolloutsOnPolicy, ResetPrefixCache, EmptyCache
<1>7. FsdpInStep'
  BY DEF IInv, FsdpInStep, ResetPrefixCache, Local, Live, SameStretch, Waiting
<1>8. FsdpOnly'
  BY DEF IInv, FsdpOnly, ResetPrefixCache
<1>9. DirectoryOwned'
  BY DEF IInv, DirectoryOwned, ResetPrefixCache, Ended
<1> QED BY <1>1, <1>2, <1>3, <1>4, <1>5, <1>6, <1>7, <1>8, <1>9 DEF IInv

LEMMA CollectKeeps ==
  ASSUME NEW r \in Rank, IInv, Collect(r) PROVE IInv'
<1>1. TypeOK'
  BY GroupAssumption DEF IInv, TypeOK, StepsCounted, Collect, Local, Collective, Pending, Live
<1>2. StepsCounted'
  BY DEF IInv, TypeOK, StepsCounted, Collect, Local, Pending, Live
<1>3. BlocksAgree'
  BY DEF IInv, TypeOK, BlocksAgree, Collect, Local, Collective, Settled, Live, Due
<1>4. SamplingExcludes'
  BY DEF IInv, SamplingExcludes, Collect
<1>5. ServerFollows'
  <2>1. phase[Main] # "synced" /\ phase'[Main] # "synced"
    BY GroupAssumption DEF IInv, SamplingExcludes, Collect, Ended
  <2>2. cached' # {}
    <3>1. PICK l \in Layer : TRUE
      BY GroupAssumption
    <3> QED BY <3>1 DEF Collect
  <2> QED BY <2>1, <2>2 DEF IInv, ServerFollows, Collect
<1>6. RolloutsOnPolicy'
  BY DEF IInv, RolloutsOnPolicy, Collect
<1>7. FsdpInStep'
  BY DEF IInv, TypeOK, FsdpInStep, Collect, Local, Live, SameStretch, Waiting
<1>8. FsdpOnly'
  BY DEF IInv, FsdpOnly, Collect
<1>9. DirectoryOwned'
  BY DEF IInv, DirectoryOwned, Collect, Ended
<1> QED BY <1>1, <1>2, <1>3, <1>4, <1>5, <1>6, <1>7, <1>8, <1>9 DEF IInv

LEMMA OptimizeKeeps ==
  ASSUME NEW r \in Rank, IInv, Optimize(r) PROVE IInv'
<1>1. TypeOK'
  BY DEF IInv, TypeOK, StepsCounted, Optimize, SyncStart, Local, Collective, Pending, server
<1>2. StepsCounted'
  BY GroupAssumption DEF IInv, TypeOK, StepsCounted, Optimize, SyncStart, Pending, Live
<1>3. BlocksAgree'
  BY DEF IInv, BlocksAgree, SamplingExcludes, Optimize, SyncStart, Ended, Settled, Due
<1>4. SamplingExcludes'
  BY DEF IInv, SamplingExcludes, Optimize, SyncStart, Ended
<1>5. ServerFollows'
  <2>1. step'[Main] >= step[Main] /\ step'[Main] \in Int /\ step[Main] \in Int
    BY GroupAssumption DEF IInv, TypeOK, Optimize
  <2>2. \A l \in Layer : held'[l] <= step'[Main]
    BY DEF IInv, TypeOK, ServerFollows, Optimize, server, Unloaded
  <2>3. phase'[Main] = "synced" => r # Main
    BY DEF Optimize, SyncStart
  <2>4. phase'[Main] = "synced" => cached' = {} /\ \A l \in Layer : held'[l] = step'[Main]
    BY <2>3 DEF IInv, ServerFollows, Optimize, server
  <2>5. cached' = {} => rows'[Main] = 0 \/ phase'[Main] \in {"synced", "collect"} \cup Ended
    <3>1. CASE r = Main
      BY DEF IInv, ServerFollows, Optimize, server, Ended
    <3>2. CASE r # Main
      BY <3>2 DEF IInv, ServerFollows, Optimize, server
    <3> QED BY <3>1, <3>2
  <2> QED BY <2>2, <2>4, <2>5 DEF ServerFollows
<1>6. RolloutsOnPolicy'
  BY DEF IInv, SamplingExcludes, RolloutsOnPolicy, Optimize, SyncStart, Ended
<1>7. FsdpInStep'
  BY DEF IInv, FsdpInStep, Optimize, SyncStart, Local, Live, SameStretch, Waiting
<1>8. FsdpOnly'
  BY DEF IInv, FsdpOnly, Optimize, SyncStart
<1>9. DirectoryOwned'
  BY DEF IInv, DirectoryOwned, Optimize, Ended
<1> QED BY <1>1, <1>2, <1>3, <1>4, <1>5, <1>6, <1>7, <1>8, <1>9 DEF IInv

LEMMA RendezvousKeeps ==
  ASSUME IInv, Rendezvous PROVE IInv'
<1>1. TypeOK'
  BY DEF IInv, TypeOK, Rendezvous, Local, Collective, server
<1>2. StepsCounted'
  BY DEF IInv, StepsCounted, Rendezvous, Meet, Collective, Pending, Live
<1>3. BlocksAgree'
  BY DEF IInv, BlocksAgree, Rendezvous, Meet, Settled, Due
<1>4. SamplingExcludes'
  BY DEF SamplingExcludes, Rendezvous
<1>5. ServerFollows'
  BY GroupAssumption DEF IInv, ServerFollows, Rendezvous, Meet, Ended, server
<1>6. RolloutsOnPolicy'
  BY DEF RolloutsOnPolicy, Rendezvous
<1>7. FsdpInStep'
  BY DEF FsdpInStep, Rendezvous, SameStretch, Waiting
<1>8. FsdpOnly'
  BY DEF FsdpOnly, Rendezvous
<1>9. DirectoryOwned'
  BY GroupAssumption DEF IInv, DirectoryOwned, Rendezvous, Meet
<1> QED BY <1>1, <1>2, <1>3, <1>4, <1>5, <1>6, <1>7, <1>8, <1>9 DEF IInv

LEMMA TrainBarrierKeeps ==
  ASSUME IInv, TrainBarrier PROVE IInv'
<1>1. TypeOK'
  BY DEF IInv, TypeOK, TrainBarrier, SyncStart, Local, Collective, server
<1>2. StepsCounted'
  BY DEF IInv, StepsCounted, TrainBarrier, Meet, SyncStart, Collective, Pending, Live
<1>3. BlocksAgree'
  BY DEF IInv, BlocksAgree, TrainBarrier, Meet, SyncStart, Settled, Due
<1>4. SamplingExcludes'
  BY DEF SamplingExcludes, TrainBarrier, SyncStart
<1>5. ServerFollows'
  BY GroupAssumption DEF IInv, ServerFollows, TrainBarrier, Meet, SyncStart, Ended, server
<1>6. RolloutsOnPolicy'
  BY DEF RolloutsOnPolicy, TrainBarrier, SyncStart
<1>7. FsdpInStep'
  BY DEF FsdpInStep, TrainBarrier, SyncStart, SameStretch, Waiting
<1>8. FsdpOnly'
  BY DEF FsdpOnly, TrainBarrier, SyncStart
<1>9. DirectoryOwned'
  BY DEF IInv, DirectoryOwned, TrainBarrier, Meet, Ended
<1> QED BY <1>1, <1>2, <1>3, <1>4, <1>5, <1>6, <1>7, <1>8, <1>9 DEF IInv

LEMMA GatherKeeps ==
  ASSUME IInv, Gather PROVE IInv'
<1>1. TypeOK'
  BY DEF IInv, TypeOK, Gather, Local, Collective, server
<1>2. StepsCounted'
  BY DEF IInv, StepsCounted, Gather, Meet, Collective, Pending, Live
<1>3. BlocksAgree'
  BY DEF IInv, BlocksAgree, Gather, Meet, Settled, Due
<1>4. SamplingExcludes'
  BY DEF SamplingExcludes, Gather
<1>5. ServerFollows'
  BY GroupAssumption DEF IInv, ServerFollows, Gather, Meet, Ended, server
<1>6. RolloutsOnPolicy'
  BY DEF RolloutsOnPolicy, Gather
<1>7. FsdpInStep'
  BY DEF FsdpInStep, Gather, SameStretch, Waiting
<1>8. FsdpOnly'
  BY DEF FsdpOnly, Gather
<1>9. DirectoryOwned'
  BY DEF IInv, DirectoryOwned, Gather, Meet, Ended
<1> QED BY <1>1, <1>2, <1>3, <1>4, <1>5, <1>6, <1>7, <1>8, <1>9 DEF IInv

LEMMA SyncBarrierKeeps ==
  ASSUME IInv, SyncBarrier PROVE IInv'
<1>1. TypeOK'
  BY DEF IInv, TypeOK, SyncBarrier, Local, server
<1>2. StepsCounted'
  BY DEF IInv, StepsCounted, SyncBarrier, Meet, Collective, Pending, Live
<1>3. BlocksAgree'
  BY DEF IInv, BlocksAgree, SyncBarrier, Meet, Settled, Due
<1>4. SamplingExcludes'
  BY DEF SamplingExcludes, SyncBarrier
<1>5. ServerFollows'
  BY GroupAssumption DEF IInv, ServerFollows, SyncBarrier, server
<1>6. RolloutsOnPolicy'
  BY GroupAssumption
     DEF IInv, TypeOK, StepsCounted, BlocksAgree, ServerFollows, RolloutsOnPolicy, SyncBarrier,
         Meet, Ended, Live, Due, server
<1>7. FsdpInStep'
  BY DEF FsdpInStep, SyncBarrier, SameStretch, Waiting
<1>8. FsdpOnly'
  BY DEF FsdpOnly, SyncBarrier
<1>9. DirectoryOwned'
  BY DEF IInv, DirectoryOwned, SyncBarrier, Meet, Ended
<1> QED BY <1>1, <1>2, <1>3, <1>4, <1>5, <1>6, <1>7, <1>8, <1>9 DEF IInv

LEMMA AlignKeeps ==
  ASSUME IInv, Align PROVE IInv'
<1>1. TypeOK'
  BY DEF IInv, TypeOK, Align, Collective, Ended, server
<1>2. StepsCounted'
  BY DEF IInv, TypeOK, StepsCounted, FsdpInStep, FsdpOnly, Align, Meet, Local, Collective,
         Pending, Live
<1>3. BlocksAgree'
  BY DEF IInv, TypeOK, BlocksAgree, Align, Meet, Due
<1>4. SamplingExcludes'
  BY DEF SamplingExcludes, Align
<1>5. ServerFollows'
  BY GroupAssumption DEF IInv, ServerFollows, Align, Meet, Ended, server
<1>6. RolloutsOnPolicy'
  BY DEF RolloutsOnPolicy, Align
<1>7. FsdpInStep'
  BY DEF IInv, FsdpInStep, Align, Meet, Aligned, SameStretch, Waiting
<1>8. FsdpOnly'
  BY DEF IInv, FsdpOnly, Align, Meet
<1>9. DirectoryOwned'
  BY DEF IInv, DirectoryOwned, Align, Meet, Ended
<1> QED BY <1>1, <1>2, <1>3, <1>4, <1>5, <1>6, <1>7, <1>8, <1>9 DEF IInv

LEMMA ForwardKeeps ==
  ASSUME IInv, Forward PROVE IInv'
<1>1. TypeOK'
  BY GroupAssumption DEF IInv, TypeOK, StepsCounted, Forward, Meet, Collective, server
<1>2. StepsCounted'
  BY DEF IInv, TypeOK, StepsCounted, Forward, Meet, Pending
<1>3. BlocksAgree'
  BY DEF IInv, BlocksAgree, Forward, Meet, Settled, Due
<1>4. SamplingExcludes'
  BY DEF SamplingExcludes, Forward
<1>5. ServerFollows'
  BY GroupAssumption DEF IInv, ServerFollows, Forward, Meet, Ended, server
<1>6. RolloutsOnPolicy'
  BY DEF RolloutsOnPolicy, Forward
<1>7. FsdpInStep'
  BY DEF IInv, FsdpInStep, Forward, Meet, LastRange, Resorted, SameStretch, Waiting
<1>8. FsdpOnly'
  BY DEF IInv, FsdpOnly, Forward, Meet
<1>9. DirectoryOwned'
  BY DEF IInv, DirectoryOwned, Forward, Meet, Ended
<1> QED BY <1>1, <1>2, <1>3, <1>4, <1>5, <1>6, <1>7, <1>8, <1>9 DEF IInv

LEMMA RealignKeeps ==
  ASSUME IInv, Realign PROVE IInv'
<1>1. TypeOK'
  BY DEF IInv, TypeOK, Realign, Collective, Ended, server
<1>2. StepsCounted'
  BY DEF IInv, TypeOK, StepsCounted, FsdpInStep, FsdpOnly, Realign, Meet, Local, Collective,
         Pending, Live
<1>3. BlocksAgree'
  BY DEF IInv, BlocksAgree, Realign, Meet, Settled, Due
<1>4. SamplingExcludes'
  BY DEF SamplingExcludes, Realign
<1>5. ServerFollows'
  BY GroupAssumption DEF IInv, ServerFollows, Realign, Meet, Ended, server
<1>6. RolloutsOnPolicy'
  BY DEF RolloutsOnPolicy, Realign
<1>7. FsdpInStep'
  BY DEF IInv, FsdpInStep, Realign, Meet, SameStretch, Waiting
<1>8. FsdpOnly'
  BY DEF FsdpOnly, Realign
<1>9. DirectoryOwned'
  BY DEF IInv, DirectoryOwned, Realign, Meet, Ended
<1> QED BY <1>1, <1>2, <1>3, <1>4, <1>5, <1>6, <1>7, <1>8, <1>9 DEF IInv

LEMMA BackwardKeeps ==
  ASSUME IInv, Backward PROVE IInv'
<1>1. TypeOK'
  BY GroupAssumption DEF IInv, TypeOK, StepsCounted, Backward, Meet, Local, server
<1>2. StepsCounted'
  BY DEF IInv, TypeOK, StepsCounted, Backward, Meet, Pending
<1>3. BlocksAgree'
  BY DEF IInv, TypeOK, BlocksAgree, Backward, Meet, Due
<1>4. SamplingExcludes'
  BY DEF SamplingExcludes, Backward
<1>5. ServerFollows'
  BY GroupAssumption DEF IInv, ServerFollows, Backward, Meet, Ended, server
<1>6. RolloutsOnPolicy'
  BY DEF RolloutsOnPolicy, Backward
<1>7. FsdpInStep'
  BY DEF IInv, FsdpInStep, Backward, Meet, SameStretch, Waiting
<1>8. FsdpOnly'
  BY DEF FsdpOnly, Backward
<1>9. DirectoryOwned'
  BY DEF IInv, DirectoryOwned, Backward, Meet, Ended
<1> QED BY <1>1, <1>2, <1>3, <1>4, <1>5, <1>6, <1>7, <1>8, <1>9 DEF IInv

LEMMA EndBarrierKeeps ==
  ASSUME IInv, EndBarrier PROVE IInv'
<1>1. TypeOK'
  BY DEF IInv, TypeOK, EndBarrier, Ended, server
<1>2. StepsCounted'
  BY DEF StepsCounted, EndBarrier, Local, Collective, Pending, Live
<1>3. BlocksAgree'
  BY DEF IInv, StepsCounted, BlocksAgree, EndBarrier, Meet, Local, Collective, Pending, Live
<1>4. SamplingExcludes'
  BY DEF SamplingExcludes, EndBarrier
<1>5. ServerFollows'
  BY GroupAssumption DEF IInv, ServerFollows, EndBarrier, Ended, server
<1>6. RolloutsOnPolicy'
  BY DEF RolloutsOnPolicy, EndBarrier
<1>7. FsdpInStep'
  BY DEF FsdpInStep, EndBarrier, Local, Collective, Live, Waiting
<1>8. FsdpOnly'
  BY DEF FsdpOnly, EndBarrier
<1>9. DirectoryOwned'
  BY GroupAssumption DEF IInv, DirectoryOwned, EndBarrier, Ended
<1> QED BY <1>1, <1>2, <1>3, <1>4, <1>5, <1>6, <1>7, <1>8, <1>9 DEF IInv

LEMMA MispairKeeps ==
  ASSUME IInv, Mispair PROVE IInv'
<1>1. TypeOK'
  BY DEF IInv, TypeOK, Mispair, Ended, server
<1>2. StepsCounted'
  BY DEF StepsCounted, Mispair, Local, Collective, Pending, Live
<1>3. BlocksAgree'
  BY DEF BlocksAgree, Mispair, Local, Collective, Settled, Live
<1>4. SamplingExcludes'
  BY DEF SamplingExcludes, Mispair
<1>5. ServerFollows'
  BY GroupAssumption DEF IInv, ServerFollows, Mispair, Ended, server
<1>6. RolloutsOnPolicy'
  BY DEF RolloutsOnPolicy, Mispair
<1>7. FsdpInStep'
  BY GroupAssumption
     DEF IInv, StepsCounted, BlocksAgree, FsdpInStep, Mispair, Collective, Pending, Live,
         SameStretch, Due
<1>8. FsdpOnly'
  BY DEF FsdpOnly, Mispair
<1>9. DirectoryOwned'
  BY GroupAssumption DEF IInv, DirectoryOwned, Mispair, Ended
<1> QED BY <1>1, <1>2, <1>3, <1>4, <1>5, <1>6, <1>7, <1>8, <1>9 DEF IInv

LEMMA FailKeeps ==
  ASSUME NEW r \in Rank, IInv, Fail(r) PROVE IInv'
<1>1. TypeOK'
  BY DEF IInv, TypeOK, Fail, Ended, server
<1>2. StepsCounted'
  BY DEF IInv, StepsCounted, Fail, Local, Collective, Pending, Live
<1>3. BlocksAgree'
  BY DEF IInv, BlocksAgree, Fail, Local, Collective, Settled, Live, Due
<1>4. SamplingExcludes'
  BY DEF IInv, SamplingExcludes, Fail, Ended
<1>5. ServerFollows'
  BY DEF IInv, ServerFollows, Fail, Ended, server
<1>6. RolloutsOnPolicy'
  BY DEF IInv, RolloutsOnPolicy, Fail, server
<1>7. FsdpInStep'
  BY DEF IInv, FsdpInStep, Fail, Local, Collective, Live, Waiting
<1>8. FsdpOnly'
  BY DEF IInv, FsdpOnly, Fail
<1>9. DirectoryOwned'
  BY DEF IInv, DirectoryOwned, Fail, Ended
<1> QED BY <1>1, <1>2, <1>3, <1>4, <1>5, <1>6, <1>7, <1>8, <1>9 DEF IInv

LEMMA AgentKeeps ==
  ASSUME IInv, Agent PROVE IInv'
<1>1. TypeOK'
  BY DEF IInv, TypeOK, Agent, Ended, server
<1>2. StepsCounted'
  BY DEF IInv, StepsCounted, Agent, Local, Collective, Pending, Live
<1>3. BlocksAgree'
  BY DEF BlocksAgree, Agent, Local, Collective, Ended, Settled, Live
<1>4. SamplingExcludes'
  BY DEF SamplingExcludes, Agent, Ended
<1>5. ServerFollows'
  BY GroupAssumption DEF IInv, ServerFollows, Agent, Ended, server
<1>6. RolloutsOnPolicy'
  BY DEF RolloutsOnPolicy, Agent, Ended
<1>7. FsdpInStep'
  BY DEF IInv, FsdpInStep, Agent, Local, Collective, Live, Waiting
<1>8. FsdpOnly'
  BY DEF IInv, FsdpOnly, Agent
<1>9. DirectoryOwned'
  BY GroupAssumption DEF IInv, DirectoryOwned, Agent, Ended
<1> QED BY <1>1, <1>2, <1>3, <1>4, <1>5, <1>6, <1>7, <1>8, <1>9 DEF IInv

-----------------------------------------------------------------------------
LEMMA InitHolds == ASSUME Init PROVE IInv
<1>1. TypeOK
  BY GroupAssumption DEF Init, TypeOK, Local
<1>2. StepsCounted /\ BlocksAgree /\ SamplingExcludes /\ FsdpInStep /\ FsdpOnly /\ DirectoryOwned
  BY GroupAssumption DEF Init, StepsCounted, BlocksAgree, SamplingExcludes, FsdpInStep, FsdpOnly,
     DirectoryOwned, Pending, Settled, Live, Local, Collective, Due, SameStretch, Waiting
<1>3. ServerFollows /\ RolloutsOnPolicy
  BY GroupAssumption DEF Init, ServerFollows, RolloutsOnPolicy, Unloaded
<1> QED BY <1>1, <1>2, <1>3 DEF IInv

LEMMA StepHolds == ASSUME IInv, [Next]_vars PROVE IInv'
<1>1. CASE UNCHANGED vars
  BY <1>1
     DEF vars, server, IInv, TypeOK, StepsCounted, BlocksAgree, SamplingExcludes, ServerFollows, 
     RolloutsOnPolicy, FsdpInStep, FsdpOnly, DirectoryOwned, Live, Due, Waiting
<1>2. CASE MainStep
  BY <1>2, LaunchMainKeeps, WriteManifestKeeps, StreamLayerKeeps, ResetPrefixCacheKeeps DEF MainStep
<1>3. CASE \E r \in Rank : RankStep(r) \/ Fail(r)
  BY <1>3, LaunchOtherKeeps, CollectKeeps, OptimizeKeeps, FailKeeps DEF RankStep
<1>4. CASE GroupStep
  BY <1>4, RendezvousKeeps, TrainBarrierKeeps, GatherKeeps, SyncBarrierKeeps, AlignKeeps,
     ForwardKeeps, 
     RealignKeeps, BackwardKeeps, EndBarrierKeeps DEF GroupStep
<1>5. CASE Mispair \/ Agent
  BY <1>5, MispairKeeps, AgentKeeps
<1> QED BY <1>1, <1>2, <1>3, <1>4, <1>5 DEF Next

\* Between two collectives the live ranks stay in one stretch of the update, with
\* the blocks and the server that belong to it.
THEOREM InvariantHolds == Spec => []IInv
<1>1. Init => IInv
  BY InitHolds
<1>2. IInv /\ [Next]_vars => IInv'
  BY StepHolds
<1> QED BY <1>1, <1>2, PTL DEF Spec

\* The variables keep their types: no rank runs past its microbatches, its
\* blocks or optimizer_steps.
THEOREM Typed == Spec => []TypeOK
<1>1. IInv => TypeOK
  BY DEF IInv
<1> QED BY <1>1, InvariantHolds, PTL

\* No rank samples a server that holds a layer, or a cached prefix, of another
\* version than the one it trains (_sync_policy_weights).
THEOREM SampledOnPolicy == Spec => []RolloutsOnPolicy
<1>1. IInv => RolloutsOnPolicy
  BY DEF IInv
<1> QED BY <1>1, InvariantHolds, PTL

\* Whatever number of microbatches each rank samples, FSDP ranks never wait in
\* different collectives of an update (_assert_fsdp_microbatch_alignment).
THEOREM CollectivesAlwaysPair == Spec => []CollectivesPair
<1>1. IInv => CollectivesPair
  BY DEF IInv, FsdpInStep, CollectivesPair, Waiting, Live, Collective, SameStretch
<1> QED BY <1>1, InvariantHolds, PTL

\* A directory rank 0 refuses never receives a block of any rank
\* (require_clean_output, _start_distributed_process_group).
THEOREM OccupiedStaysUntouched == Spec => []OccupiedUntouched
<1>1. IInv => OccupiedUntouched
  BY DEF IInv, DirectoryOwned, OccupiedUntouched
<1> QED BY <1>1, InvariantHolds, PTL

-----------------------------------------------------------------------------
(***************************************************************************)
(* The refinement: each step is a step of OnPolicy, or leaves what it sees *)
(* unchanged.                                                              *)
(***************************************************************************)
\* Every layer holds one version, so the server serves at most one.
LEMMA ServedIs ==
  ASSUME NEW v \in 0 .. Steps, Serves(v) PROVE Served = v
<1>1. PICK l \in Layer : TRUE
  BY GroupAssumption
<1>2. \A w \in 0 .. Steps : Serves(w) => w = v
  BY <1>1 DEF Serves
<1> QED BY <1>2 DEF Served

LEMMA ServedNone ==
  ASSUME \A v \in 0 .. Steps : ~ Serves(v) PROVE Served = -1
BY DEF Served

LEMMA ServedIsNext ==
  ASSUME NEW v \in 0 .. Steps, Serves(v)' PROVE Served' = v
<1>1. PICK l \in Layer : TRUE
  BY GroupAssumption
<1>2. \A w \in 0 .. Steps : Serves(w)' => w = v
  BY <1>1 DEF Serves
<1> QED BY <1>2 DEF Served

LEMMA ServedNoneNext ==
  ASSUME \A v \in 0 .. Steps : ~ Serves(v)' PROVE Served' = -1
BY DEF Served

LEMMA ServedKept == ASSUME UNCHANGED server PROVE Served' = Served
BY DEF Served, Serves, server

\* Sampling is a block of the version the server serves, before and after.
LEMMA CollectRefines ==
  ASSUME IInv, NEW r \in Rank, Collect(r) PROVE Promise!OnPolicyNext
<1>1. step[r] \in 0 .. Steps /\ rows[r] = step[r]
  BY DEF IInv, TypeOK, StepsCounted, Collect, Live, Local, Pending
<1>2. Served = step[r]
  BY <1>1, ServedIs DEF IInv, RolloutsOnPolicy, Collect, Serves
<1>3. Serves(step[r])'
  BY <1>1 DEF IInv, RolloutsOnPolicy, Collect, Serves
<1>4. Served' = step[r]
  BY <1>1, <1>3, ServedIsNext DEF Collect
<1> QED BY <1>1, <1>2, <1>4 DEF Collect, Promise!OnPolicyNext, Promise!CollectBlock

\* An update comes after every rank's block of the version it replaces.
LEMMA OptimizeRefines ==
  ASSUME IInv, NEW r \in Rank, Optimize(r) PROVE Promise!OnPolicyNext
<1>1. \A n \in Rank : rows[n] = step[r] + 1
  BY DEF IInv, StepsCounted, BlocksAgree, Optimize, Pending, Settled
<1>2. step[r] \in Int
  BY DEF IInv, TypeOK
<1>3. UNCHANGED <<rows, Served>> /\ step' = [step EXCEPT ![r] = @ + 1]
  BY ServedKept DEF Optimize, server
<1>4. Promise!Update(r)
  BY <1>1, <1>2, <1>3 DEF Promise!Update
<1> QED BY <1>4 DEF Promise!OnPolicyNext

\* While rank 0 streams, every rank has its block of the last version and the
\* server cannot serve the new one before the cache is reset.
LEMMA StreamRefines ==
  ASSUME IInv, StreamLayer
  PROVE  Promise!OnPolicyNext \/ UNCHANGED <<step, rows, Served>>
<1>0. PICK now \in 0 .. Steps : now = step[Main]
  BY GroupAssumption DEF IInv, TypeOK
<1>1. \A r \in Rank : rows[r] = now
  BY <1>0, GroupAssumption
     DEF IInv, StepsCounted, BlocksAgree, StreamLayer, Live, Local, Pending, Settled
<1>2. PICK l \in Layer : held[l] # now /\ held' = [held EXCEPT ![l] = now]
  BY <1>0 DEF StreamLayer
<1>3. held'[l] = now
  BY <1>2 DEF IInv, TypeOK
<1>4. \A w \in 0 .. Steps : Serves(w)' => w = now
  BY <1>2, <1>3 DEF Serves
<1>5. UNCHANGED <<step, rows, cached>>
  BY DEF StreamLayer
<1>6. CASE \E v \in 0 .. Steps : Serves(v)
  <2>1. PICK v \in 0 .. Steps : Serves(v)
    BY <1>6
  <2>2. v < now
    BY <1>0, <1>2, <2>1 DEF IInv, ServerFollows, Serves
  <2>3. ~ Serves(now)'
    <3>1. SUFFICES ASSUME Serves(now)' PROVE FALSE
      OBVIOUS
    <3>2. cached = {}
      BY <1>5, <2>1, <2>2, <3>1 DEF Serves
    <3>3. rows[Main] = 0
      BY <3>2 DEF IInv, ServerFollows, StreamLayer, Ended
    <3> QED BY <1>1, <2>2, <3>3, GroupAssumption
  <2>4. Served = v /\ Served' = -1
    BY <1>4, <2>1, <2>3, ServedIs, ServedNoneNext
  <2> QED BY <1>1, <1>5, <2>2, <2>4 DEF Promise!OnPolicyNext, Promise!Withdraw, Promise!Nothing
<1>7. CASE \A v \in 0 .. Steps : ~ Serves(v)
  <2>1. Served = -1
    BY <1>7, ServedNone
  <2>2. CASE Serves(now)'
    <3>1. Served' = now
      BY <1>1, <2>2, ServedIsNext
    <3> QED BY <1>1, <1>5, <2>1, <3>1, GroupAssumption
            DEF Promise!OnPolicyNext, Promise!Serve, Promise!Nothing
  <2>3. CASE ~ Serves(now)'
    BY <1>4, <1>5, <2>1, <2>3, ServedNoneNext
  <2> QED BY <2>2, <2>3
<1> QED BY <1>6, <1>7

\* The reset makes the streamed version the one that is served.
LEMMA ResetRefines ==
  ASSUME IInv, ResetPrefixCache
  PROVE  Promise!OnPolicyNext \/ UNCHANGED <<step, rows, Served>>
<1>0. PICK now \in 0 .. Steps : now = step[Main]
  BY GroupAssumption DEF IInv, TypeOK
<1>1. \A r \in Rank : rows[r] = now
  BY <1>0, GroupAssumption
     DEF IInv, StepsCounted, BlocksAgree, ResetPrefixCache, Live, Local, Pending, Settled
<1>2. Serves(now)'
  BY <1>0 DEF ResetPrefixCache, EmptyCache, Serves
<1>3. Served' = now
  BY <1>1, <1>2, ServedIsNext
<1>4. \A w \in 0 .. Steps : Serves(w) => w = now
  <2>1. PICK l \in Layer : TRUE
    BY GroupAssumption
  <2> QED BY <1>0, <2>1 DEF ResetPrefixCache, Serves
<1>5. CASE Serves(now)
  BY <1>1, <1>3, <1>5, ServedIs DEF ResetPrefixCache
<1>6. CASE ~ Serves(now)
  <2>1. Served = -1
    BY <1>4, <1>6, ServedNone
  <2> QED BY <1>1, <1>3, <2>1, GroupAssumption
          DEF ResetPrefixCache, Promise!OnPolicyNext, Promise!Serve, Promise!Nothing
<1> QED BY <1>5, <1>6

\* Every other step leaves the versions, the blocks and the server alone.
LEMMA OthersStutter ==
  ASSUME \/ LaunchMain \/ WriteManifest \/ GroupStep \/ Mispair \/ Agent
         \/ \E r \in Rank : LaunchOther(r) \/ Fail(r)
  PROVE  UNCHANGED <<step, rows, Served>>
<1>1. UNCHANGED <<step, rows, server>>
  BY DEF LaunchMain, WriteManifest, GroupStep, Mispair, Agent, LaunchOther, Fail, server,
         Rendezvous, TrainBarrier, Gather, SyncBarrier, Align, Forward, Realign, Backward, EndBarrier
<1> QED BY <1>1, ServedKept

LEMMA StepRefines ==
  ASSUME IInv, [Next]_vars PROVE [Promise!OnPolicyNext]_<<step, rows, Served>>
<1>1. CASE UNCHANGED vars
  BY <1>1, ServedKept DEF vars
<1>2. CASE MainStep
  BY <1>2, StreamRefines, ResetRefines, OthersStutter DEF MainStep
<1>3. CASE \E r \in Rank : RankStep(r) \/ Fail(r)
  BY <1>3, CollectRefines, OptimizeRefines, OthersStutter DEF RankStep
<1>4. CASE GroupStep \/ Mispair \/ Agent
  BY <1>4, OthersStutter
<1> QED BY <1>1, <1>2, <1>3, <1>4 DEF Next

LEMMA InitRefines == ASSUME Init PROVE Promise!OnPolicyInit
<1>1. \A v \in 0 .. Steps : ~ Serves(v)
  <2>1. PICK l \in Layer : TRUE
    BY GroupAssumption
  <2> QED BY <2>1 DEF Init, Serves, Unloaded
<1> QED BY <1>1, ServedNone DEF Init, Promise!OnPolicyInit, Promise!Nothing

\* Under either sharding and with any ranks failing at any point, every block of
\* every rank is sampled from a server that serves exactly the version that rank
\* trains, and no rank updates before all have their block of its version
\* (_sync_policy_weights, _generate_and_score_completions, training_step).
THEOREM OnPolicyThroughout == Spec => KeepsOnPolicy
<1>1. Init => Promise!OnPolicyInit
  BY InitRefines
<1>2. IInv /\ [Next]_vars => [Promise!OnPolicyNext]_<<step, rows, Served>>
  BY StepRefines
<1> QED BY <1>1, <1>2, InvariantHolds, PTL DEF Spec, KeepsOnPolicy, Promise!OnPolicySpec

-----------------------------------------------------------------------------
(***************************************************************************)
(* Deadlock freedom of a sharded run, without ENABLED: who goes on next.   *)
(***************************************************************************)
\* Ranks exit together, the agent kills a group only for a failed rank, and only
\* rank 0 is ever in a phase of rank 0.
EndsTogether ==
  /\ (\E r \in Rank : phase[r] = "exited") => \A r \in Rank : phase[r] = "exited"
  /\ (\E r \in Rank : phase[r] = "killed") => \E r \in Rank : phase[r] = "failed"
  /\ \A r \in Rank : phase[r] \in {"manifest", "stream"} => r = Main
  /\ directory = "absent" => phase[Main] \in {"launch", "failed", "killed"}

AliveInv == IInv /\ EndsTogether

\* The condition under which some step other than a failure can be taken: rank 0
\* or another rank has work of its own, all ranks are in one collective, or a
\* rank has failed and the agent ends the rest.
SomebodyGoesOn ==
  \/ phase[Main] \in {"launch", "manifest", "stream"}
  \/ \E r \in Rank : r # Main /\ phase[r] = "launch" /\ directory # "absent"
  \/ \E r \in Rank : phase[r] \in {"collect", "optimize"}
  \/ \E c \in Collective : Meet(c)
  \/ \E r \in Rank : phase[r] = "failed"

\* An FSDP run is never stuck: until it has ended on every rank, whatever lengths
\* the ranks sampled and whichever of them failed, somebody goes on.
GroupNeverStuck ==
  sharding = "fsdp" /\ (\E r \in Rank : phase[r] \notin Ended) => SomebodyGoesOn

LEMMA EndsTogetherInit == ASSUME Init PROVE EndsTogether
  BY GroupAssumption DEF Init, EndsTogether

LEMMA MainKeepsEnds == ASSUME AliveInv, MainStep PROVE EndsTogether'
  BY GroupAssumption
     DEF MainStep, LaunchMain, WriteManifest, StreamLayer, ResetPrefixCache, AliveInv, IInv, TypeOK,
         EndsTogether, Ended

LEMMA RankKeepsEnds == ASSUME AliveInv, NEW r \in Rank, RankStep(r) PROVE EndsTogether'
<1>1. CASE LaunchOther(r)
  BY <1>1, GroupAssumption DEF LaunchOther, AliveInv, IInv, TypeOK, EndsTogether
<1>2. CASE Collect(r)
  BY <1>2, GroupAssumption DEF Collect, AliveInv, IInv, TypeOK, EndsTogether
<1>3. CASE Optimize(r)
  BY <1>3, GroupAssumption DEF Optimize, SyncStart, AliveInv, IInv, TypeOK, EndsTogether
<1> QED BY <1>1, <1>2, <1>3 DEF RankStep

LEMMA GroupKeepsEnds == ASSUME AliveInv, GroupStep PROVE EndsTogether'
<1>1. CASE Rendezvous \/ TrainBarrier \/ Gather \/ SyncBarrier
  BY <1>1, GroupAssumption
     DEF Rendezvous, TrainBarrier, Gather, SyncBarrier, SyncStart, Meet, AliveInv, IInv, TypeOK,
         EndsTogether
<1>2. CASE Align \/ Realign \/ EndBarrier
  BY <1>2, GroupAssumption
     DEF Align, Realign, EndBarrier, Meet, AliveInv, IInv, TypeOK, EndsTogether
<1>3. CASE Forward \/ Backward
  BY <1>3, GroupAssumption DEF Forward, Backward, Meet, AliveInv, IInv, TypeOK, EndsTogether
<1> QED BY <1>1, <1>2, <1>3 DEF GroupStep

LEMMA FailureKeepsEnds ==
  ASSUME AliveInv, (\E r \in Rank : Fail(r)) \/ Mispair \/ Agent PROVE EndsTogether'
<1>1. CASE \E r \in Rank : Fail(r)
  BY <1>1, GroupAssumption DEF Fail, AliveInv, IInv, TypeOK, EndsTogether, Ended
<1>2. CASE Mispair
  BY <1>2, GroupAssumption DEF Mispair, AliveInv, EndsTogether, Collective
<1>3. CASE Agent
  BY <1>3, GroupAssumption DEF Agent, AliveInv, IInv, TypeOK, EndsTogether, Ended
<1> QED BY <1>1, <1>2, <1>3

LEMMA AliveStep == ASSUME AliveInv, [Next]_vars PROVE AliveInv'
<1>1. IInv'
  BY StepHolds DEF AliveInv
<1>2. CASE UNCHANGED vars
  BY <1>1, <1>2 DEF vars, AliveInv, EndsTogether
<1>3. CASE Next
  BY <1>1, <1>3, MainKeepsEnds, RankKeepsEnds, GroupKeepsEnds, FailureKeepsEnds DEF Next, AliveInv
<1> QED BY <1>2, <1>3

\* Live ranks that all wait are in one collective: those of one stretch that has
\* two, the gather and the end, are told apart by the updates behind them.
LEMMA WaitingTogether ==
  ASSUME IInv, sharding = "fsdp", \A r \in Rank : phase[r] \in Collective,
         NEW r \in Rank, NEW s \in Rank
  PROVE  phase[r] = phase[s]
<1>1. Live(r) /\ Live(s) /\ SameStretch(phase[r], phase[s])
  BY DEF IInv, FsdpInStep, Live
<1>2. CASE phase[r] = "gather" /\ phase[s] = "end"
  <2>1. step[r] = rows[r] /\ step[r] < Steps /\ rows[s] = step[s] /\ step[s] = Steps
    BY <1>1, <1>2 DEF IInv, StepsCounted, Pending
  <2>2. rows[r] = rows[s]
    BY <1>1, <1>2 DEF IInv, BlocksAgree, Due
  <2> QED BY <2>1, <2>2, GroupAssumption DEF IInv, TypeOK
<1>3. CASE phase[s] = "gather" /\ phase[r] = "end"
  <2>1. step[s] = rows[s] /\ step[s] < Steps /\ rows[r] = step[r] /\ step[r] = Steps
    BY <1>1, <1>3 DEF IInv, StepsCounted, Pending
  <2>2. rows[r] = rows[s]
    BY <1>1, <1>3 DEF IInv, BlocksAgree, Due
  <2> QED BY <2>1, <2>2, GroupAssumption DEF IInv, TypeOK
<1> QED BY <1>1, <1>2, <1>3 DEF SameStretch, Collective

\* An FSDP run cannot deadlock: as long as a rank has not ended, a rank has work
\* of its own, all ranks are in the same collective, or the agent has a failed
\* rank to notice (the barriers and _assert_fsdp_microbatch_alignment).
THEOREM NeverStuck == Spec => []GroupNeverStuck
<1>1. ASSUME AliveInv, sharding = "fsdp", NEW q \in Rank, phase[q] \notin Ended, ~ SomebodyGoesOn
      PROVE  FALSE
  <2>1. \A r \in Rank : phase[r] \notin {"failed", "killed", "exited", "undefined"}
    BY <1>1 DEF SomebodyGoesOn, AliveInv, EndsTogether, IInv, FsdpInStep, Ended
  <2>2. \A r \in Rank : phase[r] \in Local \cup Collective
    BY <1>1, <2>1 DEF AliveInv, IInv, TypeOK, Ended
  <2>3. directory # "absent"
    BY <1>1, <2>1, GroupAssumption DEF SomebodyGoesOn, AliveInv, EndsTogether
  <2>4. \A r \in Rank : phase[r] \in Collective
    BY <1>1, <2>2, <2>3 DEF SomebodyGoesOn, AliveInv, EndsTogether, Local
  <2>5. phase[q] \in Collective /\ Meet(phase[q])
    BY <1>1, <2>4, WaitingTogether DEF AliveInv, Meet
  <2> QED BY <1>1, <2>5 DEF SomebodyGoesOn
<1>2. AliveInv => GroupNeverStuck
  BY <1>1 DEF GroupNeverStuck
<1>3. Init => AliveInv
  BY InitHolds, EndsTogetherInit DEF AliveInv
<1>4. AliveInv /\ [Next]_vars => AliveInv'
  BY AliveStep
<1> QED BY <1>2, <1>3, <1>4, PTL DEF Spec
=============================================================================
