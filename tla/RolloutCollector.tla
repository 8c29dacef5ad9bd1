--------------------------- MODULE RolloutCollector ---------------------------
(***************************************************************************)
(* TableAgentRolloutCollector.collect of src/rl/frameworks/trl/rollout.py: *)
(* GRPO groups are collected in passes.  A pass runs one episode per input *)
(* row in lock step: render every open episode, ask the server once for    *)
(* all of them, hand each its completion.  After a pass the groups that    *)
(* are all correct or all wrong are sampled again, up to a cap.            *)
(* The episode behind apply_model_output is the one of Episode; here only  *)
(* its turn count, its verdict and the error evidence it leaves matter.    *)
(* The rows of a prompt are consecutive, so a row is its prompt and its    *)
(* number among the rows of that prompt.                                   *)
(***************************************************************************)
EXTENDS Integers, Sequences, FiniteSets

CONSTANTS
  NumPrompts,   \* prompts in one update, their indices being 1 .. NumPrompts
  K,            \* initial group size: rows per prompt in the first pass
  MaxGroup,     \* adaptive_group_size_max
  MaxSteps,     \* turns an episode may take
  Profile       \* result_reward_profile

ASSUME CollectorAssumption ==
  /\ NumPrompts \in Nat \ {0}
  /\ K \in Nat \ {0, 1}
  /\ MaxGroup \in Nat /\ MaxGroup >= K
  /\ MaxSteps \in Nat \ {0}
  /\ Profile \in {"binary", "signed-binary", "execution-ladder", "four-level",
                  "three-level-clean-weighted"}

Prompt == 1 .. NumPrompts

VARIABLES
  stage,      \* "pass" while a pass runs, "counted" after it, then an end
  envs,       \* the episodes of the running pass, by prompt, in row order
  asked,      \* rows whose completion is generated and not yet applied
  rounds,     \* stats["rounds"]
  episodes,   \* the scored episodes of the finished passes, by prompt
  tooLong     \* prompts whose first message already exceeds the context

vars == <<stage, envs, asked, rounds, episodes, tooLong>>

(***************************************************************************)
(* One episode: how it ended, whether its answer was correct, the worst    *)
(* error evidence in it, and the turns the policy and the harness counted. *)
(***************************************************************************)
Ending  == {"answered", "aborted", "generation_length", "generation_oom", "context_overflow"}
Evidence == {"clean", "error", "timeout"}
Env ==
  [ index : 0 .. MaxGroup - 1, status : Ending \cup {"open"},
    correct : BOOLEAN, evidence : Evidence,
    policyTurns : 0 .. MaxSteps, auditTurns : 0 .. MaxSteps ]

Sample ==
  [ index : 0 .. MaxGroup - 1, correct : BOOLEAN, trainable : BOOLEAN,
    reward : {-4, -2, -1, 0, 1, 2, 3, 5}, policyTurns : 0 .. MaxSteps, auditTurns : 0 .. MaxSteps ]

Fresh(i) ==
  [ index |-> i, status |-> "open", correct |-> FALSE, evidence |-> "clean",
    policyTurns |-> 0, auditTurns |-> 0 ]

\* A pass has count[p] rows of each prompt.  Every row gets the next sample
\* index of its prompt, after those the earlier passes used.
OffsetsDropped(count, offset) ==
  [p \in Prompt |-> [j \in 1 .. count[p] |-> Fresh(j - 1)]]

NewPass(count, offset) ==
  [p \in Prompt |-> [j \in 1 .. count[p] |-> Fresh(offset[p] + j - 1)]]

(***************************************************************************)
(* Scoring of a completed episode, score_completed_rollout.  Rewards are   *)
(* integers in the unit of their profile.                                  *)
(***************************************************************************)
Penalized == Profile \in {"signed-binary", "four-level", "three-level-clean-weighted"}

Trainable(env) ==
  CASE Penalized /\ Profile # "signed-binary" ->
         env.status \notin {"generation_oom", "context_overflow"}
    [] Profile = "signed-binary" ->
         env.status \notin {"generation_oom", "context_overflow", "generation_length"}
    [] OTHER ->
         /\ env.status \notin {"generation_oom", "context_overflow", "generation_length"}
         /\ env.evidence # "timeout"

HasErrors(env) == env.evidence # "clean" \/ env.status = "generation_length"

Reward(env) ==
  IF ~Trainable(env) THEN 0
  ELSE CASE Profile = "binary"           -> IF env.correct THEN 1 ELSE 0
         [] Profile = "signed-binary"    -> IF env.correct THEN 1 ELSE -1
         [] Profile = "execution-ladder" ->
              IF env.correct THEN 5 ELSE IF env.status = "answered" THEN 1 ELSE 0
         [] Profile = "four-level"       ->
              IF env.correct THEN (IF HasErrors(env) THEN 2 ELSE 3)
                             ELSE (IF HasErrors(env) THEN -2 ELSE -1)
         [] OTHER -> IF env.correct THEN (IF HasErrors(env) THEN 3 ELSE 5) ELSE -4

\* A truncated carrier was never executed, so the harness has no turn for it;
\* scoring adds one.
AuditAsRecorded(env) == env.auditTurns
AuditTurns(env) ==
  IF env.status = "generation_length" /\ env.auditTurns = env.policyTurns - 1
    THEN env.auditTurns + 1 ELSE env.auditTurns

Score(env) ==
  [ index |-> env.index, correct |-> env.correct,
    trainable |-> Trainable(env), reward |-> Reward(env),
    policyTurns |-> env.policyTurns, auditTurns |-> AuditTurns(env) ]

(***************************************************************************)
(* Groups of the finished passes.                                          *)
(***************************************************************************)
Samples(p)     == Len(episodes[p])
CorrectOnes(p) == Cardinality({ e \in DOMAIN episodes[p] : episodes[p][e].correct })
Homogeneous(p) == CorrectOnes(p) \in {0, Samples(p)}

\* adaptive_extension_counts.
ExtendsEveryGroup == { p \in Prompt : Samples(p) >= K /\ Samples(p) < MaxGroup }
Targets == { p \in Prompt : Samples(p) >= K /\ Homogeneous(p) /\ Samples(p) < MaxGroup }
ExtraUncapped(p) == K
Extra(p)         == IF K < MaxGroup - Samples(p) THEN K ELSE MaxGroup - Samples(p)

OneRoundShort == (MaxGroup - K) \div K
MaxRounds     == (MaxGroup - K) \div K + 1

Rows == UNION { {p} \X DOMAIN envs[p] : p \in Prompt }
Open == { r \in Rows : envs[r[1]][r[2]].status = "open" }

Before(r, s) == r[1] < s[1] \/ (r[1] = s[1] /\ r[2] < s[2])

Init ==
  /\ tooLong \in SUBSET Prompt
  /\ stage = "pass"
  /\ envs = NewPass([p \in Prompt |-> K], [p \in Prompt |-> 0])
  /\ asked = {}
  /\ rounds = 0
  /\ episodes = [p \in Prompt |-> <<>>]

(***************************************************************************)
(* One turn of the pass: open episodes whose prompt plus the completion    *)
(* budget no longer fits are closed, and the server is asked for the rest. *)
(* A reply that does not align with the request raises out of collect,     *)
(* and so does a call the server does not answer.                          *)
(***************************************************************************)
Render ==
  /\ stage = "pass" /\ asked = {} /\ Open # {}
  /\ \E Over \in SUBSET Open :
       /\ \A r \in Open : envs[r[1]][r[2]].policyTurns = 0 =>
            (r \in Over <=> r[1] \in tooLong)
       /\ envs' = [p \in Prompt |-> [j \in DOMAIN envs[p] |->
                     IF <<p, j>> \in Over THEN [envs[p][j] EXCEPT !.status = "context_overflow"]
                                          ELSE envs[p][j]]]
       /\ \/ asked' = Open \ Over /\ UNCHANGED stage
          \/ Open \ Over # {} /\ asked' = {} /\ stage' = "raised"
  /\ UNCHANGED <<rounds, episodes, tooLong>>

Worst(a, b) == IF "timeout" \in {a, b} THEN "timeout" ELSE IF "error" \in {a, b} THEN "error" ELSE "clean"

\* apply_model_output: the turn is audited, and it leaves the episode open,
\* ends it for an error or for the budget, or answers.
Played(env, status, correct, evidence) ==
  [env EXCEPT !.status = status, !.correct = correct, !.evidence = Worst(@, evidence),
              !.policyTurns = @ + 1, !.auditTurns = @ + 1]

Turns(env) ==
  LET last == env.policyTurns + 1 = MaxSteps
  IN { Played(env, "answered", c, "clean") : c \in BOOLEAN }
     \cup { Played(env, "aborted", FALSE, e) : e \in IF last THEN Evidence ELSE Evidence \ {"clean"} }
     \cup IF last THEN {} ELSE { Played(env, "open", FALSE, e) : e \in Evidence }

\* An empty completion is the server out of memory; a completion cut at the
\* token limit keeps its tokens and is not executed.
LeftOpenOnOom(env) ==
  { env, [env EXCEPT !.status = "generation_length", !.policyTurns = @ + 1] } \cup Turns(env)

Completed(env) ==
  { [env EXCEPT !.status = "generation_oom"],
    [env EXCEPT !.status = "generation_length", !.policyTurns = @ + 1] } \cup Turns(env)

ApplyOutput ==
  /\ stage = "pass" /\ asked # {}
  /\ \E r \in asked :
       /\ \A s \in asked \ {r} : Before(r, s)
       /\ \E after \in Completed(envs[r[1]][r[2]]) : envs' = [envs EXCEPT ![r[1]][r[2]] = after]
       /\ asked' = asked \ {r}
  /\ UNCHANGED <<stage, rounds, episodes, tooLong>>

\* No episode of the pass is open: all are scored and join their groups.
FinishPass ==
  /\ stage = "pass" /\ asked = {} /\ Open = {}
  /\ episodes' = [p \in Prompt |-> episodes[p] \o [j \in DOMAIN envs[p] |-> Score(envs[p][j])]]
  /\ envs' = [p \in Prompt |-> <<>>]
  /\ stage' = "counted"
  /\ UNCHANGED <<asked, rounds, tooLong>>

Extend ==
  /\ stage = "counted" /\ MaxGroup > K /\ rounds < MaxRounds /\ Targets # {}
  /\ envs' = NewPass([p \in Prompt |-> IF p \in Targets THEN Extra(p) ELSE 0],
                     [p \in Prompt |-> Samples(p)])
  /\ rounds' = rounds + 1
  /\ stage' = "pass"
  /\ UNCHANGED <<asked, episodes, tooLong>>

Return ==
  /\ stage = "counted" /\ (MaxGroup = K \/ rounds >= MaxRounds \/ Targets = {})
  /\ stage' = "returned"
  /\ UNCHANGED <<envs, asked, rounds, episodes, tooLong>>

Next == Render \/ ApplyOutput \/ FinishPass \/ Extend \/ Return

\* collect is one loop of one process: it keeps running.
Spec == Init /\ [][Next]_vars /\ WF_vars(Next)
-----------------------------------------------------------------------------
(***************************************************************************)
(* Properties                                                              *)
(***************************************************************************)
TypeOK ==
  /\ stage \in {"pass", "counted", "returned", "raised"}
  /\ envs \in [Prompt -> Seq(Env)]
  /\ asked \subseteq Open
  /\ rounds \in 0 .. MaxRounds
  /\ episodes \in [Prompt -> Seq(Sample)]
  /\ tooLong \subseteq Prompt

\* trajectory_id and the generation request key are built from the sample
\* index: the episodes of a prompt, those of the running pass included, are
\* numbered 0, 1, 2 ... without a gap or a repetition, whichever groups each
\* extension round samples again.
IndicesGapless ==
  \A p \in Prompt :
    { episodes[p][e].index : e \in DOMAIN episodes[p] }
        \cup { envs[p][j].index : j \in DOMAIN envs[p] }
      = 0 .. Samples(p) + Len(envs[p]) - 1

\* "mixed groups are never extended": once the finished passes hold a correct
\* and a wrong episode of a prompt, its group never grows again, and no group
\* grows beyond the cap.
MixedNeverExtended ==
  [][ \A p \in Prompt :
        /\ Samples(p) > 0 /\ ~Homogeneous(p) => Samples(p)' = Samples(p)
        /\ Samples(p)' <= MaxGroup ]_vars

\* "zero-signal groups [are extended] up to a fixed cap": the round limit never
\* stops a group that is still all correct or all wrong below the cap.
HomogeneousOnlyAtCap ==
  stage = "returned" => \A p \in Prompt : Homogeneous(p) => Samples(p) = MaxGroup

\* build_transition_updates and SAAM refuse the whole batch when an episode that
\* trains has not one audited turn per policy turn: however an episode ended,
\* by an error, a truncated carrier or the budget, the two stay aligned.
TurnsAligned ==
  \A p \in Prompt : \A e \in DOMAIN episodes[p] :
    LET episode == episodes[p][e]
    IN episode.trainable => episode.auditTurns = episode.policyTurns /\ episode.policyTurns > 0

\* collect ends: every pass runs out of open episodes and the passes run out.
CollectEnds == <>(stage \in {"returned", "raised"})

\* standardized_group_advantages gives a group a nonzero advantage exactly when
\* two of its trainable episodes have different rewards.
CarriesSignal(p) ==
  LET Trained == { e \in DOMAIN episodes[p] : episodes[p][e].trainable }
  IN \E d, e \in Trained : episodes[p][d].reward # episodes[p][e].reward

\* What adaptive_extension_counts says it does: "Extra samples to draw for
\* prompts whose current group carries no signal", so a group returned below
\* the cap carries one.
NoSignalOnlyAtCap ==
  stage = "returned" => \A p \in Prompt : CarriesSignal(p) \/ Samples(p) = MaxGroup

(***************************************************************************)
(* Refinement                                                              *)
(***************************************************************************)
Groups == INSTANCE GroupSampling WITH
  Cap <- MaxGroup,
  right <- [p \in Prompt |-> CorrectOnes(p)],
  wrong <- [p \in Prompt |-> Samples(p) - CorrectOnes(p)],
  delivered <- (stage = "returned")

\* The passes of collect are rounds of group sampling: each one samples all the
\* groups of one verdict below the cap and no other, by K or up to the cap, and
\* collect returns only when none is left.
KeepsGroupSampling == Groups!GroupSamplingSpec
=============================================================================
