------------------------ MODULE RolloutCollector_proofs ------------------------
(***************************************************************************)
(* Proofs about RolloutCollector.  Between two steps of collect,           *)
(* CollectInv says of each episode that its turns are counted alike by the *)
(* policy and the harness and that its number is its place in its group,   *)
(* and of each group how far the rounds so far have brought it: a pass     *)
(* samples the groups of one verdict and no other, by K rows or up to the  *)
(* cap, so n rounds leave a group of one verdict full or with K * n        *)
(* episodes.  With the round limit that is HomogeneousOnlyAtCap, and the   *)
(* passes are the rounds of GroupSampling.                                 *)
(***************************************************************************)
EXTENDS RolloutCollector, FiniteSetTheorems, TLAPS

-----------------------------------------------------------------------------
(***************************************************************************)
(* An episode: what a turn, an overflow and the scoring do to its counts.  *)
(***************************************************************************)
\* The turns of an episode, as the policy and the harness count them.
Aligned(env) ==
  /\ env.status = "open" => env.auditTurns = env.policyTurns /\ env.policyTurns < MaxSteps
  /\ env.status \in {"answered", "aborted"} =>
       env.auditTurns = env.policyTurns /\ env.policyTurns > 0
  /\ env.status = "generation_length" => env.policyTurns = env.auditTurns + 1

\* An episode of the running pass; whatever a turn does keeps its number.
LEMMA FreshIsAligned ==
  ASSUME NEW i \in 0 .. MaxGroup - 1
  PROVE  Fresh(i) \in Env /\ Aligned(Fresh(i)) /\ Fresh(i).index = i
BY CollectorAssumption DEF Fresh, Env, Aligned, Evidence, Ending

LEMMA OverflowIsAligned ==
  ASSUME NEW env \in Env
  PROVE  /\ [env EXCEPT !.status = "context_overflow"] \in Env
         /\ Aligned([env EXCEPT !.status = "context_overflow"])
         /\ [env EXCEPT !.status = "context_overflow"].index = env.index
BY DEF Env, Aligned, Ending

LEMMA CompletedIsAligned ==
  ASSUME NEW env \in Env, Aligned(env), env.status = "open", NEW after \in Completed(env)
  PROVE  after \in Env /\ Aligned(after) /\ after.index = env.index
<1> USE CollectorAssumption
<1>1. /\ env.policyTurns \in 0 .. MaxSteps /\ env.auditTurns = env.policyTurns
      /\ env.policyTurns < MaxSteps /\ env.evidence \in Evidence
  BY DEF Aligned, Env
<1>2. CASE after = [env EXCEPT !.status = "generation_oom"]
  BY <1>2 DEF Env, Aligned, Ending
<1>3. CASE after = [env EXCEPT !.status = "generation_length", !.policyTurns = @ + 1]
  <2>1. env.policyTurns + 1 \in 0 .. MaxSteps
    BY <1>1
  <2>2. /\ after.status = "generation_length" /\ after.policyTurns = env.policyTurns + 1
        /\ after.auditTurns = env.policyTurns /\ after.index = env.index
    BY <1>1, <1>3 DEF Env
  <2>3. after \in Env
    BY <1>3, <2>1 DEF Env, Ending
  <2> QED BY <2>2, <2>3 DEF Aligned
<1>4. ASSUME NEW status \in {"answered", "aborted", "open"}, NEW c \in BOOLEAN, NEW e \in Evidence,
             after = Played(env, status, c, e),
             status = "open" => env.policyTurns + 1 # MaxSteps
      PROVE  after \in Env /\ Aligned(after) /\ after.index = env.index
  <2>1. Worst(env.evidence, e) \in Evidence
    BY <1>1 DEF Worst, Evidence
  <2>2. env.policyTurns + 1 \in 0 .. MaxSteps
    BY <1>1
  <2>3. /\ after.status = status /\ after.policyTurns = env.policyTurns + 1
        /\ after.auditTurns = env.policyTurns + 1 /\ after.index = env.index
    BY <1>1, <1>4 DEF Played, Env
  <2>4. after \in Env
    BY <1>1, <1>4, <2>1, <2>2 DEF Played, Env, Ending
  <2>5. Aligned(after)
    BY <1>1, <1>4, <2>2, <2>3 DEF Aligned
  <2> QED BY <2>3, <2>4, <2>5
<1>5. CASE after \in Turns(env)
  <2>1. \E status \in {"answered", "aborted", "open"}, c \in BOOLEAN, e \in Evidence :
           /\ after = Played(env, status, c, e)
           /\ status = "open" => env.policyTurns + 1 # MaxSteps
    <3>1. CASE after \in { Played(env, "answered", c, "clean") : c \in BOOLEAN }
      BY <3>1 DEF Evidence
    <3>2. CASE \E e \in Evidence : after = Played(env, "aborted", FALSE, e)
      BY <3>2
    <3>3. CASE /\ env.policyTurns + 1 # MaxSteps
               /\ \E e \in Evidence : after = Played(env, "open", FALSE, e)
      BY <3>3
    <3> QED BY <1>5, <3>1, <3>2, <3>3 DEF Turns
  <2> QED BY <2>1, <1>4
<1> QED BY <1>2, <1>3, <1>5 DEF Completed

LEMMA ScoreIsAligned ==
  ASSUME NEW env \in Env, Aligned(env), env.status # "open"
  PROVE  /\ Score(env) \in Sample
         /\ Score(env).index = env.index
         /\ Score(env).trainable => /\ Score(env).auditTurns = Score(env).policyTurns
                                    /\ Score(env).policyTurns > 0
<1> USE CollectorAssumption
<1>1. Trainable(env) \in BOOLEAN
  BY DEF Trainable, Penalized
<1>2. Reward(env) \in {-4, -2, -1, 0, 1, 2, 3, 5}
  BY DEF Reward
<1>3. /\ env.policyTurns \in 0 .. MaxSteps /\ env.auditTurns \in 0 .. MaxSteps
      /\ env.status \in Ending
  BY DEF Env
<1>4. AuditTurns(env) \in 0 .. MaxSteps
  BY <1>3 DEF AuditTurns
<1>5. Score(env) \in Sample
  BY <1>1, <1>2, <1>3, <1>4 DEF Score, Sample, Env
<1>6. Trainable(env) => env.status \in {"answered", "aborted", "generation_length"}
  BY <1>3 DEF Trainable, Penalized, Ending
<1>7. env.status \in {"answered", "aborted", "generation_length"} =>
         AuditTurns(env) = env.policyTurns /\ env.policyTurns > 0
  BY <1>3 DEF AuditTurns, Aligned
<1> QED BY <1>5, <1>6, <1>7 DEF Score

-----------------------------------------------------------------------------
(***************************************************************************)
(* A group: counting its right and wrong answers.                          *)
(***************************************************************************)
\* The correct answers of a group, and the wrong ones.
Right(group) == { i \in DOMAIN group : group[i].correct }
Wrong(group) == { i \in DOMAIN group : ~ group[i].correct }

LEMMA Counting ==
  ASSUME NEW group \in Seq(Sample)
  PROVE  /\ IsFiniteSet(Right(group)) /\ IsFiniteSet(Wrong(group))
         /\ Cardinality(Right(group)) \in Nat /\ Cardinality(Wrong(group)) \in Nat
         /\ Cardinality(Right(group)) + Cardinality(Wrong(group)) = Len(group)
<1>1. Len(group) \in Nat /\ DOMAIN group = 1 .. Len(group)
  OBVIOUS
<1>2. IsFiniteSet(1 .. Len(group)) /\ Cardinality(1 .. Len(group)) = Len(group)
  BY <1>1, FS_Interval
<1>3. Right(group) \in SUBSET (1 .. Len(group)) /\ Wrong(group) \in SUBSET (1 .. Len(group))
  BY <1>1 DEF Right, Wrong
<1>4. IsFiniteSet(Right(group)) /\ IsFiniteSet(Wrong(group))
  BY <1>2, <1>3, FS_Subset
<1>5. Cardinality(Right(group)) \in Nat /\ Cardinality(Wrong(group)) \in Nat
  BY <1>4, FS_CardinalityType
<1>6. Right(group) \cup Wrong(group) = 1 .. Len(group) /\ Right(group) \cap Wrong(group) = {}
  BY <1>1 DEF Right, Wrong
<1>7. Cardinality(1 .. Len(group)) = Cardinality(Right(group)) + Cardinality(Wrong(group))
  <2>1. Cardinality(Right(group) \cap Wrong(group)) = 0
    BY <1>6, FS_EmptySet
  <2>2. Cardinality(Right(group) \cup Wrong(group))
          = Cardinality(Right(group)) + Cardinality(Wrong(group))
              - Cardinality(Right(group) \cap Wrong(group))
    BY <1>4, FS_Union
  <2>3. Cardinality(Right(group) \cup Wrong(group)) = Cardinality(1 .. Len(group))
    BY <1>6
  <2> QED BY <1>5, <2>1, <2>2, <2>3
<1> QED BY <1>1, <1>2, <1>4, <1>5, <1>7

\* A group that grows loses no answer.
LEMMA CountingMore ==
  ASSUME NEW group \in Seq(Sample), NEW more \in Seq(Sample)
  PROVE  /\ Cardinality(Right(group)) <= Cardinality(Right(group \o more))
         /\ Cardinality(Wrong(group)) <= Cardinality(Wrong(group \o more))
<1> DEFINE all == group \o more
<1>1. /\ all \in Seq(Sample) /\ DOMAIN group \subseteq DOMAIN all
      /\ \A i \in DOMAIN group : all[i] = group[i]
  OBVIOUS
<1> HIDE DEF all
<1>2. Right(group) \in SUBSET Right(all) /\ Wrong(group) \in SUBSET Wrong(all)
  BY <1>1 DEF Right, Wrong
<1>3. IsFiniteSet(Right(all)) /\ IsFiniteSet(Wrong(all))
  BY <1>1, Counting
<1> QED BY <1>2, <1>3, FS_Subset DEF all

\* The round limit: K rows a round reach the cap.
LEMMA RoundsReachCap ==
  ASSUME NEW n \in Nat, n >= MaxRounds
  PROVE  K * (n + 1) >= MaxGroup
<1> USE CollectorAssumption
<1> DEFINE quotient == (MaxGroup - K) \div K
<1>1. MaxGroup - K \in Nat /\ quotient \in Nat /\ MaxGroup - K < K * quotient + K
  OBVIOUS
<1> HIDE DEF quotient
<1>2. n + 1 >= quotient + 2 /\ K \in Nat
  BY <1>1 DEF MaxRounds, quotient
<1>3. K * (n + 1) >= K * (quotient + 2)
  BY <1>1, <1>2
<1>4. K * (quotient + 2) = K * quotient + K + K
  BY <1>1, <1>2
<1>5. K * quotient \in Nat /\ K * (n + 1) \in Nat
  BY <1>1, <1>2
<1> QED BY <1>1, <1>2, <1>3, <1>4, <1>5

-----------------------------------------------------------------------------
(***************************************************************************)
(* The inductive invariant.                                                *)
(***************************************************************************)
TurnsCounted ==
  /\ \A p \in Prompt : \A j \in DOMAIN envs[p] : Aligned(envs[p][j])
  /\ TurnsAligned

\* The number of an episode is its place in its group.
Numbered ==
  \A p \in Prompt :
     /\ \A e \in DOMAIN episodes[p] : episodes[p][e].index = e - 1
     /\ \A j \in DOMAIN envs[p] : envs[p][j].index = Samples(p) + j - 1

\* n rounds of K rows each have been sampled of the prompt, as far as the cap.
Reached(p, n) == Samples(p) >= MaxGroup \/ Samples(p) >= K * n

\* A pass samples the groups of one verdict, and no other.
Passing ==
  /\ \A p \in Prompt : Len(envs[p]) = IF Homogeneous(p) THEN Extra(p) ELSE 0
  /\ \E p \in Prompt : Len(envs[p]) > 0
  /\ \A p \in Prompt : IF rounds = 0 THEN Samples(p) = 0 ELSE Samples(p) >= K
  /\ \A p \in Prompt : Homogeneous(p) => Reached(p, rounds)

Counted ==
  /\ \A p \in Prompt : envs[p] = <<>> /\ Samples(p) >= K
  /\ \A p \in Prompt : Homogeneous(p) => Reached(p, rounds + 1)

PassInv ==
  /\ \A p \in Prompt : Samples(p) <= MaxGroup
  /\ stage # "pass" => asked = {}
  /\ stage = "pass" => Passing
  /\ stage \in {"counted", "returned"} => Counted

CollectInv == TypeOK /\ TurnsCounted /\ Numbered /\ PassInv /\ HomogeneousOnlyAtCap

\* A group has so many episodes, each right or wrong.
LEMMA GroupTyped ==
  ASSUME TypeOK, NEW p \in Prompt
  PROVE  /\ episodes[p] \in Seq(Sample) /\ envs[p] \in Seq(Env)
         /\ Samples(p) \in Nat /\ Len(envs[p]) \in Nat
         /\ CorrectOnes(p) = Cardinality(Right(episodes[p]))
         /\ CorrectOnes(p) \in Nat
         /\ Samples(p) - CorrectOnes(p) = Cardinality(Wrong(episodes[p]))
         /\ Samples(p) - CorrectOnes(p) \in Nat
<1>1. episodes[p] \in Seq(Sample) /\ envs[p] \in Seq(Env)
  BY DEF TypeOK
<1>2. CorrectOnes(p) = Cardinality(Right(episodes[p])) /\ Samples(p) = Len(episodes[p])
  BY DEF CorrectOnes, Samples, Right
<1>3. /\ CorrectOnes(p) \in Nat /\ Cardinality(Wrong(episodes[p])) \in Nat
      /\ CorrectOnes(p) + Cardinality(Wrong(episodes[p])) = Samples(p)
  BY <1>1, <1>2, Counting
<1>4. Len(episodes[p]) \in Nat /\ Len(envs[p]) \in Nat
  BY <1>1
<1> QED BY <1>1, <1>2, <1>3, <1>4

LEMMA OpenEpisode ==
  ASSUME TypeOK, NEW r \in Open
  PROVE  /\ r[1] \in Prompt /\ r[2] \in DOMAIN envs[r[1]] /\ r = <<r[1], r[2]>>
         /\ envs[r[1]] \in Seq(Env) /\ envs[r[1]][r[2]] \in Env
         /\ envs[r[1]][r[2]].status = "open"
<1>1. PICK p \in Prompt : r \in {p} \X DOMAIN envs[p]
  BY DEF Open, Rows
<1>2. r[1] = p /\ r[2] \in DOMAIN envs[p] /\ r = <<r[1], r[2]>>
  BY <1>1
<1>3. envs[p] \in Seq(Env)
  BY DEF TypeOK
<1> QED BY <1>2, <1>3 DEF Open

\* The rows that are open are the places of open episodes.
LEMMA OpenRow ==
  ASSUME NEW p \in Prompt, NEW j \in DOMAIN envs[p]
  PROVE  <<p, j>> \in Open <=> envs[p][j].status = "open"
BY DEF Open, Rows

\* A turn of the pass changes episodes in place.
TurnTaken ==
  /\ envs' \in [Prompt -> Seq(Env)]
  /\ \A p \in Prompt : /\ Len(envs'[p]) = Len(envs[p]) /\ DOMAIN envs'[p] = DOMAIN envs[p]
                       /\ \A j \in DOMAIN envs[p] : /\ Aligned(envs'[p][j])
                                                    /\ envs'[p][j].index = envs[p][j].index
  /\ asked' \subseteq Open'
  /\ UNCHANGED <<rounds, episodes, tooLong>>
  /\ stage = "pass" /\ stage' \in {"pass", "raised"}
  /\ stage' = "raised" => asked' = {}

LEMMA RenderTurn ==
  ASSUME TypeOK, TurnsCounted, Render
  PROVE  TurnTaken
<1>1. PICK Over \in SUBSET Open :
        /\ envs' = [p \in Prompt |-> [j \in DOMAIN envs[p] |->
                     IF <<p, j>> \in Over THEN [envs[p][j] EXCEPT !.status = "context_overflow"]
                                          ELSE envs[p][j]]]
        /\ \/ asked' = Open \ Over /\ UNCHANGED stage
           \/ asked' = {} /\ stage' = "raised"
  BY DEF Render
<1>2. stage = "pass" /\ UNCHANGED <<rounds, episodes, tooLong>>
  BY DEF Render
<1>3. ASSUME NEW p \in Prompt
      PROVE  /\ envs'[p] \in Seq(Env) /\ Len(envs'[p]) = Len(envs[p])
             /\ DOMAIN envs'[p] = DOMAIN envs[p]
             /\ \A j \in DOMAIN envs[p] : /\ Aligned(envs'[p][j])
                                          /\ envs'[p][j].index = envs[p][j].index
                                          /\ <<p, j>> \notin Over => envs'[p][j] = envs[p][j]
  <2>1. envs[p] \in Seq(Env)
    BY DEF TypeOK
  <2>2. envs'[p] = [j \in DOMAIN envs[p] |->
                      IF <<p, j>> \in Over THEN [envs[p][j] EXCEPT !.status = "context_overflow"]
                                           ELSE envs[p][j]]
    BY <1>1
  <2>3. \A j \in DOMAIN envs[p] :
           /\ envs'[p][j] \in Env /\ Aligned(envs'[p][j])
           /\ envs'[p][j].index = envs[p][j].index
           /\ <<p, j>> \notin Over => envs'[p][j] = envs[p][j]
    BY <2>1, <2>2, OverflowIsAligned DEF TurnsCounted
  <2>4. DOMAIN envs'[p] = DOMAIN envs[p]
    BY <2>2
  <2>5. envs'[p] \in Seq(Env) /\ Len(envs'[p]) = Len(envs[p])
    <3>1. Len(envs[p]) \in Nat /\ DOMAIN envs[p] = 1 .. Len(envs[p])
      BY <2>1
    <3>2. envs'[p] = [j \in 1 .. Len(envs[p]) |-> envs'[p][j]]
      BY <2>2, <3>1
    <3>3. \A j \in 1 .. Len(envs[p]) : envs'[p][j] \in Env
      BY <2>3, <3>1
    <3> QED BY <3>1, <3>2, <3>3
  <2> QED BY <2>3, <2>4, <2>5
<1>4. envs' \in [Prompt -> Seq(Env)]
  BY <1>1, <1>3
<1>5. Open \ Over \subseteq Open'
  <2> SUFFICES ASSUME NEW r \in Open, r \notin Over PROVE r \in Open'
    OBVIOUS
  <2>1. /\ r[1] \in Prompt /\ r[2] \in DOMAIN envs[r[1]] /\ r = <<r[1], r[2]>>
        /\ envs[r[1]][r[2]].status = "open"
    BY OpenEpisode
  <2>2. r[2] \in DOMAIN envs'[r[1]] /\ envs'[r[1]][r[2]].status = "open"
    BY <1>3, <2>1
  <2> QED BY <2>1, <2>2 DEF Open, Rows
<1> QED BY <1>1, <1>2, <1>3, <1>4, <1>5 DEF TurnTaken

LEMMA ApplyOutputTurn ==
  ASSUME TypeOK, TurnsCounted, ApplyOutput
  PROVE  TurnTaken
<1>1. PICK r \in asked : \E after \in Completed(envs[r[1]][r[2]]) :
        envs' = [envs EXCEPT ![r[1]][r[2]] = after] /\ asked' = asked \ {r}
  BY DEF ApplyOutput
<1>2. PICK after \in Completed(envs[r[1]][r[2]]) :
        envs' = [envs EXCEPT ![r[1]][r[2]] = after] /\ asked' = asked \ {r}
  BY <1>1
<1> DEFINE q == r[1]
           k == r[2]
<1>3. /\ q \in Prompt /\ k \in DOMAIN envs[q] /\ r = <<q, k>>
      /\ envs[q] \in Seq(Env) /\ envs[q][k] \in Env /\ envs[q][k].status = "open"
  BY OpenEpisode DEF TypeOK
<1>4. envs' = [envs EXCEPT ![q][k] = after] /\ after \in Completed(envs[q][k])
  BY <1>2
<1> HIDE DEF q, k
<1>5. Aligned(envs[q][k])
  BY <1>3 DEF TurnsCounted
<1>6. after \in Env /\ Aligned(after) /\ after.index = envs[q][k].index
  BY <1>3, <1>4, <1>5, CompletedIsAligned
<1>7. /\ envs'[q] = [envs[q] EXCEPT ![k] = after]
      /\ \A p \in Prompt \ {q} : envs'[p] = envs[p]
      /\ envs' = [p \in Prompt |-> envs'[p]]
  BY <1>3, <1>4 DEF TypeOK
<1>8. /\ envs'[q] \in Seq(Env) /\ Len(envs'[q]) = Len(envs[q])
      /\ DOMAIN envs'[q] = DOMAIN envs[q]
      /\ envs'[q][k] = after /\ \A j \in DOMAIN envs[q] \ {k} : envs'[q][j] = envs[q][j]
  BY <1>3, <1>6, <1>7
<1>9. ASSUME NEW p \in Prompt
      PROVE  /\ envs'[p] \in Seq(Env) /\ Len(envs'[p]) = Len(envs[p])
             /\ DOMAIN envs'[p] = DOMAIN envs[p]
             /\ \A j \in DOMAIN envs[p] : /\ Aligned(envs'[p][j])
                                          /\ envs'[p][j].index = envs[p][j].index
                                          /\ <<p, j>> # r => envs'[p][j] = envs[p][j]
  <2>1. CASE p = q
    <3>1. \A j \in DOMAIN envs[q] \ {k} : Aligned(envs[q][j])
      BY <1>3 DEF TurnsCounted
    <3> QED BY <2>1, <1>3, <1>6, <1>8, <3>1
  <2>2. CASE p # q
    <3>1. envs'[p] = envs[p] /\ envs[p] \in Seq(Env)
      BY <2>2, <1>7 DEF TypeOK
    <3> QED BY <3>1 DEF TurnsCounted
  <2> QED BY <2>1, <2>2
<1>10. envs' \in [Prompt -> Seq(Env)]
  BY <1>7, <1>9
<1>11. asked' \subseteq Open'
  <2> SUFFICES ASSUME NEW s \in asked, s # r PROVE s \in Open'
    BY <1>2
  <2>1. /\ s[1] \in Prompt /\ s[2] \in DOMAIN envs[s[1]] /\ s = <<s[1], s[2]>>
        /\ envs[s[1]][s[2]].status = "open"
    BY OpenEpisode DEF TypeOK
  <2>2. s[2] \in DOMAIN envs'[s[1]] /\ envs'[s[1]][s[2]].status = "open"
    BY <1>9, <2>1
  <2> QED BY <2>1, <2>2 DEF Open, Rows
<1>12. stage = "pass" /\ stage' = stage /\ UNCHANGED <<rounds, episodes, tooLong>>
  BY DEF ApplyOutput
<1> QED BY <1>9, <1>10, <1>11, <1>12 DEF TurnTaken

LEMMA TurnKeeps ==
  ASSUME CollectInv, TurnTaken
  PROVE  CollectInv'
<1>1. /\ UNCHANGED <<rounds, episodes, tooLong>> /\ asked' \subseteq Open'
      /\ stage = "pass" /\ stage' \in {"pass", "raised"} /\ (stage' = "raised" => asked' = {})
      /\ envs' \in [Prompt -> Seq(Env)]
  BY DEF TurnTaken
<1>2. \A p \in Prompt : /\ Samples(p)' = Samples(p) /\ (Homogeneous(p)' <=> Homogeneous(p))
                        /\ Extra(p)' = Extra(p)
  BY <1>1 DEF Samples, Homogeneous, CorrectOnes, Extra
<1>3. \A p \in Prompt : \A n : Reached(p, n)' <=> Reached(p, n)
  BY <1>2 DEF Reached
<1>4. TypeOK'
  BY <1>1 DEF CollectInv, TypeOK
<1>5. TurnsCounted'
  BY <1>1 DEF CollectInv, TurnsCounted, TurnsAligned, TurnTaken
<1>6. Numbered'
  BY <1>1, <1>2 DEF CollectInv, Numbered, TurnTaken
<1>7. Passing => Passing'
  <2>1. \A p \in Prompt : Len(envs'[p]) = Len(envs[p])
    BY DEF TurnTaken
  <2>2. rounds' = rounds
    BY <1>1
  <2> QED BY <1>2, <2>1, <2>2 DEF Passing, Reached
<1>8. PassInv'
  BY <1>1, <1>2, <1>7 DEF CollectInv, PassInv
<1> QED BY <1>1, <1>4, <1>5, <1>6, <1>8 DEF CollectInv, HomogeneousOnlyAtCap

-----------------------------------------------------------------------------
(***************************************************************************)
(* The passes: sequences of rows, and groups that grow.                    *)
(***************************************************************************)
\* A sequence of n members of S, member by member.
LEMMA SequenceOf ==
  ASSUME NEW S, NEW n \in Nat, NEW s, s = [j \in 1 .. n |-> s[j]],
         \A j \in 1 .. n : s[j] \in S
  PROVE  s \in Seq(S) /\ Len(s) = n /\ DOMAIN s = 1 .. n
OBVIOUS

LEMMA Joined ==
  ASSUME NEW S, NEW s \in Seq(S), NEW t \in Seq(S)
  PROVE  /\ s \o t \in Seq(S) /\ Len(s \o t) = Len(s) + Len(t)
         /\ DOMAIN (s \o t) = 1 .. Len(s \o t)
         /\ \A e \in 1 .. Len(s) : (s \o t)[e] = s[e]
         /\ \A e \in (Len(s) + 1) .. Len(s \o t) :
               e - Len(s) \in 1 .. Len(t) /\ (s \o t)[e] = t[e - Len(s)]
OBVIOUS

LEMMA NewPassTyped ==
  ASSUME NEW count \in [Prompt -> Nat], NEW offset \in [Prompt -> Nat],
         \A p \in Prompt : offset[p] + count[p] <= MaxGroup
  PROVE  /\ NewPass(count, offset) \in [Prompt -> Seq(Env)]
         /\ \A p \in Prompt :
              /\ Len(NewPass(count, offset)[p]) = count[p]
              /\ \A j \in DOMAIN NewPass(count, offset)[p] :
                   /\ Aligned(NewPass(count, offset)[p][j])
                   /\ NewPass(count, offset)[p][j].index = offset[p] + j - 1
<1> DEFINE pass == NewPass(count, offset)
<1>1. /\ DOMAIN pass = Prompt /\ pass = [p \in Prompt |-> pass[p]]
      /\ \A p \in Prompt : pass[p] = [j \in 1 .. count[p] |-> Fresh(offset[p] + j - 1)]
  BY DEF NewPass
<1> HIDE DEF pass
<1>2. ASSUME NEW p \in Prompt
      PROVE  /\ pass[p] \in Seq(Env) /\ Len(pass[p]) = count[p]
             /\ \A j \in DOMAIN pass[p] :
                  Aligned(pass[p][j]) /\ pass[p][j].index = offset[p] + j - 1
  <2>1. count[p] \in Nat /\ offset[p] \in Nat /\ offset[p] + count[p] <= MaxGroup
    OBVIOUS
  <2>2. \A j \in 1 .. count[p] : offset[p] + j - 1 \in 0 .. MaxGroup - 1
    BY <2>1, CollectorAssumption
  <2>3. \A j \in 1 .. count[p] :
           /\ pass[p][j] \in Env /\ Aligned(pass[p][j])
           /\ pass[p][j].index = offset[p] + j - 1
    BY <1>1, <2>2, FreshIsAligned
  <2>4. pass[p] = [j \in 1 .. count[p] |-> pass[p][j]]
    BY <1>1
  <2>5. pass[p] \in Seq(Env) /\ Len(pass[p]) = count[p] /\ DOMAIN pass[p] = 1 .. count[p]
    BY <2>1, <2>3, <2>4
  <2> QED BY <2>3, <2>5
<1> QED BY <1>1, <1>2 DEF pass

LEMMA MaxRoundsTyped == MaxRounds \in Nat
BY CollectorAssumption DEF MaxRounds

\* How many rows a pass has for a group of one verdict.
LEMMA ExtraRows ==
  ASSUME NEW p \in Prompt, Samples(p) \in Nat, Samples(p) <= MaxGroup
  PROVE  /\ Extra(p) \in Nat /\ Samples(p) + Extra(p) <= MaxGroup
         /\ Samples(p) < MaxGroup => Extra(p) > 0
         /\ Samples(p) = 0 => Extra(p) = K
         /\ Extra(p) = K \/ Samples(p) + Extra(p) = MaxGroup
BY CollectorAssumption DEF Extra

LEMMA CollectInit == Init => CollectInv
<1> SUFFICES ASSUME Init PROVE CollectInv
  OBVIOUS
<1> USE CollectorAssumption
<1> DEFINE count  == [p \in Prompt |-> K]
           offset == [p \in Prompt |-> 0]
<1>1. /\ envs = NewPass(count, offset) /\ episodes = [p \in Prompt |-> <<>>]
      /\ stage = "pass" /\ asked = {} /\ rounds = 0 /\ tooLong \subseteq Prompt
  BY DEF Init
<1>2. /\ count \in [Prompt -> Nat] /\ offset \in [Prompt -> Nat]
      /\ \A p \in Prompt : count[p] = K /\ offset[p] = 0 /\ offset[p] + count[p] <= MaxGroup
  OBVIOUS
<1> HIDE DEF count, offset
<1>3. /\ envs \in [Prompt -> Seq(Env)]
      /\ \A p \in Prompt : /\ Len(envs[p]) = K
                           /\ \A j \in DOMAIN envs[p] : /\ Aligned(envs[p][j])
                                                        /\ envs[p][j].index = 0 + j - 1
  BY <1>1, <1>2, NewPassTyped
<1>4. \A p \in Prompt : episodes[p] = <<>> /\ <<>> \in Seq(Sample)
  BY <1>1
<1>5. episodes \in [Prompt -> Seq(Sample)]
  BY <1>1
<1>6. TypeOK
  BY <1>1, <1>3, <1>5, MaxRoundsTyped DEF TypeOK
<1>7. \A p \in Prompt : Samples(p) = 0 /\ Homogeneous(p) /\ Extra(p) = K
  <2> TAKE p \in Prompt
  <2>1. Samples(p) = 0
    BY <1>4 DEF Samples
  <2>2. CorrectOnes(p) = 0
    BY <1>6, <2>1, GroupTyped
  <2> QED BY <2>1, <2>2, ExtraRows DEF Homogeneous
<1>8. TurnsCounted
  BY <1>3, <1>4 DEF TurnsCounted, TurnsAligned
<1>9. Numbered
  <2> SUFFICES ASSUME NEW p \in Prompt
               PROVE  /\ \A e \in DOMAIN episodes[p] : episodes[p][e].index = e - 1
                      /\ \A j \in DOMAIN envs[p] : envs[p][j].index = Samples(p) + j - 1
    BY DEF Numbered
  <2> QED BY <1>3, <1>4, <1>7
<1>10. PassInv
  <2>1. \A p \in Prompt : Reached(p, rounds)
    BY <1>1, <1>7 DEF Reached
  <2>2. 1 \in Prompt
    BY DEF Prompt
  <2>3. Passing
    BY <1>1, <1>3, <1>7, <2>1, <2>2 DEF Passing
  <2> QED BY <1>1, <1>7, <2>3 DEF PassInv
<1> QED BY <1>1, <1>6, <1>8, <1>9, <1>10 DEF CollectInv, HomogeneousOnlyAtCap

\* The episodes of a pass join their groups, and a group that is of one verdict
\* after them was so before.
LEMMA GroupGrows ==
  ASSUME CollectInv, FinishPass, NEW p \in Prompt
  PROVE  /\ episodes'[p] \in Seq(Sample)
         /\ Samples(p)' = Samples(p) + Len(envs[p]) /\ Samples(p)' \in Nat
         /\ CorrectOnes(p)' \in Nat /\ CorrectOnes(p) <= CorrectOnes(p)'
         /\ Samples(p)' - CorrectOnes(p)' \in Nat
         /\ Samples(p) - CorrectOnes(p) <= Samples(p)' - CorrectOnes(p)'
         /\ Homogeneous(p)' => Homogeneous(p)
         /\ \A e \in DOMAIN episodes'[p] : episodes'[p][e].index = e - 1
         /\ \A e \in DOMAIN episodes'[p] :
              episodes'[p][e].trainable =>
                /\ episodes'[p][e].auditTurns = episodes'[p][e].policyTurns
                /\ episodes'[p][e].policyTurns > 0
<1> DEFINE group  == episodes[p]
           scored == [j \in DOMAIN envs[p] |-> Score(envs[p][j])]
           all    == group \o scored
<1>1. /\ group \in Seq(Sample) /\ envs[p] \in Seq(Env)
      /\ Samples(p) = Len(group) /\ Samples(p) \in Nat /\ Len(envs[p]) \in Nat
      /\ CorrectOnes(p) = Cardinality(Right(group)) /\ CorrectOnes(p) \in Nat
      /\ Samples(p) - CorrectOnes(p) = Cardinality(Wrong(group))
      /\ Samples(p) - CorrectOnes(p) \in Nat
  BY GroupTyped DEF CollectInv, Samples
<1>2. episodes'[p] = all
  BY DEF FinishPass
<1>3. DOMAIN envs[p] = 1 .. Len(envs[p])
  BY <1>1
<1>4. \A j \in DOMAIN envs[p] :
         /\ Score(envs[p][j]) \in Sample
         /\ Score(envs[p][j]).index = Samples(p) + j - 1
         /\ Score(envs[p][j]).trainable =>
              /\ Score(envs[p][j]).auditTurns = Score(envs[p][j]).policyTurns
              /\ Score(envs[p][j]).policyTurns > 0
  <2> TAKE j \in DOMAIN envs[p]
  <2>1. envs[p][j] \in Env /\ envs[p][j].status # "open"
    BY <1>1, OpenRow DEF FinishPass
  <2>2. Aligned(envs[p][j]) /\ envs[p][j].index = Samples(p) + j - 1
    BY DEF CollectInv, TurnsCounted, Numbered
  <2> QED BY <2>1, <2>2, ScoreIsAligned
<1>5. /\ scored \in Seq(Sample) /\ Len(scored) = Len(envs[p])
      /\ \A j \in 1 .. Len(envs[p]) : scored[j] = Score(envs[p][j])
  <2>1. scored = [j \in 1 .. Len(envs[p]) |-> scored[j]]
    BY <1>3
  <2>2. \A j \in 1 .. Len(envs[p]) : scored[j] \in Sample /\ scored[j] = Score(envs[p][j])
    BY <1>3, <1>4
  <2>3. Len(envs[p]) \in Nat
    BY <1>1
  <2> HIDE DEF scored
  <2>4. scored \in Seq(Sample) /\ Len(scored) = Len(envs[p])
    BY <2>1, <2>2, <2>3, SequenceOf
  <2> QED BY <2>2, <2>4
<1>13. group \in Seq(Sample)
  BY <1>1
<1> HIDE DEF scored, group
<1>6. /\ all \in Seq(Sample) /\ Len(all) = Len(group) + Len(envs[p])
      /\ DOMAIN all = 1 .. Len(all)
      /\ \A e \in 1 .. Len(group) : all[e] = group[e]
      /\ \A e \in (Len(group) + 1) .. Len(all) :
            e - Len(group) \in 1 .. Len(envs[p]) /\ all[e] = scored[e - Len(group)]
  <2>1. /\ all \in Seq(Sample) /\ Len(all) = Len(group) + Len(scored)
        /\ DOMAIN all = 1 .. Len(all)
        /\ \A e \in 1 .. Len(group) : all[e] = group[e]
        /\ \A e \in (Len(group) + 1) .. Len(all) :
              e - Len(group) \in 1 .. Len(scored) /\ all[e] = scored[e - Len(group)]
    <3>1. group \in Seq(Sample) /\ scored \in Seq(Sample)
      BY <1>5, <1>13
    <3> QED BY <3>1, Joined, Zenon
  <2>2. Len(scored) = Len(envs[p])
    BY <1>5
  <2> HIDE DEF all
  <2> QED BY <2>1, <2>2
<1> USE DEF group
<1>7. /\ Cardinality(Right(group)) <= Cardinality(Right(all))
      /\ Cardinality(Wrong(group)) <= Cardinality(Wrong(all))
  BY <1>1, <1>5, CountingMore
<1>8. /\ Cardinality(Right(all)) \in Nat /\ Cardinality(Wrong(all)) \in Nat
      /\ Cardinality(Right(all)) + Cardinality(Wrong(all)) = Len(all)
  BY <1>6, Counting
<1> HIDE DEF all, group
<1>9. Samples(p)' = Len(all) /\ CorrectOnes(p)' = Cardinality(Right(all))
  BY <1>2 DEF Samples, CorrectOnes, Right
<1>10. Samples(p)' - CorrectOnes(p)' = Cardinality(Wrong(all))
  BY <1>8, <1>9
<1>11. Homogeneous(p)' => Homogeneous(p)
  <2>1. CorrectOnes(p)' \in {0, Samples(p)'} => CorrectOnes(p) \in {0, Samples(p)}
    BY <1>1, <1>7, <1>8, <1>9, <1>10
  <2> QED BY <2>1 DEF Homogeneous
<1>12. \A e \in DOMAIN all :
          /\ all[e].index = e - 1
          /\ all[e].trainable =>
               all[e].auditTurns = all[e].policyTurns /\ all[e].policyTurns > 0
  <2> TAKE e \in DOMAIN all
  <2>1. CASE e \in 1 .. Len(group)
    <3>1. e \in DOMAIN group /\ all[e] = group[e]
      BY <2>1, <1>1, <1>6
    <3> QED BY <3>1 DEF CollectInv, Numbered, TurnsCounted, TurnsAligned, group
  <2>2. CASE e \in (Len(group) + 1) .. Len(all)
    <3>1. e - Len(group) \in 1 .. Len(envs[p]) /\ all[e] = Score(envs[p][e - Len(group)])
      BY <2>2, <1>5, <1>6
    <3>2. Samples(p) + (e - Len(group)) - 1 = e - 1
      BY <1>1, <2>2
    <3> DEFINE j == e - Len(group)
    <3>3. /\ Score(envs[p][j]).index = Samples(p) + j - 1
          /\ Score(envs[p][j]).trainable =>
               /\ Score(envs[p][j]).auditTurns = Score(envs[p][j]).policyTurns
               /\ Score(envs[p][j]).policyTurns > 0
      BY <3>1, <1>3, <1>4
    <3>4. all[e] = Score(envs[p][j])
      BY <3>1
    <3>5. Samples(p) + j - 1 = e - 1
      BY <3>2
    <3> HIDE DEF j
    <3> QED BY <3>3, <3>4, <3>5
  <2> QED BY <1>1, <1>6, <2>1, <2>2
<1> QED BY <1>1, <1>2, <1>6, <1>7, <1>8, <1>9, <1>10, <1>11, <1>12

LEMMA FinishPassKeeps ==
  ASSUME CollectInv, FinishPass
  PROVE  CollectInv'
<1> USE CollectorAssumption
<1>1. /\ stage = "pass" /\ stage' = "counted" /\ asked = {}
      /\ envs' = [p \in Prompt |-> <<>>] /\ UNCHANGED <<asked, rounds, tooLong>>
      /\ DOMAIN episodes' = Prompt /\ episodes' = [p \in Prompt |-> episodes'[p]]
  BY DEF FinishPass
<1>2. Passing /\ rounds \in 0 .. MaxRounds
  BY <1>1 DEF CollectInv, PassInv, TypeOK
<1>3. TypeOK'
  <2>1. episodes' \in [Prompt -> Seq(Sample)]
    BY <1>1, GroupGrows
  <2>2. envs' \in [Prompt -> Seq(Env)] /\ asked' \subseteq Open'
    BY <1>1
  <2> QED BY <1>1, <2>1, <2>2 DEF CollectInv, TypeOK
<1>4. TurnsCounted' /\ Numbered'
  <2>1. \A p \in Prompt : DOMAIN envs'[p] = {}
    BY <1>1
  <2> QED BY <2>1, GroupGrows DEF TurnsCounted, TurnsAligned, Numbered
<1>5. ASSUME NEW p \in Prompt
      PROVE  /\ Samples(p)' <= MaxGroup /\ Samples(p)' >= K
             /\ Homogeneous(p)' => Reached(p, rounds + 1)'
  <2>1. /\ Samples(p) \in Nat /\ Samples(p) <= MaxGroup
        /\ Samples(p)' = Samples(p) + Len(envs[p])
        /\ Homogeneous(p)' => Homogeneous(p)
        /\ CorrectOnes(p) \in Nat /\ Samples(p) - CorrectOnes(p) \in Nat
    BY GroupGrows, GroupTyped DEF CollectInv, PassInv
  <2>2. /\ Len(envs[p]) = IF Homogeneous(p) THEN Extra(p) ELSE 0
        /\ IF rounds = 0 THEN Samples(p) = 0 ELSE Samples(p) >= K
        /\ Homogeneous(p) => Reached(p, rounds)
    BY <1>2 DEF Passing
  <2>3. /\ Extra(p) \in Nat /\ Samples(p) + Extra(p) <= MaxGroup
        /\ Samples(p) = 0 => Extra(p) = K
        /\ Extra(p) = K \/ Samples(p) + Extra(p) = MaxGroup
    BY <2>1, ExtraRows
  <2>4. Samples(p) = 0 => Homogeneous(p)
    BY <2>1 DEF Homogeneous
  <2>5. Samples(p)' <= MaxGroup /\ Samples(p)' >= K
    BY <2>1, <2>2, <2>3, <2>4
  <2>6. ASSUME Homogeneous(p)'
        PROVE  Samples(p)' >= MaxGroup \/ Samples(p)' >= K * (rounds + 1)
    <3>1. Samples(p)' = Samples(p) + Extra(p) /\ Reached(p, rounds)
      BY <2>1, <2>2, <2>6
    <3>2. K * (rounds + 1) = K * rounds + K /\ K * rounds \in Nat
      BY <1>2, MaxRoundsTyped
    <3> QED BY <2>1, <2>3, <3>1, <3>2 DEF Reached
  <2> QED BY <1>1, <2>5, <2>6 DEF Reached
<1>6. PassInv'
  <2>1. Counted'
    BY <1>1, <1>5 DEF Counted
  <2> QED BY <1>1, <1>5, <2>1 DEF PassInv
<1> QED BY <1>1, <1>3, <1>4, <1>6 DEF CollectInv, HomogeneousOnlyAtCap

\* The groups an extension samples again.
LEMMA TargetsOfOneVerdict ==
  ASSUME NEW p \in Prompt, Samples(p) \in Nat, Samples(p) >= K, Samples(p) <= MaxGroup
  PROVE  p \in Targets <=> Homogeneous(p) /\ Samples(p) < MaxGroup
BY DEF Targets

LEMMA ExtendKeeps ==
  ASSUME CollectInv, Extend
  PROVE  CollectInv'
<1> USE CollectorAssumption
<1> DEFINE count  == [p \in Prompt |-> IF p \in Targets THEN Extra(p) ELSE 0]
           offset == [p \in Prompt |-> Samples(p)]
<1>1. /\ stage = "counted" /\ rounds < MaxRounds /\ Targets # {}
      /\ envs' = NewPass(count, offset) /\ rounds' = rounds + 1 /\ stage' = "pass"
      /\ UNCHANGED <<asked, episodes, tooLong>>
  BY DEF Extend
<1>2. TypeOK /\ Counted /\ asked = {} /\ rounds \in Nat
  BY <1>1, MaxRoundsTyped DEF CollectInv, PassInv, TypeOK
<1>3. ASSUME NEW p \in Prompt
      PROVE  /\ Samples(p) \in Nat /\ Samples(p) >= K /\ Samples(p) <= MaxGroup
             /\ p \in Targets <=> Homogeneous(p) /\ Samples(p) < MaxGroup
             /\ Extra(p) \in Nat /\ Samples(p) + Extra(p) <= MaxGroup
             /\ Samples(p) < MaxGroup => Extra(p) > 0
             /\ Samples(p) = MaxGroup => Extra(p) = 0
             /\ Homogeneous(p) => Reached(p, rounds + 1)
  <2>1. Samples(p) \in Nat /\ Samples(p) >= K /\ Samples(p) <= MaxGroup
    BY <1>2, GroupTyped DEF CollectInv, PassInv, Counted
  <2>2. Extra(p) \in Nat /\ Samples(p) + Extra(p) <= MaxGroup
        /\ (Samples(p) < MaxGroup => Extra(p) > 0)
    BY <2>1, ExtraRows
  <2>3. Homogeneous(p) => Reached(p, rounds + 1)
    BY <1>2 DEF Counted
  <2> QED BY <2>1, <2>2, <2>3, TargetsOfOneVerdict
<1>4. /\ count \in [Prompt -> Nat] /\ offset \in [Prompt -> Nat]
      /\ \A p \in Prompt : /\ count[p] = IF Homogeneous(p) THEN Extra(p) ELSE 0
                           /\ offset[p] = Samples(p) /\ offset[p] + count[p] <= MaxGroup
  BY <1>3
<1>5. PICK q \in Prompt : count[q] > 0
  <2>1. PICK q \in Prompt : q \in Targets
    BY <1>1 DEF Targets
  <2> QED BY <1>3, <2>1
<1> HIDE DEF count, offset
<1>6. /\ envs' \in [Prompt -> Seq(Env)]
      /\ \A p \in Prompt :
           /\ Len(envs'[p]) = count[p]
           /\ \A j \in DOMAIN envs'[p] : /\ Aligned(envs'[p][j])
                                         /\ envs'[p][j].index = Samples(p) + j - 1
  <2> DEFINE pass == NewPass(count, offset)
  <2>1. \A p \in Prompt : offset[p] + count[p] <= MaxGroup
    BY <1>4
  <2>2. /\ pass \in [Prompt -> Seq(Env)]
        /\ \A p \in Prompt :
             /\ Len(pass[p]) = count[p]
             /\ \A j \in DOMAIN pass[p] : /\ Aligned(pass[p][j])
                                          /\ pass[p][j].index = offset[p] + j - 1
    BY <1>4, <2>1, NewPassTyped, Zenon
  <2>3. envs' = pass
    BY <1>1
  <2> HIDE DEF pass
  <2> QED BY <1>4, <2>2, <2>3
<1>7. \A p \in Prompt : /\ Samples(p)' = Samples(p) /\ (Homogeneous(p)' <=> Homogeneous(p))
                        /\ Extra(p)' = Extra(p)
  BY <1>1 DEF Samples, Homogeneous, CorrectOnes, Extra
<1>8. TypeOK'
  <2>1. rounds' \in 0 .. MaxRounds
    BY <1>1, <1>2, MaxRoundsTyped
  <2> QED BY <1>1, <1>2, <1>6, <2>1 DEF TypeOK
<1>9. TurnsCounted'
  BY <1>1, <1>6 DEF CollectInv, TurnsCounted, TurnsAligned
<1>10. Numbered'
  BY <1>1, <1>6, <1>7 DEF CollectInv, Numbered
<1>11. Passing'
  <2>1. \A p \in Prompt : Len(envs'[p]) = IF Homogeneous(p)' THEN Extra(p)' ELSE 0
    BY <1>4, <1>6, <1>7
  <2>2. \E p \in Prompt : Len(envs'[p]) > 0
    BY <1>5, <1>6
  <2>3. \A p \in Prompt : IF rounds' = 0 THEN Samples(p)' = 0 ELSE Samples(p)' >= K
    BY <1>1, <1>2, <1>3, <1>7
  <2>4. \A p \in Prompt : Homogeneous(p)' => Reached(p, rounds)'
    BY <1>1, <1>3, <1>7 DEF Reached
  <2> QED BY <2>1, <2>2, <2>3, <2>4 DEF Passing
<1>12. PassInv'
  BY <1>1, <1>3, <1>7, <1>11 DEF PassInv
<1> QED BY <1>1, <1>8, <1>9, <1>10, <1>12 DEF CollectInv, HomogeneousOnlyAtCap

\* Whichever condition stops the rounds, the groups of one verdict are full.
LEMMA StoppedAtCap ==
  ASSUME CollectInv, Return, NEW p \in Prompt, Homogeneous(p)
  PROVE  Samples(p) = MaxGroup
<1> USE CollectorAssumption
<1>1. stage = "counted" /\ (MaxGroup = K \/ rounds >= MaxRounds \/ Targets = {})
  BY DEF Return
<1>2. /\ Samples(p) \in Nat /\ Samples(p) >= K /\ Samples(p) <= MaxGroup
      /\ Reached(p, rounds + 1) /\ rounds \in Nat
  BY <1>1, GroupTyped, MaxRoundsTyped DEF CollectInv, TypeOK, PassInv, Counted
<1>3. CASE MaxGroup = K
  BY <1>2, <1>3
<1>4. CASE rounds >= MaxRounds
  <2>1. K * (rounds + 1) >= MaxGroup /\ K * (rounds + 1) \in Nat
    BY <1>2, <1>4, RoundsReachCap
  <2> QED BY <1>2, <2>1 DEF Reached
<1>5. CASE Targets = {}
  BY <1>2, <1>5, TargetsOfOneVerdict
<1> QED BY <1>1, <1>3, <1>4, <1>5

LEMMA ReturnKeeps ==
  ASSUME CollectInv, Return
  PROVE  CollectInv'
<1>1. /\ stage = "counted" /\ stage' = "returned"
      /\ UNCHANGED <<envs, asked, rounds, episodes, tooLong>>
  BY DEF Return
<1>2. \A p \in Prompt : /\ Samples(p)' = Samples(p) /\ (Homogeneous(p)' <=> Homogeneous(p))
                        /\ (Reached(p, rounds + 1)' <=> Reached(p, rounds + 1))
  BY <1>1 DEF Samples, Homogeneous, CorrectOnes, Reached
<1>3. TypeOK'
  BY <1>1 DEF CollectInv, TypeOK, Open, Rows
<1>4. TurnsCounted'
  BY <1>1 DEF CollectInv, TurnsCounted, TurnsAligned
<1>5. Numbered'
  BY <1>1, <1>2 DEF CollectInv, Numbered
<1>6. Counted'
  BY <1>1, <1>2 DEF CollectInv, PassInv, Counted
<1>7. PassInv'
  BY <1>1, <1>2, <1>6 DEF CollectInv, PassInv
<1>8. HomogeneousOnlyAtCap'
  BY <1>2, StoppedAtCap DEF HomogeneousOnlyAtCap
<1> QED BY <1>3, <1>4, <1>5, <1>7, <1>8 DEF CollectInv

LEMMA StutterKeeps ==
  ASSUME CollectInv, UNCHANGED vars
  PROVE  CollectInv'
<1>1. UNCHANGED <<stage, envs, asked, rounds, episodes, tooLong>>
  BY DEF vars
<1>2. \A p \in Prompt : /\ Samples(p)' = Samples(p) /\ (Homogeneous(p)' <=> Homogeneous(p))
                        /\ Extra(p)' = Extra(p)
  BY <1>1 DEF Samples, Homogeneous, CorrectOnes, Extra
<1>3. TypeOK'
  BY <1>1 DEF CollectInv, TypeOK, Open, Rows
<1>4. TurnsCounted' /\ Numbered'
  BY <1>1, <1>2 DEF CollectInv, TurnsCounted, TurnsAligned, Numbered
<1>5. (Passing => Passing') /\ (Counted => Counted')
  BY <1>1, <1>2 DEF Passing, Counted, Reached
<1>6. PassInv' /\ HomogeneousOnlyAtCap'
  BY <1>1, <1>2, <1>5 DEF CollectInv, PassInv, HomogeneousOnlyAtCap
<1> QED BY <1>3, <1>4, <1>6 DEF CollectInv

LEMMA CollectStep == CollectInv /\ [Next]_vars => CollectInv'
<1> SUFFICES ASSUME CollectInv, [Next]_vars PROVE CollectInv'
  OBVIOUS
<1>1. CASE Render
  BY <1>1, RenderTurn, TurnKeeps DEF CollectInv
<1>2. CASE ApplyOutput
  BY <1>2, ApplyOutputTurn, TurnKeeps DEF CollectInv
<1>3. CASE FinishPass
  BY <1>3, FinishPassKeeps
<1>4. CASE Extend
  BY <1>4, ExtendKeeps
<1>5. CASE Return
  BY <1>5, ReturnKeeps
<1>6. CASE UNCHANGED vars
  BY <1>6, StutterKeeps
<1> QED BY <1>1, <1>2, <1>3, <1>4, <1>5, <1>6 DEF Next

-----------------------------------------------------------------------------
(***************************************************************************)
(* The theorems.                                                           *)
(***************************************************************************)
\* For any prompts, group sizes and turn budgets, whatever the server answers:
\* between two steps of collect the turns of each episode are counted alike by
\* policy and harness, its number is its place in its group, and the pass is
\* sampling the groups of one verdict and no other (collect, _collect_pass).
THEOREM CollectionHolds == Spec => []CollectInv
<1>1. Init => CollectInv
  BY CollectInit
<1>2. CollectInv /\ [Next]_vars => CollectInv'
  BY CollectStep
<1> QED BY <1>1, <1>2, PTL DEF Spec

\* The stage, the rows, the rounds and the groups of collect stay what they are
\* declared to be; the awaited completions are of open episodes.
THEOREM CollectorIsTyped == Spec => []TypeOK
<1>1. CollectInv => TypeOK
  BY DEF CollectInv
<1> QED BY <1>1, CollectionHolds, PTL

\* The sample indices of a prompt are 0, 1, 2 ... after any extension rounds, so
\* trajectory_id and the generation request key name one episode each.
THEOREM EpisodesNumbered == Spec => []IndicesGapless
<1>1. CollectInv => IndicesGapless
  <2> SUFFICES ASSUME CollectInv, NEW p \in Prompt
               PROVE  { episodes[p][e].index : e \in DOMAIN episodes[p] }
                        \cup { envs[p][j].index : j \in DOMAIN envs[p] }
                      = 0 .. Samples(p) + Len(envs[p]) - 1
    BY DEF IndicesGapless
  <2>1. /\ Samples(p) \in Nat /\ Len(envs[p]) \in Nat
        /\ DOMAIN episodes[p] = 1 .. Samples(p) /\ DOMAIN envs[p] = 1 .. Len(envs[p])
    BY GroupTyped DEF CollectInv, Samples
  <2>2. /\ \A e \in 1 .. Samples(p) : episodes[p][e].index = e - 1
        /\ \A j \in 1 .. Len(envs[p]) : envs[p][j].index = Samples(p) + j - 1
    BY <2>1 DEF CollectInv, Numbered
  <2>3. ASSUME NEW n \in 0 .. Samples(p) + Len(envs[p]) - 1
        PROVE  \/ \E e \in 1 .. Samples(p) : n = episodes[p][e].index
               \/ \E j \in 1 .. Len(envs[p]) : n = envs[p][j].index
    <3>1. CASE n < Samples(p)
      <4>1. n + 1 \in 1 .. Samples(p) /\ (n + 1) - 1 = n
        BY <2>1, <3>1
      <4> QED BY <2>2, <4>1
    <3>2. CASE n >= Samples(p)
      <4>1. n - Samples(p) + 1 \in 1 .. Len(envs[p]) /\ Samples(p) + (n - Samples(p) + 1) - 1 = n
        BY <2>1, <3>2
      <4> QED BY <2>2, <4>1
    <3> QED BY <2>1, <3>1, <3>2
  <2>4. /\ \A e \in 1 .. Samples(p) : episodes[p][e].index \in 0 .. Samples(p) + Len(envs[p]) - 1
        /\ \A j \in 1 .. Len(envs[p]) : envs[p][j].index \in 0 .. Samples(p) + Len(envs[p]) - 1
    <3>1. \A e \in 1 .. Samples(p) : e - 1 \in 0 .. Samples(p) + Len(envs[p]) - 1
      BY <2>1
    <3>2. \A j \in 1 .. Len(envs[p]) : Samples(p) + j - 1 \in 0 .. Samples(p) + Len(envs[p]) - 1
      BY <2>1
    <3> QED BY <2>2, <3>1, <3>2
  <2> QED BY <2>1, <2>3, <2>4
<1> QED BY <1>1, CollectionHolds, PTL

\* The round limit of collect, (MaxGroup - K) \div K + 1, never stops a group
\* that is all correct or all wrong below the cap.
THEOREM RoundLimitSuffices == Spec => []HomogeneousOnlyAtCap
<1>1. CollectInv => HomogeneousOnlyAtCap
  BY DEF CollectInv
<1> QED BY <1>1, CollectionHolds, PTL

\* An episode that trains has one audited turn per policy turn, however it ended
\* and in whichever pass it was sampled (score_completed_rollout).
THEOREM TurnsStayAligned == Spec => []TurnsAligned
<1>1. CollectInv => TurnsAligned
  BY DEF CollectInv, TurnsCounted
<1> QED BY <1>1, CollectionHolds, PTL

LEMMA OthersKeepGroups ==
  ASSUME Render \/ ApplyOutput \/ Extend \/ Return \/ UNCHANGED vars
  PROVE  episodes' = episodes
BY DEF Render, ApplyOutput, Extend, Return, vars

\* A group with a correct and a wrong episode never grows again, and no group
\* grows beyond the cap (adaptive_extension_counts).
THEOREM ExtendsOnlyHomogeneous == Spec => MixedNeverExtended
<1>1. ASSUME CollectInv, CollectInv', [Next]_vars, NEW p \in Prompt
      PROVE  /\ Samples(p) > 0 /\ ~Homogeneous(p) => Samples(p)' = Samples(p)
             /\ Samples(p)' <= MaxGroup
  <2>1. Samples(p)' <= MaxGroup
    BY <1>1 DEF CollectInv, PassInv
  <2>2. CASE FinishPass
    <3>1. Samples(p)' = Samples(p) + Len(envs[p]) /\ Samples(p) \in Nat
      BY <1>1, <2>2, GroupGrows, GroupTyped DEF CollectInv
    <3>2. ~Homogeneous(p) => Len(envs[p]) = 0
      BY <1>1, <2>2 DEF CollectInv, PassInv, Passing, FinishPass
    <3> QED BY <2>1, <3>1, <3>2
  <2>3. CASE ~ FinishPass
    <3>1. episodes' = episodes
      BY <1>1, <2>3, OthersKeepGroups DEF Next
    <3> QED BY <2>1, <3>1 DEF Samples
  <2> QED BY <2>2, <2>3
<1>2. CollectInv /\ CollectInv' /\ [Next]_vars =>
        [ \A p \in Prompt :
            /\ Samples(p) > 0 /\ ~Homogeneous(p) => Samples(p)' = Samples(p)
            /\ Samples(p)' <= MaxGroup ]_vars
  BY <1>1
<1> QED BY <1>2, CollectionHolds, PTL DEF Spec, MixedNeverExtended

-----------------------------------------------------------------------------
(***************************************************************************)
(* Refinement: a pass is a round of group sampling, the return delivers.   *)
(***************************************************************************)
abstract == << [p \in Prompt |-> CorrectOnes(p)],
               [p \in Prompt |-> Samples(p) - CorrectOnes(p)], stage = "returned" >>

\* What a round wants of a group is what collect samples of it.
LEMMA WantedIsExtra ==
  ASSUME CollectInv, NEW p \in Prompt
  PROVE  /\ Groups!Size(p) = Samples(p)
         /\ Groups!Settled(p) <=> ~Homogeneous(p)
         /\ Groups!Wanted(p) = IF Homogeneous(p) THEN Extra(p) ELSE 0
<1>1. /\ CorrectOnes(p) \in Nat /\ Samples(p) - CorrectOnes(p) \in Nat /\ Samples(p) \in Nat
  BY GroupTyped DEF CollectInv
<1>2. Groups!Size(p) = Samples(p)
  BY <1>1 DEF Groups!Size
<1>3. Groups!Settled(p) <=> ~Homogeneous(p)
  BY <1>1 DEF Groups!Settled, Homogeneous
<1> QED BY <1>2, <1>3 DEF Groups!Wanted, Extra

LEMMA FinishPassIsRound ==
  ASSUME CollectInv, CollectInv', FinishPass
  PROVE  Groups!Round
<1>1. stage = "pass" /\ stage' = "counted" /\ Passing
  BY DEF FinishPass, CollectInv, PassInv
<1>2. \A p \in Prompt : Groups!Wanted(p) = Len(envs[p])
  BY <1>1, WantedIsExtra DEF Passing
<1>3. \E p \in Prompt : Groups!Wanted(p) > 0
  BY <1>1, <1>2 DEF Passing
<1>4. ASSUME NEW p \in Prompt
      PROVE  /\ CorrectOnes(p)' \in 0 .. MaxGroup /\ CorrectOnes(p)' >= CorrectOnes(p)
             /\ Samples(p)' - CorrectOnes(p)' \in 0 .. MaxGroup
             /\ Samples(p)' - CorrectOnes(p)' >= Samples(p) - CorrectOnes(p)
             /\ CorrectOnes(p)' + (Samples(p)' - CorrectOnes(p)')
                  = Groups!Size(p) + Groups!Wanted(p)
  <2>1. /\ Samples(p)' = Samples(p) + Len(envs[p]) /\ Samples(p)' \in Nat
        /\ CorrectOnes(p)' \in Nat /\ CorrectOnes(p) <= CorrectOnes(p)'
        /\ Samples(p)' - CorrectOnes(p)' \in Nat
        /\ Samples(p) - CorrectOnes(p) <= Samples(p)' - CorrectOnes(p)'
    BY GroupGrows
  <2>2. CorrectOnes(p) \in Nat /\ Samples(p) - CorrectOnes(p) \in Nat /\ Samples(p) \in Nat
    BY GroupTyped DEF CollectInv
  <2>3. Samples(p)' <= MaxGroup
    BY DEF CollectInv, PassInv
  <2>4. Groups!Size(p) + Groups!Wanted(p) = Samples(p)'
    BY <1>2, <2>1, WantedIsExtra
  <2>5. /\ CorrectOnes(p)' \in 0 .. MaxGroup
        /\ Samples(p)' - CorrectOnes(p)' \in 0 .. MaxGroup
    BY <2>1, <2>3, CollectorAssumption
  <2>6. CorrectOnes(p)' + (Samples(p)' - CorrectOnes(p)') = Samples(p)'
    BY <2>1
  <2> QED BY <2>1, <2>2, <2>4, <2>5, <2>6
<1>5. \A p \in Prompt : Groups!Size(p)' = Groups!Size(p) + Groups!Wanted(p)
  BY <1>4 DEF Groups!Size
<1> QED BY <1>1, <1>3, <1>4, <1>5 DEF Groups!Round

LEMMA ReturnDelivers ==
  ASSUME CollectInv, Return
  PROVE  Groups!Deliver
<1>1. /\ stage = "counted" /\ stage' = "returned" /\ episodes' = episodes
  BY DEF Return
<1>2. \A p \in Prompt : Groups!Wanted(p) = 0
  <2> TAKE p \in Prompt
  <2>1. Homogeneous(p) => Extra(p) = 0
    BY StoppedAtCap, CollectorAssumption DEF Extra
  <2> QED BY <2>1, WantedIsExtra
<1>3. \A p \in Prompt : CorrectOnes(p)' = CorrectOnes(p) /\ Samples(p)' = Samples(p)
  BY <1>1 DEF CorrectOnes, Samples
<1> QED BY <1>1, <1>2, <1>3 DEF Groups!Deliver

LEMMA OthersStutter ==
  ASSUME Render \/ ApplyOutput \/ Extend \/ UNCHANGED vars
  PROVE  UNCHANGED abstract
<1>1. episodes' = episodes
  BY OthersKeepGroups
<1>2. (stage = "returned") = (stage = "returned")'
  BY DEF Render, ApplyOutput, Extend, vars
<1> QED BY <1>1, <1>2 DEF abstract, CorrectOnes, Samples

\* For any prompts, group sizes and caps, collect is group sampling: each pass
\* samples all the unsettled groups by K or up to the cap, and none is delivered
\* unsettled below it (collect, adaptive_extension_counts).
THEOREM CollectIsGroupSampling == Spec => KeepsGroupSampling
<1>1. Init => Groups!GroupSamplingInit
  <2> SUFFICES ASSUME Init PROVE Groups!GroupSamplingInit
    OBVIOUS
  <2>1. stage = "pass" /\ \A p \in Prompt : Samples(p) = 0
    BY DEF Init, Samples
  <2>2. \A p \in Prompt : CorrectOnes(p) = 0
    BY <2>1, CollectInit, GroupTyped DEF CollectInv
  <2> QED BY <2>1, <2>2 DEF Groups!GroupSamplingInit
<1>2. CollectInv /\ CollectInv' /\ [Next]_vars => [Groups!Round \/ Groups!Deliver]_abstract
  BY FinishPassIsRound, ReturnDelivers, OthersStutter DEF Next
<1> QED BY <1>1, <1>2, CollectionHolds, PTL DEF Spec, KeepsGroupSampling,
           Groups!GroupSamplingSpec, abstract

-----------------------------------------------------------------------------
(***************************************************************************)
(* Signal.  The extension looks at correctness and the advantages at the   *)
(* rewards of the episodes that train: NoSignalOnlyAtCap fails, and here   *)
(* is when it may.                                                         *)
(***************************************************************************)
\* The least reward of a correct episode.
Bar == IF Profile = "execution-ladder" THEN 5 ELSE 1

\* The reward of an episode that trains says whether it was correct.
RewardsTell ==
  \A p \in Prompt : \A e \in DOMAIN episodes[p] :
    episodes[p][e].trainable => (episodes[p][e].correct <=> episodes[p][e].reward >= Bar)

\* A group returned below the cap without a signal has an episode excluded from
\* training.
SignalUnlessExcluded ==
  stage = "returned" => \A p \in Prompt :
    \/ CarriesSignal(p)
    \/ Samples(p) = MaxGroup
    \/ \E e \in DOMAIN episodes[p] : ~ episodes[p][e].trainable

LEMMA ScoreTells ==
  ASSUME NEW env \in Env, Score(env).trainable
  PROVE  Score(env).correct <=> Score(env).reward >= Bar
<1>1. Trainable(env) /\ Score(env).correct = env.correct /\ env.correct \in BOOLEAN
  BY DEF Score, Env
<1>2. Score(env).reward = Reward(env)
  BY DEF Score
<1>3. /\ Profile = "binary" => Reward(env) = IF env.correct THEN 1 ELSE 0
      /\ Profile = "signed-binary" => Reward(env) = IF env.correct THEN 1 ELSE -1
      /\ Profile = "execution-ladder" =>
           Reward(env) = IF env.correct THEN 5 ELSE IF env.status = "answered" THEN 1 ELSE 0
      /\ Profile = "four-level" =>
           Reward(env) = IF env.correct THEN (IF HasErrors(env) THEN 2 ELSE 3)
                                        ELSE (IF HasErrors(env) THEN -2 ELSE -1)
      /\ Profile = "three-level-clean-weighted" =>
           Reward(env) = IF env.correct THEN (IF HasErrors(env) THEN 3 ELSE 5) ELSE -4
  BY <1>1 DEF Reward
<1> HIDE DEF Reward
<1> QED BY <1>1, <1>2, <1>3, CollectorAssumption DEF Bar

LEMMA RewardsTellInit == Init => RewardsTell
<1>1. Init => \A p \in Prompt : DOMAIN episodes[p] = {}
  BY DEF Init
<1> QED BY <1>1 DEF RewardsTell

\* An episode gets its reward when its pass is scored and keeps it.
LEMMA RewardsTellStep ==
  ASSUME CollectInv, RewardsTell, [Next]_vars
  PROVE  RewardsTell'
<1>1. CASE FinishPass
  <2> SUFFICES ASSUME NEW p \in Prompt, NEW e \in DOMAIN episodes'[p], episodes'[p][e].trainable
               PROVE  episodes'[p][e].correct <=> episodes'[p][e].reward >= Bar
    BY DEF RewardsTell
  <2> DEFINE group  == episodes[p]
             scored == [j \in DOMAIN envs[p] |-> Score(envs[p][j])]
  <2>1. episodes'[p] = group \o scored
    BY <1>1 DEF FinishPass
  <2>2. /\ group \in Seq(Sample) /\ envs[p] \in Seq(Env) /\ Len(envs[p]) \in Nat
        /\ DOMAIN envs[p] = 1 .. Len(envs[p])
    BY GroupTyped DEF CollectInv
  <2>3. scored \in Seq(Sample)
    <3>1. \A j \in DOMAIN envs[p] : envs[p][j] \in Env /\ envs[p][j].status # "open"
      BY <1>1, <2>2, OpenRow DEF FinishPass
    <3>2. \A j \in DOMAIN envs[p] : scored[j] \in Sample
      BY <3>1, ScoreIsAligned DEF CollectInv, TurnsCounted
    <3>3. scored = [j \in 1 .. Len(envs[p]) |-> scored[j]]
      BY <2>2
    <3> HIDE DEF scored
    <3> QED BY <2>2, <3>2, <3>3, SequenceOf
  <2>4. \A j \in DOMAIN scored : scored[j] = Score(envs[p][j]) /\ envs[p][j] \in Env
    BY <2>2
  <2> HIDE DEF scored
  <2>5. \/ e \in DOMAIN group /\ episodes'[p][e] = group[e]
        \/ e - Len(group) \in DOMAIN scored /\ episodes'[p][e] = scored[e - Len(group)]
    <3> HIDE DEF group
    <3>1. /\ DOMAIN (group \o scored) = 1 .. Len(group) + Len(scored)
          /\ \A i \in 1 .. Len(group) : (group \o scored)[i] = group[i]
          /\ \A i \in (Len(group) + 1) .. (Len(group) + Len(scored)) :
                i - Len(group) \in 1 .. Len(scored) /\ (group \o scored)[i] = scored[i - Len(group)]
      BY <2>2, <2>3, Joined
    <3>2. /\ DOMAIN group = 1 .. Len(group) /\ DOMAIN scored = 1 .. Len(scored)
          /\ Len(group) \in Nat /\ Len(scored) \in Nat
      BY <2>2, <2>3
    <3> QED BY <2>1, <3>1, <3>2
  <2>6. CASE e \in DOMAIN group /\ episodes'[p][e] = group[e]
    BY <2>6 DEF RewardsTell
  <2>7. CASE e - Len(group) \in DOMAIN scored /\ episodes'[p][e] = scored[e - Len(group)]
    BY <2>4, <2>7, ScoreTells
  <2> QED BY <2>5, <2>6, <2>7
<1>2. CASE ~ FinishPass
  <2>1. episodes' = episodes
    BY <1>2, OthersKeepGroups DEF Next
  <2> QED BY <2>1 DEF RewardsTell
<1> QED BY <1>1, <1>2

\* A group with a right and a wrong answer, all of which train, has a signal.
LEMMA MixedCarriesSignal ==
  ASSUME TypeOK, RewardsTell, NEW p \in Prompt, ~ Homogeneous(p),
         \A e \in DOMAIN episodes[p] : episodes[p][e].trainable
  PROVE  CarriesSignal(p)
<1> DEFINE group == episodes[p]
<1>1. /\ Cardinality(Right(group)) # 0 /\ Cardinality(Wrong(group)) # 0
  BY GroupTyped DEF Homogeneous
<1>2. PICK d \in Right(group), e \in Wrong(group) : TRUE
  BY <1>1, FS_EmptySet
<1>3. /\ d \in DOMAIN group /\ group[d].correct
      /\ e \in DOMAIN group /\ ~ group[e].correct
  BY <1>2 DEF Right, Wrong
<1>4. group[d].reward >= Bar /\ ~ (group[e].reward >= Bar)
  BY <1>3 DEF RewardsTell
<1> QED BY <1>3, <1>4 DEF CarriesSignal

\* collect returns a group below the cap without a signal only where an episode
\* was excluded from training: what adaptive_extension_counts documents holds
\* for every other group, under every reward profile.
THEOREM ExclusionAloneHidesSignal == Spec => []SignalUnlessExcluded
<1>1. CollectInv /\ RewardsTell => SignalUnlessExcluded
  BY MixedCarriesSignal DEF CollectInv, HomogeneousOnlyAtCap, SignalUnlessExcluded
<1>2. Spec => []RewardsTell
  BY RewardsTellInit, RewardsTellStep, CollectionHolds, PTL DEF Spec
<1> QED BY <1>1, <1>2, CollectionHolds, PTL
=============================================================================
