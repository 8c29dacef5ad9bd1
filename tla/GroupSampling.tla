----------------------------- MODULE GroupSampling -----------------------------
(***************************************************************************)
(* What a rollout collection promises of its groups.  Each prompt first    *)
(* gets a group of K answers.  A group with a right and a wrong answer is  *)
(* settled; one round after the other samples all the unsettled groups     *)
(* again, and nothing is delivered until each is settled or full.          *)
(***************************************************************************)
EXTENDS Integers

CONSTANTS Prompt, K, Cap

VARIABLES
  right, wrong,   \* answers in each group
  delivered

GroupSamplingInit ==
  /\ right = [p \in Prompt |-> 0] /\ wrong = [p \in Prompt |-> 0]
  /\ delivered = FALSE

Size(p)    == right[p] + wrong[p]
Settled(p) == right[p] > 0 /\ wrong[p] > 0
Wanted(p)  == IF Settled(p) THEN 0 ELSE IF K < Cap - Size(p) THEN K ELSE Cap - Size(p)

Round ==
  /\ ~ delivered
  /\ \E p \in Prompt : Wanted(p) > 0
  /\ right' \in [Prompt -> 0 .. Cap] /\ wrong' \in [Prompt -> 0 .. Cap]
  /\ \A p \in Prompt : /\ Size(p)' = Size(p) + Wanted(p)
                        /\ right'[p] >= right[p] /\ wrong'[p] >= wrong[p]
  /\ UNCHANGED delivered

Deliver ==
  /\ ~ delivered
  /\ \A p \in Prompt : Wanted(p) = 0
  /\ delivered' = TRUE
  /\ UNCHANGED <<right, wrong>>

GroupSamplingSpec == GroupSamplingInit /\ [][Round \/ Deliver]_<<right, wrong, delivered>>
=============================================================================
