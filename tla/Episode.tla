------------------------------- MODULE Episode -------------------------------
(***************************************************************************)
(* What an episode promises its caller, whatever runs inside it: every     *)
(* turn spends one unit of a shared budget, the verdict is given once, on  *)
(* the turn that closes the episode, nothing is accepted afterwards, and   *)
(* an episode whose budget is spent is closed.  Under fairness it closes.  *)
(***************************************************************************)
EXTENDS Naturals

CONSTANT Budget

VARIABLES spent, verdict

Verdict == {"correct", "wrong", "aborted"}

EpisodeInit == spent = 0 /\ verdict = "open"

Spend == /\ verdict = "open"
         /\ spent < Budget
         /\ spent' = spent + 1

Continue == Spend /\ spent' < Budget /\ UNCHANGED verdict

Close == Spend /\ verdict' \in Verdict

EpisodeNext == Continue \/ Close

EpisodeSafety == EpisodeInit /\ [][EpisodeNext]_<<spent, verdict>>

EpisodeSpec == EpisodeSafety /\ WF_<<spent, verdict>>(EpisodeNext)
=============================================================================
