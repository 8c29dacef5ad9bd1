---------------------------- MODULE MCScreenStage ----------------------------
(* Three tasks dealt to two shards by their position. *)
EXTENDS ScreenStage
CONSTANTS t1, t2, t3, s1, s2
MCShardOf == [t \in {t1, t2, t3} |-> IF t = t2 THEN s2 ELSE s1]
=============================================================================
