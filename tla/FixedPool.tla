------------------------------ MODULE FixedPool ------------------------------
(***************************************************************************)
(* What a screening stage promises of its fixed rollout pool: the group of *)
(* a task is sampled once and never again, a shard is sealed when all its  *)
(* groups are there, and the pool is published once, from sealed shards    *)
(* only, and is then what was sampled.                                     *)
(***************************************************************************)
CONSTANTS Task, Shard, ShardOf, Content, None

VARIABLES
  sampled,     \* the group of each task, or None
  sealed,      \* the shards declared complete
  published    \* the pool as a reader finds it, or None

FixedPoolInit ==
  /\ sampled = [t \in Task |-> None]
  /\ sealed = {}
  /\ published = None

Sample(t) ==
  /\ sampled[t] = None
  /\ \E c \in Content : sampled' = [sampled EXCEPT ![t] = c]
  /\ UNCHANGED <<sealed, published>>

Seal(s) ==
  /\ s \notin sealed
  /\ \A t \in Task : ShardOf[t] = s => sampled[t] # None
  /\ sealed' = sealed \cup {s}
  /\ UNCHANGED <<sampled, published>>

Publish ==
  /\ sealed = Shard /\ published = None
  /\ published' = sampled
  /\ UNCHANGED <<sampled, sealed>>

FixedPoolNext ==
  \/ \E t \in Task : Sample(t)
  \/ \E s \in Shard : Seal(s)
  \/ Publish

FixedPoolSpec == FixedPoolInit /\ [][FixedPoolNext]_<<sampled, sealed, published>>
=============================================================================
