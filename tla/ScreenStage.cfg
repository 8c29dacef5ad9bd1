\* Three tasks over two shards, two possible groups, two invocations at a time
\* and three crashes.
CONSTANTS
  t1 = t1
  t2 = t2
  t3 = t3
  s1 = s1
  s2 = s2
  Task = {t1, t2, t3}
  Shard = {s1, s2}
  ShardOf <- MCShardOf
  Content = {c1, c2}
  Invocation = {i1, i2}
  Control = control
  None = None
  MaxCrashes = 3
SPECIFICATION Spec
INVARIANTS TypeOK NoPartialPool SealsHold
PROPERTIES StagePublishes KeepsFixedPool
