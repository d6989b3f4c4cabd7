\* Three workers over the naive queue, three tasks in batches of up to two, a
\* pod that may fail, a stop at any moment.
CONSTANTS
  Producers = {server}
  Consumers = {w1, w2, w3}
  Tasks = {t1, t2, t3}
  BatchMax = 2
  PodMayFail = TRUE
SPECIFICATION FairPoolSpec
INVARIANTS PoolInv NoMissedWakeup
PROPERTIES ImplementsContract StopJoins TaskAnswered
CHECK_DEADLOCK FALSE
