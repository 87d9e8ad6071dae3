\* One observation, two workers, two sweepers, two faults.
CONSTANTS
  Observation = {o1}
  Worker = {w1,w2}
  Sweeper = {s1, s2}
  MaxAttempts = 2
  MaxFaults = 2
  NoWorker = NoWorker
  NoKey = NoKey
SPECIFICATION FairSpec
INVARIANTS TypeOK CapturedOnce RetryOnTheWay
PROPERTIES TransitionsValid Ends
CHECK_DEADLOCK FALSE
