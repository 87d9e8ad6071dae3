\* One row, one worker slot, one fault, fair schedulers.
CONSTANTS
  p1 = p1
  p2 = p2
  t1 = t1
  x = x
  Text = {x}
  TextOf <- OneText
  NoPost = NoPost
  NoWorker = NoWorker
  NoJob = NoJob
  Post = {p1}
  Worker = {w1}
  Target = {t1}
  TargetOf <- OneDraft
  MaxAttempts = 2
  MaxCreates = 1
  MaxFaults = 1
SPECIFICATION FairSpec
PROPERTY Settles
CHECK_DEADLOCK FALSE
