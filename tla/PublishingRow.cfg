\* One row, two worker slots, one fault.
CONSTANTS
  p1 = p1
  p2 = p2
  t1 = t1
  x = x
  Text = {x}
  TextOf <- OneText
  NoPost = NoPost
  NoWorker = NoWorker
  NoJob = NoJob
  Post = {p1}
  Worker = {w1, w2}
  Target = {t1}
  TargetOf <- OneDraft
  MaxAttempts = 2
  MaxCreates = 1
  MaxFaults = 1
SPECIFICATION Spec
INVARIANTS TypeOK PublishAtMostOnce AmbiguityKept SnapshotCurrent CreatesCapped
PROPERTIES FinalIsFinal RefinesPublishOnce
SYMMETRY WorkerSymmetry
CHECK_DEADLOCK FALSE
