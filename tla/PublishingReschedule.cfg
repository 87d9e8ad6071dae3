\* One draft scheduled up to twice, one worker slot, no fault.
CONSTANTS
  p1 = p1
  p2 = p2
  t1 = t1
  x = x
  Text = {x}
  TextOf <- OneText
  NoPost = NoPost
  NoWorker = NoWorker
  NoJob = NoJob
  Post = {p1, p2}
  Worker = {w1}
  Target = {t1}
  TargetOf <- OneDraft
  MaxAttempts = 1
  MaxCreates = 1
  MaxFaults = 0
SPECIFICATION Spec
INVARIANTS RepublishOnlyIfReleased PublishedIsRecorded
VIEW View
SYMMETRY PostSymmetry
CHECK_DEADLOCK FALSE
