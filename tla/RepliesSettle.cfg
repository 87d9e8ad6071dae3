\* One execution, two publish attempts, one fault, fair schedulers.
CONSTANTS
  Exec = {e1}
  OtherPost = {}
  Worker = {w1}
  Leader = {l1}
  Drafter = {d1}
  MaxVersions = 1
  MaxPublishes = 2
  MaxFaults = 1
  NoWorker = NoWorker
  NoExec = NoExec
SPECIFICATION FairSpec
PROPERTY Settles
CHECK_DEADLOCK FALSE
