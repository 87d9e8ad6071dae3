\* One execution between two worker slots, an edited draft, one fault.
CONSTANTS
  Exec = {e1}
  OtherPost = {}
  Worker = {w1,w2}
  Leader = {l1}
  Drafter = {d1}
  MaxVersions = 2
  MaxPublishes = 1
  MaxFaults = 1
  NoWorker = NoWorker
  NoExec = NoExec
SPECIFICATION Spec
PROPERTY ContainerReused
SYMMETRY WorkerSymmetry
VIEW View
CHECK_DEADLOCK FALSE
