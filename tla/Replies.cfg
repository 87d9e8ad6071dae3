\* Two approvals of one text, one worker slot, one fault.
CONSTANTS
  Exec = {e1,e2}
  OtherPost = {p1}
  Worker = {w1}
  Leader = {l1}
  Drafter = {d1}
  MaxVersions = 1
  MaxPublishes = 1
  MaxFaults = 1
  NoWorker = NoWorker
  NoExec = NoExec
SPECIFICATION Spec
INVARIANTS TypeOK NoFalseSuccess
SYMMETRY ExecSymmetry
VIEW View
CHECK_DEADLOCK FALSE
