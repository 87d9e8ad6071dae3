CONSTANTS
  Cycle = {c1, c2}
  Human = {h1}
  Draft = {1, 2}
  s1 = s1
  w1 = w1
  w2 = w2
  Slot = {s1}
  Later = Later
  Week = {w1, w2}
  WeekOf <- OneWeekEach
  MaxWeekly = 1
  MaxSwitches = 1
  MaxErrors = 1
  NoCycle = NoCycle
  Trigger = {k1, k2}
  WithDraft = {k1}
  Actions <- AdaptAndSchedule
  Runner = {r1, r2}
  Review = {q1, q2}
  Days = 2
  MaxDaily = 1
  MaxMishaps = 1
  NoRunner = NoRunner
SPECIFICATION Spec
INVARIANTS TypeOK ChargedAsScheduled ChargedPerExecution ActionsInOrder AppliedFromItsVersion
PROPERTY PauseDisarms
VIEW View
SYMMETRY Symmetry
CHECK_DEADLOCK FALSE
