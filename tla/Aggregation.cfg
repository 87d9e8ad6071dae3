\* Two captures in two slots, two job slots, two calls about recommendations, one fault.
CONSTANTS
  Slot = {a, b}
  Candidate = {x, y}
  Worker = {w1, w2}
  Client = {c1, c2}
  MaxPending = 1
  MaxCaptures = 2
  MaxCalls = 2
  MaxFaults = 1
  NoSlot = NoSlot
  NoKey = NoKey
SPECIFICATION Spec
INVARIANTS TypeOK StampedAsCounted CaptureRemembered RevisionRemembered PendingInBudget
PROPERTIES ProfileForward FromLatestProfile
SYMMETRY Symmetry
VIEW View
CHECK_DEADLOCK FALSE
