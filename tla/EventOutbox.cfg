\* A post announcement and a reply dispatch, one processor (the proofs cover any number).
CONSTANTS
  Event = {1, 2}
  Dispatches = {2}
  Processor = {w1}
  BatchSize = 2
  MaxAttempts = 2
  NoClaim = NoClaim
SPECIFICATION FairSpec
INVARIANT TypeOK
PROPERTIES LeaseRespected RefinesEventDelivery Closes
CHECK_DEADLOCK FALSE
