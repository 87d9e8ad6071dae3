\* Three comments, the first two the account's own, read in pages of two by two syncs.
CONSTANTS
  Comments = 3
  Own = {1, 2}
  Syncer = {s1, s2}
  Classifier = {k1}
  PageSize = 2
  Overlap = 1
  MaxFaults = 1
  NoSyncer = NoSyncer
SPECIFICATION FairSpec
INVARIANTS TypeOK NothingSkipped OwnNeverAnswered
PROPERTY Classified
CHECK_DEADLOCK FALSE
