SPECIFICATION JFairSpec
CONSTANTS
  MaxEmails = 2
  MaxThreads = 1
  MaxBoxes = 1
  DefaultBoxes = 1
  MaxModseq = 5
  MaxUid = 3
  BatchLimit = 2
  Quota = 0
  RemoveEmails = FALSE
  Kind = "Email"
  MaxChanges = {0, 1}
INVARIANTS JmapCatchesUp
PROPERTY JmapReachesState
