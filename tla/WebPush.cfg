SPECIFICATION WebPushFairSpec
CONSTANTS
  Kinds = {email, submission}
  EmailSubmission = submission
  Capacity = 1
  MaxModseq = 3
  MaxChanges = 3
  MaxFaults = 1
  MaxFailures = 2
INVARIANTS ChangesPushed
PROPERTY NothingHeldForever
CHECK_DEADLOCK FALSE
