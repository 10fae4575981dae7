SPECIFICATION WatcherSpec
CONSTANTS
  Kinds = {email, submission}
  EmailSubmission = submission
  Capacity = 1
  MaxModseq = 3
  MaxChanges = 3
  MaxFaults = 1
INVARIANTS WatcherTold
PROPERTY NeverToldBack
