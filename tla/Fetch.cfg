SPECIFICATION FairSpec
CONSTANTS
  Mails = {1, 2, 3}
  NameOf <- OwnNames
  Large = {1, 3}
  NoMail = NoMail
  Delete = TRUE
  PerRun = 2
  HoldLimit = 0
  MaxRequests = 2
  MaxForgets = 1
  MaxFaults = 1
INVARIANTS DeletedDealt NothingSkipped BroughtOnce
PROPERTIES BacklogComplete FolderMovesOn
