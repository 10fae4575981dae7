SPECIFICATION ISpec
CONSTANTS
  MaxEmails = 3
  MaxThreads = 2
  MaxBoxes = 2
  DefaultBoxes = 1
  MaxModseq = 5
  MaxUid = 4
  BatchLimit = 2
  Quota = 2
  RemoveEmails = TRUE
  Box = 1
INVARIANTS EmailsLogged ThreadsLogged MailboxesLogged ImapCatchesUp UnchangedStateIsCurrent
PROPERTIES UidsFresh LogKept
