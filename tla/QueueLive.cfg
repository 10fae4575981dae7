SPECIFICATION FairSpec
CONSTANTS
  Messages = {1}
  Recipients = {1, 2}
  MsgOf <- OneMessage
  DomainOf <- TwoDomains
  Never = {}
  WantDelay = {}
  NoSender = {}
  Slots = {1, 2}
  Permits = 1
  ClaimLimit = 2
  Lease = 1
  RetryDelays = {1}
  HoldRetry = 1
  HoldTime = 0
  Lifetime = 1
  MaxAdmin = 0
  LastEnqueue = 0
  MaxTime = 1
  Horizon = 1
  MaxTroubles = 1
  MaxMails = 1
PROPERTIES EverySettled SettledMessagesGo SenderTold
