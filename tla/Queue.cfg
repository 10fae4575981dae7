SPECIFICATION Spec
CONSTANTS
  Messages = {1, 2}
  Recipients = {1, 2}
  MsgOf <- TwoMessages
  DomainOf <- OneDomain
  Never = {}
  WantDelay = {1}
  NoSender = {2}
  Slots = {1, 2}
  Permits = 1
  ClaimLimit = 1
  Lease = 1
  RetryDelays = {1}
  HoldRetry = 1
  HoldTime = 1
  Lifetime = 1
  MaxAdmin = 1
  LastEnqueue = 0
  MaxTime = 1
  Horizon = 9
  MaxTroubles = 1
  MaxMails = 1
INVARIANTS OneTaskPerRecipient WorksOnPending RefusedListed HoldTold
