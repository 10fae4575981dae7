SPECIFICATION FairSpec
CONSTANTS
  s1 = s1
  s2 = s2
  web = web
  grant = grant
  Subs = {s1, s2}
  Logins = {web, grant}
  KindOf <- MCKindOf
  LoginOf <- MCLoginOf
  Here = {s1}
  Away = {s1, s2}
  Outcomes <- MCOutcomes
  NoSub = NoSub
  Delays = {0, 1}
  Batch = 1
  MaxTime = 1
  MaxTroubles = 1
INVARIANTS HandedOnce RecordTrue
PROPERTIES  HeldSettles WindowKept
CHECK_DEADLOCK FALSE
