SPECIFICATION ServerSpec
CONSTANTS
  Slots = {1, 2}
  One = {1}
  Options = {o1, o2}
  Articles = {1, 2}
  Readers = {u1}
  Cap = 2
  Quota = 1
  Nothing = Nothing
  Signups = 2
  Periods = 2
  Events = 2
  Faults = 1
  Referrals = 2
  Reactions = 3
  Products = {1, 2}
  KeyBound = 2
  HourBound = 1
  PageBound = 2
  ViewBound = 1
INVARIANTS
  AccountsTypeOK
  IdentityHolds
  NewsKeepsToLimits
  RepeatsCountOnce
  CopiesAgree
PROPERTIES
  PurchasesAreAttributed
  ShutdownEnds
CHECK_DEADLOCK FALSE
