SPECIFICATION Spec
CONSTANTS
  m1 = m1
  m2 = m2
  s1 = s1
  g1 = g1
  None = None
  Self = Self
  NoSender = NoSender
  Message = {m1, m2}
  About <- MCAbout
  Tables <- MCTables
  Entries <- MCEntries
  Limits <- MCLimits
  Miles <- MCMiles
  Offers <- MCOffers
  Prefetch = 2
  MaxWindows = 1
  MaxChanges = 2
  MaxTogether = 3
CONSTRAINT FewAtOnce
INVARIANTS
  TypeOK
  OncePerWindow
  PrivateFollowsAnswer
PROPERTIES
  PermittedAnswers
  QuotesFromSavedTables
  BiggerOrdersNeverCostMore
CHECK_DEADLOCK FALSE
