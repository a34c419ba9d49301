CONSTANTS
  Op = {o1, o2}
  MaxRequests = 3
  MaxRedeliveries = 1
  MaxRestarts = 1
SPECIFICATION FairSpec
INVARIANTS TypeOK OneClientPerDatabase HandlersAttachedOnce RightCodeShowsNoError
PROPERTY RecoversAfterLogout
