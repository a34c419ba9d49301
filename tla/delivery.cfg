CONSTANTS
  NCommands = 2
  Prefetch = 2
  MaxFaults = 2
SPECIFICATION FairSpec
INVARIANTS TypeOK SettledWhenDone CommandOnceInBroker RunsBounded
PROPERTIES QueueIsAtLeastOnce ConsumerComesBack CommandsGetDone
CHECK_DEADLOCK FALSE
