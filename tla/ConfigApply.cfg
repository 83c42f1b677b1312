\* Three requests, one kill, one subscriber.
CONSTANTS
  KnownLevels = {1, 2}
  DefaultLevel = 1
  BuiltCooldown = 3
  Unusable = {9}
  Files <- MCFiles
  Environments <- MCEnvironments
  Forms <- MCForms
  MaxPosts = 3
  MaxCrashes = 1
  MaxSubscribers = 1
SPECIFICATION FairSpec
INVARIANTS TypeOK LimitsAreSafe RestartEquivalent RunningIsCurrent NoSilentTeardown
PROPERTIES PostReturns 
CHECK_DEADLOCK FALSE
