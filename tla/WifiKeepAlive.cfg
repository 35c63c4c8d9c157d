\* Two attempts and two recoveries: limits that are reached and passed.
CONSTANTS
  MaxAttempts = 2
  MaxRecoveries = 2
  Check = 1
  Retry = 3
SPECIFICATION FairSpec
INVARIANTS NoHandleLeak
PROPERTIES TriesBounded RecoveriesHonest StatusSettles RequestIsMade
