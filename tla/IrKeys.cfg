\* Every failure of every request, games that take and free sessions.
CONSTANTS
  CsRetry = 1
  IrRetry = 1
SPECIFICATION FairSpec
INVARIANTS  OnlySoundWord
PROPERTIES KeysResolved
