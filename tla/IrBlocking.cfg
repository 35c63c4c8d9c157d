\* Sessions of ir:rst may all be taken when the module starts.
CONSTANTS
  CsRetry = 1
  IrRetry = 1
SPECIFICATION FairSpec
PROPERTIES PollReturns
