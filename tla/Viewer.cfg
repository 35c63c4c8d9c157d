\* Packets split by recv at every offset, a queue that overflows, streams that
\* start out of sync.
CONSTANTS
  MaxPackets = 3
  MaxLen = 2
  Chunks <- Sizes
  Junk <- Starts
  Data <- Payloads
  RestLen = 2
SPECIFICATION FairSpec
INVARIANTS DecodesExactly ResyncsSoon NeverRaises
PROPERTIES ImplementsConn Ends
