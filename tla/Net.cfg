\* Three clients, so that the removed, the last and an untouched slot differ.
CONSTANTS
  Fd = {f1, f2, f3, f4, f5}
  None = None
  Ip = {ip1}
  MaxClients = 3
  ListenRetry = 1
SPECIFICATION FairSpec
INVARIANTS TypeOK DescriptorsAccounted NeverBlocks OncePerFrame
PROPERTIES WholePackets ImplementsFeed AcceptNeverStalls ListenerComesBack
