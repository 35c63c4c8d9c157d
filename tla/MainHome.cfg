\* HOME and exit notifications, peers that come and go; the link stays up.
CONSTANTS
  Fd = {f1, f2, f3, f4}
  None = None
  Ip = {ip1}
  MaxClients = 2
  ListenRetry = 1
  MaxAttempts = 1
  MaxRecoveries = 1
  Check = 1
  Retry = 1
  Rate = 60
  IdleRate = 20
  AcceptInterval = 2
  Pulse = 1
  Keys = {}
  Notifications = {"home", "exit"}
  MaxNotifs = 1
  LinkMayChange = FALSE
  FlapsSeen = FALSE
  TicksFit = FALSE
SPECIFICATION Spec
SYMMETRY FdSymmetry
INVARIANTS HomeReachesClients ExitReleasesAll
PROPERTIES PulseEnds
