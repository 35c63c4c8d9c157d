\* Address changes behind drops shorter than a second, too.
CONSTANTS
  Fd = {f1, f2}
  None = None
  Ip = {ip1, ip2}
  MaxClients = 1
  ListenRetry = 1
  MaxAttempts = 1
  MaxRecoveries = 1
  Check = 1
  Retry = 1
  Rate = 60
  IdleRate = 20
  AcceptInterval = 1
  Pulse = 1
  Keys = {}
  Notifications = {}
  MaxNotifs = 0
  LinkMayChange = TRUE
  FlapsSeen = FALSE
  TicksFit = TRUE
SPECIFICATION FairSpec
PROPERTIES ListenerFollowsIp
