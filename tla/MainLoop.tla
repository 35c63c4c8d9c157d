------------------------------ MODULE MainLoop ------------------------------
(***************************************************************************)
(* source/main.cpp: the one thread of the module.  It sleeps on a timer    *)
(* and on srv notifications; a timer tick samples the pad, polls the Wi-Fi *)
(* keep-alive, rebuilds the sockets after a recovery, accepts clients and  *)
(* broadcasts a packet.  NetServer and WifiKeepAlive are the components it *)
(* calls; the link that WifiKeepAlive watches is the network that          *)
(* NetServer uses.  Of a packet only the HOME bit is kept.                 *)
(***************************************************************************)
EXTENDS Integers, Sequences, FiniteSets

CONSTANTS
  Fd, None, Ip, MaxClients, ListenRetry,     \* NetServer
  MaxAttempts, MaxRecoveries, Check, Retry,  \* WifiKeepAlive
  Rate, IdleRate,          \* RATE_DEFAULT and RATE_IDLE
  AcceptInterval, Pulse,   \* ACCEPT_INTERVAL_TICKS, HOME_PULSE_TICKS
  Keys,                    \* the buttons the user may press
  Notifications, MaxNotifs, \* what srv may announce, and how many may wait
  LinkMayChange, FlapsSeen,  \* the link may change; only once wifiPoll saw its last change
  TicksFit                 \* the work of a tick takes less than the timer's period

ASSUME MainAssumption ==
  /\ None \notin Fd \cup Ip
  /\ \A n \in {MaxClients, ListenRetry, MaxAttempts, MaxRecoveries, Check, Retry} : n \in Nat \ {0}
  /\ Check <= Retry
  /\ Rate # IdleRate /\ Rate # 0 /\ IdleRate # 0
  /\ AcceptInterval \in Nat \ {0} /\ Pulse \in Nat \ {0}
  /\ Keys \subseteq {"SELECT", "START"}
  /\ Notifications \subseteq {"home", "exit", "other"} /\ MaxNotifs \in Nat
  /\ LinkMayChange \in BOOLEAN /\ FlapsSeen \in BOOLEAN
  /\ TicksFit \in BOOLEAN

VARIABLES
  listen_fd, clients, retryIn, boundIp, phase, pos, sock, pending, ip, offered, torn,
  status, recoveries, recovered, acUp, nwmUp, requestHeld, linkUp, everDropped,
  attempts, nextCheckIn, connectEvent, running, link, acOk, events, tries, cooldown,
  at,                                       \* the step of the loop to come
  timerHz, timerDue,                        \* the timer: its rate, and whether it has fired
  prevHeld,
  homeActive, homeReported, homeIn,         \* homeIn is homeUntil - now
  homeDue,                                  \* now >= homeUntil, for the now of this tick
  nextAcceptIn,                             \* nextAccept - now
  notifs,                                   \* notifications srv holds for us
  frame,                                    \* history: the HOME bit of the frame, and its press
  homeAlone,                                \* history: nobody was connected at the last press
  owed,                                     \* history: clients to see the last press
  fromBefore                                \* history: sockets older than the last recovery

Net == INSTANCE NetServer WITH netOk <- link
Wifi == INSTANCE WifiKeepAlive

netOwn == <<listen_fd, clients, retryIn, boundIp, phase, pos, sock, pending, offered, torn>>
wifiOwn == <<status, recoveries, recovered, acUp, nwmUp, requestHeld, linkUp, everDropped,
             attempts, nextCheckIn, connectEvent, running, events, tries, cooldown>>
homeVars == <<homeActive, homeReported, homeIn, homeAlone>>
world == <<ip, link, acOk>>
mainVars == <<netOwn, wifiOwn, homeVars, world, at, timerHz, timerDue, prevHeld, homeDue,
              nextAcceptIn, notifs, frame, owed, fromBefore>>

Init ==
  /\ Net!Init /\ Wifi!Init
  /\ (~LinkMayChange => link) /\ acOk
  /\ at = "start" /\ timerHz = 0 /\ timerDue = FALSE /\ prevHeld = {}
  /\ homeActive = FALSE /\ homeReported = FALSE /\ homeIn = 0 /\ homeDue = FALSE
  /\ nextAcceptIn = 0 /\ notifs = <<>>
  /\ frame = "plain" /\ homeAlone = FALSE /\ owed = {} /\ fromBefore = {}

\* The step's effect on who is still owed a HOME frame, and on old sockets.
Settle(served) ==
  /\ owed' = (owed \ served) \cap Net!ClientSet'
  /\ fromBefore' = fromBefore \cap Net!OpenFds'

-----------------------------------------------------------------------------
Start ==
  /\ at = "start"
  /\ Net!NetInit
  /\ at' = IF phase' = "idle" THEN "top" ELSE "stopped"
  /\ UNCHANGED <<wifiOwn, homeVars, world, timerHz, timerDue, prevHeld, homeDue,
                 nextAcceptIn, notifs, frame, owed, fromBefore>>

WantHz == IF clients # <<>> THEN Rate ELSE IdleRate

\* setTimerRate cancels the timer, a firing not yet waited for included.
Top ==
  /\ at = "top" /\ at' = "wait"
  /\ timerHz' = WantHz
  /\ timerDue' = (timerDue /\ WantHz = timerHz)
  /\ UNCHANGED <<netOwn, wifiOwn, homeVars, world, prevHeld, homeDue, nextAcceptIn, notifs,
                 frame, owed, fromBefore>>

ExitChord(held) == "SELECT" \in held /\ "START" \in held \ prevHeld

\* svcWaitSynchronizationN reports the timer first when both are signalled.
WakeTimer ==
  /\ at = "wait" /\ timerDue
  /\ timerDue' = FALSE
  /\ \E held \in SUBSET Keys :
       IF ExitChord(held) THEN at' = "exit" /\ UNCHANGED prevHeld
                          ELSE at' = "poll" /\ prevHeld' = held
  /\ UNCHANGED <<netOwn, wifiOwn, homeVars, world, timerHz, homeDue, nextAcceptIn, notifs,
                 frame, owed, fromBefore>>

HomePressed ==
  /\ homeActive' = TRUE /\ homeReported' = FALSE
  /\ homeIn' = Pulse
  /\ homeAlone' = (clients = <<>>)
  /\ owed' = Net!ClientSet

\* Handled says whether srvReceiveNotification gave us the notification.
WakeNotification ==
  /\ at = "wait" /\ ~timerDue /\ notifs # <<>>
  /\ notifs' = Tail(notifs)
  /\ \E handled \in Wifi!Granted :
       /\ at' = IF handled /\ Head(notifs) = "exit" THEN "exit" ELSE "top"
       /\ IF handled /\ Head(notifs) = "home"
          THEN HomePressed
          ELSE UNCHANGED <<homeVars, owed>>
  /\ UNCHANGED <<netOwn, wifiOwn, world, timerHz, timerDue, prevHeld, homeDue, nextAcceptIn,
                 frame, fromBefore>>

-----------------------------------------------------------------------------
\* wifiPoll, which does nothing before its next check.
Poll ==
  /\ at = "poll" /\ at' = "take"
  /\ \/ Wifi!WifiPoll
     \/ ~Wifi!PollDue /\ UNCHANGED wifiOwn
  /\ fromBefore' = IF recovered' /\ ~recovered THEN Net!OpenFds ELSE fromBefore
  /\ UNCHANGED <<netOwn, homeVars, world, timerHz, timerDue, prevHeld, homeDue, nextAcceptIn,
                 notifs, frame, owed>>

\* Mutant of ResetNeeded: only rebuild when somebody is connected.
ResetIfConnected == recovered /\ clients # <<>>
ResetNeeded == recovered

Take ==
  /\ at = "take" /\ at' = "now"
  /\ Wifi!TakeRecovered
  /\ IF ResetNeeded THEN Net!NetReset ELSE UNCHANGED netOwn
  /\ Settle({})
  /\ UNCHANGED <<homeVars, world, timerHz, timerDue, prevHeld, homeDue, nextAcceptIn, notifs,
                 frame>>

\* The tick's now: it decides on accepting, and later on the end of the pulse.
Now ==
  /\ at = "now"
  /\ homeDue' = (homeIn = 0)
  /\ \/ /\ nextAcceptIn = 0 /\ nextAcceptIn' = AcceptInterval
        /\ at' = "accept"
        /\ Net!NetAccept \/ (Net!RetryNotDue /\ UNCHANGED netOwn)
     \/ /\ nextAcceptIn > 0 /\ UNCHANGED <<netOwn, nextAcceptIn>>
        /\ at' = "send"
  /\ UNCHANGED <<wifiOwn, homeVars, world, timerHz, timerDue, prevHeld, notifs, frame, owed,
                 fromBefore>>

Accept ==
  /\ at = "accept"
  /\ \/ Net!AcceptLoop /\ at' = at
     \/ phase = "idle" /\ at' = "send" /\ UNCHANGED netOwn
  /\ Settle({})
  /\ UNCHANGED <<wifiOwn, homeVars, world, timerHz, timerDue, prevHeld, homeDue, nextAcceptIn,
                 notifs, frame>>

\* "stale" stands for a HOME bit whose press is over and met an empty array.
HomeBit ==
  IF ~homeActive THEN "plain"
  ELSE IF homeAlone /\ ~homeReported /\ homeDue THEN "stale" ELSE "home"

Send ==
  /\ at = "send"
  /\ \/ /\ clients # <<>> /\ at' = "sending"
        /\ frame' = HomeBit
        /\ homeReported' = (homeReported \/ homeActive)
        /\ Net!NetBroadcast
     \/ /\ clients = <<>> /\ at' = "clear"
        /\ UNCHANGED <<netOwn, homeReported, frame>>
  /\ UNCHANGED <<wifiOwn, homeActive, homeIn, homeAlone, world, timerHz, timerDue, prevHeld,
                 homeDue, nextAcceptIn, notifs, owed, fromBefore>>

Sending ==
  /\ at = "sending"
  /\ \/ /\ Net!BroadcastLoop /\ at' = at
        /\ Settle(IF Net!SendOne /\ frame # "plain" THEN {clients[pos]} ELSE {})
     \/ phase = "idle" /\ at' = "clear" /\ UNCHANGED <<netOwn, owed, fromBefore>>
  /\ UNCHANGED <<wifiOwn, homeVars, world, timerHz, timerDue, prevHeld, homeDue, nextAcceptIn,
                 notifs, frame>>

\* Mutant of PulseOver: a packet with the bit is waited for, clients or not.
PulseOverHeard == homeActive /\ homeReported /\ homeDue

\* A pulse ends when its time is up and it was in a packet, or nobody listens.
PulseOver == homeActive /\ (homeReported \/ clients = <<>>) /\ homeDue

Clear ==
  /\ at = "clear" /\ at' = "top"
  /\ IF PulseOver
     THEN homeActive' = FALSE /\ homeReported' = FALSE
     ELSE UNCHANGED <<homeActive, homeReported>>
  /\ UNCHANGED <<netOwn, wifiOwn, homeIn, homeAlone, world, timerHz, timerDue, prevHeld,
                 homeDue, nextAcceptIn, notifs, frame, owed, fromBefore>>

Exit ==
  /\ \/ at = "exit" /\ at' = "exiting" /\ Wifi!WifiExit /\ UNCHANGED netOwn
     \/ at = "exiting" /\ at' = "stopped" /\ Net!NetExit /\ UNCHANGED wifiOwn
  /\ Settle({})
  /\ UNCHANGED <<homeVars, world, timerHz, timerDue, prevHeld, homeDue, nextAcceptIn, notifs,
                 frame>>

-----------------------------------------------------------------------------
\* The world: peers, the network, ac, srv, the timer and the clock.
loopVars == <<homeActive, homeReported, homeAlone, at, timerHz, prevHeld, homeDue, frame, owed,
              fromBefore>>

Peers ==
  /\ Net!PeerConnects \/ Net!PeerGivesUp
  /\ UNCHANGED <<wifiOwn, acOk, loopVars, homeIn, nextAcceptIn, timerDue, notifs>>

NetworkChanges ==
  /\ LinkMayChange /\ (FlapsSeen => linkUp = link)
  /\ Net!NetworkChanges
  /\ UNCHANGED <<wifiOwn, acOk, loopVars, homeIn, nextAcceptIn, timerDue, notifs>>

\* The services are well: WifiKeepAlive alone is checked with ones that fail.
Services ==
  /\ Wifi!AcAnswers
  /\ UNCHANGED <<netOwn, ip, loopVars, homeIn, nextAcceptIn, timerDue, notifs>>

Notify ==
  /\ at # "stopped" /\ Len(notifs) < MaxNotifs
  /\ \E n \in Notifications : notifs' = Append(notifs, n)
  /\ UNCHANGED <<netOwn, wifiOwn, world, loopVars, homeIn, nextAcceptIn, timerDue>>

TimerFires ==
  /\ timerHz # 0 /\ ~timerDue /\ at # "stopped" /\ (TicksFit => at = "wait")
  /\ timerDue' = TRUE
  /\ UNCHANGED <<netOwn, wifiOwn, world, loopVars, homeIn, nextAcceptIn, notifs>>

Elapse ==
  /\ at # "stopped"
  /\ \E t \in {retryIn, nextCheckIn, homeIn, nextAcceptIn} : t > 0
  /\ retryIn' = Wifi!Less(retryIn)
  /\ nextCheckIn' = Wifi!Less(nextCheckIn) /\ cooldown' = Wifi!Less(cooldown)
  /\ homeIn' = Wifi!Less(homeIn)
  /\ nextAcceptIn' = Wifi!Less(nextAcceptIn)
  /\ UNCHANGED <<listen_fd, clients, boundIp, phase, pos, sock, pending, offered, torn,
                 status, recoveries, recovered, acUp, nwmUp, requestHeld, linkUp, everDropped,
                 attempts, connectEvent, running, events, tries, world, loopVars, timerDue,
                 notifs>>

-----------------------------------------------------------------------------
Tick == WakeTimer \/ Poll \/ Take \/ Now \/ Accept \/ Send \/ Sending \/ Clear
Loop == Start \/ Top \/ Tick \/ Exit
World == Peers \/ NetworkChanges \/ Services \/ Notify \/ TimerFires \/ Elapse
Done == at = "stopped" /\ UNCHANGED mainVars

Next == Loop \/ WakeNotification \/ World \/ Done

Spec == Init /\ [][Next]_mainVars

(* The thread runs, the timer fires, the clock ticks; and openListener     *)
(* succeeds some time if it is tried again and again while the link is up, *)
(* and so does the fcntl of one client after the other.                    *)
FairSpec ==
  /\ Spec
  /\ WF_mainVars(Loop) /\ WF_mainVars(TimerFires) /\ WF_mainVars(Elapse)
  /\ SF_mainVars(Now /\ listen_fd' # None) /\ SF_mainVars(Accept /\ clients' # clients)

-----------------------------------------------------------------------------
TypeOK ==
  /\ Net!TypeOK /\ Wifi!TypeOK
  /\ at \in {"start", "top", "wait", "poll", "take", "now", "accept", "send", "sending",
             "clear", "exit", "exiting", "stopped"}
  /\ timerHz \in {0, Rate, IdleRate}
  /\ \A b \in {timerDue, homeActive, homeReported, homeDue, homeAlone} : b \in BOOLEAN
  /\ prevHeld \subseteq Keys
  /\ homeIn \in 0..Pulse /\ nextAcceptIn \in 0..AcceptInterval
  /\ notifs \in Seq(Notifications) /\ Len(notifs) <= MaxNotifs
  /\ frame \in {"plain", "home", "stale"}
  /\ owed \subseteq Fd /\ fromBefore \subseteq Fd

(* A HOME press is not lost: every client that was connected when it was   *)
(* announced and still is when the pulse ends has been offered a frame     *)
(* with the HOME bit, with presses during a pulse and slow ticks included  *)
(* (main.cpp: "and for at least one packet").                              *)
HomeReachesClients == ~homeActive => owed = {}

(* After a recovery no socket from before it is accepted from or sent to.  *)
NoOldSocketUsed == phase \in {"accept", "broadcast"} => fromBefore = {}

(* However the loop is left, wifiExit and netExit have released every      *)
(* socket, event and session by the time main returns.                     *)
ExitReleasesAll ==
  at = "stopped" => Net!OpenFds = {} /\ events = 0 /\ ~acUp /\ ~nwmUp

(* The input loop uses each component within the component's own           *)
(* specification, so that what is proved of those holds here.              *)
NetComposes == Net!Init /\ [][Net!Next]_(Net!netVars)
WifiComposes == Wifi!Init /\ [][Wifi!Next]_(Wifi!wifiVars)

(* A pulse is over in the tick that finds its time up, with clients or     *)
(* without, gained or lost in that very tick: a HOME bit neither sticks    *)
(* nor waits for a client to come.                                         *)
PulseEnds == [][at = "clear" /\ at' = "top" /\ homeDue => ~homeActive']_mainVars

(* Once the network is stable a listener at the console's address is open  *)
(* again and again, whatever address changes came before.                  *)
ListenerFollowsIp ==
  <>[]link => []<>((listen_fd # None /\ boundIp = ip) \/ at = "stopped")

(* main.cpp:198, "a stale press cannot show up on the next connection".    *)
NoStaleHome == frame = "stale" => phase # "broadcast"
=============================================================================
