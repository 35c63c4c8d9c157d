----------------------------- MODULE MainProofs -----------------------------
(***************************************************************************)
(* MainLoop for every value of its constants: the input loop uses net.cpp  *)
(* and wifi.cpp within their own specifications, so that the invariants    *)
(* proved of those hold in it, and with them its own safety properties.    *)
(***************************************************************************)
EXTENDS MainLoop, TLAPS

NetP == INSTANCE NetServerProofs WITH netOk <- link
WifiP == INSTANCE WifiProofs

\* Which call of net.h is in progress at each step of the loop.
PhaseKnown ==
  /\ phase = "accept" => at = "accept"
  /\ phase = "broadcast" => at = "sending"

\* Before the first tick, and on the way out.
ReleasedKnown ==
  /\ at \in {"start", "stopped"} => Net!OpenFds = {}
  /\ at \in {"start", "exiting", "stopped"} => events = 0 /\ ~acUp /\ ~nwmUp

\* A recovery is taken in the tick that reports it.
RecoveryKnown ==
  /\ recovered => at = "take"
  /\ ~recovered => fromBefore = {}

(* Who is still owed the last press: in the middle of the first packet     *)
(* with the bit, those netBroadcast has yet to come to.                    *)
HomeKnown ==
  /\ owed \subseteq Net!ClientSet
  /\ ~homeActive => owed = {} /\ ~homeReported
  /\ homeReported /\ at # "sending" => owed = {}
  /\ homeReported /\ at = "sending" => owed \subseteq NetP!DueClients /\ frame # "plain"
  /\ homeActive /\ at = "sending" => homeReported
  /\ homeActive /\ at = "clear" => homeReported \/ clients = <<>>

LoopKnown == PhaseKnown /\ ReleasedKnown /\ RecoveryKnown /\ HomeKnown

IInv == NetP!Inv /\ WifiP!Inv /\ LoopKnown

-----------------------------------------------------------------------------
(* What NetServerProofs and WifiProofs speak of is what the loop calls.    *)
LEMMA SameNet ==
  /\ Net!Init <=> NetP!Init
  /\ Net!Next <=> NetP!Next
  /\ Net!netVars = NetP!netVars /\ Net!netVars' = NetP!netVars'
  /\ Net!SendOne <=> NetP!SendOne
  /\ Net!BroadcastReturns <=> NetP!BroadcastReturns
  /\ Net!ClientSet = NetP!ClientSet /\ Net!ClientSet' = NetP!ClientSet'
  /\ Net!OpenFds = NetP!OpenFds /\ Net!OpenFds' = NetP!OpenFds'
BY DEF Net!Init, NetP!Init, Net!Next, NetP!Next, Net!Calls, NetP!Calls, Net!NetInit, NetP!NetInit,
       Net!NetAccept, NetP!NetAccept, Net!OpenListener, NetP!OpenListener,
       Net!OpenListenerFails, NetP!OpenListenerFails,
       Net!SockAfterFailedOpen, NetP!SockAfterFailedOpen, Net!NetBroadcast, NetP!NetBroadcast,
       Net!NetReset, NetP!NetReset, Net!NetExit, NetP!NetExit, Net!CloseAll, NetP!CloseAll,
       Net!AcceptLoop, NetP!AcceptLoop, Net!AcceptClient, NetP!AcceptClient,
       Net!HasRoom, NetP!HasRoom, Net!KeptModes, NetP!KeptModes,
       Net!AcceptReturns, NetP!AcceptReturns, Net!AcceptLoopDone, NetP!AcceptLoopDone,
       Net!AcceptFails, NetP!AcceptFails, Net!CloseListener, NetP!CloseListener,
       Net!ListenerAfterClose, NetP!ListenerAfterClose, Net!Closed, NetP!Closed,
       Net!BroadcastLoop, NetP!BroadcastLoop, Net!SendOne, NetP!SendOne, Net!SendTo, NetP!SendTo,
       Net!Outcomes, NetP!Outcomes, Net!NextPos, NetP!NextPos, Net!Keeps, NetP!Keeps,
       Net!Removed, NetP!Removed, Net!BroadcastReturns, NetP!BroadcastReturns,
       Net!World, NetP!World, Net!PeerConnects, NetP!PeerConnects, Net!PeerGivesUp, NetP!PeerGivesUp,
       Net!NetworkChanges, NetP!NetworkChanges, Net!Elapse, NetP!Elapse,
       Net!ClientSet, NetP!ClientSet, Net!OpenFds, NetP!OpenFds,
       Net!netVars, NetP!netVars, Net!netState, NetP!netState, Net!netHistory, NetP!netHistory

LEMMA SameWifi ==
  /\ Wifi!Init <=> WifiP!Init
  /\ Wifi!Next <=> WifiP!Next
  /\ Wifi!wifiVars = WifiP!wifiVars /\ Wifi!wifiVars' = WifiP!wifiVars'
BY DEF Wifi!Init, WifiP!Init, Wifi!Next, WifiP!Next, Wifi!Calls, WifiP!Calls,
       Wifi!WifiPoll, WifiP!WifiPoll, Wifi!PollDue, WifiP!PollDue,
       Wifi!PollWithoutAc, WifiP!PollWithoutAc, Wifi!PollLinkUp, WifiP!PollLinkUp,
       Wifi!Recoveries, WifiP!Recoveries, Wifi!RequestConnection, WifiP!RequestConnection,
       Wifi!Granted, WifiP!Granted, Wifi!EventsKept, WifiP!EventsKept,
       Wifi!PollGaveUp, WifiP!PollGaveUp, Wifi!LinkLooksDown, WifiP!LinkLooksDown,
       Wifi!OutOfAttempts, WifiP!OutOfAttempts, Wifi!AttemptsSoFar, WifiP!AttemptsSoFar,
       Wifi!GiveUpStatus, WifiP!GiveUpStatus, Wifi!PollReconnects, WifiP!PollReconnects,
       Wifi!RetryDelay, WifiP!RetryDelay, Wifi!TakeRecovered, WifiP!TakeRecovered,
       Wifi!WifiExit, WifiP!WifiExit, Wifi!EventsAfterExit, WifiP!EventsAfterExit,
       Wifi!World, WifiP!World, Wifi!AcAnswers, WifiP!AcAnswers,
       Wifi!LinkChanges, WifiP!LinkChanges, Wifi!ServicesChange, WifiP!ServicesChange,
       Wifi!Elapse, WifiP!Elapse, Wifi!Less, WifiP!Less,
       Wifi!wifiVars, WifiP!wifiVars, Wifi!wifiState, WifiP!wifiState,
       Wifi!wifiHistory, WifiP!wifiHistory

-----------------------------------------------------------------------------
(* Every step of the loop is a step of net.cpp, or leaves it alone.        *)
LEMMA NetStep ==
  ASSUME NetP!Inv, [Next]_mainVars
  PROVE  [Net!Next]_(Net!netVars)
<1>0. UNCHANGED <<netOwn, world>> => UNCHANGED Net!netVars
  BY DEF netOwn, world, Net!netVars, Net!netState, Net!netHistory
<1> USE DEF Net!Next, Net!Calls
<1>1. CASE Start
  BY <1>1 DEF Start
<1>2. CASE Now
  BY <1>0, <1>2 DEF Now
<1>3. CASE Take
  BY <1>0, <1>3 DEF Take
<1>4. CASE Accept
  BY <1>0, <1>4 DEF Accept, Net!AcceptLoop
<1>5. CASE Send
  BY <1>0, <1>5 DEF Send
<1>6. CASE Sending
  BY <1>0, <1>6 DEF Sending
<1>7. CASE Exit
  BY <1>0, <1>7 DEF Exit
<1>8. CASE Peers \/ NetworkChanges
  BY <1>8 DEF Peers, NetworkChanges, Net!World
<1>9. CASE Elapse
  <2>1. retryIn \in Nat /\ retryIn' = (IF retryIn > 0 THEN retryIn - 1 ELSE 0)
    BY <1>9 DEF Elapse, Wifi!Less, NetP!Inv, NetP!TypeOK
  <2>2. UNCHANGED <<listen_fd, clients, boundIp, phase, pos, sock, pending, offered, torn, world>>
    BY <1>9 DEF Elapse
  <2>3. CASE retryIn > 0
    BY <2>1, <2>2, <2>3 DEF Net!World, Net!Elapse, Net!netHistory, world
  <2>4. CASE retryIn = 0
    BY <2>1, <2>2, <2>4 DEF Net!netVars, Net!netState, Net!netHistory, world
  <2> QED BY <2>1, <2>3, <2>4
<1>10. CASE Services
  BY <1>10 DEF Services, Wifi!AcAnswers, netOwn, Net!netVars, Net!netState, Net!netHistory
<1>11. CASE Top \/ WakeTimer \/ Poll \/ Clear \/ WakeNotification \/ Notify \/ TimerFires \/ Done
            \/ UNCHANGED mainVars
  BY <1>0, <1>11 DEF Top, WakeTimer, Poll, Clear, WakeNotification, Notify, TimerFires, Done,
     mainVars
<1> QED
  BY <1>1, <1>2, <1>3, <1>4, <1>5, <1>6, <1>7, <1>8, <1>9, <1>10, <1>11
  DEF Next, Loop, Tick, World

(* ... and of wifi.cpp.                                                    *)
LEMMA WifiStep ==
  ASSUME WifiP!Inv, [Next]_mainVars
  PROVE  [Wifi!Next]_(Wifi!wifiVars)
<1>0. UNCHANGED <<wifiOwn, world>> => UNCHANGED Wifi!wifiVars
  BY DEF wifiOwn, world, Wifi!wifiVars, Wifi!wifiState, Wifi!wifiHistory
<1> USE DEF Wifi!Next, Wifi!Calls
<1>1. CASE Poll
  BY <1>0, <1>1 DEF Poll
<1>2. CASE Take
  BY <1>2 DEF Take
<1>3. CASE Exit
  BY <1>0, <1>3 DEF Exit
<1>4. CASE Services
  BY <1>4 DEF Services, Wifi!World
<1>5. CASE NetworkChanges
  <2>1. link' = ~link /\ UNCHANGED <<wifiOwn, acOk>>
    BY <1>5 DEF NetworkChanges, Net!NetworkChanges
  <2> QED
    BY <2>1 DEF wifiOwn, Wifi!World, Wifi!LinkChanges, Wifi!wifiState, Wifi!wifiHistory
<1>6. CASE Elapse
  <2>1. /\ nextCheckIn \in Nat /\ nextCheckIn' = Wifi!Less(nextCheckIn)
        /\ cooldown \in Nat /\ cooldown' = Wifi!Less(cooldown) /\ cooldown <= nextCheckIn
    BY <1>6 DEF Elapse, WifiP!Inv, WifiP!TypeOK, WifiP!DelayKept
  <2>2. UNCHANGED <<status, recoveries, recovered, acUp, nwmUp, requestHeld, linkUp, everDropped,
                    attempts, connectEvent, running, events, tries, world>>
    BY <1>6 DEF Elapse
  <2>3. CASE nextCheckIn > 0
    BY <2>1, <2>2, <2>3 DEF Wifi!World, Wifi!Elapse, world
  <2>4. CASE nextCheckIn = 0
    <3>1. nextCheckIn' = nextCheckIn /\ cooldown' = cooldown
      BY <2>1, <2>4 DEF Wifi!Less
    <3> QED BY <2>2, <3>1 DEF Wifi!wifiVars, Wifi!wifiState, Wifi!wifiHistory, world
  <2> QED BY <2>1, <2>3, <2>4
<1>7. CASE Peers
  BY <1>0, <1>7 DEF Peers, Net!PeerConnects, Net!PeerGivesUp, world
<1>8. CASE Start \/ Top \/ WakeTimer \/ Now \/ Accept \/ Send \/ Sending \/ Clear
           \/ WakeNotification \/ Notify \/ TimerFires \/ Done \/ UNCHANGED mainVars
  BY <1>0, <1>8 DEF Start, Top, WakeTimer, Now, Accept, Send, Sending, Clear, WakeNotification,
     Notify, TimerFires, Done, mainVars
<1> QED
  BY <1>1, <1>2, <1>3, <1>4, <1>5, <1>6, <1>7, <1>8 DEF Next, Loop, Tick, World

(* What is proved of the two holds in the loop.                            *)
LEMMA ComponentsStep ==
  ASSUME NetP!Inv, WifiP!Inv, [Next]_mainVars
  PROVE  NetP!Inv' /\ WifiP!Inv'
<1>1. NetP!Inv'
  BY NetStep, SameNet, NetP!InvStep, MainAssumption
<1>2. WifiP!Inv'
  BY WifiStep, SameWifi, WifiP!InvStep, MainAssumption
<1> QED BY <1>1, <1>2

-----------------------------------------------------------------------------
LEMMA PhaseStep ==
  ASSUME IInv, [Next]_mainVars
  PROVE  PhaseKnown'
<1> USE DEF IInv, LoopKnown, PhaseKnown
<1>1. CASE Start
  BY <1>1 DEF Start, Net!NetInit
<1>2. CASE Take
  BY <1>2 DEF Take, Net!NetReset, netOwn
<1>3. CASE Now
  BY <1>3 DEF Now, Net!NetAccept, Net!OpenListener, Net!OpenListenerFails, netOwn
<1>4. CASE Accept
  BY <1>4 DEF Accept, Net!AcceptLoop, Net!AcceptClient, Net!AcceptReturns, Net!AcceptFails, netOwn
<1>5. CASE Send
  BY <1>5 DEF Send, Net!NetBroadcast, netOwn
<1>6. CASE Sending
  BY <1>6 DEF Sending, Net!BroadcastLoop, Net!SendOne, Net!BroadcastReturns, netOwn
<1>7. CASE Exit
  BY <1>7 DEF Exit, Net!NetExit, netOwn
<1>8. CASE Top \/ WakeTimer \/ WakeNotification \/ Poll \/ Clear
  BY <1>8 DEF Top, WakeTimer, WakeNotification, Poll, Clear, netOwn
<1>9. CASE World \/ Done \/ UNCHANGED mainVars
  BY <1>9 DEF World, Peers, Net!PeerConnects, Net!PeerGivesUp, NetworkChanges, Net!NetworkChanges,
     Net!netState, Services, Notify, TimerFires, Elapse, Done, loopVars, netOwn, mainVars
<1> QED
  BY <1>1, <1>2, <1>3, <1>4, <1>5, <1>6, <1>7, <1>8, <1>9 DEF Next, Loop, Tick

\* netReset and netExit leave no descriptor.
LEMMA NothingOpen ==
  ASSUME NetP!Inv, Net!CloseAll
  PROVE  Net!OpenFds' = {} /\ Net!ClientSet' = {}
<1>1. /\ clients' = <<>>
      /\ sock' = [fd \in Fd |-> IF fd \in Net!ClientSet \cup {listen_fd} THEN "closed" ELSE sock[fd]]
  BY DEF Net!CloseAll, Net!Closed
<1>2. \A fd \in Fd : fd \notin Net!ClientSet \cup {listen_fd} => sock[fd] = "closed"
  BY SameNet DEF NetP!Inv, NetP!DescriptorsAccounted, Net!OpenFds
<1> QED BY <1>1, <1>2 DEF Net!OpenFds, Net!ClientSet

LEMMA ReleasedStep ==
  ASSUME IInv, [Next]_mainVars
  PROVE  ReleasedKnown'
<1> USE DEF IInv, LoopKnown, ReleasedKnown
<1>1. CASE Start
  BY <1>1 DEF Start, Net!NetInit, Net!netState, Net!OpenFds, wifiOwn
<1>2. CASE Exit
  <2>1. CASE at = "exit"
    <3>1. at' = "exiting" /\ Wifi!WifiExit
      BY <1>2, <2>1 DEF Exit
    <3>2. events' = 0
      BY <3>1 DEF Wifi!WifiExit, Wifi!EventsAfterExit, WifiP!Inv, WifiP!NoHandleLeak, WifiP!TypeOK
    <3> QED BY <3>1, <3>2 DEF Wifi!WifiExit
  <2>2. CASE at = "exiting"
    <3>1. at' = "stopped" /\ Net!NetExit /\ UNCHANGED wifiOwn
      BY <1>2, <2>2 DEF Exit
    <3> QED BY <2>2, <3>1, NothingOpen DEF Net!NetExit, wifiOwn
  <2> QED BY <1>2, <2>1, <2>2 DEF Exit
<1>3. CASE Loop /\ ~Start /\ ~Exit
  <2>1. at' \notin {"start", "exiting", "stopped"}
    BY <1>3 DEF Loop, Tick, Top, WakeTimer, Poll, Take, Now, Accept, Send, Sending, Clear
  <2> QED BY <2>1
<1>4. CASE WakeNotification
  BY <1>4 DEF WakeNotification
<1>5. CASE World \/ Done \/ UNCHANGED mainVars
  <2>1. UNCHANGED <<at, sock, events, acUp, nwmUp>>
    BY <1>5 DEF World, Peers, Net!PeerConnects, Net!PeerGivesUp, NetworkChanges,
       Net!NetworkChanges, Net!netState, Services, Wifi!AcAnswers, Wifi!wifiHistory, Notify,
       TimerFires, Elapse, Done, loopVars, netOwn, wifiOwn, mainVars
  <2> QED BY <2>1 DEF Net!OpenFds
<1> QED BY <1>1, <1>2, <1>3, <1>4, <1>5 DEF Next

LEMMA RecoveryStep ==
  ASSUME IInv, [Next]_mainVars
  PROVE  RecoveryKnown'
<1> USE DEF IInv, LoopKnown, RecoveryKnown
<1>1. CASE Poll
  <2>1. at' = "take" /\ ~recovered /\ fromBefore = {}
    BY <1>1 DEF Poll
  <2>2. recovered' \/ fromBefore' = {}
    BY <1>1, <2>1 DEF Poll
  <2> QED BY <2>1, <2>2
<1>2. CASE Take
  <2>1. ~recovered'
    BY <1>2 DEF Take, Wifi!TakeRecovered
  <2>2. CASE recovered
    <3>1. Net!OpenFds' = {}
      BY <1>2, <2>2, NothingOpen DEF Take, ResetNeeded, Net!NetReset
    <3> QED BY <1>2, <2>1, <3>1 DEF Take, Settle
  <2>3. CASE ~recovered
    BY <1>2, <2>1, <2>3 DEF Take, Settle
  <2> QED BY <2>2, <2>3
<1>3. CASE Accept \/ Sending \/ Exit
  <2>1. at # "take" /\ fromBefore' \subseteq fromBefore
    BY <1>3 DEF Accept, Sending, Exit, Settle
  <2>2. recovered' = recovered
    BY <1>3 DEF Accept, Sending, Exit, Wifi!WifiExit, wifiOwn
  <2> QED BY <2>1, <2>2
<1>4. CASE Start \/ Top \/ WakeTimer \/ Now \/ Send \/ Clear \/ WakeNotification
  <2>1. at # "take" /\ UNCHANGED <<recovered, fromBefore>>
    BY <1>4 DEF Start, Top, WakeTimer, Now, Send, Clear, WakeNotification, wifiOwn
  <2> QED BY <2>1
<1>5. CASE World \/ Done \/ UNCHANGED mainVars
  <2>1. UNCHANGED <<at, recovered, fromBefore>>
    BY <1>5 DEF World, Peers, NetworkChanges, Services, Wifi!AcAnswers, Notify, TimerFires, Elapse,
       Done, loopVars, wifiOwn, mainVars
  <2> QED BY <2>1
<1> QED BY <1>1, <1>2, <1>3, <1>4, <1>5 DEF Next, Loop, Tick

-----------------------------------------------------------------------------
\* A step that touches neither the array nor what is owed.
LEMMA HomeUntouched ==
  ASSUME HomeKnown, UNCHANGED <<owed, clients, phase, pos, homeActive, homeReported, frame>>,
         at' = at \/ (at \notin {"sending", "clear"} /\ at' \notin {"sending", "clear"})
  PROVE  HomeKnown'
BY DEF HomeKnown, Net!ClientSet, NetP!DueClients

\* ... or only takes clients out of it that are not sent to.
LEMMA HomeSettled ==
  ASSUME HomeKnown, Settle({}), UNCHANGED <<homeActive, homeReported, frame>>,
         at # "sending", at' \notin {"sending", "clear"}
  PROVE  HomeKnown'
BY DEF HomeKnown, Settle

LEMMA HomeSend ==
  ASSUME IInv, Send
  PROVE  HomeKnown'
<1> USE DEF IInv, LoopKnown, HomeKnown
<1>1. at = "send" /\ owed' = owed /\ homeActive' = homeActive
  BY DEF Send
<1>2. CASE clients # <<>>
  <2>1. /\ at' = "sending" /\ Net!NetBroadcast /\ frame' = HomeBit
        /\ homeReported' = (homeReported \/ homeActive)
    BY <1>1, <1>2 DEF Send
  <2>2. Net!ClientSet' = Net!ClientSet /\ NetP!DueClients' = Net!ClientSet
    <3>1. phase' = "broadcast" /\ clients' = clients /\ pos' = 1
      BY <2>1 DEF Net!NetBroadcast, Net!netState, NetP!Inv, NetP!TypeOK
    <3> QED BY <3>1 DEF Net!ClientSet, NetP!DueClients
  <2>3. homeActive => homeReported' /\ frame' # "plain"
    BY <2>1 DEF HomeBit
  <2>4. homeReported' => homeActive
    BY <2>1
  <2> QED BY <1>1, <2>1, <2>2, <2>3, <2>4
<1>3. CASE clients = <<>>
  <2>1. at' = "clear" /\ UNCHANGED <<clients, homeReported, frame>>
    BY <1>1, <1>3 DEF Send, netOwn
  <2> QED BY <1>1, <1>3, <2>1 DEF Net!ClientSet
<1> QED BY <1>2, <1>3

LEMMA HomeSending ==
  ASSUME IInv, Sending
  PROVE  HomeKnown'
<1> USE DEF IInv, LoopKnown, HomeKnown
<1>1. at = "sending" /\ UNCHANGED <<homeActive, homeReported, frame>>
  BY DEF Sending, homeVars
<1>2. CASE Net!SendOne /\ at' = at
  <2>1. /\ owed' = (owed \ (IF frame # "plain" THEN {clients[pos]} ELSE {})) \cap Net!ClientSet'
    BY <1>2 DEF Sending, Settle, Net!SendOne
  <2>2. NetP!DueClients' = NetP!DueClients \ {clients[pos]}
    BY <1>2, SameNet, NetP!SendServes, MainAssumption
  <2> QED BY <1>1, <1>2, <2>1, <2>2
<1>3. CASE Net!BroadcastReturns /\ at' = at
  <2>1. owed' \subseteq owed \cap Net!ClientSet'
    BY <1>3 DEF Sending, Settle, Net!BroadcastReturns
  <2>2. NetP!DueClients = {}
    BY <1>3, NetP!DueFacts, MainAssumption DEF Net!BroadcastReturns, NetP!Inv
  <2> QED BY <1>1, <1>3, <2>1, <2>2
<1>4. CASE phase = "idle" /\ at' = "clear" /\ UNCHANGED <<netOwn, owed>>
  <2>1. NetP!DueClients = {}
    BY <1>4 DEF NetP!DueClients
  <2>2. Net!ClientSet' = Net!ClientSet
    BY <1>4 DEF netOwn, Net!ClientSet
  <2> QED BY <1>1, <1>4, <2>1, <2>2
<1> QED BY <1>2, <1>3, <1>4 DEF Sending, Net!BroadcastLoop

LEMMA HomeStep ==
  ASSUME IInv, [Next]_mainVars
  PROVE  HomeKnown'
<1> USE DEF IInv, LoopKnown
<1>1. CASE WakeNotification
  <2>1. at = "wait" /\ at' \in {"top", "exit"} /\ UNCHANGED <<clients, phase, pos, frame>>
    BY <1>1 DEF WakeNotification, netOwn
  <2>2. CASE HomePressed
    BY <2>1, <2>2 DEF HomePressed, HomeKnown, Net!ClientSet
  <2>3. CASE UNCHANGED <<homeVars, owed>>
    BY <2>1, <2>3, HomeUntouched DEF homeVars
  <2> QED BY <1>1, <2>2, <2>3 DEF WakeNotification
<1>2. CASE Send
  BY <1>2, HomeSend
<1>3. CASE Sending
  BY <1>3, HomeSending
<1>4. CASE Clear
  <2>1. at = "clear" /\ at' = "top" /\ UNCHANGED <<clients, owed, frame>>
    BY <1>4 DEF Clear, netOwn
  <2>2. CASE PulseOver
    <3>1. ~homeActive' /\ ~homeReported'
      BY <1>4, <2>2 DEF Clear
    <3>2. owed = {}
      BY <2>1, <2>2 DEF PulseOver, HomeKnown, Net!ClientSet
    <3> QED BY <2>1, <3>1, <3>2 DEF HomeKnown
  <2>3. CASE ~PulseOver
    BY <1>4, <2>1, <2>3 DEF Clear, HomeKnown, Net!ClientSet
  <2> QED BY <2>2, <2>3
<1>5. CASE Take \/ Accept \/ Exit
  <2>1. /\ Settle({}) /\ UNCHANGED <<homeActive, homeReported, frame>>
        /\ at # "sending" /\ at' \notin {"sending", "clear"}
    BY <1>5 DEF Take, Accept, Exit, homeVars
  <2> QED BY <2>1, HomeSettled
<1>6. CASE Now
  <2>1. /\ UNCHANGED <<clients, owed, homeActive, homeReported, frame>>
        /\ at = "now" /\ at' \in {"accept", "send"}
    BY <1>6 DEF Now, Net!NetAccept, netOwn, homeVars
  <2> QED BY <2>1 DEF HomeKnown, Net!ClientSet
<1>7. CASE Start
  <2>1. /\ UNCHANGED <<clients, owed, homeActive, homeReported, frame>>
        /\ at = "start" /\ at' \in {"top", "stopped"}
    BY <1>7 DEF Start, Net!NetInit, Net!netState, homeVars
  <2> QED BY <2>1 DEF HomeKnown, Net!ClientSet
<1>8. CASE Top \/ WakeTimer \/ Poll
  BY <1>8, HomeUntouched DEF Top, WakeTimer, Poll, netOwn, homeVars
<1>9. CASE World \/ Done \/ UNCHANGED mainVars
  <2>1. UNCHANGED <<at, clients, phase, pos, owed, homeActive, homeReported, frame>>
    BY <1>9 DEF World, Peers, Net!PeerConnects, Net!PeerGivesUp, NetworkChanges,
       Net!NetworkChanges, Net!netState, Services, Notify, TimerFires, Elapse, Done, loopVars,
       netOwn, homeVars, mainVars
  <2> QED BY <2>1, HomeUntouched
<1> QED
  BY <1>1, <1>2, <1>3, <1>4, <1>5, <1>6, <1>7, <1>8, <1>9 DEF Next, Loop, Tick

-----------------------------------------------------------------------------
LEMMA InitInv == Init => IInv
<1> SUFFICES ASSUME Init PROVE IInv
  OBVIOUS
<1>1. NetP!Inv /\ WifiP!Inv
  BY SameNet, SameWifi, NetP!InvInit, WifiP!InitInv, MainAssumption DEF Init
<1>2. Net!OpenFds = {} /\ phase = "off"
  BY DEF Init, Net!Init, Net!OpenFds
<1>3. at = "start" /\ events = 0 /\ ~acUp /\ ~nwmUp /\ ~recovered
  BY DEF Init, Wifi!Init
<1>4. PhaseKnown /\ ReleasedKnown /\ RecoveryKnown
  BY <1>2, <1>3 DEF Init, PhaseKnown, ReleasedKnown, RecoveryKnown
<1>5. HomeKnown
  BY DEF Init, HomeKnown
<1> QED BY <1>1, <1>4, <1>5 DEF IInv, LoopKnown

LEMMA Inductive == IInv /\ [Next]_mainVars => IInv'
BY ComponentsStep, PhaseStep, ReleasedStep, RecoveryStep, HomeStep DEF IInv, LoopKnown

LEMMA InvHolds == Spec => []IInv
BY InitInv, Inductive, PTL DEF Spec

-----------------------------------------------------------------------------
(* The input loop calls net.cpp and wifi.cpp only as each of them expects: *)
(* seen through either one's variables, it is a run of that one.           *)
THEOREM Composes == Spec => NetComposes /\ WifiComposes
<1>1. Init => Net!Init /\ Wifi!Init
  BY DEF Init
<1>2. IInv /\ [Next]_mainVars => [Net!Next]_(Net!netVars) /\ [Wifi!Next]_(Wifi!wifiVars)
  BY NetStep, WifiStep DEF IInv
<1> QED BY InvHolds, <1>1, <1>2, PTL DEF Spec, NetComposes, WifiComposes

(* No press of HOME is lost to a client that stays connected.              *)
THEOREM NoPressLost == Spec => []HomeReachesClients
<1>1. IInv => HomeReachesClients
  BY DEF IInv, LoopKnown, HomeKnown, HomeReachesClients
<1> QED BY InvHolds, <1>1, PTL

(* The HOME bit goes in the tick that finds its time up.                   *)
THEOREM NoPressSticks == Spec => PulseEnds
<1>1. IInv /\ [Next]_mainVars => [at = "clear" /\ at' = "top" /\ homeDue => ~homeActive']_mainVars
  <2> SUFFICES ASSUME IInv, Next, at = "clear", at' = "top", homeDue
               PROVE  ~homeActive'
    OBVIOUS
  <2>1. Clear
    BY DEF Next, Loop, Tick, World, Start, Top, WakeTimer, WakeNotification, Poll, Take, Now,
       Accept, Send, Sending, Exit, Peers, NetworkChanges, Services, Notify, TimerFires, Elapse,
       Done, loopVars
  <2>2. homeActive => PulseOver
    BY DEF IInv, LoopKnown, HomeKnown, PulseOver
  <2> QED BY <2>1, <2>2 DEF Clear
<1> QED BY InvHolds, <1>1, PTL DEF Spec, PulseEnds

(* Once a recovery was noticed, no socket from before it is used.          *)
THEOREM OldSocketsGone == Spec => []NoOldSocketUsed
<1>1. IInv => NoOldSocketUsed
  BY DEF IInv, LoopKnown, PhaseKnown, RecoveryKnown, NoOldSocketUsed
<1> QED BY InvHolds, <1>1, PTL

(* main returns with every socket closed and every service released.       *)
THEOREM AllReleased == Spec => []ExitReleasesAll
<1>1. IInv => ExitReleasesAll
  BY DEF IInv, LoopKnown, ReleasedKnown, ExitReleasesAll
<1> QED BY InvHolds, <1>1, PTL
=============================================================================
