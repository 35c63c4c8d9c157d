--------------------------- MODULE WifiKeepAlive ---------------------------
(***************************************************************************)
(* source/wifi.cpp: wifiPoll watches the Wi-Fi link about once a second,   *)
(* asks the ac service to reconnect when it is down, and reports when it   *)
(* came back.  The link, the ac service and the kernel event that ac       *)
(* signals belong to the world.  nextCheckIn is nextCheck - now, 0 when a  *)
(* check is due.                                                           *)
(***************************************************************************)
EXTENDS Integers

CONSTANTS
  MaxAttempts,     \* MAX_ATTEMPTS
  MaxRecoveries,   \* 255, where the u8 recoveries saturates
  Check, Retry     \* CHECK_TICKS and RETRY_TICKS, in units of the model's clock

ASSUME WifiAssumption ==
  /\ MaxAttempts \in Nat \ {0} /\ MaxRecoveries \in Nat \ {0}
  /\ Check \in Nat \ {0} /\ Retry \in Nat \ {0} /\ Check <= Retry

VARIABLES
  status, recoveries, recovered,
  acUp, nwmUp, requestHeld, linkUp, everDropped, attempts, nextCheckIn,
  connectEvent,   \* 0, or an event that ac has not signalled, or has
  running,        \* wifiExit has not been called
  link, acOk,     \* the link is up; services grant what they are asked for
  events,         \* history: event handles we hold in the kernel's table
  tries, cooldown \* history: attempts since the link was last up, time to the next

wifiState == <<status, recoveries, recovered, acUp, nwmUp, requestHeld, linkUp,
               everDropped, attempts, nextCheckIn, connectEvent, running>>
wifiHistory == <<events, tries, cooldown>>
wifiVars == <<wifiState, link, acOk, wifiHistory>>

Init ==
  /\ status = "pending" /\ recoveries = 0 /\ recovered = FALSE
  /\ acUp = FALSE /\ nwmUp = FALSE /\ requestHeld = FALSE
  /\ linkUp = FALSE /\ everDropped = FALSE /\ attempts = 0 /\ nextCheckIn = 0
  /\ connectEvent = "none" /\ running = TRUE
  /\ link \in BOOLEAN /\ acOk \in BOOLEAN
  /\ events = 0 /\ tries = 0 /\ cooldown = 0

-----------------------------------------------------------------------------
\* A service call: granted while the services are well, either way otherwise.
Granted == IF acOk THEN {TRUE} ELSE BOOLEAN

\* requestConnection closes the event of a request that has finished.
EventsKept == events - (IF connectEvent = "done" THEN 1 ELSE 0)

\* Mutant of RequestConnection: any event counts as a pending request.
RequestConnectionOnce(issued) ==
  \/ connectEvent # "none" /\ issued = FALSE /\ UNCHANGED <<connectEvent, events>>
  \/ connectEvent = "none" /\ issued \in Granted
     /\ connectEvent' = (IF issued THEN "waiting" ELSE "none")
     /\ events' = IF issued THEN EventsKept + 1 ELSE EventsKept

RequestConnection(issued) ==
  \/ /\ connectEvent = "waiting"
     /\ issued = FALSE
     /\ UNCHANGED <<connectEvent, events>>
  \/ /\ connectEvent # "waiting"
     /\ issued \in Granted
     /\ connectEvent' = IF issued THEN "waiting" ELSE "none"
     /\ events' = IF issued THEN EventsKept + 1 ELSE EventsKept

-----------------------------------------------------------------------------
PollDue == running /\ nextCheckIn = 0

\* acInit failed: nothing else is looked at.
PollWithoutAc ==
  /\ PollDue /\ ~acUp /\ ~acOk
  /\ status' = "ac_failed"
  /\ nextCheckIn' = Retry
  /\ UNCHANGED <<recoveries, recovered, acUp, nwmUp, requestHeld, linkUp, everDropped,
                 attempts, connectEvent, running, link, acOk, wifiHistory>>

\* Mutant of Recoveries: the counter wraps like the u8 it is.
RecoveriesWrapping == (recoveries + 1) % (MaxRecoveries + 1)

\* The counter saturates.
Recoveries == IF recoveries < MaxRecoveries THEN recoveries + 1 ELSE recoveries

PollLinkUp ==
  /\ PollDue /\ link
  /\ acUp' = TRUE
  /\ status' = "holding"
  /\ nextCheckIn' = Check
  /\ linkUp' = TRUE
  /\ attempts' = IF linkUp THEN attempts ELSE 0
  /\ IF ~linkUp /\ everDropped
     THEN recoveries' = Recoveries /\ recovered' = TRUE
     ELSE UNCHANGED <<recoveries, recovered>>
  /\ \/ requestHeld /\ UNCHANGED <<requestHeld, connectEvent, events>>
     \/ ~requestHeld /\ requestHeld' \in BOOLEAN /\ RequestConnection(requestHeld')
  /\ tries' = 0
  /\ UNCHANGED <<nwmUp, everDropped, running, link, acOk, cooldown>>

\* What a check that finds the link down looks like, a failed query included.
LinkLooksDown == ~link \/ ~acOk

\* The attempts already made for this drop.
AttemptsSoFar == IF linkUp THEN 0 ELSE attempts

OutOfAttempts == AttemptsSoFar >= MaxAttempts

\* Mutant of GiveUpStatus: the last status is kept.
StatusKept == status
GiveUpStatus == "gave_up"

PollGaveUp ==
  /\ PollDue /\ LinkLooksDown /\ OutOfAttempts
  /\ acUp' = TRUE
  /\ status' = GiveUpStatus
  /\ nextCheckIn' = Check
  /\ UNCHANGED <<recoveries, recovered, nwmUp, requestHeld, linkUp, everDropped, attempts,
                 connectEvent, running, link, acOk, wifiHistory>>

\* Mutant of RetryDelay: the deadline of an ordinary check is kept.
CheckDelay == Check

\* The next look after an attempt.
RetryDelay == Retry

PollReconnects ==
  /\ PollDue /\ LinkLooksDown /\ ~OutOfAttempts
  /\ acUp' = TRUE
  /\ status' = "reconnecting"
  /\ nextCheckIn' = RetryDelay
  /\ linkUp' = FALSE
  /\ everDropped' = (everDropped \/ linkUp)
  /\ attempts' = AttemptsSoFar + 1
  /\ \/ nwmUp /\ UNCHANGED nwmUp
     \/ ~nwmUp /\ nwmUp' \in BOOLEAN
  /\ \E issued \in BOOLEAN : RequestConnection(issued)
  /\ tries' = (IF linkUp THEN 0 ELSE tries) + 1
  /\ cooldown' = Retry
  /\ UNCHANGED <<recoveries, recovered, requestHeld, running, link, acOk>>

WifiPoll == PollWithoutAc \/ PollLinkUp \/ PollGaveUp \/ PollReconnects

TakeRecovered ==
  /\ running
  /\ recovered' = FALSE
  /\ UNCHANGED <<status, recoveries, acUp, nwmUp, requestHeld, linkUp, everDropped, attempts,
                 nextCheckIn, connectEvent, running, link, acOk, wifiHistory>>

\* Mutant of EventsAfterExit: wifiExit forgets the pending request.
EventsLeft == events

\* wifiExit closes the event, whether ac answered or not.
EventsAfterExit == events - (IF connectEvent = "none" THEN 0 ELSE 1)

WifiExit ==
  /\ running
  /\ running' = FALSE
  /\ connectEvent' = "none" /\ events' = EventsAfterExit
  /\ nwmUp' = FALSE
  /\ acUp' = FALSE
  /\ UNCHANGED <<status, recoveries, recovered, requestHeld, linkUp, everDropped, attempts,
                 nextCheckIn, link, acOk, tries, cooldown>>

-----------------------------------------------------------------------------
\* The world.
AcAnswers ==
  /\ connectEvent = "waiting"
  /\ connectEvent' = "done"
  /\ UNCHANGED <<status, recoveries, recovered, acUp, nwmUp, requestHeld, linkUp, everDropped,
                 attempts, nextCheckIn, running, link, acOk, wifiHistory>>

LinkChanges == link' = ~link /\ UNCHANGED <<wifiState, acOk, wifiHistory>>

ServicesChange == acOk' = ~acOk /\ UNCHANGED <<wifiState, link, wifiHistory>>

Less(t) == IF t > 0 THEN t - 1 ELSE 0

Elapse ==
  /\ nextCheckIn > 0
  /\ nextCheckIn' = Less(nextCheckIn) /\ cooldown' = Less(cooldown)
  /\ UNCHANGED <<status, recoveries, recovered, acUp, nwmUp, requestHeld, linkUp, everDropped,
                 attempts, connectEvent, running, link, acOk, events, tries>>

Calls == WifiPoll \/ TakeRecovered \/ WifiExit
World == AcAnswers \/ LinkChanges \/ ServicesChange \/ Elapse

Next == Calls \/ World

Spec == Init /\ [][Next]_wifiVars

\* The input loop polls at least RATE_IDLE times a second; the clock runs on.
FairSpec == Spec /\ WF_wifiVars(WifiPoll) /\ WF_wifiVars(Elapse)

-----------------------------------------------------------------------------
TypeOK ==
  /\ status \in {"pending", "holding", "reconnecting", "gave_up", "ac_failed"}
  /\ recoveries \in 0..MaxRecoveries
  /\ \A b \in {recovered, acUp, nwmUp, requestHeld, linkUp, everDropped, running, link, acOk} :
       b \in BOOLEAN
  /\ attempts \in 0..MaxAttempts /\ tries \in 0..MaxAttempts
  /\ nextCheckIn \in 0..Retry /\ cooldown \in 0..Retry
  /\ connectEvent \in {"none", "waiting", "done"}
  /\ events \in 0..1

(* The one event handle we hold in the kernel is the one connectEvent      *)
(* names, through requests that are pending, fail half way or are answered *)
(* late, and wifiExit leaves no handle and no session behind.              *)
NoHandleLeak ==
  /\ events = IF connectEvent = "none" THEN 0 ELSE 1
  /\ ~running => events = 0 /\ ~acUp /\ ~nwmUp

(* However the link flaps, attempts to reconnect are Retry apart and at    *)
(* most MaxAttempts of them follow one drop (README: "every 3 seconds, at  *)
(* most 10 times per drop").                                               *)
TriesBounded ==
  [][PollReconnects => cooldown = 0 /\ tries' <= MaxAttempts]_wifiVars

(* A recovery is only reported after a drop was seen and at least one      *)
(* attempt made to end it, so not for the first connection nor twice for   *)
(* one drop, and the count never falls back ("saturates at 255").          *)
RecoveriesHonest ==
  [][/\ recoveries' >= recoveries
     /\ recovered' /\ ~recovered => everDropped /\ tries > 0]_wifiVars

(* Once the link stays up and the services answer, the module ends up      *)
(* holding it; while it stays down, it gives up and waits.                 *)
StatusSettles ==
  /\ <>[](running /\ acOk /\ link) => <>[](status = "holding")
  /\ <>[](running /\ acOk /\ ~link) => <>[](status = "gave_up")

(* ... and a request of our own is made once ac answers those before it.   *)
RequestIsMade ==
  <>[](running /\ acOk /\ link) /\ []<>(connectEvent # "waiting") => <>[]requestHeld
=============================================================================
