----------------------------- MODULE WifiProofs -----------------------------
(***************************************************************************)
(* Proofs about WifiKeepAlive, for any number of attempts, any saturation  *)
(* of the counter, and any delays.                                         *)
(***************************************************************************)
EXTENDS WifiKeepAlive, TLAPS

\* The code's count of attempts and what really was attempted agree.
CountsAgree ==
  /\ tries = IF linkUp THEN 0 ELSE attempts
  /\ ~linkUp /\ everDropped => attempts > 0

\* No check comes before the delay after an attempt is over.
DelayKept == cooldown <= nextCheckIn

Inv == TypeOK /\ NoHandleLeak /\ CountsAgree /\ DelayKept

-----------------------------------------------------------------------------
(* requestConnection: the event held and the event named stay the same one. *)
LEMMA RequestKeepsHandles ==
  ASSUME events = (IF connectEvent = "none" THEN 0 ELSE 1),
         connectEvent \in {"none", "waiting", "done"},
         NEW issued, RequestConnection(issued)
  PROVE  /\ connectEvent' \in {"none", "waiting", "done"}
         /\ events' = IF connectEvent' = "none" THEN 0 ELSE 1
<1>1. CASE connectEvent = "waiting"
  BY <1>1 DEF RequestConnection
<1>2. CASE connectEvent # "waiting"
  <2>1. EventsKept = 0
    BY <1>2 DEF EventsKept
  <2> QED BY <1>2, <2>1 DEF RequestConnection
<1> QED BY <1>1, <1>2

(* The invariant holds before the first poll. *)
LEMMA InitInv == Init => Inv
<1> SUFFICES ASSUME Init PROVE Inv
  OBVIOUS
<1> USE WifiAssumption DEF Init
<1>1. \A b \in {recovered, acUp, nwmUp, requestHeld, linkUp, everDropped, running, link, acOk} :
        b \in BOOLEAN
  OBVIOUS
<1>2. TypeOK
  BY <1>1 DEF TypeOK
<1>3. NoHandleLeak /\ CountsAgree /\ DelayKept
  BY DEF NoHandleLeak, CountsAgree, DelayKept
<1> QED BY <1>2, <1>3 DEF Inv

(* A poll that cannot open ac only changes the status and the deadline. *)
LEMMA PollWithoutAcInv == Inv /\ PollWithoutAc => Inv'
BY WifiAssumption DEF PollWithoutAc, PollDue, wifiHistory, Inv, TypeOK, NoHandleLeak, CountsAgree,
   DelayKept

(* A poll that finds the link up ends the drop it had counted for. *)
LEMMA PollLinkUpInv == Inv /\ PollLinkUp => Inv'
<1> SUFFICES ASSUME Inv, PollLinkUp PROVE Inv'
  OBVIOUS
<1> USE WifiAssumption DEF Inv, PollLinkUp, PollDue
<1>1. /\ connectEvent' \in {"none", "waiting", "done"}
      /\ events' = IF connectEvent' = "none" THEN 0 ELSE 1
  BY RequestKeepsHandles DEF TypeOK, NoHandleLeak
<1>2. recoveries' \in 0..MaxRecoveries
  BY DEF TypeOK, Recoveries
<1>3. recovered' \in BOOLEAN /\ requestHeld' \in BOOLEAN
  BY DEF TypeOK
<1>4. TypeOK'
  BY <1>1, <1>2, <1>3 DEF TypeOK
<1>5. NoHandleLeak' /\ CountsAgree' /\ DelayKept'
  BY <1>1 DEF TypeOK, NoHandleLeak, CountsAgree, DelayKept
<1> QED BY <1>4, <1>5

(* A poll that gives up has nothing left to count. *)
LEMMA PollGaveUpInv == Inv /\ PollGaveUp => Inv'
BY WifiAssumption DEF PollGaveUp, PollDue, GiveUpStatus, wifiHistory, Inv, TypeOK, NoHandleLeak,
   CountsAgree, DelayKept

(* An attempt counts, is the first one of a new drop, and delays the next. *)
LEMMA PollReconnectsInv == Inv /\ PollReconnects => Inv'
<1> SUFFICES ASSUME Inv, PollReconnects PROVE Inv'
  OBVIOUS
<1> USE WifiAssumption DEF Inv, PollReconnects, PollDue
<1>1. /\ connectEvent' \in {"none", "waiting", "done"}
      /\ events' = IF connectEvent' = "none" THEN 0 ELSE 1
  BY RequestKeepsHandles DEF TypeOK, NoHandleLeak
<1>2. /\ attempts' \in 1..MaxAttempts /\ tries' = attempts' /\ linkUp' = FALSE
  BY DEF TypeOK, CountsAgree, AttemptsSoFar, OutOfAttempts
<1>3. nwmUp' \in BOOLEAN /\ everDropped' \in BOOLEAN
  BY DEF TypeOK
<1>4. nextCheckIn' = Retry /\ cooldown' = Retry
  BY DEF RetryDelay
<1>5. TypeOK'
  <2>1. /\ status' \in {"pending", "holding", "reconnecting", "gave_up", "ac_failed"}
        /\ recoveries' \in 0..MaxRecoveries
        /\ attempts' \in 0..MaxAttempts /\ tries' \in 0..MaxAttempts
        /\ nextCheckIn' \in 0..Retry /\ cooldown' \in 0..Retry
        /\ events' \in 0..1
    BY <1>1, <1>2, <1>4 DEF TypeOK
  <2>2. /\ recovered' \in BOOLEAN /\ acUp' \in BOOLEAN /\ requestHeld' \in BOOLEAN
        /\ linkUp' \in BOOLEAN /\ running' \in BOOLEAN /\ link' \in BOOLEAN /\ acOk' \in BOOLEAN
    BY <1>2 DEF TypeOK
  <2> QED BY <1>1, <1>3, <2>1, <2>2, Zenon DEF TypeOK
<1>6. NoHandleLeak' /\ CountsAgree' /\ DelayKept'
  BY <1>1, <1>2, <1>4 DEF NoHandleLeak, CountsAgree, DelayKept
<1> QED BY <1>5, <1>6

(* Taking the recovery and leaving: all that is held is given back. *)
LEMMA CallsInv == Inv /\ (TakeRecovered \/ WifiExit) => Inv'
<1> SUFFICES ASSUME Inv, TakeRecovered \/ WifiExit PROVE Inv'
  OBVIOUS
<1> USE WifiAssumption DEF Inv
<1>1. CASE TakeRecovered
  BY <1>1 DEF TakeRecovered, wifiHistory, TypeOK, NoHandleLeak, CountsAgree, DelayKept
<1>2. CASE WifiExit
  <2>1. events' = 0 /\ connectEvent' = "none"
    BY <1>2 DEF WifiExit, EventsAfterExit, NoHandleLeak, TypeOK
  <2>2. running' \in BOOLEAN /\ nwmUp' \in BOOLEAN /\ acUp' \in BOOLEAN
    BY <1>2, Zenon DEF WifiExit
  <2>3. TypeOK'
    <3>1. /\ status' = status /\ recoveries' = recoveries /\ attempts' = attempts
          /\ tries' = tries /\ nextCheckIn' = nextCheckIn /\ cooldown' = cooldown
          /\ events' \in 0..1 /\ connectEvent' \in {"none", "waiting", "done"}
      BY <1>2, <2>1 DEF WifiExit
    <3>2. /\ recovered' = recovered /\ requestHeld' = requestHeld /\ linkUp' = linkUp
          /\ everDropped' = everDropped /\ link' = link /\ acOk' = acOk
      BY <1>2, Zenon DEF WifiExit
    <3> QED BY <2>2, <3>1, <3>2, Zenon DEF TypeOK
  <2>4. NoHandleLeak' /\ CountsAgree' /\ DelayKept'
    BY <1>2, <2>1 DEF WifiExit, NoHandleLeak, CountsAgree, DelayKept
  <2> QED BY <2>3, <2>4
<1> QED BY <1>1, <1>2

(* The world's steps: ac answers, the link and the services change, and the clock runs. *)
LEMMA WorldInv == Inv /\ World => Inv'
<1> SUFFICES ASSUME Inv, World PROVE Inv'
  OBVIOUS
<1> USE WifiAssumption DEF Inv, NoHandleLeak, CountsAgree, DelayKept
<1>1. CASE AcAnswers
  BY <1>1 DEF AcAnswers, wifiHistory, TypeOK
<1>2. CASE LinkChanges
  BY <1>2 DEF LinkChanges, wifiState, wifiHistory, TypeOK
<1>3. CASE ServicesChange
  BY <1>3 DEF ServicesChange, wifiState, wifiHistory, TypeOK
<1>4. CASE Elapse
  BY <1>4 DEF Elapse, Less, TypeOK
<1> QED BY <1>1, <1>2, <1>3, <1>4 DEF World

(* The invariant is inductive. *)
LEMMA InvStep == Inv /\ [Next]_wifiVars => Inv'
<1>1. Inv /\ UNCHANGED wifiVars => Inv'
  BY DEF wifiVars, wifiState, wifiHistory, Inv, TypeOK, NoHandleLeak, CountsAgree, DelayKept
<1> QED
  BY <1>1, PollWithoutAcInv, PollLinkUpInv, PollGaveUpInv, PollReconnectsInv, CallsInv, WorldInv
  DEF Next, Calls, WifiPoll

(* ... and so it always holds. *)
LEMMA InvHolds == Spec => []Inv
BY InitInv, InvStep, PTL DEF Spec

-----------------------------------------------------------------------------
(* Every variable keeps its type; the counters stay within their limits. *)
THEOREM TypeCorrect == Spec => []TypeOK
<1>1. Inv => TypeOK
  BY DEF Inv
<1> QED BY InvHolds, <1>1, PTL

(* wifi.cpp holds exactly the event that connectEvent names, and nothing   *)
(* at all after wifiExit.                                                  *)
THEOREM NoEventLeaks == Spec => []NoHandleLeak
<1>1. Inv => NoHandleLeak
  BY DEF Inv
<1> QED BY InvHolds, <1>1, PTL

(* Attempts are RETRY_TICKS apart and at most MAX_ATTEMPTS follow a drop,  *)
(* however the link flaps.                                                 *)
THEOREM AttemptsBounded == Spec => TriesBounded
<1>1. Inv /\ [Next]_wifiVars => [PollReconnects => cooldown = 0 /\ tries' <= MaxAttempts]_wifiVars
  <2> SUFFICES ASSUME Inv, PollReconnects PROVE cooldown = 0 /\ tries' <= MaxAttempts
    OBVIOUS
  <2> USE WifiAssumption DEF Inv, PollReconnects
  <2>1. cooldown = 0
    BY DEF PollDue, DelayKept, TypeOK
  <2>2. tries' <= MaxAttempts
    BY DEF TypeOK, CountsAgree, AttemptsSoFar, OutOfAttempts
  <2> QED BY <2>1, <2>2
<1> QED BY InvHolds, <1>1, PTL DEF Spec, TriesBounded

(* A recovery is reported only after a drop and an attempt to end it, and  *)
(* the count of recoveries never falls.                                    *)
THEOREM RecoveriesAreReal == Spec => RecoveriesHonest
<1> DEFINE Honest == /\ recoveries' >= recoveries
                     /\ recovered' /\ ~recovered => everDropped /\ tries > 0
<1>1. Inv /\ [Next]_wifiVars => [Honest]_wifiVars
  <2> SUFFICES ASSUME Inv, Next PROVE Honest
    OBVIOUS
  <2> USE WifiAssumption DEF Inv
  <2>1. CASE PollLinkUp
    <3>1. recoveries' >= recoveries
      BY <2>1 DEF PollLinkUp, Recoveries, TypeOK
    <3>2. recovered' /\ ~recovered => everDropped /\ tries > 0
      BY <2>1 DEF PollLinkUp, CountsAgree, TypeOK
    <3> QED BY <3>1, <3>2
  <2>2. CASE ~PollLinkUp
    <3>1. recoveries' = recoveries /\ (recovered' => recovered)
      BY <2>2 DEF Next, Calls, World, WifiPoll, PollWithoutAc, PollGaveUp, PollReconnects,
         TakeRecovered, WifiExit, AcAnswers, LinkChanges, ServicesChange, Elapse, wifiState
    <3> QED BY <3>1 DEF TypeOK
  <2> QED BY <2>1, <2>2
<1> QED BY InvHolds, <1>1, PTL DEF Spec, RecoveriesHonest
=============================================================================
