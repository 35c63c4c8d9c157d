----------------------------- MODULE NetServer -----------------------------
(***************************************************************************)
(* source/net.cpp: the listening socket and the client array of the input  *)
(* streamer.  Every call of net.h is here (netInit, netAccept, netReset,   *)
(* netBroadcast, netExit); the loops of netAccept and netBroadcast take    *)
(* one step per accept() or send(), so that peers, the network and the     *)
(* clock move between two system calls.  Deadlines are kept relative to    *)
(* now: retryIn is retry_at - now, and 0 once retry_at has passed.         *)
(***************************************************************************)
EXTENDS Integers, Sequences, FiniteSets

CONSTANTS
  Fd,           \* descriptors the socket service hands out
  None,         \* the -1 of listen_fd
  Ip,           \* addresses gethostid() may answer
  MaxClients,   \* NET_MAX_CLIENTS
  ListenRetry   \* LISTEN_RETRY_TICKS, in units of the model's clock

ASSUME NetAssumption ==
  /\ None \notin Fd
  /\ None \notin Ip
  /\ MaxClients \in Nat \ {0}
  /\ ListenRetry \in Nat \ {0}

VARIABLES
  listen_fd, clients, retryIn,   \* struct NetServer; num_clients is Len(clients)
  boundIp,                       \* the address the listener is bound to
  phase,                         \* the call in progress
  pos,                           \* i of netBroadcast, counted from 1
  sock,                          \* the kernel's view of our descriptors
  pending,                       \* peers in the listener's backlog
  netOk, ip,                     \* the network and our address on it
  offered,                       \* history: sends of the current frame, per socket
  torn                           \* history: sockets whose last packet was cut short

netState == <<listen_fd, clients, retryIn, boundIp, sock>>
netHistory == <<offered, torn>>
netVars == <<netState, phase, pos, pending, netOk, ip, netHistory>>

-----------------------------------------------------------------------------
ClientSet == {clients[k] : k \in 1..Len(clients)}
OpenFds == {fd \in Fd : sock[fd] # "closed"}
\* Mutant of HasRoom: <= for <.
RoomForOneMore == Len(clients) <= MaxClients
HasRoom == Len(clients) < MaxClients

Closed(fds) == [fd \in Fd |-> IF fd \in fds THEN "closed" ELSE sock[fd]]

\* Mutant of Removed: the count shrinks, but the last client is not moved.
RemovedWithoutMove(i) == [k \in 1..(Len(clients) - 1) |-> clients[k]]

\* removeClient: the last client takes the slot of the removed one.
Removed(i) ==
  [k \in 1..(Len(clients) - 1) |-> IF k = i THEN clients[Len(clients)] ELSE clients[k]]

\* Mutant of ListenerAfterClose: the descriptor is not reset to -1.
StaleListener == listen_fd

\* closeListener leaves no listener behind.
ListenerAfterClose == None

CloseListener ==
  /\ listen_fd' = ListenerAfterClose
  /\ boundIp' = None
  /\ pending' = 0
  /\ sock' = Closed({listen_fd})

Init ==
  /\ listen_fd = None /\ clients = <<>> /\ retryIn = 0 /\ boundIp = None
  /\ phase = "off" /\ pos = 1
  /\ sock = [fd \in Fd |-> "closed"] /\ pending = 0
  /\ netOk \in BOOLEAN /\ ip \in Ip
  /\ offered = [fd \in Fd |-> 0] /\ torn = {}

\* netInit fails when the buffer or the socket service is not to be had.
NetInit ==
  /\ phase = "off"
  /\ phase' \in {"idle", "exited"}
  /\ UNCHANGED <<netState, pos, pending, netOk, ip, netHistory>>

-----------------------------------------------------------------------------
\* Mutant of SockAfterFailedOpen: the failure path forgets close(fd).
SockLeftOpen(fd) == [sock EXCEPT ![fd] = "blocking"]

\* What is left of the socket of an openListener that failed after socket().
SockAfterFailedOpen(fd) == sock

OpenListener(fd) ==
  /\ netOk
  /\ sock' = [sock EXCEPT ![fd] = "nonblocking"]
  /\ listen_fd' = fd
  /\ boundIp' = ip
  /\ phase' = "accept"
  /\ UNCHANGED retryIn

\* bind may also find the port taken while the network is up.
OpenListenerFails(fd) ==
  /\ sock' = SockAfterFailedOpen(fd)
  /\ retryIn' = ListenRetry
  /\ UNCHANGED <<listen_fd, boundIp, phase>>

\* The start of netAccept, up to its loop.
NetAccept ==
  /\ phase = "idle"
  /\ \/ /\ listen_fd # None
        /\ phase' = "accept"
        /\ UNCHANGED <<listen_fd, boundIp, retryIn, sock>>
     \/ /\ listen_fd = None
        /\ retryIn = 0
        /\ \E fd \in Fd \ OpenFds : OpenListener(fd) \/ OpenListenerFails(fd)
  /\ UNCHANGED <<clients, pos, pending, netOk, ip, netHistory>>

\* ... which does nothing before retry_at.
RetryNotDue == phase = "idle" /\ listen_fd = None /\ retryIn > 0

\* Mutant of KeptModes: the result of fcntl is ignored.
AnyMode == {"blocking", "nonblocking"}

\* accept() returned a socket; it is kept only if fcntl made it non-blocking.
KeptModes == {"nonblocking"}

AcceptClient ==
  /\ phase = "accept" /\ HasRoom /\ pending > 0
  /\ pending' = pending - 1
  /\ \E fd \in Fd \ OpenFds, mode \in {"nonblocking", "blocking"} :
       IF mode \in KeptModes
       THEN /\ clients' = Append(clients, fd)
            /\ sock' = [sock EXCEPT ![fd] = mode]
            /\ torn' = torn \ {fd}
       ELSE UNCHANGED <<clients, sock, torn>>
  /\ UNCHANGED <<listen_fd, retryIn, boundIp, phase, pos, netOk, ip, offered>>

\* Mutant of AcceptLoopDone: EAGAIN does not leave the loop.
FullOnly == ~HasRoom

\* The loop ends when the array is full or accept() would block.
AcceptLoopDone == ~HasRoom \/ pending = 0

AcceptReturns ==
  /\ phase = "accept" /\ AcceptLoopDone
  /\ phase' = "idle"
  /\ UNCHANGED <<netState, pos, pending, netOk, ip, netHistory>>

\* Any other error of accept() counts as a dead listener.
AcceptFails ==
  /\ phase = "accept" /\ HasRoom
  /\ CloseListener
  /\ retryIn' = ListenRetry
  /\ phase' = "idle"
  /\ UNCHANGED <<clients, pos, netOk, ip, netHistory>>

-----------------------------------------------------------------------------
NetBroadcast ==
  /\ phase = "idle"
  /\ phase' = "broadcast"
  /\ UNCHANGED <<netState, pos, pending, netOk, ip, netHistory>>

\* "full": the send would block.  "short": only part of the packet went out.
Outcomes == {"sent", "full", "short", "error"}
\* Mutant of Keeps: any byte that went out counts as success.
KeepsShort(outcome) == outcome # "error"
Keeps(outcome) == outcome \in {"sent", "full"}
\* Mutant of NextPos: i++ after a removal too.
AlwaysAdvances(outcome) == pos + 1
NextPos(outcome) == IF Keeps(outcome) THEN pos + 1 ELSE pos

SendTo(fd, outcome) ==
  /\ offered' = [offered EXCEPT ![fd] = @ + 1]
  /\ torn' = IF outcome = "short" THEN torn \cup {fd} ELSE torn
  /\ pos' = NextPos(outcome)
  /\ IF Keeps(outcome)
     THEN UNCHANGED <<clients, sock>>
     ELSE clients' = Removed(pos) /\ sock' = Closed({fd})

SendOne ==
  /\ phase = "broadcast" /\ pos <= Len(clients)
  /\ \E outcome \in Outcomes : SendTo(clients[pos], outcome)
  /\ UNCHANGED <<listen_fd, retryIn, boundIp, phase, pending, netOk, ip>>

BroadcastReturns ==
  /\ phase = "broadcast" /\ pos > Len(clients)
  /\ phase' = "idle" /\ pos' = 1
  /\ offered' = [fd \in Fd |-> 0]
  /\ UNCHANGED <<netState, pending, netOk, ip, torn>>

-----------------------------------------------------------------------------
\* What netReset and netExit share: every client and the listener go.
CloseAll ==
  /\ listen_fd' = ListenerAfterClose
  /\ boundIp' = None
  /\ pending' = 0
  /\ clients' = <<>>
  /\ sock' = Closed(ClientSet \cup {listen_fd})

NetReset ==
  /\ phase = "idle"
  /\ CloseAll
  /\ retryIn' = 0
  /\ UNCHANGED <<phase, pos, netOk, ip, netHistory>>

NetExit ==
  /\ phase = "idle"
  /\ CloseAll
  /\ phase' = "exited"
  /\ UNCHANGED <<retryIn, pos, netOk, ip, netHistory>>

-----------------------------------------------------------------------------
(* The world: peers reach the listener at the console's current address    *)
(* and give up again, the network comes and goes, time passes.  A backlog  *)
(* of MaxClients is what listen() asks for.                                *)
PeerConnects ==
  /\ listen_fd # None /\ netOk /\ boundIp = ip /\ pending < MaxClients
  /\ pending' = pending + 1
  /\ UNCHANGED <<netState, phase, pos, netOk, ip, netHistory>>

PeerGivesUp ==
  /\ pending > 0
  /\ pending' = pending - 1
  /\ UNCHANGED <<netState, phase, pos, netOk, ip, netHistory>>

NetworkChanges ==
  /\ netOk' = ~netOk
  /\ ip' \in IF netOk THEN {ip} ELSE Ip
  /\ UNCHANGED <<netState, phase, pos, pending, netHistory>>

Elapse ==
  /\ retryIn > 0
  /\ retryIn' = retryIn - 1
  /\ UNCHANGED <<listen_fd, clients, boundIp, phase, pos, sock, pending, netOk, ip, netHistory>>

-----------------------------------------------------------------------------
AcceptLoop == AcceptClient \/ AcceptReturns \/ AcceptFails
BroadcastLoop == SendOne \/ BroadcastReturns
Calls == NetInit \/ NetAccept \/ NetBroadcast \/ NetReset \/ NetExit
World == PeerConnects \/ PeerGivesUp \/ NetworkChanges \/ Elapse

Next == Calls \/ AcceptLoop \/ BroadcastLoop \/ World

Spec == Init /\ [][Next]_netVars

(* Each loop comes to its end, accept failing or not; the clock runs on;   *)
(* and the input loop calls netAccept again and again: strong fairness,    *)
(* since other calls come in between.  An openListener that is tried again *)
(* and again while the network is up succeeds some time, and so does the   *)
(* fcntl of one client after the other.                                    *)
Fairness ==
  /\ WF_netVars(AcceptClient \/ AcceptReturns) /\ WF_netVars(BroadcastLoop)
  /\ WF_netVars(Elapse)
  /\ SF_netVars(NetAccept /\ listen_fd' # None)
  /\ SF_netVars(AcceptClient /\ clients' # clients)

FairSpec == Spec /\ Fairness

-----------------------------------------------------------------------------
TypeOK ==
  /\ listen_fd \in Fd \cup {None}
  /\ clients \in Seq(Fd) /\ Len(clients) <= MaxClients
  /\ retryIn \in 0..ListenRetry
  /\ boundIp \in Ip \cup {None}
  /\ phase \in {"off", "idle", "accept", "broadcast", "exited"}
  /\ pos \in 1..(MaxClients + 1) /\ (phase # "broadcast" => pos = 1)
  /\ sock \in [Fd -> {"closed", "blocking", "nonblocking"}]
  /\ pending \in 0..MaxClients
  /\ netOk \in BOOLEAN /\ ip \in Ip
  /\ offered \in [Fd -> Nat]
  /\ torn \subseteq Fd

(* Between any two system calls every open descriptor is either the        *)
(* listener or in exactly one slot of the client array: nothing leaks,     *)
(* nothing is closed twice, and no number the kernel hands out again is    *)
(* still in use under its old meaning (removeClient, closeListener and     *)
(* the failure paths of openListener and netAccept).                       *)
DescriptorsAccounted ==
  /\ OpenFds = ClientSet \cup ({listen_fd} \ {None})
  /\ listen_fd \notin ClientSet
  /\ \A j, k \in 1..Len(clients) : clients[j] = clients[k] => j = k

(* Every descriptor the input loop uses is non-blocking ("A client that    *)
(* stops reading must never stall the input loop", net.cpp).               *)
NeverBlocks == \A fd \in OpenFds : sock[fd] = "nonblocking"

(* While a frame goes out, the clients before pos have been offered it     *)
(* once and the others not yet, although removals reorder the array: no    *)
(* client is skipped and none gets the frame twice.                        *)
OncePerFrame ==
  /\ \A k \in 1..Len(clients) :
       offered[clients[k]] = IF phase = "broadcast" /\ k < pos THEN 1 ELSE 0
  /\ phase # "broadcast" => \A fd \in Fd : offered[fd] = 0

(* A stream that was cut in the middle of a packet never carries another   *)
(* byte: the receiver sees whole packets, and at most one torn one, last   *)
(* (netBroadcast's short write, a peer's descriptor number used again).    *)
WholePackets == [][\A fd \in Fd : offered'[fd] > offered[fd] => fd \notin torn]_netVars

(* The client array implements the abstract feed.                          *)
Feed == INSTANCE FrameFeed WITH
  Subscriber <- Fd,
  subs <- ClientSet,
  due <- IF phase = "broadcast" THEN {clients[k] : k \in pos..Len(clients)} ELSE {}

ImplementsFeed == Feed!Spec

\* ... and its safety part, which is proved for every instance.
FeedSafety == Feed!Init /\ [][Feed!Next]_(Feed!feedVars)

(* While the network stays up, netAccept comes back to the input loop.     *)
AcceptNeverStalls == <>[]netOk => (phase = "accept" ~> phase # "accept")

(* Once the network stays up, a listener is opened again and again after   *)
(* every failure and reset, until the module exits.                        *)
ListenerComesBack ==
  <>[]netOk => []<>(listen_fd \in OpenFds \/ phase \in {"off", "exited"})
=============================================================================
