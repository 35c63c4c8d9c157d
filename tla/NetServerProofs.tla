-------------------------- MODULE NetServerProofs --------------------------
(***************************************************************************)
(* NetServer for every set of descriptors and addresses, every             *)
(* NET_MAX_CLIENTS and every retry delay.  Inv is inductive: the           *)
(* invariants of NetServer need each other and one fact more, that a       *)
(* stream which was cut is no longer in the client array.                  *)
(***************************************************************************)
EXTENDS NetServer, SequenceTheorems, TLAPS

CutStreamsClosed == torn \cap ClientSet = {}

Inv == TypeOK /\ DescriptorsAccounted /\ NeverBlocks /\ OncePerFrame /\ CutStreamsClosed

-----------------------------------------------------------------------------
(* removeClient: one client fewer, the last one in the freed slot. *)
LEMMA RemovedProperties ==
  ASSUME clients \in Seq(Fd), NEW i \in 1..Len(clients)
  PROVE  /\ Removed(i) \in Seq(Fd)
         /\ Len(Removed(i)) = Len(clients) - 1
         /\ \A k \in 1..(Len(clients) - 1) :
              Removed(i)[k] = IF k = i THEN clients[Len(clients)] ELSE clients[k]
<1> DEFINE n == Len(clients) - 1
<1>1. n \in Nat /\ \A k \in 1..Len(clients) : clients[k] \in Fd
  BY LenProperties, ElementOfSeq
<1>2. Removed(i) \in [1..n -> Fd]
  BY <1>1 DEF Removed
<1>3. Removed(i) \in Seq(Fd)
  BY <1>1, <1>2, SeqDef
<1>4. Len(Removed(i)) = n
  BY <1>1, <1>2, <1>3, LenProperties
<1> QED
  BY <1>3, <1>4 DEF Removed

(* The set of clients loses exactly the removed one, given that no client  *)
(* is in two slots.                                                        *)
LEMMA RemovedSet ==
  ASSUME TypeOK, DescriptorsAccounted, NEW i \in 1..Len(clients), clients' = Removed(i)
  PROVE  ClientSet' = ClientSet \ {clients[i]}
<1>1. /\ clients \in Seq(Fd) /\ Len(clients) \in Nat
      /\ \A j, k \in 1..Len(clients) : clients[j] = clients[k] => j = k
  BY LenProperties DEF TypeOK, DescriptorsAccounted
<1>2. /\ Len(clients') = Len(clients) - 1
      /\ \A k \in 1..(Len(clients) - 1) :
           clients'[k] = IF k = i THEN clients[Len(clients)] ELSE clients[k]
  BY <1>1, RemovedProperties
<1>3. ASSUME NEW fd \in ClientSet \ {clients[i]}  PROVE fd \in ClientSet'
  <2>1. PICK k \in 1..Len(clients) : fd = clients[k]
    BY DEF ClientSet
  <2>2. k # i
    BY <2>1, <1>3
  <2>3. CASE k = Len(clients)
    <3>1. i \in 1..(Len(clients) - 1) /\ clients'[i] = fd
      BY <1>1, <1>2, <2>1, <2>2, <2>3
    <3> QED BY <3>1, <1>2 DEF ClientSet
  <2>4. CASE k # Len(clients)
    <3>1. k \in 1..(Len(clients) - 1) /\ clients'[k] = fd
      BY <1>1, <1>2, <2>1, <2>2, <2>4
    <3> QED BY <3>1, <1>2 DEF ClientSet
  <2> QED BY <2>3, <2>4
<1>4. ASSUME NEW fd \in ClientSet'  PROVE fd \in ClientSet \ {clients[i]}
  <2>1. PICK k \in 1..(Len(clients) - 1) : fd = clients'[k]
    BY <1>2 DEF ClientSet
  <2>2. fd = IF k = i THEN clients[Len(clients)] ELSE clients[k]
    BY <1>2, <2>1
  <2>3. \E m \in 1..Len(clients) : m # i /\ fd = clients[m]
    <3>1. CASE k = i
      <4>1. Len(clients) \in 1..Len(clients) /\ Len(clients) # i
        BY <1>1, <2>1, <3>1
      <4> QED BY <2>2, <3>1, <4>1
    <3>2. CASE k # i
      <4>1. k \in 1..Len(clients)
        BY <1>1, <2>1
      <4> QED BY <2>2, <3>2, <4>1
    <3> QED BY <3>1, <3>2
  <2> QED BY <1>1, <2>3 DEF ClientSet
<1> QED BY <1>3, <1>4

-----------------------------------------------------------------------------
LEMMA InvInit == Init => Inv
<1> SUFFICES ASSUME Init  PROVE Inv
  OBVIOUS
<1>1. clients \in Seq(Fd) /\ Len(clients) = 0
  BY EmptySeq DEF Init
<1> QED
  BY <1>1, NetAssumption
  DEF Init, Inv, TypeOK, DescriptorsAccounted, NeverBlocks, OncePerFrame,
      CutStreamsClosed, OpenFds, ClientSet

(* A call begins or ends, or the world moves: the descriptors, the array   *)
(* and the counters of a frame in progress stay.                           *)
LEMMA InvSameSockets ==
  ASSUME Inv, TypeOK', UNCHANGED <<listen_fd, clients, sock, offered, torn>>,
         phase = "broadcast" \/ phase' = "broadcast" => phase' = phase /\ pos' = pos
  PROVE  Inv'
BY DEF Inv, DescriptorsAccounted, NeverBlocks, OncePerFrame, CutStreamsClosed,
       OpenFds, ClientSet

LEMMA InvNetAccept == Inv /\ NetAccept => Inv'
<1> SUFFICES ASSUME Inv, NetAccept  PROVE Inv'
  OBVIOUS
<1> USE NetAssumption
<1>0. /\ clients \in Seq(Fd) /\ Len(clients) \in Nat
      /\ \A k \in 1..Len(clients) : clients[k] \in Fd
  BY LenProperties, ElementOfSeq DEF Inv, TypeOK
<1>1. CASE listen_fd # None
  <2>1. /\ UNCHANGED <<listen_fd, boundIp, retryIn, sock, clients, pos, pending, netOk, ip,
                        offered, torn>>
        /\ phase = "idle" /\ phase' = "accept"
    BY <1>1 DEF NetAccept, netHistory
  <2>2. TypeOK'
    BY <2>1 DEF Inv, TypeOK
  <2> QED
    BY <2>1, <2>2, InvSameSockets
<1>2. CASE listen_fd = None
  <2>1. PICK fd \in Fd \ OpenFds : OpenListener(fd) \/ OpenListenerFails(fd)
    BY <1>2 DEF NetAccept
  <2>2. phase = "idle" /\ UNCHANGED <<clients, pos, pending, netOk, ip, offered, torn>>
    BY DEF NetAccept, netHistory
  <2>3. CASE OpenListener(fd)
    <3>1. fd \notin ClientSet /\ sock[fd] = "closed"
      BY <2>1 DEF Inv, DescriptorsAccounted, TypeOK, OpenFds
    <3>2. OpenFds' = OpenFds \cup {fd}
      BY <2>1, <2>3 DEF OpenListener, OpenFds, Inv, TypeOK
    <3>3. TypeOK' /\ NeverBlocks'
      BY <1>0, <2>1, <2>2, <2>3 DEF OpenListener, Inv, TypeOK, NeverBlocks, OpenFds
    <3>4. DescriptorsAccounted'
      <4>1. ClientSet' = ClientSet /\ listen_fd' = fd /\ fd # None
        BY <2>2, <2>3, <2>1 DEF ClientSet, OpenListener
      <4>2. OpenFds = ClientSet /\ \A j, k \in 1..Len(clients) : clients[j] = clients[k] => j = k
        BY <1>2 DEF Inv, DescriptorsAccounted
      <4> QED BY <2>2, <3>1, <3>2, <4>1, <4>2 DEF DescriptorsAccounted
    <3>5. OncePerFrame' /\ CutStreamsClosed'
      BY <2>2, <2>3 DEF OpenListener, Inv, OncePerFrame, CutStreamsClosed, ClientSet
    <3> QED BY <3>3, <3>4, <3>5 DEF Inv
  <2>4. CASE OpenListenerFails(fd)
    <3>1. UNCHANGED <<listen_fd, clients, sock, phase>> /\ retryIn' = ListenRetry
          /\ UNCHANGED boundIp
      BY <2>2, <2>4 DEF OpenListenerFails, SockAfterFailedOpen
    <3>2. TypeOK'
      BY <2>2, <3>1 DEF Inv, TypeOK
    <3> QED BY <2>2, <3>1, <3>2, InvSameSockets
  <2> QED BY <2>1, <2>3, <2>4
<1> QED BY <1>1, <1>2

LEMMA InvAcceptClient == Inv /\ AcceptClient => Inv'
<1> SUFFICES ASSUME Inv, AcceptClient  PROVE Inv'
  OBVIOUS
<1> USE NetAssumption
<1>0. /\ clients \in Seq(Fd) /\ Len(clients) \in Nat
      /\ \A k \in 1..Len(clients) : clients[k] \in Fd
  BY LenProperties, ElementOfSeq DEF Inv, TypeOK
<1>1. PICK fd \in Fd \ OpenFds, mode \in {"nonblocking", "blocking"} :
        IF mode \in KeptModes
        THEN /\ clients' = Append(clients, fd)
             /\ sock' = [sock EXCEPT ![fd] = mode]
             /\ torn' = torn \ {fd}
        ELSE UNCHANGED <<clients, sock, torn>>
  BY DEF AcceptClient
<1>2. /\ phase = "accept" /\ Len(clients) < MaxClients
      /\ pending > 0 /\ pending' = pending - 1
      /\ UNCHANGED <<listen_fd, retryIn, boundIp, phase, pos, netOk, ip, offered>>
  BY DEF AcceptClient, HasRoom
<1>3. pending' \in 0..MaxClients
  BY <1>2 DEF Inv, TypeOK
<1>4. CASE mode \notin KeptModes
  <2>1. TypeOK' /\ UNCHANGED <<listen_fd, clients, sock, offered, torn>>
    BY <1>1, <1>2, <1>3, <1>4 DEF Inv, TypeOK
  <2> QED BY <1>2, <2>1, InvSameSockets
<1>5. CASE mode \in KeptModes
  <2>1. /\ clients' = Append(clients, fd) /\ torn' = torn \ {fd}
        /\ sock' = [sock EXCEPT ![fd] = "nonblocking"]
    BY <1>1, <1>5 DEF KeptModes
  <2>2. /\ clients' \in Seq(Fd) /\ Len(clients') = Len(clients) + 1
        /\ \A k \in 1..Len(clients') : clients'[k] = IF k <= Len(clients) THEN clients[k] ELSE fd
    BY <1>0, <1>1, <2>1
  <2>3. ClientSet' = ClientSet \cup {fd}
    <3>1. ASSUME NEW k \in 1..Len(clients)  PROVE clients[k] \in ClientSet'
      BY <1>0, <2>2, <3>1 DEF ClientSet
    <3>2. fd \in ClientSet'
      <4>1. Len(clients) + 1 \in 1..Len(clients') /\ clients'[Len(clients) + 1] = fd
        BY <1>0, <2>2
      <4> QED BY <4>1 DEF ClientSet
    <3>3. ASSUME NEW k \in 1..Len(clients')  PROVE clients'[k] \in ClientSet \cup {fd}
      BY <1>0, <2>2 DEF ClientSet
    <3> QED BY <3>1, <3>2, <3>3 DEF ClientSet
  <2>4. fd \notin ClientSet /\ fd # listen_fd /\ sock[fd] = "closed"
    BY <1>1 DEF Inv, DescriptorsAccounted, TypeOK, OpenFds
  <2>5. OpenFds' = OpenFds \cup {fd}
    BY <1>1, <2>1 DEF OpenFds, Inv, TypeOK
  <2>6. TypeOK'
    BY <1>0, <1>2, <1>3, <2>1, <2>2 DEF Inv, TypeOK
  <2>7. DescriptorsAccounted'
    <3>1. OpenFds' = ClientSet' \cup ({listen_fd'} \ {None}) /\ listen_fd' \notin ClientSet'
      BY <1>2, <2>3, <2>4, <2>5 DEF Inv, DescriptorsAccounted
    <3>2. \A k \in 1..Len(clients) : clients[k] # fd
      BY <2>4 DEF ClientSet
    <3>3. ASSUME NEW j \in 1..Len(clients'), NEW k \in 1..Len(clients'), clients'[j] = clients'[k]
          PROVE  j = k
      BY <1>0, <2>2, <3>2, <3>3 DEF Inv, DescriptorsAccounted
    <3> QED BY <3>1, <3>3 DEF DescriptorsAccounted
  <2>8. NeverBlocks' /\ CutStreamsClosed'
    BY <2>1, <2>3, <2>5 DEF Inv, TypeOK, NeverBlocks, CutStreamsClosed
  <2>9. OncePerFrame'
    BY <1>0, <1>1, <1>2, <2>2 DEF Inv, OncePerFrame
  <2> QED BY <2>6, <2>7, <2>8, <2>9 DEF Inv
<1> QED BY <1>4, <1>5

LEMMA InvAcceptFails == Inv /\ AcceptFails => Inv'
<1> SUFFICES ASSUME Inv, AcceptFails  PROVE Inv'
  OBVIOUS
<1>1. /\ phase = "accept" /\ phase' = "idle" /\ retryIn' = ListenRetry
      /\ listen_fd' = None /\ boundIp' = None /\ pending' = 0
      /\ sock' = Closed({listen_fd})
      /\ UNCHANGED <<clients, pos, netOk, ip, offered, torn>>
  BY DEF AcceptFails, CloseListener, ListenerAfterClose, netHistory
<1>2. TypeOK'
  BY <1>1, NetAssumption DEF Inv, TypeOK, Closed
<1>3. OpenFds' = OpenFds \ {listen_fd} /\ ClientSet' = ClientSet
  BY <1>1 DEF OpenFds, Closed, ClientSet, Inv, TypeOK
<1>4. None \notin ClientSet
  BY LenProperties, ElementOfSeq, NetAssumption DEF Inv, TypeOK, ClientSet
<1>5. DescriptorsAccounted'
  BY <1>1, <1>3, <1>4 DEF Inv, DescriptorsAccounted
<1>6. NeverBlocks' /\ CutStreamsClosed'
  BY <1>1, <1>3 DEF Inv, NeverBlocks, CutStreamsClosed, Closed, OpenFds
<1>7. OncePerFrame'
  BY <1>1 DEF Inv, OncePerFrame
<1> QED BY <1>2, <1>5, <1>6, <1>7 DEF Inv

LEMMA InvSendOne == Inv /\ SendOne => Inv'
<1> SUFFICES ASSUME Inv, SendOne  PROVE Inv'
  OBVIOUS
<1> USE NetAssumption
<1>1. PICK outcome \in Outcomes : SendTo(clients[pos], outcome)
  BY DEF SendOne
<1>2. /\ phase = "broadcast" /\ pos <= Len(clients)
      /\ UNCHANGED <<listen_fd, retryIn, boundIp, phase, pending, netOk, ip>>
  BY DEF SendOne
<1>3. /\ clients \in Seq(Fd) /\ Len(clients) \in Nat
      /\ \A k \in 1..Len(clients) : clients[k] \in Fd
      /\ \A j, k \in 1..Len(clients) : clients[j] = clients[k] => j = k
      /\ pos \in 1..Len(clients) /\ clients[pos] \in ClientSet
  BY <1>2, LenProperties, ElementOfSeq DEF Inv, TypeOK, DescriptorsAccounted, ClientSet
<1> DEFINE fd == clients[pos]
<1>4. offered' = [offered EXCEPT ![fd] = 1] /\ fd \in Fd
  <2>1. fd \in Fd /\ offered[fd] = 0
    BY <1>2, <1>3 DEF Inv, OncePerFrame
  <2>2. offered' = [offered EXCEPT ![fd] = offered[fd] + 1]
    BY <1>1 DEF SendTo
  <2> QED BY <2>1, <2>2
<1>5. CASE Keeps(outcome)
  <2>1. UNCHANGED <<clients, sock, torn>> /\ pos' = pos + 1
    BY <1>1, <1>5 DEF SendTo, NextPos, Keeps
  <2>2. TypeOK'
    BY <1>2, <1>3, <1>4, <2>1 DEF Inv, TypeOK
  <2>3. DescriptorsAccounted' /\ NeverBlocks' /\ CutStreamsClosed'
    BY <1>2, <2>1 DEF Inv, DescriptorsAccounted, NeverBlocks, CutStreamsClosed, OpenFds, ClientSet
  <2>4. OncePerFrame'
    BY <1>2, <1>3, <1>4, <2>1 DEF Inv, OncePerFrame, TypeOK
  <2> QED BY <2>2, <2>3, <2>4 DEF Inv
<1>6. CASE ~Keeps(outcome)
  <2>1. /\ clients' = Removed(pos) /\ sock' = Closed({fd}) /\ pos' = pos
        /\ torn' \subseteq torn \cup {fd}
    BY <1>1, <1>6 DEF SendTo, NextPos
  <2>2. /\ clients' \in Seq(Fd) /\ Len(clients') = Len(clients) - 1
        /\ \A k \in 1..(Len(clients) - 1) :
             clients'[k] = IF k = pos THEN clients[Len(clients)] ELSE clients[k]
    BY <1>3, <2>1, RemovedProperties
  <2>3. ClientSet' = ClientSet \ {fd}
    BY <1>3, <2>1, RemovedSet DEF Inv
  <2>4. OpenFds' = OpenFds \ {fd}
    BY <2>1 DEF OpenFds, Closed, Inv, TypeOK
  <2>5. TypeOK'
    BY <1>2, <1>3, <1>4, <2>1, <2>2 DEF Inv, TypeOK, Closed
  <2>6. DescriptorsAccounted'
    <3>1. OpenFds' = ClientSet' \cup ({listen_fd'} \ {None}) /\ listen_fd' \notin ClientSet'
      BY <1>2, <1>3, <2>3, <2>4 DEF Inv, DescriptorsAccounted
    <3>2. ASSUME NEW j \in 1..Len(clients'), NEW k \in 1..Len(clients'), clients'[j] = clients'[k]
          PROVE  j = k
      BY <1>3, <2>2, <3>2
    <3> QED BY <3>1, <3>2 DEF DescriptorsAccounted
  <2>7. NeverBlocks' /\ CutStreamsClosed'
    BY <2>1, <2>3, <2>4 DEF Inv, NeverBlocks, CutStreamsClosed, Closed, OpenFds
  <2>8. OncePerFrame'
    <3>1. ASSUME NEW k \in 1..Len(clients')
          PROVE  offered'[clients'[k]] = IF k < pos THEN 1 ELSE 0
      <4>1. CASE k = pos
        <5>1. clients'[k] = clients[Len(clients)] /\ Len(clients) # pos
              /\ Len(clients) \in 1..Len(clients)
          BY <1>3, <2>2, <3>1, <4>1
        <5>2. offered[clients[Len(clients)]] = 0 /\ clients[Len(clients)] # fd
              /\ clients[Len(clients)] \in Fd
          BY <1>2, <1>3, <5>1 DEF Inv, OncePerFrame
        <5> QED BY <1>3, <1>4, <4>1, <5>1, <5>2 DEF Inv, TypeOK
      <4>2. CASE k # pos
        <5>1. clients'[k] = clients[k] /\ k \in 1..Len(clients)
          BY <1>3, <2>2, <3>1, <4>2
        <5>2. offered[clients[k]] = (IF k < pos THEN 1 ELSE 0) /\ clients[k] # fd
              /\ clients[k] \in Fd
          BY <1>2, <1>3, <4>2, <5>1 DEF Inv, OncePerFrame
        <5> QED BY <1>4, <5>1, <5>2 DEF Inv, TypeOK
      <4> QED BY <4>1, <4>2
    <3> QED BY <1>2, <2>1, <3>1 DEF OncePerFrame
  <2> QED BY <2>5, <2>6, <2>7, <2>8 DEF Inv
<1> QED BY <1>5, <1>6

LEMMA InvBroadcastReturns == Inv /\ BroadcastReturns => Inv'
<1> SUFFICES ASSUME Inv, BroadcastReturns  PROVE Inv'
  OBVIOUS
<1>1. /\ phase' = "idle" /\ pos' = 1 /\ offered' = [fd \in Fd |-> 0]
      /\ UNCHANGED <<listen_fd, clients, retryIn, boundIp, sock, pending, netOk, ip, torn>>
  BY DEF BroadcastReturns, netState
<1>2. Len(clients) \in Nat /\ \A k \in 1..Len(clients) : clients[k] \in Fd
  BY LenProperties, ElementOfSeq DEF Inv, TypeOK
<1>3. TypeOK'
  BY <1>1, <1>2, NetAssumption DEF Inv, TypeOK
<1>4. DescriptorsAccounted' /\ NeverBlocks' /\ CutStreamsClosed'
  BY <1>1 DEF Inv, DescriptorsAccounted, NeverBlocks, CutStreamsClosed, OpenFds, ClientSet
<1>5. OncePerFrame'
  BY <1>1, <1>2 DEF OncePerFrame
<1> QED BY <1>3, <1>4, <1>5 DEF Inv

(* netReset and netExit, which may only be called between two others. *)
LEMMA InvCloseAll ==
  ASSUME Inv, CloseAll, phase = "idle", phase' \in {"idle", "exited"},
         retryIn' \in 0..ListenRetry, UNCHANGED <<pos, netOk, ip, offered, torn>>
  PROVE  Inv'
<1>1. /\ listen_fd' = None /\ boundIp' = None /\ pending' = 0
      /\ sock' = Closed(ClientSet \cup {listen_fd})
      /\ clients' = <<>> /\ clients' \in Seq(Fd) /\ Len(clients') = 0
  BY EmptySeq DEF CloseAll, ListenerAfterClose
<1>2. TypeOK'
  BY <1>1, NetAssumption DEF Inv, TypeOK, Closed
<1>3. OpenFds' = {} /\ ClientSet' = {}
  <2>1. \A fd \in Fd : fd \notin ClientSet \cup {listen_fd} => sock[fd] = "closed"
    BY DEF Inv, DescriptorsAccounted, OpenFds
  <2>2. \A fd \in Fd : sock'[fd] = "closed"
    BY <1>1, <2>1 DEF Closed
  <2> QED BY <1>1, <2>2 DEF OpenFds, ClientSet
<1>4. DescriptorsAccounted' /\ NeverBlocks' /\ CutStreamsClosed'
  BY <1>1, <1>3 DEF DescriptorsAccounted, NeverBlocks, CutStreamsClosed
<1>5. OncePerFrame'
  BY <1>1 DEF Inv, OncePerFrame
<1> QED BY <1>2, <1>4, <1>5 DEF Inv

(* What the world does leaves our side alone. *)
LEMMA InvWorld == Inv /\ World => Inv'
<1> SUFFICES ASSUME Inv, World  PROVE Inv'
  OBVIOUS
<1>1. UNCHANGED <<listen_fd, clients, boundIp, sock, phase, pos, offered, torn>>
  BY DEF World, PeerConnects, PeerGivesUp, NetworkChanges, Elapse, netState, netHistory
<1>2. retryIn' \in 0..ListenRetry /\ pending' \in 0..MaxClients /\ netOk' \in BOOLEAN /\ ip' \in Ip
  <2>1. netOk' \in BOOLEAN
    BY Zenon DEF World, PeerConnects, PeerGivesUp, NetworkChanges, Elapse, Inv, TypeOK
  <2>2. retryIn' \in 0..ListenRetry /\ pending' \in 0..MaxClients /\ ip' \in Ip
    BY NetAssumption DEF World, PeerConnects, PeerGivesUp, NetworkChanges, Elapse, netState,
                         Inv, TypeOK
  <2> QED BY <2>1, <2>2
<1>3. TypeOK'
  BY <1>1, <1>2 DEF Inv, TypeOK
<1> QED BY <1>1, <1>3, InvSameSockets

LEMMA InvStep == Inv /\ [Next]_netVars => Inv'
<1> SUFFICES ASSUME Inv, [Next]_netVars  PROVE Inv'
  OBVIOUS
<1> USE NetAssumption
<1>1. CASE NetInit
  <2>1. /\ UNCHANGED <<listen_fd, clients, retryIn, boundIp, sock, pos, pending, netOk, ip,
                       offered, torn>>
        /\ phase = "off" /\ phase' \in {"idle", "exited"}
    BY <1>1 DEF NetInit, netState, netHistory
  <2>2. TypeOK'
    BY <2>1 DEF Inv, TypeOK
  <2> QED BY <2>1, <2>2, InvSameSockets
<1>2. CASE NetAccept
  BY <1>2, InvNetAccept
<1>3. CASE AcceptClient
  BY <1>3, InvAcceptClient
<1>4. CASE AcceptReturns
  <2>1. /\ UNCHANGED <<listen_fd, clients, retryIn, boundIp, sock, pos, pending, netOk, ip,
                       offered, torn>>
        /\ phase = "accept" /\ phase' = "idle"
    BY <1>4 DEF AcceptReturns, netState, netHistory
  <2>2. TypeOK'
    BY <2>1 DEF Inv, TypeOK
  <2> QED BY <2>1, <2>2, InvSameSockets
<1>5. CASE AcceptFails
  BY <1>5, InvAcceptFails
<1>6. CASE NetBroadcast
  <2>1. /\ UNCHANGED <<listen_fd, clients, retryIn, boundIp, sock, pos, pending, netOk, ip,
                       offered, torn>>
        /\ phase = "idle" /\ phase' = "broadcast"
    BY <1>6 DEF NetBroadcast, netState, netHistory
  <2>2. TypeOK' /\ pos = 1
    BY <2>1 DEF Inv, TypeOK
  <2>3. DescriptorsAccounted' /\ NeverBlocks' /\ CutStreamsClosed'
    BY <2>1 DEF Inv, DescriptorsAccounted, NeverBlocks, CutStreamsClosed, OpenFds, ClientSet
  <2>4. OncePerFrame'
    BY <2>1, <2>2 DEF Inv, OncePerFrame
  <2> QED BY <2>2, <2>3, <2>4 DEF Inv
<1>7. CASE SendOne
  BY <1>7, InvSendOne
<1>8. CASE BroadcastReturns
  BY <1>8, InvBroadcastReturns
<1>9. CASE NetReset
  <2>1. phase = "idle" /\ phase' = "idle" /\ retryIn' \in 0..ListenRetry
        /\ CloseAll /\ UNCHANGED <<pos, netOk, ip, offered, torn>>
    BY <1>9 DEF NetReset, netHistory
  <2> QED BY <2>1, InvCloseAll
<1>10. CASE NetExit
  <2>1. phase = "idle" /\ phase' = "exited" /\ retryIn' \in 0..ListenRetry
        /\ CloseAll /\ UNCHANGED <<pos, netOk, ip, offered, torn>>
    BY <1>10 DEF NetExit, netHistory, Inv, TypeOK
  <2> QED BY <2>1, InvCloseAll
<1>11. CASE World
  BY <1>11, InvWorld
<1>12. CASE UNCHANGED netVars
  <2>1. UNCHANGED <<listen_fd, clients, retryIn, boundIp, sock, phase, pos, pending, netOk, ip,
                    offered, torn>>
    BY <1>12 DEF netVars, netState, netHistory
  <2>2. TypeOK'
    BY <2>1 DEF Inv, TypeOK
  <2> QED BY <2>1, <2>2, InvSameSockets
<1> QED
  BY <1>1, <1>2, <1>3, <1>4, <1>5, <1>6, <1>7, <1>8, <1>9, <1>10, <1>11, <1>12
  DEF Next, Calls, AcceptLoop, BroadcastLoop

(* The conjunction is an invariant of every execution. *)
THEOREM InvHolds == Spec => []Inv
BY InvInit, InvStep, PTL DEF Spec

-----------------------------------------------------------------------------
(* Every state of net.cpp is well-typed: at most NET_MAX_CLIENTS clients,  *)
(* and i stays inside the array while removeClient shrinks it.             *)
THEOREM TypeCorrect == Spec => []TypeOK
<1>1. Inv => TypeOK
  BY DEF Inv
<1> QED BY <1>1, InvHolds, PTL

(* No call of net.h leaks, shares or closes twice a descriptor, however    *)
(* accept() and send() fail.                                               *)
THEOREM NoDescriptorLeak == Spec => []DescriptorsAccounted
<1>1. Inv => DescriptorsAccounted
  BY DEF Inv
<1> QED BY <1>1, InvHolds, PTL

(* accept() and send() are only ever called on non-blocking sockets.       *)
THEOREM InputLoopNeverBlocks == Spec => []NeverBlocks
<1>1. Inv => NeverBlocks
  BY DEF Inv
<1> QED BY <1>1, InvHolds, PTL

(* A frame is offered to no client twice, and to every client in the array *)
(* before netBroadcast returns, whichever clients die on the way.          *)
THEOREM EachClientOncePerFrame == Spec => []OncePerFrame
<1>1. Inv => OncePerFrame
  BY DEF Inv
<1> QED BY <1>1, InvHolds, PTL

(* No byte follows a cut packet on the same connection, although the       *)
(* kernel hands the number of a closed descriptor out again.               *)
THEOREM OnlyWholePackets == Spec => WholePackets
<1> DEFINE P == \A fd \in Fd : offered'[fd] > offered[fd] => fd \notin torn
<1>1. Inv /\ [Next]_netVars => [P]_netVars
  <2> SUFFICES ASSUME Inv, Next, NEW fd \in Fd, offered'[fd] > offered[fd]
               PROVE  fd \notin torn
    OBVIOUS
  <2>1. ASSUME UNCHANGED offered  PROVE FALSE
    BY <2>1 DEF Inv, TypeOK
  <2>2. CASE SendOne
    <3>1. clients[pos] \in ClientSet /\ offered' = [offered EXCEPT ![clients[pos]] = @ + 1]
      <4>1. pos \in 1..Len(clients)
        BY <2>2, LenProperties DEF SendOne, Inv, TypeOK
      <4>2. offered' = [offered EXCEPT ![clients[pos]] = @ + 1]
        BY <2>2 DEF SendOne, SendTo
      <4> QED BY <4>1, <4>2 DEF ClientSet
    <3>2. fd = clients[pos]
      BY <3>1 DEF Inv, TypeOK
    <3> QED BY <3>1, <3>2 DEF Inv, CutStreamsClosed
  <2>3. CASE BroadcastReturns
    BY <2>3 DEF BroadcastReturns, Inv, TypeOK
  <2> QED
    BY <2>1, <2>2, <2>3
    DEF Next, Calls, AcceptLoop, BroadcastLoop, World, NetInit, NetAccept, AcceptClient,
        AcceptReturns, AcceptFails, NetBroadcast, NetReset, NetExit, PeerConnects, PeerGivesUp,
        NetworkChanges, Elapse, netHistory
<1> QED BY <1>1, InvHolds, PTL DEF Spec, WholePackets

-----------------------------------------------------------------------------
(* The refinement mapping of NetServer, spelled out. *)
DueClients == IF phase = "broadcast" THEN {clients[k] : k \in pos..Len(clients)} ELSE {}

(* What is still due outside a frame, at its start and at its end. *)
LEMMA DueFacts ==
  ASSUME TypeOK
  PROVE  /\ phase # "broadcast" => DueClients = {}
         /\ phase = "broadcast" /\ pos = 1 => DueClients = ClientSet
         /\ pos > Len(clients) => DueClients = {}
<1>1. Len(clients) \in Nat /\ pos \in Nat
  BY LenProperties DEF TypeOK
<1> QED BY <1>1 DEF DueClients, ClientSet

(* One send: exactly the client at pos is served, and only it may go. *)
LEMMA SendServes ==
  ASSUME Inv, SendOne
  PROVE  /\ clients[pos] \in Fd /\ clients[pos] \in DueClients
         /\ DueClients' = DueClients \ {clients[pos]}
         /\ ClientSet' \in {ClientSet, ClientSet \ {clients[pos]}}
<1>1. PICK outcome \in Outcomes : SendTo(clients[pos], outcome)
  BY DEF SendOne
<1>2. phase = "broadcast" /\ phase' = "broadcast" /\ pos <= Len(clients)
  BY DEF SendOne
<1>3. /\ clients \in Seq(Fd) /\ Len(clients) \in Nat
      /\ \A k \in 1..Len(clients) : clients[k] \in Fd
      /\ \A j, k \in 1..Len(clients) : clients[j] = clients[k] => j = k
      /\ pos \in 1..Len(clients) /\ pos \in pos..Len(clients)
  BY <1>2, LenProperties, ElementOfSeq DEF Inv, TypeOK, DescriptorsAccounted
<1>4. DueClients = {clients[k] : k \in pos..Len(clients)}
  BY <1>2 DEF DueClients
<1>5. clients[pos] \in Fd /\ clients[pos] \in DueClients
  BY <1>3, <1>4
<1>6. CASE Keeps(outcome)
  <2>1. UNCHANGED clients /\ pos' = pos + 1
    BY <1>1, <1>6 DEF SendTo, NextPos
  <2>2. DueClients' = {clients[k] : k \in (pos + 1)..Len(clients)}
    BY <1>2, <2>1 DEF DueClients
  <2>3. ASSUME NEW fd  PROVE fd \in DueClients' <=> fd \in DueClients /\ fd # clients[pos]
    BY <1>3, <1>4, <2>2
  <2> QED BY <1>5, <2>1, <2>3 DEF ClientSet
<1>7. CASE ~Keeps(outcome)
  <2>1. clients' = Removed(pos) /\ pos' = pos
    BY <1>1, <1>7 DEF SendTo, NextPos
  <2>2. /\ Len(clients') = Len(clients) - 1
        /\ \A k \in 1..(Len(clients) - 1) :
             clients'[k] = IF k = pos THEN clients[Len(clients)] ELSE clients[k]
    BY <1>3, <2>1, RemovedProperties
  <2>3. ClientSet' = ClientSet \ {clients[pos]}
    BY <1>3, <2>1, RemovedSet DEF Inv
  <2>4. DueClients' = {clients'[k] : k \in pos..(Len(clients) - 1)}
    BY <1>2, <2>1, <2>2 DEF DueClients
  <2>5. ASSUME NEW fd \in DueClients'  PROVE fd \in DueClients /\ fd # clients[pos]
    <3>1. PICK k \in pos..(Len(clients) - 1) : fd = clients'[k]
      BY <2>4
    <3>2. k \in 1..(Len(clients) - 1) /\ k # Len(clients)
          /\ Len(clients) \in pos..Len(clients) /\ k \in pos..Len(clients)
      BY <1>3, <3>1
    <3>3. fd = IF k = pos THEN clients[Len(clients)] ELSE clients[k]
      BY <2>2, <3>1, <3>2
    <3> QED BY <1>3, <1>4, <3>1, <3>2, <3>3
  <2>6. ASSUME NEW fd \in DueClients, fd # clients[pos]  PROVE fd \in DueClients'
    <3>1. PICK k \in pos..Len(clients) : fd = clients[k]
      BY <1>4
    <3>2. k # pos
      BY <2>6, <3>1
    <3>3. CASE k = Len(clients)
      <4>1. pos \in pos..(Len(clients) - 1) /\ clients'[pos] = fd
        BY <1>3, <2>2, <3>1, <3>2, <3>3
      <4> QED BY <2>4, <4>1
    <3>4. CASE k # Len(clients)
      <4>1. k \in pos..(Len(clients) - 1) /\ k \in 1..(Len(clients) - 1)
        BY <1>3, <3>1, <3>4
      <4>2. clients'[k] = fd
        BY <2>2, <3>1, <3>2, <4>1
      <4> QED BY <2>4, <4>1, <4>2
    <3> QED BY <3>3, <3>4
  <2> QED BY <1>5, <2>3, <2>5, <2>6
<1> QED BY <1>6, <1>7

(* Every step of NetServer is a step of the feed, or does not show there. *)
LEMMA StepSimulates == Inv /\ [Next]_netVars => [Feed!Next]_(Feed!feedVars)
<1> SUFFICES ASSUME Inv, Inv', [Next]_netVars  PROVE [Feed!Next]_(Feed!feedVars)
  BY InvStep
<1> DEFINE Stutter == ClientSet' = ClientSet /\ DueClients' = DueClients
<1>a. Stutter => [Feed!Next]_(Feed!feedVars)
  BY DEF Feed!feedVars, DueClients
<1>b. ASSUME NEW s \in Fd, s \notin ClientSet, ClientSet' = ClientSet \cup {s},
             DueClients = {}, DueClients' = {}
      PROVE  Feed!Next
  BY <1>b DEF Feed!Next, Feed!Join, DueClients
<1>c. ASSUME ClientSet' = {}, DueClients = {}, DueClients' = {}
      PROVE  Feed!Next
  BY <1>c DEF Feed!Next, Feed!Disband, DueClients
<1>d. ASSUME ClientSet' = ClientSet, DueClients = {}, DueClients' = ClientSet
      PROVE  Feed!Next
  BY <1>d DEF Feed!Next, Feed!Publish, DueClients
<1>e. ASSUME NEW s \in Fd, s \in DueClients, DueClients' = DueClients \ {s},
             ClientSet' \in {ClientSet, ClientSet \ {s}}
      PROVE  Feed!Next
  BY <1>e DEF Feed!Next, Feed!Serve, DueClients
<1>0. /\ phase # "broadcast" => DueClients = {}
      /\ phase' # "broadcast" => DueClients' = {}
  BY DueFacts DEF Inv, DueClients
<1>1. ASSUME UNCHANGED clients, phase # "broadcast", phase' # "broadcast"  PROVE Stutter
  BY <1>0, <1>1 DEF ClientSet
<1>2. CASE NetInit \/ NetAccept \/ AcceptReturns \/ AcceptFails
  BY <1>2, <1>1, <1>a DEF NetInit, NetAccept, OpenListener, OpenListenerFails, AcceptReturns,
                          AcceptFails, netState
<1>3. CASE AcceptClient
  <2>1. phase # "broadcast" /\ phase' # "broadcast"
    BY <1>3 DEF AcceptClient
  <2>2. PICK fd \in Fd \ OpenFds : clients' = Append(clients, fd) \/ clients' = clients
    BY <1>3 DEF AcceptClient
  <2>3. CASE clients' = clients
    BY <1>1, <1>a, <2>1, <2>3
  <2>4. CASE clients' = Append(clients, fd)
    <3>1. fd \notin ClientSet
      BY <2>2 DEF Inv, DescriptorsAccounted
    <3>2. ClientSet' = ClientSet \cup {fd}
      <4>1. /\ clients \in Seq(Fd) /\ Len(clients) \in Nat
            /\ Len(clients') = Len(clients) + 1
            /\ \A k \in 1..Len(clients') : clients'[k] = IF k <= Len(clients) THEN clients[k] ELSE fd
        BY <2>2, <2>4, LenProperties DEF Inv, TypeOK
      <4>2. ASSUME NEW k \in 1..Len(clients)  PROVE clients[k] \in ClientSet'
        BY <4>1, <4>2 DEF ClientSet
      <4>3. fd \in ClientSet'
        <5>1. Len(clients) + 1 \in 1..Len(clients') /\ clients'[Len(clients) + 1] = fd
          BY <4>1
        <5> QED BY <5>1 DEF ClientSet
      <4>4. ASSUME NEW k \in 1..Len(clients')  PROVE clients'[k] \in ClientSet \cup {fd}
        BY <4>1 DEF ClientSet
      <4> QED BY <4>2, <4>3, <4>4 DEF ClientSet
    <3> QED BY <1>0, <1>b, <2>1, <3>1, <3>2
  <2> QED BY <2>2, <2>3, <2>4
<1>4. CASE NetBroadcast
  <2>1. phase = "idle" /\ phase' = "broadcast" /\ UNCHANGED <<clients, pos>> /\ pos = 1
    BY <1>4 DEF NetBroadcast, netState, Inv, TypeOK
  <2>2. DueClients' = ClientSet /\ ClientSet' = ClientSet
    BY <2>1 DEF DueClients, ClientSet
  <2> QED BY <1>0, <1>d, <2>1, <2>2
<1>5. CASE SendOne
  BY <1>5, <1>e, SendServes
<1>6. CASE BroadcastReturns
  <2>1. pos > Len(clients) /\ phase' = "idle" /\ UNCHANGED clients
    BY <1>6 DEF BroadcastReturns, netState
  <2>2. Stutter
    BY <1>0, <2>1, DueFacts DEF Inv, ClientSet
  <2> QED BY <1>a, <2>2
<1>7. CASE NetReset \/ NetExit
  <2>1. phase # "broadcast" /\ phase' # "broadcast" /\ clients' = <<>>
    BY <1>7 DEF NetReset, NetExit, CloseAll
  <2>2. ClientSet' = {}
    BY <2>1 DEF ClientSet
  <2> QED BY <1>0, <1>c, <2>1, <2>2
<1>8. CASE World \/ UNCHANGED netVars
  <2>1. UNCHANGED <<clients, phase, pos>>
    BY <1>8 DEF World, PeerConnects, PeerGivesUp, NetworkChanges, Elapse, netVars, netState
  <2>2. Stutter
    BY <2>1 DEF ClientSet, DueClients
  <2> QED BY <1>a, <2>2
<1> QED
  BY <1>2, <1>3, <1>4, <1>5, <1>6, <1>7, <1>8 DEF Next, Calls, AcceptLoop, BroadcastLoop

(* net.cpp implements the abstract feed: whatever the client array does to *)
(* its order, seen as a set of subscribers it serves each one once.        *)
THEOREM RefinesFeed == Spec => FeedSafety
<1>1. Init => Feed!Init
  <2>1. Init => DueClients = {} /\ ClientSet = {}
    BY DEF Init, DueClients, ClientSet
  <2> QED BY <2>1 DEF Feed!Init, DueClients
<1> QED BY <1>1, StepSimulates, InvHolds, PTL DEF Spec, FeedSafety
=============================================================================
