------------------------------- MODULE Viewer -------------------------------
(***************************************************************************)
(* viewer/threeinput.py and viewer/cli.py: the receiver thread that cuts   *)
(* the TCP stream into packets, the bounded queue, and the user's thread   *)
(* that takes packets out of it until the connection or the user ends it.  *)
(* The stream may begin with Junk: what a receiver out of sync would see.  *)
(* A packet here is magic, version, frame counter and the bytes of Data.   *)
(***************************************************************************)
EXTENDS Integers, Sequences, FiniteSetsExt, SequencesExt

CONSTANTS
  MaxPackets,     \* bound on the packets the console sends
  MaxLen,         \* maxlen of the queue
  Chunks,         \* how much a recv may return
  Junk,           \* what may precede the first packet
  Data,           \* what may follow a packet's header
  RestLen         \* the length of every element of Data

I == 73  \* the codes of 'I' and '3'
Three == 51
VERSION == 4
Size == 4 + RestLen    \* PACKET.size

ASSUME ViewerAssumption ==
  /\ MaxPackets \in Nat /\ MaxLen \in Nat \ {0} /\ Chunks \subseteq Nat \ {0}
  /\ Junk \subseteq Seq(Nat) /\ Data \subseteq Seq(Nat)
  /\ RestLen \in Nat /\ \A d \in Data : Len(d) = RestLen

VARIABLES
  junk, wire,        \* history: the stream's prefix, and all that followed it
  inflight,          \* bytes the socket has not delivered
  closed,            \* the console closed the connection
  net, buf,          \* netMain: its step, and the bytes not yet decoded
  inputs,            \* the deque
  keepGoing,
  ui,                \* the step of the user's thread
  interrupted,
  decoded            \* history: packets queued

vars == <<junk, wire, inflight, closed, net, buf, inputs, keepGoing, ui, interrupted,
          decoded>>
netVars == <<net, buf, inputs, decoded>>
uiVars == <<ui, interrupted>>
wireVars == <<junk, wire, inflight, closed>>

Init ==
  /\ junk \in Junk /\ wire = <<>> /\ inflight = junk /\ closed = FALSE
  /\ net = "loop" /\ buf = <<>> /\ inputs = <<>> /\ keepGoing = TRUE
  /\ ui = "new" /\ interrupted = FALSE
  /\ decoded = <<>>

-----------------------------------------------------------------------------
\* The console: whole packets, the last one possibly cut, then the end.
Sent == (Len(wire) + Size - 1) \div Size
Packet(d) == <<I, Three, VERSION, Sent + 1>> \o d

ConsoleSends ==
  /\ ~closed /\ Sent < MaxPackets
  /\ \E d \in Data :
       /\ wire' = wire \o Packet(d) /\ inflight' = inflight \o Packet(d)
       /\ UNCHANGED closed
  /\ UNCHANGED <<junk, netVars, uiVars, keepGoing>>

ConsoleCloses ==
  /\ ~closed /\ closed' = TRUE
  /\ \/ UNCHANGED <<wire, inflight>>
     \/ /\ Sent < MaxPackets
        /\ \E d \in Data, n \in 1..(Size - 1) :
             LET part == SubSeq(Packet(d), 1, n)
             IN  wire' = wire \o part /\ inflight' = inflight \o part
  /\ UNCHANGED <<junk, netVars, uiVars, keepGoing>>

-----------------------------------------------------------------------------
\* netMain.
NetLoop ==
  /\ net = "loop"
  /\ net' = IF keepGoing THEN "recv" ELSE "closing"
  /\ UNCHANGED <<wireVars, uiVars, buf, inputs, decoded, keepGoing>>

\* recv gives up after the timeout set in connect().  Otherwise it returns
\* data, or the end of the stream; a reset may come before the data is read.
TimesOut == inflight = <<>> /\ ~closed

Recv ==
  /\ net = "recv"
  /\ \/ \E n \in Chunks :
          /\ n <= Len(inflight)
          /\ buf' = buf \o SubSeq(inflight, 1, n)
          /\ inflight' = SubSeq(inflight, n + 1, Len(inflight))
          /\ net' = "decode"
     \/ TimesOut /\ net' = "loop" /\ UNCHANGED <<buf, inflight>>
     \/ closed /\ net' = "closing" /\ UNCHANGED <<buf, inflight>>
  /\ UNCHANGED <<junk, wire, closed, uiVars, inputs, decoded, keepGoing>>

\* Mutant of PacketBuffered: > for >=.
MoreThanPacketBuffered == Len(buf) > Size
PacketBuffered == Len(buf) >= Size

MagicAt(k) == k < Len(buf) /\ buf[k] = I /\ buf[k + 1] = Three

\* parse_packet raises for another header than this one.
Parses(p) == p[1] = I /\ p[2] = Three /\ p[3] = VERSION

LaterMagic == {k \in 2..Len(buf) : MagicAt(k)}

\* Mutant of Resynced: a whole packet's worth of bytes is skipped.
SkipsPacket == SubSeq(buf, Size + 1, Len(buf))

\* Skip to the next magic; a last byte may be half of one.
Resynced ==
  SubSeq(buf, IF LaterMagic # {} THEN Min(LaterMagic) ELSE Len(buf), Len(buf))

\* Mutant of Appended: a full queue drops the new packet.
AppendedIfRoom(p) == IF Len(inputs) < MaxLen THEN Append(inputs, p) ELSE inputs

\* deque(maxlen=...): a full queue drops its oldest packet.
Appended(p) == IF Len(inputs) < MaxLen THEN Append(inputs, p) ELSE Append(Tail(inputs), p)

Decode ==
  /\ net = "decode"
  /\ \/ ~PacketBuffered /\ net' = "loop" /\ UNCHANGED <<buf, inputs, decoded>>
     \/ /\ PacketBuffered /\ ~MagicAt(1)
        /\ buf' = Resynced
        /\ UNCHANGED <<net, inputs, decoded>>
     \/ /\ PacketBuffered /\ MagicAt(1)
        /\ buf' = SubSeq(buf, Size + 1, Len(buf))
        /\ LET p == SubSeq(buf, 1, Size)
           IN  IF Parses(p) THEN inputs' = Appended(p) /\ decoded' = Append(decoded, p)
                            ELSE UNCHANGED <<inputs, decoded>>
        /\ UNCHANGED net
  /\ UNCHANGED <<wireVars, uiVars, keepGoing>>

\* Mutant of GoingAfterNet: netMain does not tell the other thread.
GoingUnchanged == keepGoing

\* netMain leaves keepGoing false for the other thread to see.
GoingAfterNet == FALSE

NetEnds ==
  /\ net = "closing" /\ net' = "exited"
  /\ keepGoing' = GoingAfterNet
  /\ UNCHANGED <<wireVars, uiVars, buf, inputs, decoded>>

-----------------------------------------------------------------------------
\* cli.py's main: test keepGoing, hasInput, getInput, and the finally block.
EnterTry ==
  /\ ui = "new" /\ ui' = "check"
  /\ UNCHANGED <<wireVars, netVars, keepGoing, interrupted>>

Check ==
  /\ ui = "check"
  /\ ui' = IF keepGoing THEN "has" ELSE "stop"
  /\ UNCHANGED <<wireVars, netVars, keepGoing, interrupted>>

\* Mutant of HasInput: >= for >.
HasAnything == Len(inputs) >= 0
HasInput == Len(inputs) > 0

Has ==
  /\ ui = "has"
  /\ ui' = IF HasInput THEN "get" ELSE "check"
  /\ UNCHANGED <<wireVars, netVars, keepGoing, interrupted>>

\* popleft raises on an empty deque, and the finally block runs.
Get ==
  /\ ui = "get"
  /\ IF inputs = <<>>
     THEN ui' = "raised" /\ UNCHANGED inputs
     ELSE ui' = "check" /\ inputs' = Tail(inputs)
  /\ UNCHANGED <<wireVars, net, buf, decoded, keepGoing, interrupted>>

\* Ctrl-C: in the loop it leads to the finally block; before the try and in that
\* block it ends main, and the interpreter waits for netThread.
Interrupt ==
  /\ \/ ui \in {"check", "has", "get"} /\ ui' = "stop"
     \/ ui \in {"new", "raised", "stop", "join"} /\ ui' = "unwound"
  /\ interrupted' = TRUE
  /\ UNCHANGED <<wireVars, netVars, keepGoing>>

Stop ==
  /\ ui \in {"stop", "raised"}
  /\ keepGoing' = FALSE
  /\ ui' = "join"
  /\ UNCHANGED <<wireVars, netVars, interrupted>>

Join ==
  /\ ui \in {"join", "unwound"} /\ net = "exited"
  /\ ui' = "done"
  /\ UNCHANGED <<wireVars, netVars, keepGoing, interrupted>>

Finished == ui = "done" /\ UNCHANGED vars

Console == ConsoleSends \/ ConsoleCloses
NetMain == NetLoop \/ Recv \/ Decode \/ NetEnds
Main == EnterTry \/ Check \/ Has \/ Get \/ Stop \/ Join
Next == Console \/ NetMain \/ Main \/ Interrupt \/ Finished

Spec == Init /\ [][Next]_vars

\* Both threads are scheduled; neither the console nor the user has to act.
FairSpec == Spec /\ WF_vars(NetMain) /\ WF_vars(Main)

-----------------------------------------------------------------------------
(* In a stream of whole packets none is lost, repeated or cut elsewhere,   *)
(* however recv splits it and whatever the payload looks like; no whole    *)
(* packet stays behind when netMain goes back to recv.                     *)
DecodesExactly ==
  junk = <<>> =>
    /\ FlattenSeq(decoded) \o buf \o inflight = wire
    /\ net \in {"loop", "recv"} => Len(buf) < Size

(* A receiver that starts out of sync loses at most one packet more than   *)
(* it has to, when no payload looks like the magic (README: "Scan for it   *)
(* to resync").                                                            *)
ResyncsSoon ==
  net = "loop" /\ (\A k \in 1..Len(wire) : wire[k] = I => k % Size = 1) =>
    Len(decoded) + 1 >= (Len(wire) - Len(inflight)) \div Size

(* What the user's thread relies on: the deque loses its oldest packets    *)
(* only and keeps their order, and after stop() netMain exits by itself,   *)
(* whatever the console does.                                              *)
Promised ==
  INSTANCE Conn WITH running <- (net # "exited"),
                     newest <- (IF decoded = <<>> THEN <<>> ELSE Last(decoded))
ImplementsConn == Promised!Spec

\* ... and its safety part, which is proved for every instance.
ConnSafety == Promised!Init /\ [][Promised!Next]_(Promised!conn)

(* Between hasInput and getInput the receiver appends and drops, but the   *)
(* deque never becomes empty: popleft does not raise.                      *)
NeverRaises == ui # "raised"

(* The program ends after the console closed the connection, and after     *)
(* Ctrl-C even if the console goes silent: both threads finish.  Not so if *)
(* Ctrl-C comes before the try, or again before stop(): then nothing tells *)
(* netMain to end, and the program waits for the console.                  *)
Ends ==
  /\ closed ~> (ui = "done" /\ net = "exited")
  /\ interrupted ~> \/ ui = "done" /\ net = "exited"
                    \/ ui = "unwound" /\ keepGoing
=============================================================================
