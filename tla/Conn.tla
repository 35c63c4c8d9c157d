------------------------------- MODULE Conn --------------------------------
(***************************************************************************)
(* What the viewer's Conn promises to a program that uses it: a queue of   *)
(* at most MaxLen packets that loses its oldest when full, and a thread    *)
(* that ends by itself or soon after stop(), leaving keepGoing false.      *)
(* Viewer, which has the stream's bytes, implements it.                    *)
(***************************************************************************)
EXTENDS Naturals, Sequences

CONSTANT MaxLen     \* maxlen of the queue
ConnAssumption == MaxLen \in Nat \ {0}

VARIABLES
  inputs, keepGoing,
  running,           \* netThread has not exited
  newest             \* history: the packet received last

conn == <<inputs, keepGoing, running, newest>>

Init == inputs = <<>> /\ keepGoing = TRUE /\ running = TRUE /\ newest = <<>>

\* Mutant of Appended: a full queue drops the new packet.
AppendedIfRoom(p) == IF Len(inputs) < MaxLen THEN Append(inputs, p) ELSE inputs
Appended(p) == IF Len(inputs) < MaxLen THEN Append(inputs, p) ELSE Append(Tail(inputs), p)

Receive(p) ==
  /\ running
  /\ inputs' = Appended(p) /\ newest' = p
  /\ UNCHANGED <<keepGoing, running>>

NetEnds ==
  /\ running /\ running' = FALSE
  /\ keepGoing' = FALSE
  /\ UNCHANGED <<inputs, newest>>

HasInput == Len(inputs) > 0

\* popleft: whether there is a packet is for the caller to know.
GetInput ==
  /\ inputs' = Tail(inputs)
  /\ UNCHANGED <<keepGoing, running, newest>>

Stop == keepGoing' = FALSE /\ UNCHANGED <<inputs, running, newest>>

Next == Receive(newest') \/ NetEnds \/ (HasInput /\ GetInput) \/ Stop

StopsSoon == ~keepGoing ~> ~running

Spec == Init /\ [][Next]_conn /\ StopsSoon
=============================================================================
