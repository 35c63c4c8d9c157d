---------------------------- MODULE ViewerProofs ----------------------------
(***************************************************************************)
(* Viewer for streams, payloads, chunks and queues of any size: the        *)
(* decoder loses nothing of a stream of packets and soon catches up with   *)
(* one it joined in the middle, popleft never meets an empty deque, and    *)
(* the deque is the one Conn promises.  That netThread ends soon after     *)
(* stop() is left to TLC.                                                  *)
(***************************************************************************)
EXTENDS Viewer, SequenceTheorems, WellFoundedInduction, TLAPS

-----------------------------------------------------------------------------
(* Sequences: what FlattenSeq's recursion computes, and brackets. *)

\* Every set of naturals but the empty one has a least element; so what holds
\* of 0 and of each successor holds of all of them.
LEMMA LeastElement ==
  ASSUME NEW T \in SUBSET Nat, T # {}
  PROVE  \E m \in T : \A n \in T : m <= n
<1> DEFINE R == OpToRel(<, Nat)
<1>1. IsWellFoundedOn(R, Nat)
  BY NatLessThanWellFounded
<1>2. \A x, y \in Nat : <<x, y>> \in R <=> x < y
  BY DEF OpToRel
<1> HIDE DEF R
<1>3. PICK m \in T : \A n \in T : ~(<<n, m>> \in R)
  BY <1>1, WFMin
<1>4. m \in Nat /\ \A n \in T : n \in Nat
  OBVIOUS
<1>5. \A n \in T : ~(n < m)
  BY <1>2, <1>3, <1>4
<1> QED BY <1>4, <1>5

\* Induction, for a set: no predicate is passed as a parameter.
LEMMA SetInduction ==
  ASSUME NEW T, 0 \in T, \A n \in Nat : n \in T => n + 1 \in T
  PROVE  Nat \subseteq T
<1> SUFFICES ASSUME Nat \ T # {} PROVE FALSE
  OBVIOUS
<1>1. PICK m \in Nat \ T : \A n \in Nat \ T : m <= n
  BY LeastElement
<1>2. m # 0 /\ m - 1 \in Nat
  BY <1>1
<1>3. m - 1 \in T
  BY <1>1, <1>2
<1> QED BY <1>1, <1>2, <1>3

\* f is the function FlattenSeq builds for the first n elements of ss.
Flattens(f, ss, n) ==
  /\ f = [i \in 1..n |-> f[i]]
  /\ \A i \in 1..n : f[i] = IF i = 1 THEN ss[i] ELSE f[i - 1] \o ss[i]

\* The recursion can be solved for every length.
LEMMA FlattenExists ==
  ASSUME NEW ss, NEW N \in Nat
  PROVE  \E f : Flattens(f, ss, N)
<1> DEFINE T == {n \in Nat : \E f : Flattens(f, ss, n)}
<1>1. 0 \in T
  <2>1. Flattens([i \in 1..0 |-> 0], ss, 0)
    BY DEF Flattens
  <2> QED BY <2>1
<1>2. ASSUME NEW n \in Nat, n \in T PROVE n + 1 \in T
  <2>1. PICK f : Flattens(f, ss, n)
    BY <1>2
  <2>0. PICK v : v = IF n = 0 THEN ss[1] ELSE f[n] \o ss[n + 1]
    OBVIOUS
  <2>2. PICK g : g = [i \in 1..(n + 1) |-> IF i = n + 1 THEN v ELSE f[i]]
    OBVIOUS
  <2>3. \A i \in 1..(n + 1) : g[i] = IF i = n + 1 THEN v ELSE f[i]
    BY <2>2
  <2>4. g = [i \in 1..(n + 1) |-> g[i]]
    BY <2>2
  <2>5. ASSUME NEW i \in 1..(n + 1) PROVE g[i] = IF i = 1 THEN ss[i] ELSE g[i - 1] \o ss[i]
    <3>1. CASE i = n + 1 /\ i = 1
      BY <2>0, <2>3, <3>1
    <3>2. CASE i = n + 1 /\ i # 1
      <4>1. n # 0 /\ n \in 1..(n + 1) /\ i - 1 = n
        BY <3>2
      <4>2. g[i] = v /\ g[n] = f[n]
        BY <2>3, <3>2, <4>1
      <4> QED BY <2>0, <3>2, <4>1, <4>2
    <3>3. CASE i # n + 1
      <4>1. i \in 1..n /\ g[i] = f[i] /\ (i # 1 => i - 1 \in 1..(n + 1) /\ i - 1 # n + 1)
        BY <2>3, <3>3
      <4> QED BY <2>1, <2>3, <4>1 DEF Flattens
    <3> QED BY <3>1, <3>2, <3>3
  <2>6. Flattens(g, ss, n + 1)
    BY <2>4, <2>5 DEF Flattens
  <2> QED BY <2>6
<1> HIDE DEF T
<1>3. N \in T
  BY <1>1, <1>2, SetInduction
<1> QED BY <1>3 DEF T

\* Two solutions agree as far as both go.
LEMMA FlattenAgrees ==
  ASSUME NEW ss, NEW n \in Nat, NEW m \in Nat, n <= m,
         NEW f, Flattens(f, ss, n), NEW g, Flattens(g, ss, m)
  PROVE  \A i \in 1..n : f[i] = g[i]
<1> DEFINE T == {i \in Nat : i \in 1..n => f[i] = g[i]}
<1>1. 0 \in T
  OBVIOUS
<1>2. ASSUME NEW i \in Nat, i \in T PROVE i + 1 \in T
  <2> SUFFICES ASSUME i + 1 \in 1..n PROVE f[i + 1] = g[i + 1]
    OBVIOUS
  <2>0. (i + 1) - 1 = i /\ i + 1 \in 1..m
    OBVIOUS
  <2>1. /\ f[i + 1] = IF i + 1 = 1 THEN ss[i + 1] ELSE f[(i + 1) - 1] \o ss[i + 1]
        /\ g[i + 1] = IF i + 1 = 1 THEN ss[i + 1] ELSE g[(i + 1) - 1] \o ss[i + 1]
    BY <2>0, Zenon DEF Flattens
  <2>2. i + 1 # 1 => f[i] = g[i]
    BY <1>2
  <2> QED BY <2>0, <2>1, <2>2, Zenon
<1> HIDE DEF T
<1>3. \A i \in Nat : i \in T
  BY <1>1, <1>2, SetInduction
<1> QED BY <1>3 DEF T

\* FlattenSeq, which chooses a solution, takes the last value of one.
LEMMA FlattenedBy ==
  ASSUME NEW ss, Len(ss) \in Nat, Len(ss) # 0
  PROVE  \E f : Flattens(f, ss, Len(ss)) /\ FlattenSeq(ss) = f[Len(ss)]
<1> DEFINE Def(f) == f = [i \in 1..Len(ss) |-> IF i = 1 THEN ss[i] ELSE f[i - 1] \o ss[i]]
           flatten == CHOOSE f : Def(f)
<1>1. PICK g : Flattens(g, ss, Len(ss))
  BY FlattenExists
<1>2. PICK h : h = [i \in 1..Len(ss) |-> IF i = 1 THEN ss[i] ELSE g[i - 1] \o ss[i]]
  OBVIOUS
<1>3. \A i \in 1..Len(ss) : h[i] = g[i]
  BY <1>1, <1>2 DEF Flattens
<1>4. h = [i \in 1..Len(ss) |-> g[i]]
  BY <1>2, <1>3
<1>5. h = g
  BY <1>1, <1>4 DEF Flattens
<1>6. Def(g)
  BY <1>2, <1>5
<1>7. Def(flatten)
  BY <1>6
<1>8. FlattenSeq(ss) = flatten[Len(ss)]
  BY DEF FlattenSeq
<1> HIDE DEF flatten
<1>9. Flattens(flatten, ss, Len(ss))
  <2>1. \A i \in 1..Len(ss) : flatten[i] = IF i = 1 THEN ss[i] ELSE flatten[i - 1] \o ss[i]
    BY <1>7
  <2>2. flatten = [i \in 1..Len(ss) |-> flatten[i]]
    BY <1>7
  <2> QED BY <2>1, <2>2 DEF Flattens
<1> QED BY <1>8, <1>9

\* One more packet adds its bytes at the end.
LEMMA FlattenAppend ==
  ASSUME NEW S, NEW ss \in Seq(Seq(S)), NEW p \in Seq(S), FlattenSeq(ss) \in Seq(S)
  PROVE  FlattenSeq(Append(ss, p)) = FlattenSeq(ss) \o p
<1> DEFINE tt == Append(ss, p)
<1>1. /\ Len(ss) \in Nat /\ Len(tt) = Len(ss) + 1 /\ tt[Len(ss) + 1] = p
      /\ \A i \in 1..Len(ss) : ss[i] = tt[i]
  OBVIOUS
<1> HIDE DEF tt
<1>2. PICK g : Flattens(g, tt, Len(tt)) /\ FlattenSeq(tt) = g[Len(tt)]
  BY <1>1, FlattenedBy
<1>3. CASE Len(ss) = 0
  <2>1. FlattenSeq(ss) = <<>>
    BY <1>3 DEF FlattenSeq
  <2>2. g[1] = p
    BY <1>1, <1>2, <1>3 DEF Flattens
  <2>3. <<>> \o p = p
    BY ConcatEmptySeq
  <2> QED BY <1>1, <1>2, <1>3, <2>1, <2>2, <2>3 DEF tt
<1>4. CASE Len(ss) # 0
  <2>1. PICK f : Flattens(f, ss, Len(ss)) /\ FlattenSeq(ss) = f[Len(ss)]
    BY <1>1, <1>4, FlattenedBy
  <2>2. /\ Len(ss) <= Len(tt) /\ Len(tt) \in Nat /\ Len(ss) \in 1..Len(ss)
        /\ Len(tt) \in 1..Len(tt) /\ Len(tt) # 1 /\ Len(tt) - 1 = Len(ss)
    BY <1>1, <1>4
  <2>3. \A i \in 1..Len(ss) : f[i] = g[i]
    <3>1. Flattens(f, tt, Len(ss)) /\ Flattens(g, tt, Len(tt))
      BY <1>1, <1>2, <2>1 DEF Flattens
    <3>2. Len(ss) \in Nat /\ Len(tt) \in Nat /\ Len(ss) <= Len(tt)
      BY <1>1, <2>2
    <3> QED BY <3>1, <3>2, FlattenAgrees
  <2>4. f[Len(ss)] = g[Len(ss)]
    BY <2>2, <2>3, Zenon
  <2>5. g[Len(tt)] = IF Len(tt) = 1 THEN tt[Len(tt)] ELSE g[Len(tt) - 1] \o tt[Len(tt)]
    BY <1>2, <2>2, Zenon DEF Flattens
  <2>6. g[Len(tt)] = g[Len(ss)] \o p
    BY <1>1, <2>2, <2>5, Zenon
  <2> QED BY <1>2, <2>1, <2>4, <2>6 DEF tt
<1> QED BY <1>3, <1>4

\* The bytes of two pieces of a stream put together.
LEMMA Cat ==
  ASSUME NEW s \in Seq(Nat), NEW t \in Seq(Nat)
  PROVE  /\ s \o t \in Seq(Nat) /\ Len(s) \in Nat /\ Len(t) \in Nat
         /\ Len(s \o t) = Len(s) + Len(t)
         /\ \A k \in 1..Len(s) : (s \o t)[k] = s[k]
         /\ \A k \in 1..Len(t) : (s \o t)[Len(s) + k] = t[k]
OBVIOUS

\* Brackets may be moved.
Associates(s, t, u) == (s \o t) \o u = s \o (t \o u)
Regroups(s, t, u, v) ==
  /\ (s \o (t \o u)) \o v = s \o (t \o (u \o v))
  /\ (s \o t) \o (u \o v) = s \o (t \o (u \o v))

\* ... for any three sequences of bytes,
LEMMA Associating ==
  \A s, t, u \in Seq(Nat) : Associates(s, t, u)
<1> TAKE s, t, u \in Seq(Nat)
<1> DEFINE left == (s \o t) \o u
           right == s \o (t \o u)
<1>1. /\ s \o t \in Seq(Nat) /\ Len(s \o t) = Len(s) + Len(t)
      /\ t \o u \in Seq(Nat) /\ Len(t \o u) = Len(t) + Len(u)
      /\ left \in Seq(Nat) /\ Len(left) = Len(s) + Len(t) + Len(u)
      /\ right \in Seq(Nat) /\ Len(right) = Len(s) + Len(t) + Len(u)
  OBVIOUS
<1>2. ASSUME NEW i \in 1..Len(left) PROVE left[i] = right[i]
  <2>1. CASE i <= Len(s)
    BY <1>1, <2>1
  <2>2. CASE i > Len(s) /\ i <= Len(s) + Len(t)
    BY <1>1, <2>2
  <2>3. CASE i > Len(s) + Len(t)
    BY <1>1, <2>3
  <2> QED BY <1>1, <2>1, <2>2, <2>3
<1> HIDE DEF left, right
<1>3. left = right
  BY <1>1, <1>2, SeqEqual
<1> QED BY <1>3 DEF Associates, left, right

\* ... and for any four.
LEMMA Regrouping ==
  \A s, t, u, v \in Seq(Nat) : Regroups(s, t, u, v)
<1> TAKE s, t, u, v \in Seq(Nat)
<1>1. PICK tu \in Seq(Nat), uv \in Seq(Nat) : tu = t \o u /\ uv = u \o v
  BY Cat
<1>2. Associates(s, tu, v) /\ Associates(t, u, v) /\ Associates(s, t, uv)
  BY Associating
<1> QED BY <1>1, <1>2, Zenon DEF Associates, Regroups

\* A sequence cut behind its first n elements.
LEMMA Cut ==
  ASSUME NEW s \in Seq(Nat), NEW n \in 0..Len(s)
  PROVE  /\ SubSeq(s, 1, n) \in Seq(Nat) /\ Len(SubSeq(s, 1, n)) = n
         /\ SubSeq(s, n + 1, Len(s)) \in Seq(Nat) /\ Len(SubSeq(s, n + 1, Len(s))) = Len(s) - n
         /\ s = SubSeq(s, 1, n) \o SubSeq(s, n + 1, Len(s))
         /\ \A k \in 1..n : SubSeq(s, 1, n)[k] = s[k]
<1>1. Len(s) \in Nat /\ \A k \in 1..Len(s) : s[k] \in Nat
  OBVIOUS
<1>2. /\ SubSeq(s, 1, n) \in Seq(Nat) /\ Len(SubSeq(s, 1, n)) = n
      /\ \A k \in 1..n : SubSeq(s, 1, n)[k] = s[k]
  OBVIOUS
<1>3. /\ SubSeq(s, n + 1, Len(s)) \in Seq(Nat)
      /\ Len(SubSeq(s, n + 1, Len(s))) = IF n + 1 <= Len(s) THEN Len(s) - (n + 1) + 1 ELSE 0
  <2>1. n + 1 \in Int /\ Len(s) \in Int /\ \A k \in (n + 1)..Len(s) : s[k] \in Nat
    BY <1>1
  <2> QED BY <2>1, SubSeqProperties
<1>4. s = SubSeq(s, 1, n) \o SubSeq(s, n + 1, Len(s))
  <2>1. 1 \in 1..(Len(s) + 1) /\ n \in (1 - 1)..Len(s) /\ Len(s) \in n..Len(s)
    BY <1>1
  <2>2. SubSeq(s, 1, n) \o SubSeq(s, n + 1, Len(s)) = SubSeq(s, 1, Len(s))
    BY <2>1, ConcatAdjacentSubSeq
  <2> QED BY <2>2, SubSeqFull
<1>5. Len(SubSeq(s, n + 1, Len(s))) = Len(s) - n
  BY <1>1, <1>3
<1> QED BY <1>2, <1>3, <1>4, <1>5, Zenon

-----------------------------------------------------------------------------
(* The queue. *)

\* A sequence, whatever its elements are.
IsSequence(s) == \E S : s \in Seq(S)

\* Between hasInput and getInput nobody else takes packets out of the deque.
IInv ==
  /\ IsSequence(inputs) /\ IsSequence(decoded)
  /\ ui = "get" => Len(inputs) > 0
  /\ ui # "raised"

-----------------------------------------------------------------------------
\* What Append makes of a sequence of anything.
LEMMA Appending ==
  ASSUME NEW s, IsSequence(s), NEW p
  PROVE  /\ IsSequence(Append(s, p)) /\ Len(s) \in Nat
         /\ Len(Append(s, p)) = Len(s) + 1
         /\ Append(s, p) # <<>> /\ Last(Append(s, p)) = p
<1>1. PICK S : s \in Seq(S)
  BY DEF IsSequence
<1>2. s \in Seq(S \cup {p})
  BY <1>1
<1>3. /\ Append(s, p) \in Seq(S \cup {p}) /\ Len(s) \in Nat
      /\ Len(Append(s, p)) = Len(s) + 1 /\ Append(s, p)[Len(s) + 1] = p
  BY <1>2
<1> QED BY <1>3 DEF IsSequence, Last

\* What popleft leaves of a deque that is not empty.
LEMMA TakingOne ==
  ASSUME NEW s, IsSequence(s), s # <<>>
  PROVE  Len(s) > 0 /\ IsSequence(Tail(s)) /\ Len(Tail(s)) = Len(s) - 1
<1>1. PICK S : s \in Seq(S)
  BY DEF IsSequence
<1>2. Len(s) \in Nat /\ Len(s) > 0
  BY <1>1
<1>3. Tail(s) \in Seq(S) /\ Len(Tail(s)) = Len(s) - 1
  BY <1>1, <1>2
<1> QED BY <1>2, <1>3 DEF IsSequence

\* A full queue loses its oldest packet, but is not empty for it.
LEMMA QueueGrows ==
  ASSUME IsSequence(inputs), NEW p
  PROVE  IsSequence(Appended(p)) /\ Len(Appended(p)) > 0
<1>1. Len(inputs) \in Nat
  BY Appending
<1>2. CASE Len(inputs) < MaxLen
  BY <1>1, <1>2, Appending DEF Appended
<1>3. CASE ~(Len(inputs) < MaxLen)
  <2>1. inputs # <<>>
    BY <1>3, ViewerAssumption
  <2>2. IsSequence(Tail(inputs))
    BY <2>1, TakingOne
  <2>3. IsSequence(Append(Tail(inputs), p)) /\ Len(Append(Tail(inputs), p)) > 0
    BY <2>2, Appending
  <2> QED BY <1>3, <2>3 DEF Appended
<1> QED BY <1>2, <1>3

-----------------------------------------------------------------------------
\* Both threads start with an empty deque.
LEMMA InitInv == Init => IInv
<1>1. <<>> \in Seq({})
  OBVIOUS
<1> QED BY <1>1 DEF Init, IInv, IsSequence

\* Each step, and what Conn sees of it.
LEMMA StepImplements ==
  ASSUME IInv, [Next]_vars
  PROVE  IInv' /\ [Promised!Next]_(Promised!conn)
<1> USE DEF IInv
<1>0. ASSUME UNCHANGED <<inputs, decoded, keepGoing>>, (net' = "exited") = (net = "exited")
      PROVE  UNCHANGED Promised!conn
  BY <1>0 DEF Promised!conn
<1>1. CASE Decode
  <2>1. net = "decode" /\ net' # "exited" /\ UNCHANGED <<uiVars, keepGoing>>
    BY <1>1 DEF Decode
  <2>2. CASE UNCHANGED <<inputs, decoded>>
    BY <1>0, <2>1, <2>2 DEF uiVars
  <2>3. CASE ~UNCHANGED <<inputs, decoded>>
    <3>1. PICK p : inputs' = Appended(p) /\ decoded' = Append(decoded, p)
      BY <1>1, <2>3 DEF Decode
    <3>2. IsSequence(inputs') /\ IsSequence(decoded') /\ Len(inputs') > 0
      BY <3>1, QueueGrows, Appending
    <3>3. decoded' # <<>> /\ Last(decoded') = p
      BY <3>1, Appending
    <3>4. Promised!Next
      BY <2>1, <3>1, <3>3 DEF Promised!Next, Promised!Receive, Promised!Appended, Appended
    <3> QED BY <2>1, <3>2, <3>4 DEF uiVars
  <2> QED BY <2>2, <2>3
<1>2. CASE NetEnds
  <2>1. /\ net = "closing" /\ net' = "exited" /\ keepGoing' = FALSE
        /\ UNCHANGED <<ui, inputs, decoded>>
    BY <1>2 DEF NetEnds, GoingAfterNet, uiVars
  <2> QED BY <2>1 DEF Promised!Next, Promised!NetEnds
<1>3. CASE Has
  <2>1. UNCHANGED <<inputs, decoded, keepGoing, net>> /\ ui' \in {"get", "check"}
        /\ (ui' = "get" => Len(inputs) > 0)
    BY <1>3 DEF Has, HasInput, netVars
  <2> QED BY <1>0, <2>1
<1>4. CASE Get
  <2>1. ui = "get" /\ inputs # <<>> /\ Len(inputs) > 0
    BY <1>4, TakingOne DEF Get
  <2>2. ui' = "check" /\ inputs' = Tail(inputs) /\ UNCHANGED <<net, decoded, keepGoing>>
    BY <1>4, <2>1 DEF Get
  <2>3. IsSequence(inputs')
    BY <2>1, <2>2, TakingOne
  <2> QED BY <2>1, <2>2, <2>3 DEF Promised!Next, Promised!GetInput, Promised!HasInput
<1>5. CASE Stop
  <2>1. keepGoing' = FALSE /\ ui' = "join" /\ UNCHANGED <<inputs, decoded, net>>
    BY <1>5 DEF Stop, netVars
  <2> QED BY <2>1 DEF Promised!Next, Promised!Stop
<1>6. CASE NetLoop \/ Recv
  <2>1. UNCHANGED <<inputs, decoded, keepGoing, ui>> /\ net # "exited" /\ net' # "exited"
    BY <1>6 DEF NetLoop, Recv, uiVars
  <2> QED BY <1>0, <2>1
<1>7. CASE EnterTry \/ Check \/ Join \/ Interrupt
  <2>1. UNCHANGED <<inputs, decoded, keepGoing, net>> 
        /\ ui' \in {"check", "has", "stop", "unwound", "done"}
    BY <1>7 DEF EnterTry, Check, Join, Interrupt, netVars
  <2> QED BY <1>0, <2>1
<1>8. CASE Console \/ Finished \/ UNCHANGED vars
  <2>1. UNCHANGED <<inputs, decoded, keepGoing, net, ui>>
    BY <1>8 DEF Console, ConsoleSends, ConsoleCloses, Finished, vars, netVars, uiVars
  <2> QED BY <1>0, <2>1
<1> QED
  BY <1>1, <1>2, <1>3, <1>4, <1>5, <1>6, <1>7, <1>8 DEF Next, NetMain, Main

\* The invariant of the queue holds throughout.
LEMMA InvHolds == Spec => []IInv
BY InitInv, StepImplements, PTL DEF Spec

-----------------------------------------------------------------------------
(* getInput after hasInput does not raise, although netThread appends and  *)
(* drops packets in between.                                               *)
THEOREM PopleftNeverRaises == Spec => []NeverRaises
<1>1. IInv => NeverRaises
  BY DEF IInv, NeverRaises
<1> QED BY InvHolds, <1>1, PTL

(* threeinput.py implements the safety part of Conn: packets are dropped   *)
(* only at the old end of a full queue, taken in order, and keepGoing is   *)
(* false once netThread has ended.                                         *)
THEOREM RefinesConn == Spec => ConnSafety
<1>1. Init => Promised!Init
  BY DEF Init, Promised!Init
<1> QED BY InvHolds, StepImplements, <1>1, PTL DEF Spec, ConnSafety

-----------------------------------------------------------------------------
(* The stream. *)

\* junk and all that was sent after it: what recv delivers, in pieces.
Stream == junk \o wire

\* How many bytes netMain has taken out of buf, and the first ones of a packet.
Dropped == Len(Stream) - Len(buf) - Len(inflight)
Header == <<I, Three, VERSION>>

\* Bytes, and packets made of them.
StreamType ==
  /\ junk \in Seq(Nat) /\ wire \in Seq(Nat) /\ inflight \in Seq(Nat) /\ buf \in Seq(Nat)
  /\ decoded \in Seq(Seq(Nat)) /\ FlattenSeq(decoded) \in Seq(Nat)

\* What was not dropped is in buf and in flight, in the order it was sent.
InPlace == \E past \in Seq(Nat) : Stream = past \o (buf \o inflight)

\* Every Size bytes of w begin with the header, as far as w goes.
HeadersIn(w) ==
  \A q \in Nat, i \in 1..3 : q * Size + i <= Len(w) => w[q * Size + i] = Header[i]

\* The console sends whole packets; only the last may be cut, by the end.
Framed ==
  /\ HeadersIn(wire)
  /\ ~closed => \E q \in Nat : Len(wire) = q * Size

\* What ResyncsSoon assumes of the payloads.
NoFalseMagic == \A k \in 1..Len(wire) : wire[k] = I => k % Size = 1

\* netMain is still within the junk and the first packet, or between two
\* packets and has queued all but one of those it dropped.
InSync ==
  NoFalseMagic =>
    \/ Dropped < Len(junk) + Size
    \/ \E q \in Nat : Dropped = Len(junk) + q * Size /\ Len(decoded) + 1 >= q

\* A receiver that began with a packet has queued all it dropped.
NothingLost ==
  junk = <<>> =>
    /\ Dropped = Len(decoded) * Size
    /\ wire = FlattenSeq(decoded) \o (buf \o inflight)

\* No whole packet stays in buf while netMain waits for more.
Drained == net \in {"loop", "recv"} => Len(buf) < Size

\* The inductive invariant.  DecodesExactly needs Framed, to know that the magic
\* is where the last packet ended; ResyncsSoon needs InSync, since Len(decoded)
\* alone does not say where in the stream netMain is.
StreamInv == StreamType /\ InPlace /\ Framed /\ InSync /\ NothingLost /\ Drained

-----------------------------------------------------------------------------
\* A packet has room for its header, and multiples of its size are apart.
LEMMA SizeKnown ==
  /\ Size \in Nat /\ Size >= 4
  /\ \A q \in Nat : q * Size \in Nat /\ (q + 1) * Size = q * Size + Size
  /\ \A q, r \in Nat : q < r => q * Size + Size <= r * Size
<1>1. Size \in Nat /\ Size >= 4
  BY ViewerAssumption DEF Size
<1>2. \A z \in Nat : \A q \in Nat : q * z \in Nat /\ (q + 1) * z = q * z + z
  OBVIOUS
<1>3. \A z \in Nat : \A q, r \in Nat : q < r => q * z + z <= r * z
  <2> SUFFICES ASSUME NEW z \in Nat, NEW q \in Nat, NEW r \in Nat, q < r
               PROVE  q * z + z <= r * z
    OBVIOUS
  <2>1. PICK d \in Nat : r = (q + 1) + d
    <3>1. r - (q + 1) \in Nat /\ r = (q + 1) + (r - (q + 1))
      OBVIOUS
    <3> QED BY <3>1
  <2>2. r * z = (q * z + z) + d * z /\ d * z \in Nat /\ q * z \in Nat
    BY <2>1
  <2> QED BY <2>2
<1> QED BY <1>1, <1>2, <1>3

\* How many whole packets n bytes are, and which bytes begin one.
LEMMA WholePackets ==
  /\ \A q \in Int, r \in 0..(Size - 1) : (q * Size + r) \div Size = q
  /\ \A n \in Int : n < 2 * Size => n \div Size <= 1
  /\ \A k \in 1..Size : k % Size = 1 => k = 1
<1>1. Size \in Nat /\ Size >= 4
  BY SizeKnown
<1>2. \A z \in Nat : z >= 4 => \A q \in Int, r \in 0..(z - 1) : (q * z + r) \div z = q
  OBVIOUS
<1>3. \A z \in Nat : z >= 4 => \A n \in Int : n < 2 * z => n \div z <= 1
  OBVIOUS
<1>4. \A z \in Nat : z >= 4 => \A k \in 1..z : k % z = 1 => k = 1
  OBVIOUS
<1> QED BY <1>1, <1>2, <1>3, <1>4

\* The bytes of the buffer are those of the stream behind what was dropped;
\* the stream's are first those of junk, then the packets'.
LEMMA StreamBytes ==
  ASSUME StreamType, InPlace
  PROVE  /\ Len(junk) \in Nat /\ Len(wire) \in Nat /\ Len(buf) \in Nat
         /\ Len(inflight) \in Nat /\ Len(decoded) \in Nat /\ Dropped \in Nat
         /\ Dropped + Len(buf) + Len(inflight) = Len(junk) + Len(wire)
         /\ Stream \in Seq(Nat) /\ Len(Stream) = Len(junk) + Len(wire)
         /\ \A k \in 1..Len(wire) : Stream[Len(junk) + k] = wire[k]
         /\ \A k \in 1..Len(buf) : buf[k] = Stream[Dropped + k]
<1>1. /\ junk \in Seq(Nat) /\ wire \in Seq(Nat) /\ buf \in Seq(Nat) /\ inflight \in Seq(Nat)
      /\ Len(decoded) \in Nat
  BY DEF StreamType
<1>2. PICK past \in Seq(Nat) : Stream = past \o (buf \o inflight)
  BY DEF InPlace
<1>3. /\ Len(junk) \in Nat /\ Len(wire) \in Nat /\ Len(buf) \in Nat /\ Len(inflight) \in Nat
      /\ buf \o inflight \in Seq(Nat) /\ Len(buf \o inflight) = Len(buf) + Len(inflight)
      /\ \A k \in 1..Len(buf) : (buf \o inflight)[k] = buf[k]
  BY <1>1, Cat
<1>4. /\ Stream \in Seq(Nat) /\ Len(Stream) = Len(junk) + Len(wire)
      /\ \A k \in 1..Len(wire) : Stream[Len(junk) + k] = wire[k]
  BY <1>1, Cat DEF Stream
<1>5. /\ Len(Stream) = Len(past) + Len(buf \o inflight) /\ Len(past) \in Nat
      /\ \A k \in 1..Len(buf \o inflight) : Stream[Len(past) + k] = (buf \o inflight)[k]
  BY <1>2, <1>3, Cat
<1>6. Dropped = Len(past)
  BY <1>3, <1>5 DEF Dropped
<1>7. ASSUME NEW k \in 1..Len(buf) PROVE buf[k] = Stream[Dropped + k]
  <2>1. k \in 1..Len(buf \o inflight)
    BY <1>3
  <2> QED BY <1>3, <1>5, <1>6, <2>1
<1>8. Dropped \in Nat
  BY <1>5, <1>6
<1>9. Dropped + Len(buf) + Len(inflight) = Len(junk) + Len(wire)
  <2>1. Len(junk) + Len(wire) = Len(past) + (Len(buf) + Len(inflight))
    BY <1>3, <1>4, <1>5
  <2>2. Len(past) + Len(buf) + Len(inflight) = Len(past) + (Len(buf) + Len(inflight))
    BY <1>3, <1>5
  <2> QED BY <1>6, <2>1, <2>2, Zenon
<1> QED BY <1>1, <1>3, <1>4, <1>7, <1>8, <1>9, Zenon

\* Packets stay whole when one is added, or a part of it.
LEMMA HeadersGrow ==
  ASSUME NEW w \in Seq(Nat), HeadersIn(w), NEW n \in Nat, Len(w) = n * Size,
         NEW part \in Seq(Nat), Len(part) <= Size,
         \A i \in 1..3 : i <= Len(part) => part[i] = Header[i]
  PROVE  HeadersIn(w \o part)
<1> SUFFICES ASSUME NEW q \in Nat, NEW i \in 1..3, q * Size + i <= Len(w \o part)
             PROVE  (w \o part)[q * Size + i] = Header[i]
  BY DEF HeadersIn
<1>1. /\ Len(w) \in Nat /\ Len(part) \in Nat /\ Len(w \o part) = Len(w) + Len(part)
      /\ \A k \in 1..Len(w) : (w \o part)[k] = w[k]
      /\ \A k \in 1..Len(part) : (w \o part)[Len(w) + k] = part[k]
  BY Cat
<1>2. /\ q * Size \in Nat /\ n * Size \in Nat /\ Size \in Nat /\ Size >= 4
      /\ q < n => q * Size + Size <= n * Size
      /\ n < q => n * Size + Size <= q * Size
  BY SizeKnown
<1>3. i \in Nat /\ i > 0 /\ i < 4
  OBVIOUS
<1>4. PICK a \in Nat, b \in Nat, z \in Nat : a = q * Size /\ b = n * Size /\ z = Size
  BY <1>2
<1>5. /\ Len(w) = b /\ Len(part) <= z /\ a + i <= b + Len(part) /\ z >= 4
      /\ q < n => a + z <= b
      /\ n < q => b + z <= a
  BY <1>1, <1>2, <1>4
<1>6. ~(n < q) /\ (q < n => a + i \in 1..Len(w))
  BY <1>1, <1>3, <1>5
<1>7. q = n => i \in 1..Len(part) /\ a + i = Len(w) + i
  BY <1>1, <1>3, <1>4, <1>5
<1>8. CASE q < n
  <2>1. a + i \in 1..Len(w) /\ a + i <= Len(w)
    BY <1>1, <1>6, <1>8
  <2>2. w[q * Size + i] = Header[i]
    BY <1>4, <2>1 DEF HeadersIn
  <2>3. (w \o part)[a + i] = w[a + i]
    BY <1>1, <2>1
  <2> QED BY <1>4, <2>2, <2>3
<1>9. CASE q = n
  <2>1. i \in 1..Len(part) /\ a + i = Len(w) + i /\ i <= Len(part)
    BY <1>1, <1>3, <1>7, <1>9
  <2>2. (w \o part)[Len(w) + i] = part[i] /\ part[i] = Header[i]
    BY <1>1, <2>1
  <2> QED BY <1>4, <2>1, <2>2
<1>10. q < n \/ q = n
  BY <1>6
<1> QED BY <1>8, <1>9, <1>10

\* Nothing was received yet.
LEMMA InitStream == Init => StreamInv
<1> SUFFICES ASSUME Init PROVE StreamInv
  OBVIOUS
<1>1. /\ junk \in Seq(Nat) /\ wire = <<>> /\ inflight = junk /\ buf = <<>> /\ decoded = <<>>
      /\ <<>> \in Seq(Nat) /\ <<>> \in Seq(Seq(Nat)) /\ Len(<<>>) = 0 /\ net = "loop"
  BY ViewerAssumption, EmptySeq DEF Init
<1>2. FlattenSeq(decoded) = <<>>
  BY <1>1 DEF FlattenSeq
<1>3. StreamType
  BY <1>1, <1>2 DEF StreamType
<1>4. Size \in Nat /\ Size >= 4 /\ 0 * Size = 0 /\ \A q \in Nat : q * Size \in Nat
  BY SizeKnown
<1>5. <<>> \o junk = junk /\ junk \o <<>> = junk /\ Len(junk) \in Nat
  BY <1>1
<1>6. Stream = junk /\ Dropped = 0
  BY <1>1, <1>5 DEF Stream, Dropped
<1>7. InPlace
  BY <1>1, <1>5, <1>6 DEF InPlace
<1>8. Framed
  BY <1>1, <1>4 DEF Framed, HeadersIn
<1>9. InSync
  BY <1>4, <1>5, <1>6 DEF InSync
<1>10. NothingLost
  BY <1>1, <1>2, <1>4, <1>5, <1>6 DEF NothingLost
<1>11. Drained
  BY <1>1, <1>4 DEF Drained
<1> QED BY <1>3, <1>7, <1>8, <1>9, <1>10, <1>11 DEF StreamInv

\* The console adds a packet, or a part of its last one.
LEMMA StreamGrows ==
  ASSUME StreamInv, ~closed, NEW part \in Seq(Nat),
         Len(part) <= Size, ~closed' => Len(part) = Size,
         \A i \in 1..3 : i <= Len(part) => part[i] = Header[i],
         wire' = wire \o part, inflight' = inflight \o part,
         UNCHANGED <<junk, net, buf, decoded>>
  PROVE  StreamInv'
<1>1. StreamType /\ InPlace /\ Framed /\ InSync /\ NothingLost /\ Drained
  BY DEF StreamInv
<1>2. /\ junk \in Seq(Nat) /\ wire \in Seq(Nat) /\ buf \in Seq(Nat) /\ inflight \in Seq(Nat)
      /\ FlattenSeq(decoded) \in Seq(Nat)
  BY <1>1 DEF StreamType
<1>3. StreamType'
  <2>1. wire' \in Seq(Nat) /\ inflight' \in Seq(Nat)
    BY <1>2, Cat
  <2> QED BY <1>1, <2>1 DEF StreamType
<1>4. Stream' = Stream \o part
  <2>1. Stream' = junk \o (wire \o part)
    BY DEF Stream
  <2>2. Associates(junk, wire, part)
    BY <1>2, Associating
  <2> QED BY <2>1, <2>2, Zenon DEF Stream, Associates
<1>5. InPlace'
  <2>1. PICK past \in Seq(Nat) : Stream = past \o (buf \o inflight)
    BY <1>1 DEF InPlace
  <2>2. Regroups(past, buf, inflight, part)
    BY <1>2, Regrouping
  <2>3. Stream' = past \o (buf' \o inflight')
    BY <1>4, <2>1, <2>2, Zenon DEF Regroups
  <2> QED BY <2>3 DEF InPlace
<1>6. /\ Len(wire') = Len(wire) + Len(part)
      /\ Len(inflight') = Len(inflight) + Len(part)
      /\ Len(Stream') = Len(Stream) + Len(part)
      /\ Len(wire) \in Nat /\ Len(part) \in Nat /\ Len(inflight) \in Nat /\ Len(Stream) \in Nat
      /\ Len(buf) \in Nat
      /\ \A k \in 1..Len(wire) : wire'[k] = wire[k]
  BY <1>1, <1>2, <1>4, Cat, StreamBytes
<1>7. Dropped' = Dropped
  BY <1>6 DEF Dropped
<1>8. Framed'
  <2>1. PICK n \in Nat : Len(wire) = n * Size
    BY <1>1 DEF Framed
  <2>2. HeadersIn(wire \o part)
    BY <1>1, <1>2, <2>1, HeadersGrow DEF Framed
  <2>3. (n + 1) * Size = n * Size + Size /\ n + 1 \in Nat
    BY SizeKnown
  <2>4. ~closed' => Len(wire') = (n + 1) * Size
    BY <1>6, <2>1, <2>3, Zenon
  <2> QED BY <2>2, <2>3, <2>4 DEF Framed
<1>9. InSync'
  <2>1. NoFalseMagic' => NoFalseMagic
    BY <1>6 DEF NoFalseMagic
  <2> QED BY <1>1, <1>7, <2>1 DEF InSync
<1>10. NothingLost'
  <2>1. CASE junk = <<>>
    <3>1. wire = FlattenSeq(decoded) \o (buf \o inflight)
      BY <1>1, <2>1 DEF NothingLost
    <3>2. Regroups(FlattenSeq(decoded), buf, inflight, part)
      BY <1>2, Regrouping
    <3>3. wire' = FlattenSeq(decoded') \o (buf' \o inflight')
      BY <3>1, <3>2, Zenon DEF Regroups
    <3>4. Dropped = Len(decoded) * Size
      BY <1>1, <2>1 DEF NothingLost
    <3> QED BY <1>7, <3>3, <3>4 DEF NothingLost
  <2> QED BY <2>1 DEF NothingLost
<1>11. Drained'
  BY <1>1 DEF Drained
<1> QED BY <1>3, <1>5, <1>8, <1>9, <1>10, <1>11 DEF StreamInv

\* recv moves the first bytes in flight to the end of buf.
LEMMA StreamReceived ==
  ASSUME StreamInv, NEW n \in Nat \ {0}, n <= Len(inflight),
         buf' = buf \o SubSeq(inflight, 1, n),
         inflight' = SubSeq(inflight, n + 1, Len(inflight)),
         net' = "decode", UNCHANGED <<junk, wire, closed, decoded>>
  PROVE  StreamInv'
<1>1. StreamType /\ InPlace /\ Framed /\ InSync /\ NothingLost /\ Drained
  BY DEF StreamInv
<1>2. /\ junk \in Seq(Nat) /\ wire \in Seq(Nat) /\ buf \in Seq(Nat) /\ inflight \in Seq(Nat)
      /\ FlattenSeq(decoded) \in Seq(Nat)
  BY <1>1 DEF StreamType
<1>0. n \in 0..Len(inflight) /\ Len(inflight) \in Nat /\ Len(buf) \in Nat
  BY <1>2
<1>3. PICK got \in Seq(Nat) : got = SubSeq(inflight, 1, n)
  BY <1>0, <1>2, Cut
<1>4. /\ inflight' \in Seq(Nat) /\ inflight = got \o inflight'
      /\ Len(inflight') = Len(inflight) - n /\ Len(got) = n
  BY <1>0, <1>2, <1>3, Cut
<1>5. buf' = buf \o got /\ buf' \in Seq(Nat) /\ Len(buf') = Len(buf) + n
  <2>1. buf \o got \in Seq(Nat) /\ Len(buf \o got) = Len(buf) + Len(got)
    BY <1>2, Cat
  <2> QED BY <1>3, <1>4, <2>1
<1>6. buf' \o inflight' = buf \o inflight
  <2>1. PICK rest \in Seq(Nat) : rest = inflight'
    BY <1>4
  <2>2. Associates(buf, got, rest)
    BY <1>2, Associating
  <2> QED BY <1>4, <1>5, <2>1, <2>2, Zenon DEF Associates
<1>7. StreamType'
  BY <1>1, <1>4, <1>5 DEF StreamType
<1>8. Stream' = Stream /\ InPlace'
  BY <1>1, <1>6 DEF InPlace, Stream
<1>9. Dropped' = Dropped
  <2>1. Len(Stream) \in Nat
    BY <1>1, StreamBytes
  <2>2. Len(Stream') = Len(Stream)
    BY <1>8
  <2>3. Len(buf') = Len(buf) + n /\ Len(inflight') = Len(inflight) - n
    BY <1>4, <1>5
  <2>4. PICK x \in Nat, y \in Nat, z \in Nat : x = Len(Stream) /\ y = Len(buf) /\ z = Len(inflight)
    BY <1>0, <2>1
  <2>5. Dropped = x - y - z /\ Dropped' = x - (y + n) - (z - n)
    BY <2>2, <2>3, <2>4, Zenon DEF Dropped
  <2> QED BY <2>5
<1>10. Framed'
  BY <1>1 DEF Framed
<1>11. InSync'
  BY <1>1, <1>9 DEF InSync, NoFalseMagic
<1>12. NothingLost'
  BY <1>1, <1>6, <1>9 DEF NothingLost
<1>13. Drained'
  BY DEF Drained
<1> QED BY <1>7, <1>8, <1>10, <1>11, <1>12, <1>13 DEF StreamInv

\* netMain drops the first n bytes of buf.
LEMMA BufferCut ==
  ASSUME StreamType, InPlace, NEW n \in 0..Len(buf),
         buf' = SubSeq(buf, n + 1, Len(buf)), UNCHANGED <<junk, wire, inflight>>
  PROVE  /\ buf' \in Seq(Nat) /\ Len(buf') = Len(buf) - n
         /\ buf = SubSeq(buf, 1, n) \o buf' /\ SubSeq(buf, 1, n) \in Seq(Nat)
         /\ InPlace' /\ Dropped' = Dropped + n
<1>1. buf \in Seq(Nat) /\ inflight \in Seq(Nat)
  BY DEF StreamType
<1>2. PICK head \in Seq(Nat) : head = SubSeq(buf, 1, n)
  BY <1>1, Cut
<1>3. buf' \in Seq(Nat) /\ Len(buf') = Len(buf) - n /\ buf = head \o buf'
  BY <1>1, <1>2, Cut
<1>4. PICK rest \in Seq(Nat) : rest = buf'
  BY <1>3
<1>5. Stream' = Stream
  BY DEF Stream
<1>6. InPlace'
  <2>1. PICK past \in Seq(Nat) : Stream = past \o (buf \o inflight)
    BY DEF InPlace
  <2>2. Regroups(past, head, rest, inflight) /\ Associates(head, rest, inflight)
    BY <1>1, Regrouping, Associating
  <2>3. Stream' = (past \o head) \o (buf' \o inflight')
    BY <1>3, <1>4, <1>5, <2>1, <2>2, Zenon DEF Associates, Regroups
  <2>4. past \o head \in Seq(Nat)
    BY Cat
  <2> QED BY <2>3, <2>4 DEF InPlace
<1>7. Dropped' = Dropped + n
  <2>1. PICK x \in Nat, y \in Nat, z \in Nat : x = Len(Stream) /\ y = Len(buf) /\ z = Len(inflight)
    BY StreamBytes
  <2>2. Dropped = x - y - z /\ Dropped' = x - (y - n) - z
    BY <1>3, <1>5, <2>1, Zenon DEF Dropped
  <2> QED BY <2>2
<1> QED BY <1>2, <1>3, <1>6, <1>7

\* Where a packet begins, netMain sees its header.
LEMMA AtHeader ==
  ASSUME StreamType, InPlace, Framed, PacketBuffered, NEW q \in Nat, Dropped = Len(junk) + q * Size
  PROVE  MagicAt(1) /\ Parses(SubSeq(buf, 1, Size))
<1>1. /\ Len(junk) \in Nat /\ Len(wire) \in Nat /\ Len(buf) \in Nat
      /\ Len(inflight) \in Nat /\ Dropped \in Nat
      /\ Dropped + Len(buf) + Len(inflight) = Len(junk) + Len(wire)
      /\ \A k \in 1..Len(wire) : Stream[Len(junk) + k] = wire[k]
      /\ \A k \in 1..Len(buf) : buf[k] = Stream[Dropped + k]
  BY StreamBytes
<1>2. Size \in Nat /\ Size >= 4 /\ q * Size \in Nat
  BY SizeKnown
<1>3. PICK a \in Nat : a = q * Size
  BY <1>2
<1>4. ASSUME NEW i \in 1..3 PROVE buf[i] = Header[i]
  <2>1. /\ i \in 1..Len(buf) /\ a + i \in 1..Len(wire) /\ a + i <= Len(wire)
        /\ Dropped + i = Len(junk) + (a + i)
    BY <1>1, <1>2, <1>3 DEF PacketBuffered
  <2>2. buf[i] = wire[a + i]
    BY <1>1, <2>1
  <2>3. wire[a + i] = Header[i]
    BY <1>3, <2>1 DEF Framed, HeadersIn
  <2> QED BY <2>2, <2>3
<1>5. buf[1] = I /\ buf[2] = Three /\ buf[3] = VERSION
  BY <1>4 DEF Header
<1>6. \A i \in 1..3 : SubSeq(buf, 1, Size)[i] = buf[i]
  <2>1. Size \in 0..Len(buf) /\ buf \in Seq(Nat)
    BY <1>1, <1>2 DEF PacketBuffered, StreamType
  <2>2. \A k \in 1..Size : SubSeq(buf, 1, Size)[k] = buf[k]
    BY <2>1, Cut
  <2> QED BY <1>2, <2>2
<1> QED BY <1>1, <1>2, <1>5, <1>6 DEF MagicAt, Parses, PacketBuffered

\* A magic in the first packet, or before it, is the packet's own or begins in junk.
LEMMA FirstMagic ==
  ASSUME StreamType, InPlace, NoFalseMagic, PacketBuffered, buf[1] = I,
         Dropped < Len(junk) + Size
  PROVE  Dropped < Len(junk) \/ Dropped = Len(junk)
<1>1. /\ Len(junk) \in Nat /\ Len(wire) \in Nat /\ Len(buf) \in Nat
      /\ Len(inflight) \in Nat /\ Dropped \in Nat
      /\ Dropped + Len(buf) + Len(inflight) = Len(junk) + Len(wire)
      /\ \A k \in 1..Len(wire) : Stream[Len(junk) + k] = wire[k]
      /\ \A k \in 1..Len(buf) : buf[k] = Stream[Dropped + k]
  BY StreamBytes
<1>2. Size \in Nat /\ Size >= 4
  BY SizeKnown
<1>3. CASE Dropped >= Len(junk)
  <2>0. Dropped - Len(junk) + 1 \in Nat
    BY <1>1, <1>3
  <2>1. PICK k \in Nat : k = Dropped - Len(junk) + 1
    BY <2>0
  <2>2. k \in 1..Size /\ k \in 1..Len(wire) /\ Dropped + 1 = Len(junk) + k /\ 1 \in 1..Len(buf)
    BY <1>1, <1>2, <1>3, <2>1 DEF PacketBuffered
  <2>3. wire[k] = I
    BY <1>1, <2>2
  <2>4. k % Size = 1
    BY <2>2, <2>3 DEF NoFalseMagic
  <2>5. k = 1
    BY <2>2, <2>4, WholePackets
  <2> QED BY <1>1, <2>2, <2>5
<1> QED BY <1>1, <1>3

\* netMain takes a packet's worth of bytes, and queues them if they parse.
LEMMA StreamTaken ==
  ASSUME StreamInv, PacketBuffered, MagicAt(1), net = "decode",
         buf' = SubSeq(buf, Size + 1, Len(buf)),
         decoded' = IF Parses(SubSeq(buf, 1, Size)) THEN Append(decoded, SubSeq(buf, 1, Size))
                    ELSE decoded,
         UNCHANGED <<junk, wire, inflight, closed, net>>
  PROVE  StreamInv'
<1>1. StreamType /\ InPlace /\ Framed /\ InSync /\ NothingLost /\ Drained
  BY DEF StreamInv
<1>2. /\ buf \in Seq(Nat) /\ inflight \in Seq(Nat) /\ FlattenSeq(decoded) \in Seq(Nat)
      /\ decoded \in Seq(Seq(Nat)) /\ Len(decoded) \in Nat
  BY <1>1 DEF StreamType
<1>3. Size \in Nat /\ Size >= 4 /\ Size \in 0..Len(buf)
  BY <1>2, SizeKnown DEF PacketBuffered
<1>4. PICK p \in Seq(Nat) : p = SubSeq(buf, 1, Size)
  BY <1>2, <1>3, Cut
<1>5. buf' \in Seq(Nat) /\ buf = p \o buf' /\ InPlace' /\ Dropped' = Dropped + Size
  BY <1>1, <1>3, <1>4, BufferCut
<1>6. ASSUME Parses(p)
      PROVE  /\ decoded' = Append(decoded, p) /\ decoded' \in Seq(Seq(Nat))
             /\ Len(decoded') = Len(decoded) + 1
             /\ FlattenSeq(decoded') = FlattenSeq(decoded) \o p
             /\ FlattenSeq(decoded') \in Seq(Nat)
  <2>1. decoded' = Append(decoded, p)
    BY <1>4, <1>6
  <2>2. FlattenSeq(Append(decoded, p)) = FlattenSeq(decoded) \o p
    BY <1>2, FlattenAppend
  <2>3. FlattenSeq(decoded) \o p \in Seq(Nat)
    BY <1>2, Cat
  <2>4. Append(decoded, p) \in Seq(Seq(Nat)) /\ Len(Append(decoded, p)) = Len(decoded) + 1
    BY <1>2, AppendProperties
  <2> QED BY <2>1, <2>2, <2>3, <2>4
<1>7. ~Parses(p) => decoded' = decoded
  BY <1>4
<1>8. StreamType'
  BY <1>1, <1>5, <1>6, <1>7 DEF StreamType
<1>9. Framed'
  BY <1>1 DEF Framed
<1>10. ASSUME NEW q \in Nat, Dropped = Len(junk) + q * Size
       PROVE  Parses(p) /\ Dropped' = Len(junk) + (q + 1) * Size /\ q + 1 \in Nat
  <2>1. Parses(p)
    BY <1>1, <1>4, <1>10, AtHeader
  <2>2. (q + 1) * Size = q * Size + Size /\ q * Size \in Nat /\ Len(junk) \in Nat
    BY <1>1, SizeKnown, StreamBytes
  <2>3. PICK a \in Nat, b \in Nat : a = q * Size /\ b = (q + 1) * Size /\ b = a + Size
    BY <1>3, <2>2
  <2>4. Dropped' = Len(junk) + b
    BY <1>3, <1>5, <1>10, <2>2, <2>3
  <2> QED BY <2>1, <2>3, <2>4
<1>11. InSync'
  <2> SUFFICES ASSUME NoFalseMagic'
               PROVE  \/ Dropped' < Len(junk) + Size
                      \/ \E q \in Nat : Dropped' = Len(junk) + q * Size /\ Len(decoded') + 1 >= q
    BY DEF InSync
  <2>1. NoFalseMagic
    BY DEF NoFalseMagic
  <2>2. ASSUME NEW q \in Nat, Dropped = Len(junk) + q * Size, Len(decoded) + 1 >= q
        PROVE  \E r \in Nat : Dropped' = Len(junk) + r * Size /\ Len(decoded') + 1 >= r
    BY <1>2, <1>6, <1>10, <2>2
  <2>3. Len(junk) \in Nat /\ Dropped \in Nat
    BY <1>1, StreamBytes
  <2>4. CASE Dropped < Len(junk)
    BY <1>3, <1>5, <2>3, <2>4
  <2>5. CASE Dropped = Len(junk)
    <3>1. Dropped = Len(junk) + 0 * Size /\ Len(decoded) + 1 >= 0
      BY <1>2, <1>3, <2>3, <2>5
    <3> QED BY <2>2, <3>1
  <2>6. CASE Len(junk) < Dropped
    <3>1. ~(Dropped < Len(junk) + Size)
      BY <1>1, <2>1, <2>3, <2>6, FirstMagic DEF MagicAt
    <3> QED BY <1>1, <2>1, <2>2, <3>1 DEF InSync
  <2> QED BY <2>3, <2>4, <2>5, <2>6
<1>12. NothingLost'
  <2> SUFFICES ASSUME junk = <<>>
               PROVE  /\ Dropped' = Len(decoded') * Size
                      /\ wire = FlattenSeq(decoded') \o (buf' \o inflight)
    BY DEF NothingLost
  <2>1. Dropped = Len(decoded) * Size /\ wire = FlattenSeq(decoded) \o (buf \o inflight)
    BY <1>1 DEF NothingLost
  <2>2. Len(junk) = 0 /\ Len(decoded) * Size \in Nat
    BY <1>2, SizeKnown
  <2>3. Dropped = Len(junk) + Len(decoded) * Size
    BY <2>1, <2>2
  <2>4. Parses(p) /\ Dropped' = Len(junk) + (Len(decoded) + 1) * Size /\ Len(decoded) + 1 \in Nat
    BY <1>2, <1>10, <2>3
  <2>5. Dropped' = Len(decoded') * Size
    BY <1>6, <2>2, <2>4, SizeKnown
  <2>6. PICK rest \in Seq(Nat) : rest = buf'
    BY <1>5
  <2>7. Regroups(FlattenSeq(decoded), p, rest, inflight) /\ Associates(p, rest, inflight)
    BY <1>2, Regrouping, Associating
  <2>8. wire = (FlattenSeq(decoded) \o p) \o (rest \o inflight)
    BY <1>5, <2>1, <2>6, <2>7, Zenon DEF Regroups, Associates
  <2> QED BY <1>6, <2>4, <2>5, <2>6, <2>8
<1>13. Drained'
  BY DEF Drained
<1> QED BY <1>5, <1>8, <1>9, <1>11, <1>12, <1>13 DEF StreamInv

\* How many bytes Resynced drops: up to the next magic, or all but the last.
LEMMA Resyncing ==
  ASSUME buf \in Seq(Nat), PacketBuffered
  PROVE  \E n \in 1..(Len(buf) - 1) :
           /\ Resynced = SubSeq(buf, n + 1, Len(buf))
           /\ \A k \in 2..Len(buf) : MagicAt(k) => n + 1 <= k
<1>1. Len(buf) \in Nat /\ Len(buf) >= 4
  BY SizeKnown DEF PacketBuffered
<1>2. CASE LaterMagic = {}
  <2>1. Len(buf) - 1 \in 1..(Len(buf) - 1) /\ (Len(buf) - 1) + 1 = Len(buf)
    BY <1>1
  <2>2. \A k \in 2..Len(buf) : ~MagicAt(k)
    BY <1>2 DEF LaterMagic
  <2> QED BY <1>2, <2>1, <2>2 DEF Resynced
<1>3. CASE LaterMagic # {}
  <2>1. LaterMagic \in SUBSET Nat /\ LaterMagic \subseteq 2..(Len(buf) - 1)
    BY <1>1 DEF LaterMagic, MagicAt
  <2>2. \E m \in LaterMagic : \A k \in LaterMagic : m <= k
    BY <1>3, <2>1, LeastElement
  <2>3. PICK m \in LaterMagic : m = Min(LaterMagic) /\ \A k \in LaterMagic : m <= k
    BY <2>2 DEF Min
  <2>4. m - 1 \in 1..(Len(buf) - 1) /\ (m - 1) + 1 = m
    BY <1>1, <2>1
  <2>5. \A k \in 2..Len(buf) : MagicAt(k) => m <= k
    BY <2>3 DEF LaterMagic
  <2>6. Resynced = SubSeq(buf, m, Len(buf))
    BY <1>3, <2>3 DEF Resynced
  <2> QED BY <2>4, <2>5, <2>6
<1> QED BY <1>2, <1>3

\* netMain looks for the next magic.
LEMMA StreamSkipped ==
  ASSUME StreamInv, PacketBuffered, ~MagicAt(1), net = "decode",
         buf' = Resynced, UNCHANGED <<junk, wire, inflight, closed, net, decoded>>
  PROVE  StreamInv'
<1>1. StreamType /\ InPlace /\ Framed /\ InSync /\ NothingLost /\ Drained
  BY DEF StreamInv
<1>2. buf \in Seq(Nat) /\ Len(buf) \in Nat /\ Len(decoded) \in Nat
  BY <1>1 DEF StreamType
<1>3. PICK n \in 1..(Len(buf) - 1) :
        /\ Resynced = SubSeq(buf, n + 1, Len(buf))
        /\ \A k \in 2..Len(buf) : MagicAt(k) => n + 1 <= k
  BY <1>2, Resyncing
<1>4. buf' \in Seq(Nat) /\ InPlace' /\ Dropped' = Dropped + n
  <2>1. n \in 0..Len(buf)
    BY <1>2
  <2> QED BY <1>1, <1>3, <2>1, BufferCut
<1>5. StreamType' /\ Framed'
  BY <1>1, <1>4 DEF StreamType, Framed
<1>6. Drained'
  BY DEF Drained
<1>7. ASSUME NEW q \in Nat PROVE Dropped # Len(junk) + q * Size
  BY <1>1, AtHeader
<1>8. NothingLost'
  <2> SUFFICES ASSUME junk = <<>> PROVE FALSE
    BY DEF NothingLost
  <2>1. Dropped = Len(decoded) * Size /\ Len(junk) = 0 /\ Len(decoded) * Size \in Nat
    BY <1>1, <1>2, SizeKnown DEF NothingLost
  <2> QED BY <1>2, <1>7, <2>1
<1>9. InSync'
  <2> SUFFICES ASSUME NoFalseMagic', ~(Dropped' < Len(junk) + Size)
               PROVE  \E q \in Nat : Dropped' = Len(junk) + q * Size /\ Len(decoded) + 1 >= q
    BY DEF InSync
  <2>1. /\ Len(junk) \in Nat /\ Len(wire) \in Nat /\ Len(inflight) \in Nat /\ Dropped \in Nat
        /\ Dropped + Len(buf) + Len(inflight) = Len(junk) + Len(wire)
        /\ \A k \in 1..Len(wire) : Stream[Len(junk) + k] = wire[k]
        /\ \A k \in 1..Len(buf) : buf[k] = Stream[Dropped + k]
    BY <1>1, StreamBytes
  <2>2. Size \in Nat /\ Size >= 4 /\ 1 * Size = Size
    BY SizeKnown
  <2>3. Dropped < Len(junk) + Size
    BY <1>1, <1>7 DEF InSync, NoFalseMagic
  <2>4. Len(junk) + Size - Dropped \in Nat
    BY <2>1, <2>2, <2>3
  <2>5. PICK m \in Nat : m = Len(junk) + Size - Dropped
    BY <2>4
  <2>6. m >= 1 /\ m <= n /\ m + 1 \in 2..Len(buf) /\ Dropped + (m + 1) = Len(junk) + (Size + 1)
    BY <1>2, <1>4, <2>1, <2>2, <2>3, <2>5
  <2>7. CASE m + 1 < Len(buf)
    <3>1. m + 1 \in 1..Len(buf) /\ m + 2 \in 1..Len(buf)
      BY <1>2, <2>6, <2>7
    <3>2. Dropped + (m + 2) = Len(junk) + (Size + 2) /\ Len(junk) + (Size + 2) <= Dropped + Len(buf)
      <4>1. Dropped \in Nat /\ Len(junk) \in Nat
        BY <2>1
      <4>2. \A x, y, z, u, v \in Nat :
              x + (u + 1) = y + (z + 1) /\ u + 1 < v
                => x + (u + 2) = y + (z + 2) /\ y + (z + 2) <= x + v
        OBVIOUS
      <4> QED BY <1>2, <2>2, <2>6, <2>7, <4>1, <4>2
    <3>3. Size + 1 \in 1..Len(wire) /\ Size + 2 \in 1..Len(wire)
      BY <1>2, <2>1, <2>2, <3>2
    <3>4. buf[m + 1] = wire[Size + 1] /\ buf[m + 2] = wire[Size + 2]
      <4>1. buf[m + 1] = Stream[Dropped + (m + 1)] /\ buf[m + 2] = Stream[Dropped + (m + 2)]
        BY <2>1, <3>1
      <4>2. /\ Stream[Len(junk) + (Size + 1)] = wire[Size + 1]
            /\ Stream[Len(junk) + (Size + 2)] = wire[Size + 2]
        BY <2>1, <3>3
      <4> QED BY <2>6, <3>2, <4>1, <4>2
    <3>5. 1 * Size + 1 <= Len(wire) /\ 1 * Size + 2 <= Len(wire)
      BY <2>1, <2>2, <3>3
    <3>6. wire[1 * Size + 1] = Header[1] /\ wire[1 * Size + 2] = Header[2]
      BY <1>1, <3>5 DEF Framed, HeadersIn
    <3>7. MagicAt(m + 1)
      BY <2>2, <2>7, <3>4, <3>6 DEF MagicAt, Header
    <3>8. n = m
      BY <1>3, <2>6, <3>7
    <3> QED BY <1>2, <1>4, <2>1, <2>2, <2>5, <3>8
  <2>8. CASE m + 1 = Len(buf)
    <3>1. n = m
      BY <1>2, <2>6, <2>8
    <3> QED BY <1>2, <1>4, <2>1, <2>2, <2>5, <3>1
  <2> QED BY <1>2, <2>6, <2>7, <2>8
<1> QED BY <1>4, <1>5, <1>6, <1>8, <1>9 DEF StreamInv

\* The header of what the console sends.
LEMMA PacketKnown ==
  ASSUME StreamType, NEW d \in Data
  PROVE  /\ Packet(d) \in Seq(Nat) /\ Len(Packet(d)) = Size
         /\ \A i \in 1..3 : Packet(d)[i] = Header[i]
<1>1. d \in Seq(Nat) /\ Len(d) = RestLen /\ RestLen \in Nat
  BY ViewerAssumption
<1>2. Sent \in Nat
  <2>1. Len(wire) + Size - 1 \in Nat /\ Size \in Nat /\ Size >= 4
    BY SizeKnown DEF StreamType
  <2>2. \A n, z \in Nat : z >= 4 => n \div z \in Nat
    OBVIOUS
  <2> QED BY <2>1, <2>2 DEF Sent
<1>3. PICK h \in Seq(Nat) : /\ h = <<I, Three, VERSION, Sent + 1>> /\ Len(h) = 4
                             /\ h[1] = I /\ h[2] = Three /\ h[3] = VERSION
  <2> DEFINE g == <<I, Three, VERSION, Sent + 1>>
  <2>1. g \in Seq(Nat) /\ Len(g) = 4 /\ g[1] = I /\ g[2] = Three /\ g[3] = VERSION
    BY <1>2 DEF I, Three, VERSION
  <2>2. g = <<I, Three, VERSION, Sent + 1>>
    OBVIOUS
  <2> HIDE DEF g
  <2> QED BY <2>1, <2>2
<1>4. /\ h \o d \in Seq(Nat) /\ Len(h \o d) = 4 + RestLen
      /\ \A k \in 1..4 : (h \o d)[k] = h[k]
  BY <1>1, <1>3, Cat
<1>5. Packet(d) = h \o d
  BY <1>3 DEF Packet
<1> QED BY <1>3, <1>4, <1>5 DEF Size, Header

\* Each step of the console, of netMain and of the user's thread.
LEMMA StreamStep ==
  ASSUME StreamInv, [Next]_vars
  PROVE  StreamInv'
<1>1. CASE ConsoleSends
  <2>1. PICK d \in Data : wire' = wire \o Packet(d) /\ inflight' = inflight \o Packet(d)
    BY <1>1 DEF ConsoleSends
  <2>2. ~closed /\ ~closed' /\ UNCHANGED <<junk, net, buf, decoded>>
    BY <1>1 DEF ConsoleSends, netVars
  <2>3. StreamType /\ Size \in Nat
    BY SizeKnown DEF StreamInv
  <2>4. /\ Packet(d) \in Seq(Nat) /\ Len(Packet(d)) = Size
        /\ \A i \in 1..3 : Packet(d)[i] = Header[i]
    BY <2>3, PacketKnown
  <2>5. PICK part \in Seq(Nat) : part = Packet(d)
    BY <2>4
  <2>6. /\ Len(part) <= Size /\ Len(part) = Size
        /\ \A i \in 1..3 : part[i] = Header[i]
    BY <2>3, <2>4, <2>5
  <2> QED BY <2>1, <2>2, <2>5, <2>6, StreamGrows
<1>2. CASE ConsoleCloses
  <2>1. ~closed /\ closed' /\ UNCHANGED <<junk, net, buf, decoded>>
    BY <1>2 DEF ConsoleCloses, netVars
  <2>2. CASE UNCHANGED <<wire, inflight>>
    <3>1. Stream' = Stream /\ Dropped' = Dropped
      BY <2>1, <2>2 DEF Stream, Dropped
    <3> QED BY <2>1, <2>2, <3>1
         DEF StreamInv, StreamType, InPlace, Framed, InSync, NoFalseMagic, NothingLost, Drained
  <2>3. CASE ~UNCHANGED <<wire, inflight>>
    <3>1. PICK d \in Data, n \in 1..(Size - 1) :
            /\ wire' = wire \o SubSeq(Packet(d), 1, n)
            /\ inflight' = inflight \o SubSeq(Packet(d), 1, n)
      BY <1>2, <2>3 DEF ConsoleCloses
    <3>2. StreamType /\ Size \in Nat
      BY SizeKnown DEF StreamInv
    <3>3. /\ Packet(d) \in Seq(Nat) /\ Len(Packet(d)) = Size
          /\ \A i \in 1..3 : Packet(d)[i] = Header[i]
      BY <3>2, PacketKnown
    <3>4. n \in 0..Len(Packet(d))
      BY <3>2, <3>3
    <3>5. PICK part \in Seq(Nat) : /\ part = SubSeq(Packet(d), 1, n) /\ Len(part) = n
                                   /\ \A k \in 1..n : part[k] = Packet(d)[k]
      BY <3>3, <3>4, Cut
    <3>6. Len(part) <= Size /\ \A i \in 1..3 : i <= Len(part) => part[i] = Header[i]
      BY <3>2, <3>3, <3>5
    <3> QED BY <2>1, <3>1, <3>5, <3>6, StreamGrows
  <2> QED BY <2>2, <2>3
<1>3. CASE Recv
  <2>1. UNCHANGED <<junk, wire, closed, decoded>>
    BY <1>3 DEF Recv
  <2>2. CASE UNCHANGED <<buf, inflight>>
    <3>1. Stream' = Stream /\ Dropped' = Dropped /\ net = "recv"
      BY <1>3, <2>1, <2>2 DEF Stream, Dropped, Recv
    <3> QED BY <2>1, <2>2, <3>1
         DEF StreamInv, StreamType, InPlace, Framed, InSync, NoFalseMagic, NothingLost, Drained
  <2>3. CASE ~UNCHANGED <<buf, inflight>>
    <3>1. PICK n \in Chunks :
            /\ n <= Len(inflight)
            /\ buf' = buf \o SubSeq(inflight, 1, n)
            /\ inflight' = SubSeq(inflight, n + 1, Len(inflight))
            /\ net' = "decode"
      BY <1>3, <2>3 DEF Recv
    <3>2. n \in Nat \ {0}
      BY ViewerAssumption
    <3> QED BY <2>1, <3>1, <3>2, StreamReceived
  <2> QED BY <2>2, <2>3
<1>4. CASE Decode
  <2>1. net = "decode" /\ UNCHANGED <<junk, wire, inflight, closed>>
    BY <1>4 DEF Decode, wireVars
  <2>2. CASE ~PacketBuffered
    <3>1. UNCHANGED <<buf, decoded>> /\ Len(buf) < Size
      <4>1. UNCHANGED <<buf, decoded>>
        BY <1>4, <2>2 DEF Decode
      <4>2. Len(buf) \in Nat /\ Size \in Nat
        BY SizeKnown DEF StreamInv, StreamType
      <4> QED BY <2>2, <4>1, <4>2 DEF PacketBuffered
    <3>2. Stream' = Stream /\ Dropped' = Dropped
      BY <2>1, <3>1 DEF Stream, Dropped
    <3> QED BY <2>1, <3>1, <3>2
         DEF StreamInv, StreamType, InPlace, Framed, InSync, NoFalseMagic, NothingLost, Drained
  <2>3. CASE PacketBuffered /\ ~MagicAt(1)
    <3>1. buf' = Resynced /\ UNCHANGED <<net, decoded>>
      BY <1>4, <2>3 DEF Decode
    <3> QED BY <2>1, <2>3, <3>1, StreamSkipped
  <2>4. CASE PacketBuffered /\ MagicAt(1)
    <3>1. /\ buf' = SubSeq(buf, Size + 1, Len(buf)) /\ UNCHANGED net
          /\ decoded' = IF Parses(SubSeq(buf, 1, Size))
                        THEN Append(decoded, SubSeq(buf, 1, Size)) ELSE decoded
      BY <1>4, <2>4 DEF Decode
    <3> QED BY <2>1, <2>4, <3>1, StreamTaken
  <2> QED BY <2>2, <2>3, <2>4
<1>5. CASE NetLoop \/ NetEnds \/ Main \/ Interrupt \/ Finished \/ UNCHANGED vars
  <2>1. /\ UNCHANGED <<junk, wire, inflight, closed, buf, decoded>>
        /\ net' \in {"loop", "recv"} => net \in {"loop", "recv"}
    BY <1>5 DEF NetLoop, NetEnds, Main, EnterTry, Check, Has, Get, Stop, Join, Interrupt,
                Finished, vars, wireVars, netVars
  <2>2. Stream' = Stream /\ Dropped' = Dropped
    BY <2>1 DEF Stream, Dropped
  <2> QED BY <2>1, <2>2
       DEF StreamInv, StreamType, InPlace, Framed, InSync, NoFalseMagic, NothingLost, Drained
<1> QED BY <1>1, <1>2, <1>3, <1>4, <1>5 DEF Next, Console, NetMain

\* The invariant of the stream holds throughout.
LEMMA StreamHolds == Spec => []StreamInv
BY InitStream, StreamStep, PTL DEF Spec

-----------------------------------------------------------------------------
(* However recv splits a stream of whole packets, netMain queues each of   *)
(* them once, in order and uncut, and keeps less than one packet when it   *)
(* goes back to recv, whatever the payloads look like.                     *)
THEOREM EveryPacketDecoded == Spec => []DecodesExactly
<1>1. StreamInv => DecodesExactly
  <2> SUFFICES ASSUME StreamInv, junk = <<>>
               PROVE  /\ FlattenSeq(decoded) \o buf \o inflight = wire
                      /\ net \in {"loop", "recv"} => Len(buf) < Size
    BY DEF DecodesExactly
  <2>1. StreamType /\ NothingLost /\ Drained
    BY DEF StreamInv
  <2>2. Associates(FlattenSeq(decoded), buf, inflight)
    BY <2>1, Associating DEF StreamType
  <2> QED BY <2>1, <2>2, Zenon DEF Associates, NothingLost, Drained
<1> QED BY StreamHolds, <1>1, PTL

(* A receiver whose stream begins with any junk, fake headers included,    *)
(* misses at most one packet of those it has received, if no payload byte  *)
(* looks like the magic's first.                                           *)
THEOREM OutOfSyncSoonOver == Spec => []ResyncsSoon
<1>1. StreamInv => ResyncsSoon
  <2> SUFFICES ASSUME StreamInv, net = "loop", NoFalseMagic
               PROVE  Len(decoded) + 1 >= (Len(wire) - Len(inflight)) \div Size
    BY DEF ResyncsSoon, NoFalseMagic
  <2>1. StreamType /\ InPlace /\ InSync /\ Len(buf) < Size
    BY DEF StreamInv, Drained
  <2>2. /\ Len(junk) \in Nat /\ Len(wire) \in Nat /\ Len(buf) \in Nat
        /\ Len(inflight) \in Nat /\ Len(decoded) \in Nat /\ Dropped \in Nat
        /\ Dropped + Len(buf) + Len(inflight) = Len(junk) + Len(wire)
    BY <2>1, StreamBytes
  <2>3. Size \in Nat /\ Size >= 4 /\ \A q \in Nat : q * Size \in Nat
    BY SizeKnown
  <2>4. PICK x \in Int : x = Len(wire) - Len(inflight)
    <3>1. Len(wire) - Len(inflight) \in Int
      BY <2>2
    <3> QED BY <3>1
  <2>5. CASE Dropped < Len(junk) + Size
    <3>1. x < 2 * Size
      BY <2>1, <2>2, <2>3, <2>4, <2>5
    <3>2. x \div Size <= 1
      BY <3>1, WholePackets
    <3>3. x \div Size \in Int
      BY <2>3
    <3> QED BY <2>2, <2>4, <3>2, <3>3
  <2>6. CASE \E q \in Nat : Dropped = Len(junk) + q * Size /\ Len(decoded) + 1 >= q
    <3>1. PICK q \in Nat : Dropped = Len(junk) + q * Size /\ Len(decoded) + 1 >= q
      BY <2>6
    <3>2. PICK a \in Nat : a = q * Size
      BY <2>3
    <3>3. x = a + Len(buf) /\ Len(buf) \in 0..(Size - 1)
      BY <2>1, <2>2, <2>3, <2>4, <3>1, <3>2
    <3>4. (q * Size + Len(buf)) \div Size = q
      BY <3>3, WholePackets
    <3> QED BY <2>4, <3>1, <3>2, <3>3, <3>4
  <2> QED BY <2>1, <2>5, <2>6 DEF InSync
<1> QED BY StreamHolds, <1>1, PTL
=============================================================================
