--------------------------- MODULE SamplingProofs ---------------------------
(***************************************************************************)
(* What a tick reads while other processes write it, with nothing locked:  *)
(* the pad's ring (HidRing), for a ring of any size and any number of      *)
(* samples, and the IR module's key word (IrKeys), for all retry times:    *)
(* which sessions are held at every step of a poll, and where the word's   *)
(* address comes from.                                                     *)
(***************************************************************************)
EXTENDS HidRing, IrKeys, TLAPS

(* HidRing. *)

\* The last sample whose Circle Pad half has been written.
LastCp == IF writing = "cp" THEN started - 1 ELSE started

\* The entry of sample m holds m or a later one, and m itself until the ring
\* was written all round since.
Keeps(ring, last) ==
  \A m \in 0..last :
    /\ ring[Slot(m)] >= m
    /\ last < m + RingSize => ring[Slot(m)] = m

\* What the writer has published, and where.
WriterInv ==
  /\ newest = IF writing = "no" THEN started ELSE started - 1
  /\ IndexInRange = Slot(newest)
  /\ Keeps(curr, started) /\ Keeps(cp, LastCp)

\* What was read is of the sample the index named, or of a later one.
Current(m) == m >= named /\ (started < named + RingSize => m = named)

\* What the reader holds of a tick's sample, and what it has read of it.
ReaderInv ==
  step # "sleep" =>
    /\ padIdx = Slot(named) /\ named <= newest
    /\ step \in {"cp_x", "cp_y", "packet"} => Current(held)
    /\ step \in {"cp_y", "packet"} => Current(cp_x)
    /\ step = "packet" => Current(cp_y)

RingInv == RingTypeOK /\ WriterInv /\ ReaderInv

-----------------------------------------------------------------------------
(* Samples less than a ring apart are kept in different entries. *)
LEMMA SlotsDiffer ==
  ASSUME NEW m \in Nat, NEW n \in Nat, m < n, n < m + RingSize
  PROVE  Slot(m) # Slot(n)
<1> USE HidAssumption
<1> DEFINE p == m \div RingSize  q == n \div RingSize
<1>1. p \in Int /\ q \in Int /\ Slot(m) \in Int /\ Slot(n) \in Int
  BY DEF Slot
<1>2. m = RingSize * p + Slot(m) /\ n = RingSize * q + Slot(n)
  BY DEF Slot
<1> HIDE DEF p, q
<1>3. ASSUME Slot(m) = Slot(n)  PROVE FALSE
  <2>1. n - m = RingSize * (q - p)
    BY <1>1, <1>2, <1>3
  <2>2. 0 < RingSize * (q - p) /\ RingSize * (q - p) < RingSize
    BY <2>1
  <2>3. q - p >= 1 \/ q - p <= 0
    BY <1>1
  <2>4. CASE q - p >= 1
    BY <1>1, <2>2, <2>4
  <2>5. CASE q - p <= 0
    BY <1>1, <2>2, <2>5
  <2> QED BY <2>3, <2>4, <2>5
<1> QED BY <1>3

(* Every sample has an entry. *)
LEMMA SlotInRange == \A m \in Nat : Slot(m) \in Slots
BY HidAssumption DEF Slot, Slots

(* Writing the next sample keeps what Keeps says of a ring. *)
LEMMA KeepsAfterWrite ==
  ASSUME NEW last \in Nat, NEW ring \in [Slots -> Nat], Keeps(ring, last)
  PROVE  Keeps([ring EXCEPT ![Slot(last + 1)] = last + 1], last + 1)
<1> DEFINE after == [ring EXCEPT ![Slot(last + 1)] = last + 1]
<1> USE HidAssumption
<1> SUFFICES ASSUME NEW m \in 0..(last + 1)
             PROVE  /\ after[Slot(m)] >= m
                    /\ last + 1 < m + RingSize => after[Slot(m)] = m
  BY DEF Keeps
<1>1. Slot(m) \in Slots
  BY SlotInRange
<1>2. CASE Slot(m) = Slot(last + 1)
  <2>1. after[Slot(m)] = last + 1
    BY <1>1, <1>2
  <2>2. last + 1 < m + RingSize => m = last + 1
    BY <1>2, SlotsDiffer
  <2> QED BY <2>1, <2>2
<1>3. CASE Slot(m) # Slot(last + 1)
  <2>1. after[Slot(m)] = ring[Slot(m)] /\ m \in 0..last
    BY <1>1, <1>3
  <2> QED BY <2>1 DEF Keeps
<1> QED BY <1>2, <1>3

-----------------------------------------------------------------------------
(* The invariant holds before the first sample. *)
LEMMA RingInitInv == RingInit => RingInv
<1> SUFFICES ASSUME RingInit PROVE RingInv
  OBVIOUS
<1> USE HidAssumption
<1>1. Slot(0) = 0 /\ 0 \in Slots
  BY DEF Slot, Slots
<1>2. RingTypeOK
  BY <1>1 DEF RingInit, RingTypeOK
<1>3. WriterInv
  BY <1>1 DEF RingInit, WriterInv, IndexInRange, Keeps, LastCp
<1>4. ReaderInv
  BY DEF RingInit, ReaderInv, Current
<1> QED BY <1>2, <1>3, <1>4 DEF RingInv

(* The HID module's steps keep it, whatever the reader holds. *)
LEMMA HidInv == RingInv /\ Hid => RingInv'
<1> SUFFICES ASSUME RingInv, Hid PROVE RingInv'
  OBVIOUS
<1> USE HidAssumption DEF RingInv, RingTypeOK, mainVars
<1>1. CASE HidCurr
  <2>1. newest' = newest /\ started' = started + 1 /\ started \in Nat /\ writing' = "cp"
    BY <1>1 DEF HidCurr
  <2>2. RingTypeOK'
    <3>1. curr' \in [Slots -> Nat]
      <4>1. curr' = [curr EXCEPT ![Slot(started')] = started'] /\ started' \in Nat
        BY <1>1, <2>1 DEF HidCurr
      <4> QED BY <4>1
    <3>2. started' \in 0..MaxSamples
      BY <1>1, <2>1 DEF HidCurr
    <3> QED BY <1>1, <2>1, <3>1, <3>2 DEF HidCurr
  <2>3. Keeps(curr', started')
    BY <1>1, <2>1, KeepsAfterWrite DEF HidCurr, WriterInv
  <2>4. Keeps(cp', LastCp')
    BY <1>1, <2>1 DEF HidCurr, WriterInv, LastCp, Keeps
  <2>5. WriterInv'
    BY <1>1, <2>1, <2>3, <2>4 DEF HidCurr, WriterInv, IndexInRange
  <2>6. ReaderInv'
    BY <1>1, <2>1 DEF HidCurr, ReaderInv, Current
  <2> QED BY <2>2, <2>5, <2>6
<1>2. CASE HidCp
  <2>1. newest' = newest /\ started' = started /\ started \in Nat /\ started >= 1
    BY <1>2 DEF HidCp, WriterInv
  <2>2. RingTypeOK'
    <3>1. cp' \in [Slots -> Nat]
      BY <1>2, <2>1 DEF HidCp
    <3> QED BY <1>2, <2>1, <3>1 DEF HidCp
  <2>3. Keeps(cp', LastCp')
    <3>1. started - 1 \in Nat /\ Keeps(cp, started - 1) /\ (started - 1) + 1 = started
      BY <1>2, <2>1 DEF HidCp, WriterInv, LastCp
    <3>2. Keeps([cp EXCEPT ![Slot((started - 1) + 1)] = (started - 1) + 1], (started - 1) + 1)
      BY <3>1, KeepsAfterWrite
    <3> QED BY <1>2, <2>1, <3>1, <3>2 DEF HidCp, LastCp
  <2>4. WriterInv'
    BY <1>2, <2>1, <2>3 DEF HidCp, WriterInv, IndexInRange, Keeps
  <2>5. ReaderInv'
    BY <1>2, <2>1 DEF HidCp, ReaderInv, Current
  <2> QED BY <2>2, <2>4, <2>5
<1>3. CASE HidIndex
  <2>1. /\ newest' = started /\ started' = started /\ started \in Nat
        /\ newest <= started
        /\ LastCp' = LastCp
    BY <1>3 DEF HidIndex, WriterInv, LastCp
  <2>2. Slot(started) \in Slots
    BY <2>1, SlotInRange
  <2>3. RingTypeOK'
    BY <1>3, <2>1, <2>2 DEF HidIndex, Slots
  <2>4. WriterInv'
    BY <1>3, <2>1, <2>2 DEF HidIndex, WriterInv, IndexInRange, Slots, Slot, Keeps
  <2>5. ReaderInv'
    BY <1>3, <2>1 DEF HidIndex, ReaderInv, Current
  <2> QED BY <2>3, <2>4, <2>5
<1> QED BY <1>1, <1>2, <1>3 DEF Hid

(* So do the reader's, which change nothing of the ring. *)
LEMMA MainInv == RingInv /\ Main => RingInv'
<1> SUFFICES ASSUME RingInv, Main PROVE RingInv'
  OBVIOUS
<1> USE HidAssumption DEF RingInv, RingTypeOK, hidVars
<1>1. WriterInv'
  BY DEF Main, ReadIndex, ReadHeld, ReadCpX, ReadCpY, Sent, WriterInv, IndexInRange, Keeps,
         LastCp, Slot
<1>2. /\ newest \in 0..started /\ newest \in 0..LastCp /\ LastCp <= started
      /\ started \in Nat /\ LastCp \in Nat
  BY DEF WriterInv, LastCp
<1>3. CASE ReadIndex
  <2>1. IndexInRange \in Slots
    BY DEF IndexInRange, Slots
  <2>2. RingTypeOK'
    BY <1>3, <2>1 DEF ReadIndex
  <2>3. ReaderInv'
    BY <1>3 DEF ReadIndex, ReaderInv, Current, WriterInv, Slot
  <2> QED BY <1>1, <2>2, <2>3
<1>4. CASE ReadHeld
  <2>1. /\ padIdx = Slot(named) /\ named \in 0..started
    BY <1>2, <1>4 DEF ReadHeld, ReaderInv, Current
  <2>2. /\ curr[padIdx] \in Nat /\ curr[padIdx] >= named
        /\ started < named + RingSize => curr[padIdx] = named
    BY <2>1 DEF WriterInv, Keeps
  <2>3. RingTypeOK'
    BY <1>4, <2>2 DEF ReadHeld
  <2>4. ReaderInv'
    BY <1>4, <2>2 DEF ReadHeld, ReaderInv, Current, Slot
  <2> QED BY <1>1, <2>3, <2>4
<1>5. CASE ReadCpX \/ ReadCpY
  <2>1. /\ padIdx = Slot(named) /\ named \in 0..LastCp
    BY <1>2, <1>5 DEF ReadCpX, ReadCpY, ReaderInv, Current
  <2>2. cp[padIdx] \in Nat /\ Current(cp[padIdx])
    BY <1>2, <2>1 DEF WriterInv, Keeps, Current
  <2>3. RingTypeOK'
    BY <1>5, <2>2 DEF ReadCpX, ReadCpY, CpIndex
  <2>4. ReaderInv'
    BY <1>5, <2>2 DEF ReadCpX, ReadCpY, CpIndex, ReaderInv, Current, Slot
  <2> QED BY <1>1, <2>3, <2>4
<1>6. CASE Sent
  BY <1>1, <1>6 DEF Sent, ReaderInv, Current
<1> QED BY <1>3, <1>4, <1>5, <1>6 DEF Main

(* ... and so it always holds. *)
LEMMA RingInvHolds == RingSpec => []RingInv
<1>1. RingInv /\ UNCHANGED vars => RingInv'
  BY DEF RingInv, RingTypeOK, WriterInv, ReaderInv, Current, IndexInRange, Keeps, LastCp, Slot, vars,
         hidVars, mainVars
<1>2. RingInv /\ [RingNext]_vars => RingInv'
  BY <1>1, HidInv, MainInv DEF RingNext
<1> QED BY RingInitInv, <1>2, PTL DEF RingSpec

-----------------------------------------------------------------------------
(* The types of all variables, main.cpp's index into the ring among them:  *)
(* it is within the ring whatever the HID module's word says.              *)
THEOREM RingTypeCorrect == RingSpec => []RingTypeOK
<1>1. RingInv => RingTypeOK
  BY DEF RingInv
<1> QED BY RingInvHolds, <1>1, PTL

(* Whatever the size of the ring and the speed of a tick, a packet holds   *)
(* nothing older than what was newest when main.cpp read the index.        *)
THEOREM NeverAnOldSample == RingSpec => []NeverStale
<1>1. RingInv => NeverStale
  BY DEF RingInv, ReaderInv, Current, NeverStale
<1> QED BY RingInvHolds, <1>1, PTL

(* A tick that ends before RingSize further samples were begun sends       *)
(* buttons and Circle Pad of one sample, though nothing is locked.         *)
THEOREM OneSample == RingSpec => []OneSamplePerPacket
<1>1. RingInv => OneSamplePerPacket
  BY DEF RingInv, ReaderInv, Current, OneSamplePerPacket
<1> QED BY RingInvHolds, <1>1, PTL

-----------------------------------------------------------------------------
(* IrKeys. *)

IruSteps == {"iru_init", "iru_ask", "iru_shutdown", "iru_close"}
CstickSteps == {"rst_open", "rst_handles", "map"}

(* The handles held, step by step.                                         *)
HandlesKnown ==
  /\ handles = (IF cstickMem \/ at = "map" THEN {"mem"} ELSE {})
                 \cup (IF at = "rst_handles" THEN {"rst"} ELSE {})
                 \cup (IF at \in IruSteps THEN {"iru"} ELSE {})
  /\ at \in CstickSteps => ~cstickMem
  /\ initialized => at \in {"iru_ask", "iru_shutdown"}

(* ir:u is only asked while the question is open.                          *)
AskedWhilePending ==
  /\ at \in IruSteps \cup {"iru_open"} => resolved = "pending"
  /\ status = "unpatched" => resolved = "unsupported"

(* An address comes from the answer of a patched module, and stays.        *)
WordFromPatch ==
  /\ answer = "pa" => patched
  /\ keysWord # "null" => patched /\ keysWord = "pa" /\ status = "passive" /\ resolved = "done"
  /\ read # {} => keysWord # "null" /\ "bit16" \notin read

IInv == TypeOK /\ HandlesKnown /\ AskedWhilePending /\ WordFromPatch

-----------------------------------------------------------------------------
\* The two halves are proved by different provers.
LEMMA TypeParts == /\ TypeOK <=> Values /\ Flags
                   /\ TypeOK' <=> Values' /\ Flags'
BY DEF TypeOK

LEMMA InitInv == Init => IInv
<1> SUFFICES ASSUME Init PROVE IInv
  OBVIOUS
<1>1. Values BY IrAssumption DEF IrAssumption, Init, Values
<1>2. Flags BY Zenon DEF Init, Flags
<1>3. HandlesKnown /\ AskedWhilePending /\ WordFromPatch
  BY DEF Init, HandlesKnown, AskedWhilePending, WordFromPatch, IruSteps, CstickSteps
<1> QED BY <1>1, <1>2, <1>3, TypeParts DEF IInv

LEMMA CstickStep ==
  ASSUME IInv, Cstick
  PROVE  IInv'
<1> USE IrAssumption DEF IrAssumption, IInv, irVars, worldVars, csVars, history
<1>1. CASE OpenRst
  <2>1. TypeOK'
    <3>1. Values' BY <1>1, TypeParts DEF Values, OpenRst, CstickFails
    <3>2. Flags' BY <1>1, TypeParts, Zenon DEF Flags, OpenRst, CstickFails
    <3> QED BY <3>1, <3>2, TypeParts
  <2>2. HandlesKnown' BY <1>1 DEF HandlesKnown, OpenRst, CstickFails, IruSteps, CstickSteps
  <2>3. AskedWhilePending' BY <1>1 DEF AskedWhilePending, OpenRst, CstickFails, IruSteps
  <2>4. WordFromPatch' BY <1>1 DEF WordFromPatch, OpenRst
  <2> QED BY <2>1, <2>2, <2>3, <2>4
<1>2. CASE GetHandles
  <2>1. TypeOK'
    <3>1. \E got \in SUBSET {"mem", "event"} : handles' = GotHandles(got)
          BY <1>2 DEF GetHandles
    <3>2. handles' \subseteq {"rst", "mem", "iru"}
          BY <3>1, TypeParts DEF Values, GotHandles
    <3>3. Values' BY <1>2, <3>2, TypeParts DEF Values, GetHandles, CstickFails
    <3>4. Flags' BY <1>2, TypeParts, Zenon DEF Flags, GetHandles, GotHandles, CstickFails
    <3> QED BY <3>3, <3>4, TypeParts
  <2>2. HandlesKnown'
        BY <1>2 DEF HandlesKnown, GetHandles, GotHandles, CstickFails, IruSteps, CstickSteps
  <2>3. AskedWhilePending' BY <1>2 DEF AskedWhilePending, GetHandles, CstickFails, IruSteps
  <2>4. WordFromPatch' BY <1>2 DEF WordFromPatch, GetHandles
  <2> QED BY <2>1, <2>2, <2>3, <2>4
<1>3. CASE MapBlock
  <2>1. TypeOK'
    <3>1. Values' BY <1>3, TypeParts DEF Values, MapBlock, CstickFails
    <3>2. Flags' BY <1>3, TypeParts, Zenon DEF Flags, MapBlock, CstickFails
    <3> QED BY <3>1, <3>2, TypeParts
  <2>2. HandlesKnown' BY <1>3 DEF HandlesKnown, MapBlock, CstickFails, IruSteps, CstickSteps
  <2>3. AskedWhilePending' BY <1>3 DEF AskedWhilePending, MapBlock, CstickFails, IruSteps
  <2>4. WordFromPatch' BY <1>3 DEF WordFromPatch, MapBlock
  <2> QED BY <2>1, <2>2, <2>3, <2>4
<1> QED BY <1>1, <1>2, <1>3 DEF Cstick

LEMMA AddressStep ==
  ASSUME IInv, Addresses
  PROVE  IInv'
<1> USE IrAssumption DEF IrAssumption, IInv, irVars, worldVars, csVars, history
<1>1. CASE Resolve
  <2>1. TypeOK'
    <3>1. Values' BY <1>1, TypeParts DEF Values, Resolve, ResolveEnds
    <3>2. Flags' BY <1>1, TypeParts, Zenon DEF Flags, Resolve, ResolveEnds
    <3> QED BY <3>1, <3>2, TypeParts
  <2>2. HandlesKnown' BY <1>1 DEF HandlesKnown, Resolve, ResolveEnds, IruSteps, CstickSteps
  <2>3. AskedWhilePending'
        BY <1>1 DEF AskedWhilePending, Resolve, ResolveEnds, MayResolve, IruSteps
  <2>4. WordFromPatch' BY <1>1 DEF WordFromPatch, Resolve
  <2> QED BY <2>1, <2>2, <2>3, <2>4
<1>2. CASE OpenIru
  <2>1. TypeOK'
    <3>1. Values' BY <1>2, TypeParts DEF Values, OpenIru, ResolveEnds
    <3>2. Flags' BY <1>2, TypeParts, Zenon DEF Flags, OpenIru, ResolveEnds
    <3> QED BY <3>1, <3>2, TypeParts
  <2>2. HandlesKnown' BY <1>2 DEF HandlesKnown, OpenIru, ResolveEnds, IruSteps, CstickSteps
  <2>3. AskedWhilePending' BY <1>2 DEF AskedWhilePending, OpenIru, ResolveEnds, IruSteps
  <2>4. WordFromPatch' BY <1>2 DEF WordFromPatch, OpenIru
  <2> QED BY <2>1, <2>2, <2>3, <2>4
<1>3. CASE InitializeIru
  <2>1. TypeOK'
    <3>1. Values' BY <1>3, TypeParts DEF Values, InitializeIru
    <3>2. Flags' BY <1>3, TypeParts, Zenon DEF Flags, InitializeIru
    <3> QED BY <3>1, <3>2, TypeParts
  <2>2. HandlesKnown' BY <1>3 DEF HandlesKnown, InitializeIru, IruSteps, CstickSteps
  <2>3. AskedWhilePending' BY <1>3 DEF AskedWhilePending, InitializeIru, IruSteps
  <2>4. WordFromPatch' BY <1>3 DEF WordFromPatch, InitializeIru
  <2> QED BY <2>1, <2>2, <2>3, <2>4
<1>4. CASE AskForKeys
  <2>1. TypeOK'
    <3>1. Values' BY <1>4, TypeParts DEF Values, AskForKeys
    <3>2. Flags' BY <1>4, TypeParts, Zenon DEF Flags, AskForKeys
    <3> QED BY <3>1, <3>2, TypeParts
  <2>2. HandlesKnown' BY <1>4 DEF HandlesKnown, AskForKeys, IruSteps, CstickSteps
  <2>3. AskedWhilePending' BY <1>4 DEF AskedWhilePending, AskForKeys, IruSteps
  <2>4. WordFromPatch' BY <1>4 DEF WordFromPatch, AskForKeys
  <2> QED BY <2>1, <2>2, <2>3, <2>4
<1>5. CASE ShutdownIru
  <2>1. TypeOK'
    <3>1. Values' BY <1>5, TypeParts DEF Values, ShutdownIru, ShutsDown
    <3>2. Flags' BY <1>5, TypeParts, Zenon DEF Flags, ShutdownIru, ShutsDown
    <3> QED BY <3>1, <3>2, TypeParts
  <2>2. HandlesKnown' BY <1>5 DEF HandlesKnown, ShutdownIru, ShutsDown, IruSteps, CstickSteps
  <2>3. AskedWhilePending' BY <1>5 DEF AskedWhilePending, ShutdownIru, IruSteps
  <2>4. WordFromPatch' BY <1>5 DEF WordFromPatch, ShutdownIru
  <2> QED BY <2>1, <2>2, <2>3, <2>4
<1>6. CASE CloseIru
  <2>1. TypeOK'
    <3>1. Values' BY <1>6, TypeParts DEF Values, CloseIru, PlausiblePA, ResolveEnds
    <3>2. Flags' BY <1>6, TypeParts, Zenon DEF Flags, CloseIru, PlausiblePA, ResolveEnds
    <3> QED BY <3>1, <3>2, TypeParts
  <2>2. HandlesKnown' BY <1>6 DEF HandlesKnown, CloseIru, ResolveEnds, IruSteps, CstickSteps
  <2>3. AskedWhilePending'
        BY <1>6 DEF AskedWhilePending, CloseIru, PlausiblePA, ResolveEnds, IruSteps
  <2>4. WordFromPatch'
        BY <1>6 DEF WordFromPatch, AskedWhilePending, CloseIru, PlausiblePA, IruSteps
  <2> QED BY <2>1, <2>2, <2>3, <2>4
<1> QED BY <1>1, <1>2, <1>3, <1>4, <1>5, <1>6 DEF Addresses

\* What a packet is given of the key word never has bit 16 set.
LEMMA FoldedSound ==
  ASSUME NEW keys \in SUBSET Bits
  PROVE  Folded(keys) \in SUBSET Bits /\ "bit16" \notin Folded(keys)
BY DEF Folded, Bits

LEMMA CallerStep ==
  ASSUME IInv, Poll \/ Read \/ IrkeysExit
  PROVE  IInv'
<1> USE IrAssumption DEF IrAssumption, IInv, irVars, worldVars, csVars, history
<1>1. CASE Poll
  <2>1. TypeOK'
    <3>1. Values' BY <1>1, TypeParts DEF Values, Poll
    <3>2. Flags' BY <1>1, TypeParts, Zenon DEF Flags, Poll
    <3> QED BY <3>1, <3>2, TypeParts
  <2>2. HandlesKnown' BY <1>1 DEF HandlesKnown, Poll, IruSteps, CstickSteps
  <2>3. AskedWhilePending' BY <1>1 DEF AskedWhilePending, Poll, IruSteps
  <2>4. WordFromPatch' BY <1>1 DEF WordFromPatch, Poll
  <2> QED BY <2>1, <2>2, <2>3, <2>4
<1>2. CASE Read
  <2>1. word \in SUBSET Bits BY TypeParts DEF Values
  <2>2. read' \in SUBSET Bits /\ (read' # {} => keysWord # "null" /\ "bit16" \notin read')
        BY <1>2, <2>1, FoldedSound DEF Read
  <2>3. TypeOK'
    <3>1. Values' BY <1>2, <2>2, TypeParts DEF Values, Read
    <3>2. Flags' BY <1>2, <2>2, TypeParts, Zenon DEF Flags, Read
    <3> QED BY <3>1, <3>2, TypeParts
  <2>4. HandlesKnown' BY <1>2 DEF HandlesKnown, Read
  <2>5. AskedWhilePending' BY <1>2 DEF AskedWhilePending, Read
  <2>6. WordFromPatch' BY <1>2, <2>2 DEF WordFromPatch, Read
  <2> QED BY <2>3, <2>4, <2>5, <2>6
<1>3. CASE IrkeysExit
  <2>1. TypeOK'
    <3>1. Values' BY <1>3, TypeParts DEF Values, IrkeysExit
    <3>2. Flags' BY <1>3, TypeParts, Zenon DEF Flags, IrkeysExit
    <3> QED BY <3>1, <3>2, TypeParts
  <2>2. HandlesKnown' BY <1>3 DEF HandlesKnown, IrkeysExit, IruSteps, CstickSteps
  <2>3. AskedWhilePending' BY <1>3 DEF AskedWhilePending, IrkeysExit
  <2>4. WordFromPatch' BY <1>3 DEF WordFromPatch, IrkeysExit
  <2> QED BY <2>1, <2>2, <2>3, <2>4
<1> QED BY <1>1, <1>2, <1>3

LEMMA WorldStep ==
  ASSUME IInv, Games \/ Publish \/ Elapse \/ UNCHANGED irkeysVars
  PROVE  IInv'
<1> USE IrAssumption DEF IrAssumption, IInv, irVars, worldVars, csVars, history
<1>1. CASE Games
  <2>1. Values' BY <1>1, TypeParts DEF Values, Games
  <2>2. Flags' BY <1>1, TypeParts, Zenon DEF Flags, Games
  <2>3. (HandlesKnown /\ AskedWhilePending /\ WordFromPatch)'
        BY <1>1 DEF Games, HandlesKnown, AskedWhilePending, WordFromPatch
  <2> QED BY <2>1, <2>2, <2>3, TypeParts
<1>2. CASE Publish
  <2>1. Values' BY <1>2, TypeParts DEF Values, Publish
  <2>2. Flags' BY <1>2, TypeParts, Zenon DEF Flags, Publish
  <2>3. (HandlesKnown /\ AskedWhilePending /\ WordFromPatch)'
        BY <1>2 DEF Publish, HandlesKnown, AskedWhilePending, WordFromPatch
  <2> QED BY <2>1, <2>2, <2>3, TypeParts
<1>3. CASE Elapse
  <2>1. Values' BY <1>3, TypeParts DEF Values, Elapse
  <2>2. Flags' BY <1>3, TypeParts, Zenon DEF Flags, Elapse
  <2>3. (HandlesKnown /\ AskedWhilePending /\ WordFromPatch)'
        BY <1>3 DEF Elapse, HandlesKnown, AskedWhilePending, WordFromPatch
  <2> QED BY <2>1, <2>2, <2>3, TypeParts
<1>4. CASE UNCHANGED irkeysVars
  <2>1. Values' BY <1>4, TypeParts DEF Values, irkeysVars
  <2>2. Flags' BY <1>4, TypeParts, Zenon DEF Flags, irkeysVars
  <2>3. (HandlesKnown /\ AskedWhilePending /\ WordFromPatch)'
        BY <1>4 DEF irkeysVars, HandlesKnown, AskedWhilePending, WordFromPatch
  <2> QED BY <2>1, <2>2, <2>3, TypeParts
<1> QED BY <1>1, <1>2, <1>3, <1>4

LEMMA Inductive == Spec => []IInv
<1>1. IInv /\ [Next]_irkeysVars => IInv'
  BY CstickStep, AddressStep, CallerStep, WorldStep DEF Next
<1> QED BY InitInv, <1>1, PTL DEF Spec

-----------------------------------------------------------------------------
(* The types of irkeys.cpp's state: retry times within their bounds, and   *)
(* no handle but the three that are accounted for.                         *)
THEOREM TypeCorrect == Spec => []TypeOK
BY Inductive, PTL DEF IInv

(* irkeysPoll returns with every session it opened closed, irkeysExit lets *)
(* the block go, and an unpatched module is not asked again, for all       *)
(* retry times.                                                            *)
THEOREM NoSessionLeaks == Spec => []NoSessionKept
<1>1. IInv => NoSessionKept
  BY DEF IInv, HandlesKnown, AskedWhilePending, NoSessionKept, IruSteps, CstickSteps
<1> QED BY Inductive, <1>1, PTL

(* irkeysRead only dereferences the address a patched module gave, and a   *)
(* packet never takes rehid's ZL for HOME.                                 *)
THEOREM WordIsSound == Spec => []OnlySoundWord
<1>1. IInv => OnlySoundWord
  BY DEF IInv, WordFromPatch, OnlySoundWord
<1> QED BY Inductive, <1>1, PTL
=============================================================================
