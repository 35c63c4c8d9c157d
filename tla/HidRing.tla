------------------------------ MODULE HidRing ------------------------------
(***************************************************************************)
(* How source/main.cpp samples the pad (source/hid_shared.h): the HID      *)
(* module, another process, writes samples into a ring in shared memory    *)
(* and publishes the index of the newest one; a tick reads the index once, *)
(* the buttons at once, and the Circle Pad's X and then its Y only after   *)
(* the polls and the accepting of clients, with no lock anywhere.  Samples *)
(* are numbered; what is read is the number of the sample it came from.    *)
(* The touch ring is read in the same way.                                 *)
(***************************************************************************)
EXTENDS Integers

CONSTANTS
  RingSize,     \* HID_RING_SIZE
  MaxSamples    \* bound on the samples the HID module takes

ASSUME HidAssumption == RingSize \in Nat \ {0} /\ MaxSamples \in Nat

Slots == 0..(RingSize - 1)

VARIABLES
  curr, cp,          \* the ring: sample numbers of the entries' two halves
  index,             \* the index the HID module published last
  writing,           \* the HID module's step
  newest, started,   \* history: the last sample published, the last one begun
  step,              \* main's step
  padIdx, held,      \* as in main
  cp_x, cp_y,        \* the packet's
  named              \* history: the newest sample when the index was read

hidVars == <<curr, cp, index, writing, newest, started>>
mainVars == <<step, padIdx, held, cp_x, cp_y, named>>
vars == <<hidVars, mainVars>>

\* Before the first sample the index may be anything.
RingInit ==
  /\ curr = [s \in Slots |-> 0] /\ cp = [s \in Slots |-> 0]
  /\ index \in {0, RingSize, RingSize + 1} /\ writing = "no"
  /\ newest = 0 /\ started = 0
  /\ step = "sleep" /\ padIdx = 0 /\ held = 0 /\ cp_x = 0 /\ cp_y = 0
  /\ named = 0

-----------------------------------------------------------------------------
Slot(sample) == sample % RingSize

HidCurr ==
  /\ writing = "no" /\ started < MaxSamples
  /\ started' = started + 1
  /\ curr' = [curr EXCEPT ![Slot(started')] = started']
  /\ writing' = "cp"
  /\ UNCHANGED <<cp, index, newest, mainVars>>

HidCp ==
  /\ writing = "cp" /\ writing' = "index"
  /\ cp' = [cp EXCEPT ![Slot(started)] = started]
  /\ UNCHANGED <<curr, index, newest, started, mainVars>>

HidIndex ==
  /\ writing = "index" /\ writing' = "no"
  /\ index' = Slot(started)
  /\ newest' = started
  /\ UNCHANGED <<curr, cp, started, mainVars>>

-----------------------------------------------------------------------------
\* Mutant of IndexInRange: the entry to be written next.
IndexAfter == (index + 1) % RingSize

\* Mutant of IndexInRange: > for >=.
IndexUpToSize == IF index > RingSize THEN 0 ELSE index
IndexInRange == IF index >= RingSize THEN 0 ELSE index

ReadIndex ==
  /\ step = "sleep" /\ step' = "held"
  /\ padIdx' = IndexInRange
  /\ named' = newest
  /\ UNCHANGED <<held, cp_x, cp_y, hidVars>>

ReadHeld ==
  /\ step = "held" /\ step' = "cp_x"
  /\ held' = curr[padIdx]
  /\ UNCHANGED <<padIdx, cp_x, cp_y, named, hidVars>>

\* Mutant of CpIndex: the index is read again for the Circle Pad.
CpIndexReadAgain == IndexInRange

\* The Circle Pad is taken from the entry the buttons were taken from.
CpIndex == padIdx

ReadCpX ==
  /\ step = "cp_x" /\ step' = "cp_y"
  /\ cp_x' = cp[CpIndex]
  /\ UNCHANGED <<padIdx, held, cp_y, named, hidVars>>

ReadCpY ==
  /\ step = "cp_y" /\ step' = "packet"
  /\ cp_y' = cp[CpIndex]
  /\ UNCHANGED <<padIdx, held, cp_x, named, hidVars>>

Sent ==
  /\ step = "packet" /\ step' = "sleep"
  /\ UNCHANGED <<padIdx, held, cp_x, cp_y, named, hidVars>>

Hid == HidCurr \/ HidCp \/ HidIndex
Main == ReadIndex \/ ReadHeld \/ ReadCpX \/ ReadCpY \/ Sent
RingNext == Hid \/ Main

RingSpec == RingInit /\ [][RingNext]_vars

-----------------------------------------------------------------------------
RingTypeOK ==
  /\ curr \in [Slots -> Nat] /\ cp \in [Slots -> Nat]
  /\ index \in Nat /\ writing \in {"no", "cp", "index"}
  /\ newest \in Nat /\ started \in 0..MaxSamples
  /\ step \in {"sleep", "held", "cp_x", "cp_y", "packet"}
  /\ padIdx \in Slots
  /\ {held, cp_x, cp_y, named} \subseteq Nat

(* A tick that is over before the HID module comes round to the entry it   *)
(* reads sends buttons and both Circle Pad axes of one and the same sample,*)
(* the newest one when the tick began, although nothing is locked.         *)
OneSamplePerPacket ==
  step = "packet" /\ started < named + RingSize => {held, cp_x, cp_y} = {named}

(* However long a tick takes, what it sends is never older than the newest *)
(* sample when it began.                                                   *)
NeverStale == step = "packet" => \A m \in {held, cp_x, cp_y} : m >= named
=============================================================================
