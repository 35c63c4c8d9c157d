------------------------------- MODULE IrKeys -------------------------------
(***************************************************************************)
(* source/irkeys.cpp (the default build): irkeysPoll maps the C-Stick      *)
(* memory through a throwaway ir:rst session and asks a patched IR module  *)
(* over ir:u where it keeps the latest keys; irkeysRead then loads that    *)
(* word.  One step per request to another process, so that games take and  *)
(* free the sessions in between.                                           *)
(***************************************************************************)
EXTENDS Integers, FiniteSets

CONSTANTS
  CsRetry, IrRetry    \* CSTICK_RETRY_TICKS and RETRY_TICKS

ASSUME IrAssumption == CsRetry \in Nat \ {0} /\ IrRetry \in Nat \ {0}

VARIABLES
  at,                        \* the request irkeysPoll is about to make
  cstickStatus, cstickMem, csRetryIn,
  resolved, status, keysWord, irRetryIn,
  answer,                    \* what GET_KEYS_PA came back with
  nonBlocking,               \* srvSetBlockingPolicy(false) was called
  exited,
  handles,                   \* history: handles we hold
  initialized,               \* history: our ir:u session is initialized
  rstFree, iruFree,          \* sessions left for us; ir:u is registered
  iruRegistered, patched,    \* code.ips was applied when the console booted
  word, read                 \* what the IR module publishes, what we report of it

csVars == <<cstickStatus, cstickMem, csRetryIn>>
irVars == <<resolved, status, keysWord, irRetryIn, answer>>
worldVars == <<rstFree, iruFree, iruRegistered, patched, word>>
history == <<handles, initialized>>
irkeysVars == <<at, csVars, irVars, nonBlocking, exited, history, worldVars, read>>

\* The bits of the key word.  rehid's patch uses bits 16 and 17 for ZL and ZR;
\* bit 16 is also KEY_HOME_BIT of a packet.
Bits == {"ZL", "ZR", "bit16", "bit17"}

Init ==
  /\ at = "idle"
  /\ cstickStatus = "pending" /\ cstickMem = FALSE /\ csRetryIn = 0
  /\ resolved = "pending" /\ status = "pending" /\ keysWord = "null" /\ irRetryIn = 0
  /\ answer = "none" /\ nonBlocking = FALSE /\ exited = FALSE
  /\ handles = {} /\ initialized = FALSE
  /\ rstFree \in BOOLEAN /\ iruFree \in BOOLEAN /\ iruRegistered \in BOOLEAN
  /\ patched \in BOOLEAN /\ word = {} /\ read = {}

-----------------------------------------------------------------------------
Poll ==
  /\ at = "idle" /\ ~exited
  /\ at' = IF ~cstickMem /\ csRetryIn = 0 THEN "rst_open" ELSE "resolve"
  /\ UNCHANGED <<csVars, irVars, nonBlocking, exited, history, worldVars, read>>

\* mapCstickMemory failed: irkeysPoll tries again later.  The delay counts from the
\* time it began with this; so here and below, some of it may be over.
CstickFails(why) ==
  /\ cstickStatus' = why
  /\ csRetryIn' \in 0..CsRetry
  /\ at' = "resolve"
  /\ UNCHANGED cstickMem

\* While no session is left srvGetServiceHandle waits for one, unless told not to.
OpenRst ==
  /\ at = "rst_open"
  /\ \/ rstFree /\ at' = "rst_handles" /\ handles' = handles \cup {"rst"} /\ UNCHANGED csVars
     \/ (rstFree \/ nonBlocking) /\ CstickFails("service_failed") /\ UNCHANGED handles
  /\ UNCHANGED <<irVars, nonBlocking, exited, initialized, worldVars, read>>

\* After GetHandles the session and the event are closed, whatever came back.
GotHandles(got) == (handles \ {"rst"}) \cup (got \ {"event"})

GetHandles ==
  /\ at = "rst_handles"
  /\ \/ handles' = GotHandles({}) /\ CstickFails("handles_failed")
     \/ \E got \in SUBSET {"mem", "event"} :
          /\ handles' = GotHandles(got)
          /\ IF "mem" \in got THEN at' = "map" /\ UNCHANGED csVars
                              ELSE CstickFails("no_memory")
  /\ UNCHANGED <<irVars, nonBlocking, exited, initialized, worldVars, read>>

\* mapBlock owns the handle: it closes it unless the block is mapped.
MapBlock ==
  /\ at = "map"
  /\ \/ handles' = handles \ {"mem"} /\ CstickFails("map_failed")
     \/ /\ cstickMem' = TRUE /\ cstickStatus' = "ok" /\ at' = "resolve"
        /\ UNCHANGED <<csRetryIn, handles>>
  /\ UNCHANGED <<irVars, nonBlocking, exited, initialized, worldVars, read>>

-----------------------------------------------------------------------------
\* resolveAddresses is over; without an answer it is tried again later.
ResolveEnds ==
  /\ at' = "idle"
  /\ IF resolved' = "done" THEN UNCHANGED irRetryIn ELSE irRetryIn' \in 0..IrRetry

\* Mutant of MayResolve: a poll that found ir:u busy was the last one.
MayResolveOnce == resolved = "pending" /\ ~nonBlocking
MayResolve == resolved = "pending" /\ irRetryIn = 0

Resolve ==
  /\ at = "resolve"
  /\ \/ ~MayResolve /\ at' = "idle" /\ UNCHANGED <<irVars, nonBlocking>>
     \/ /\ MayResolve
        /\ nonBlocking' = TRUE
        /\ UNCHANGED <<resolved, status, keysWord, answer>>
        /\ \/ iruRegistered /\ at' = "iru_open" /\ UNCHANGED irRetryIn
           \/ ~iruRegistered /\ ResolveEnds
  /\ UNCHANGED <<csVars, exited, history, worldVars, read>>

OpenIru ==
  /\ at = "iru_open"
  /\ UNCHANGED <<resolved, status, keysWord, answer>>
  /\ \/ iruFree /\ at' = "iru_init" /\ handles' = handles \cup {"iru"} /\ UNCHANGED irRetryIn
     \/ ~iruFree /\ ResolveEnds /\ UNCHANGED handles
  /\ UNCHANGED <<csVars, nonBlocking, exited, initialized, worldVars, read>>

InitializeIru ==
  /\ at = "iru_init"
  /\ \/ initialized' = TRUE /\ at' = "iru_ask" /\ UNCHANGED answer
     \/ initialized' = FALSE /\ at' = "iru_close" /\ answer' = "failed"
  /\ UNCHANGED <<csVars, resolved, status, keysWord, irRetryIn, nonBlocking, exited, handles,
                 worldVars, read>>

\* A stock module answers the unknown command with 0 or an error code.
AskForKeys ==
  /\ at = "iru_ask" /\ at' = "iru_shutdown"
  /\ answer' \in {"failed"} \cup (IF patched THEN {"pa"} ELSE {"zero", "error"})
  /\ UNCHANGED <<csVars, resolved, status, keysWord, irRetryIn, nonBlocking, exited, history,
                 worldVars, read>>

\* Mutant of ShutsDown: only after an answer that is worth keeping.
ShutsDownIfPlausible == answer = "pa"

\* The session is shut down whatever the answer was.
ShutsDown == TRUE

ShutdownIru ==
  /\ at = "iru_shutdown" /\ at' = "iru_close"
  /\ initialized' = (initialized /\ ~ShutsDown)
  /\ UNCHANGED <<csVars, irVars, nonBlocking, exited, handles, worldVars, read>>

\* Mutant of PlausiblePA: the top bit is not looked at.
PlausibleIfNonzero(a) == a \in {"pa", "error"}
PlausiblePA(a) == a = "pa"

\* The answer is judged, then the session closed.
CloseIru ==
  /\ at = "iru_close"
  /\ handles' = handles \ {"iru"}
  /\ IF answer = "failed"
     THEN UNCHANGED <<resolved, status, keysWord>>
     ELSE IF PlausiblePA(answer)
          THEN resolved' = "done" /\ status' = "passive" /\ keysWord' = answer
          ELSE resolved' = "unsupported" /\ status' = "unpatched" /\ UNCHANGED keysWord
  /\ ResolveEnds
  /\ answer' = "none"
  /\ UNCHANGED <<csVars, nonBlocking, exited, initialized, worldVars, read>>

-----------------------------------------------------------------------------
\* Bits 16 and 17 are moved to where ZL and ZR belong.
Folded(keys) ==
  (keys \ {"bit16", "bit17"}) \cup (IF "bit16" \in keys THEN {"ZL"} ELSE {})
                              \cup (IF "bit17" \in keys THEN {"ZR"} ELSE {})

\* irkeysRead, for a packet: nothing before the word was found.
Read ==
  /\ at = "idle" /\ ~exited
  /\ read' = IF keysWord = "null" THEN {} ELSE Folded(word)
  /\ UNCHANGED <<at, csVars, irVars, nonBlocking, exited, history, worldVars>>

IrkeysExit ==
  /\ at = "idle" /\ ~exited /\ exited' = TRUE
  /\ cstickMem' = FALSE
  /\ handles' = handles \ {"mem"}
  /\ UNCHANGED <<at, cstickStatus, csRetryIn, irVars, nonBlocking, initialized, worldVars, read>>

-----------------------------------------------------------------------------
\* Games open and close sessions, ir:u comes and goes, keys are pressed.
Games ==
  /\ rstFree' \in BOOLEAN /\ iruFree' \in BOOLEAN /\ iruRegistered' \in BOOLEAN
  /\ UNCHANGED <<at, csVars, irVars, nonBlocking, exited, history, patched, word, read>>

Publish ==
  /\ patched /\ word' \in SUBSET Bits
  /\ UNCHANGED <<at, csVars, irVars, nonBlocking, exited, history, rstFree, iruFree,
                 iruRegistered, patched, read>>

Elapse ==
  /\ csRetryIn > 0 \/ irRetryIn > 0
  /\ csRetryIn' = IF csRetryIn > 0 THEN csRetryIn - 1 ELSE 0
  /\ irRetryIn' = IF irRetryIn > 0 THEN irRetryIn - 1 ELSE 0
  /\ UNCHANGED <<at, cstickStatus, cstickMem, resolved, status, keysWord, answer, nonBlocking,
                 exited, history, worldVars, read>>

Cstick == OpenRst \/ GetHandles \/ MapBlock
Addresses == Resolve \/ OpenIru \/ InitializeIru \/ AskForKeys \/ ShutdownIru \/ CloseIru
Next == Poll \/ Cstick \/ Addresses \/ Read \/ IrkeysExit \/ Games \/ Publish \/ Elapse

Spec == Init /\ [][Next]_irkeysVars

(* The input loop polls on, calls return once they can, the clock runs,    *)
(* and a request of a session we got that is made again and again is       *)
(* granted some time.                                                      *)
FairSpec ==
  /\ Spec
  /\ WF_irkeysVars(Poll) /\ SF_irkeysVars(Cstick) /\ WF_irkeysVars(Addresses)
  /\ WF_irkeysVars(Elapse)
  /\ SF_irkeysVars(InitializeIru /\ initialized') /\ SF_irkeysVars(AskForKeys /\ answer' # "failed")

-----------------------------------------------------------------------------
Values ==
  /\ at \in {"idle", "rst_open", "rst_handles", "map", "resolve", "iru_open", "iru_init",
             "iru_ask", "iru_shutdown", "iru_close"}
  /\ cstickStatus \in {"pending", "ok", "service_failed", "handles_failed", "no_memory", "map_failed"}
  /\ csRetryIn \in 0..CsRetry /\ irRetryIn \in 0..IrRetry
  /\ resolved \in {"pending", "done", "unsupported"}
  /\ status \in {"pending", "unpatched", "passive"}
  /\ keysWord \in {"null", "pa", "error"}
  /\ answer \in {"none", "failed", "zero", "error", "pa"}
  /\ handles \subseteq {"rst", "mem", "iru"}
  /\ word \subseteq Bits /\ read \subseteq Bits

Flags ==
  /\ cstickMem \in BOOLEAN /\ nonBlocking \in BOOLEAN /\ exited \in BOOLEAN
  /\ initialized \in BOOLEAN /\ rstFree \in BOOLEAN /\ iruFree \in BOOLEAN
  /\ iruRegistered \in BOOLEAN /\ patched \in BOOLEAN

TypeOK == Values /\ Flags

(* Between two polls no ir session is open, whichever request failed, and  *)
(* the memory handle is held exactly while the block is mapped (README:    *)
(* "holds no ir:rst session", all sessions "stay available to games").     *)
(* Nor is ir:u closed while our session of it is still initialized: a      *)
(* game's Initialize would fail.  A module that turned out to be unpatched *)
(* is left alone for good ("Retrying ... would only keep poking ir:u").    *)
NoSessionKept ==
  /\ at = "idle" => handles = IF cstickMem THEN {"mem"} ELSE {}
  /\ initialized => at \in {"iru_ask", "iru_shutdown"}
  /\ status = "unpatched" => "iru" \notin handles

(* Only an address of a patched module is ever dereferenced ("Never        *)
(* dereference those"), and what it yields never reaches a packet as the   *)
(* HOME button, which shares bit 16 with rehid's ZL.                       *)
OnlySoundWord ==
  /\ keysWord # "null" => patched /\ keysWord = "pa" /\ status = "passive"
  /\ read # {} => keysWord # "null" /\ "bit16" \notin read

(* Once the sessions can be had, a poll finds out where the keys are or    *)
(* that the module is not patched, however often they were missing before. *)
KeysResolved ==
  <>[](rstFree /\ iruFree /\ iruRegistered) => <>(status # "pending" \/ exited)

(* irkeys.hpp:4, irkeysPoll is "Cheap to call every frame".                *)
PollReturns == at # "idle" ~> at = "idle"
=============================================================================
