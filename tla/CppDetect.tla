----------------------------- MODULE CppDetect -----------------------------
(***************************************************************************)
(* Launcher/source/cpp_detect.c: cppDetect opens ir:USER, lends it a block *)
(* of shared memory, asks it to connect to a Circle Pad Pro, and undoes    *)
(* all that again.  One step per request, since ir:USER and the accessory  *)
(* act on their own, and every request may be refused, FINALIZE too.       *)
(***************************************************************************)
EXTENDS Integers

VARIABLES
  at,               \* the request cppDetect is about to make; "out" is the label
  mem,              \* the block is allocated
  handles,          \* handles we hold: "shm", "iru", "event"
  initialized,
  result,
  shared,           \* history: ir:USER uses the block, between Initialize and Finalize
  connecting,       \* history: ir:USER looks for a device for us
  refused,          \* history: ir:USER refused to let go, and has not been asked anew
  connected,        \* the status word of the block says STATUS_CONNECTED
  attached          \* a Circle Pad Pro is there

detectVars == <<at, mem, handles, initialized, result, shared, connecting,
              refused, connected, attached>>

Init ==
  /\ at = "idle" /\ mem = FALSE /\ handles = {} /\ initialized = FALSE
  /\ result = "unknown" /\ shared = FALSE /\ connecting = FALSE
  /\ refused = FALSE /\ connected = FALSE /\ attached \in BOOLEAN

-----------------------------------------------------------------------------
AfterAllocate(block) == IF block THEN "shm" ELSE "returned"

\* A call, the first one or one of a launcher that was started again.
Allocate ==
  /\ at \in {"idle", "returned"}
  /\ mem' \in BOOLEAN
  /\ at' = AfterAllocate(mem')
  /\ result' = "unknown" /\ connected' = FALSE
  /\ UNCHANGED <<handles, initialized, shared, connecting, refused, attached>>

\* A request that gives us a handle, or jumps to out.
Obtain(handle, next) ==
  /\ at = handle
  /\ \/ handles' = handles \cup {handle} /\ at' = next
     \/ at' = "out" /\ UNCHANGED handles
  /\ UNCHANGED <<mem, initialized, result, shared, connecting, refused, connected, attached>>

CreateMemoryBlock == Obtain("shm", "iru")
GetServiceHandle == Obtain("iru", "initialize")
GetConnectionEvent == Obtain("event", "require")

InitializeShared ==
  /\ at = "initialize"
  /\ \/ initialized' = TRUE /\ shared' = TRUE /\ refused' = FALSE /\ at' = "event"
     \/ at' = "out" /\ UNCHANGED <<initialized, shared, refused>>
  /\ UNCHANGED <<mem, handles, result, connecting, connected, attached>>

RequireConnection ==
  /\ at = "require"
  /\ \/ connecting' = TRUE /\ at' = "wait"
     \/ at' = "out" /\ UNCHANGED connecting
  /\ UNCHANGED <<mem, handles, initialized, result, shared, refused, connected, attached>>

\* The event fired or two seconds went by; either way the word is looked at.
WaitAndRead ==
  /\ at = "wait" /\ at' = "disconnect"
  /\ result' = IF connected THEN "present" ELSE "absent"
  /\ UNCHANGED <<mem, handles, initialized, shared, connecting, refused, connected, attached>>

\* The answer to Disconnect is ignored.
Disconnect ==
  /\ at = "disconnect" /\ at' = "out"
  /\ connecting' \in {FALSE, connecting}
  /\ UNCHANGED <<mem, handles, initialized, result, shared, refused, connected, attached>>

Finalizes == initialized

\* Mutant of Closed: the memory block's handle stays open.
ClosedButShm(handle) == {handle} \ {"shm"}
Closed(handle) == {handle}

\* The answer is ignored: a refused request leaves ir:USER with the block.
Finalize ==
  /\ at = "out" /\ at' = "close_event"
  /\ \/ Finalizes /\ shared' = FALSE /\ connecting' = FALSE /\ UNCHANGED refused
     \/ Finalizes /\ refused' = TRUE /\ UNCHANGED <<shared, connecting>>
     \/ ~Finalizes /\ UNCHANGED <<shared, connecting, refused>>
  /\ UNCHANGED <<mem, handles, initialized, result, connected, attached>>

Close(handle, here, next) ==
  /\ at = here /\ at' = next
  /\ handles' = handles \ Closed(handle)
  /\ UNCHANGED <<mem, initialized, result, shared, connecting, refused, connected, attached>>

Free ==
  /\ at = "free" /\ at' = "returned"
  /\ mem' = FALSE /\ initialized' = FALSE
  /\ UNCHANGED <<handles, result, shared, connecting, refused, connected, attached>>

Out ==
  \/ Finalize
  \/ Close("event", "close_event", "close_iru")
  \/ Close("iru", "close_iru", "close_shm")
  \/ Close("shm", "close_shm", "free")
  \/ Free

-----------------------------------------------------------------------------
\* The accessory is plugged in and pulled; ir:USER finds it, and loses it again.
Accessory ==
  /\ \/ attached' = ~attached /\ UNCHANGED connected
     \/ connecting /\ initialized /\ connected' = attached /\ UNCHANGED attached
  /\ UNCHANGED <<at, mem, handles, initialized, result, shared, connecting, refused>>

Requests ==
  \/ Allocate \/ CreateMemoryBlock \/ GetServiceHandle \/ InitializeShared
  \/ GetConnectionEvent \/ RequireConnection \/ WaitAndRead \/ Disconnect

Next == Requests \/ Out \/ Accessory

Spec == Init /\ [][Next]_detectVars

-----------------------------------------------------------------------------
TypeOK ==
  /\ at \in {"idle", "shm", "iru", "initialize", "event", "require", "wait", "disconnect",
             "out", "close_event", "close_iru", "close_shm", "free", "returned"}
  /\ handles \subseteq {"shm", "iru", "event"} /\ ("iru" \in handles => mem)
  /\ result \in {"unknown", "absent", "present"}
  /\ \A b \in {mem, initialized, shared, connecting, refused, connected, attached} : b \in BOOLEAN

(* What holds outside a call, whichever of the requests failed: no handle  *)
(* and no block is held, and ir:USER is ours no more, unless it was asked  *)
(* to let go and refused.                                                  *)
EverythingUndone ==
  handles = {} /\ ~mem /\ ~initialized /\ (shared \/ connecting => refused)

(* ir:USER has a block that was freed or closed under it only if it        *)
(* refused to let go: it is asked to before the handles are closed and the *)
(* memory is given back.                                                   *)
BlockOutlivesUse == shared => refused \/ (mem /\ {"shm", "iru"} \subseteq handles)
=============================================================================
