--------------------------- MODULE LauncherProofs ---------------------------
(***************************************************************************)
(* Safety of Launcher, with CppDetect and PatchInstall in it, for any set  *)
(* of buttons.                                                             *)
(***************************************************************************)
EXTENDS Launcher, TLAPS

(* The file on the card, call by call: only one that readFile refused, or  *)
(* failed to read, is opened for writing, and what fwrite and fclose say   *)
(* of it is known when it is judged.                                       *)
Unwanted == {"absent", "empty", "long"}

FileKnown ==
  /\ file \in Unwanted \cup {"part", "same", "other"}
  /\ step \in {"bundled", "onSd", "folders", "open"} => file = before
  /\ step \in {"folders", "open"} \/ Patch!Writing => unread \/ before \in Unwanted
  /\ step = "write" => file \in {"empty", "part"}
  /\ step \in {"close", "closed"} => file \in {"empty", "part", "same"}
  /\ step = "closed" /\ written /\ flushed => file = "same"
  /\ file = "part" /\ ~Patch!Writing => cut \/ kept
  /\ Patch!StatusIsTrue

(* Outside cppDetect; before, during and after our use of ir:USER.         *)
Outside == {"idle", "returned"}
Before == {"shm", "iru", "initialize"}
Lent == {"event", "require", "wait", "disconnect"}
After == {"close_event", "close_iru", "close_shm", "free"}

(* What is held at each request: mem from Allocate to Free, the handles in *)
(* the order they were obtained, ir:USER initialized while they are.       *)
HeldKnown ==
  /\ detecting \in Outside \cup Before \cup Lent \cup After \cup {"out"}
  /\ handles \subseteq {"shm", "iru", "event"}
  /\ detecting \in Outside => ~mem /\ ~initialized
  /\ detecting \in Outside \cup {"shm", "free"} => handles = {}
  /\ detecting \in Before => ~initialized
  /\ detecting \in Outside \cup Before \cup After => refused \/ (~shared /\ ~connecting)
  /\ detecting \in Lent => initialized /\ {"shm", "iru"} \subseteq handles
  /\ detecting = "iru" => "shm" \in handles
  /\ detecting = "initialize" => {"shm", "iru"} \subseteq handles
  /\ detecting \notin Outside => mem
  /\ shared => refused \/ (initialized /\ {"shm", "iru"} \subseteq handles)
  /\ connecting => refused \/ initialized
  /\ detecting = "close_iru" => handles \subseteq {"shm", "iru"}
  /\ detecting = "close_shm" => handles \subseteq {"shm"}

(* main waits for cppDetect to return.                                     *)
DetectedFirst == at # "detect" => detecting \in Outside

IInv == FileKnown /\ HeldKnown /\ DetectedFirst

-----------------------------------------------------------------------------
LEMMA InitInv == Init => IInv
BY DEF Init, Cpp!Init, Patch!Init, Patch!Contents, Patch!Writing, Patch!StatusIsTrue, Patch!Ended,
       IInv, FileKnown, Unwanted, HeldKnown, DetectedFirst, Outside, Before, Lent, After

\* Each call of irPatchEnsureInstalled, and what it may do to a file.
LEMMA InstallStep ==
  ASSUME FileKnown, Patch!EnsureInstalled
  PROVE  FileKnown' /\ (file \in {"same", "other"} /\ ~Patch!Writing => file' = file \/ unread)
<1> USE DEF FileKnown, Unwanted, Patch!Writing, Patch!StatusIsTrue, Patch!Ended, Patch!Done,
            Patch!card, Patch!told, Patch!seen
<1>1. CASE Patch!RomfsInit BY <1>1 DEF Patch!RomfsInit
<1>2. CASE Patch!ReadBundled BY <1>2 DEF Patch!ReadBundled, Patch!AfterReadBundled
<1>3. CASE Patch!ReadOnSd BY <1>3 DEF Patch!ReadOnSd, Patch!Readable, Patch!Compared
<1>4. CASE Patch!MakeFolders BY <1>4 DEF Patch!MakeFolders
<1>5. CASE Patch!OpenForWriting BY <1>5 DEF Patch!OpenForWriting
<1>6. CASE Patch!WriteSome BY <1>6 DEF Patch!WriteSome
<1>7. CASE Patch!Write BY <1>7 DEF Patch!Write
<1>8. CASE Patch!Close BY <1>8 DEF Patch!Close
<1>9. CASE Patch!Judge BY <1>9 DEF Patch!Judge, Patch!WriteOk, Patch!AfterRemove
<1>10. CASE Patch!Return BY <1>10 DEF Patch!Return
<1> QED
  BY <1>1, <1>2, <1>3, <1>4, <1>5, <1>6, <1>7, <1>8, <1>9, <1>10 DEF Patch!EnsureInstalled

\* Each request of cppDetect, each of which may fail.
LEMMA DetectStep ==
  ASSUME HeldKnown, Cpp!Requests \/ Cpp!Out
  PROVE  HeldKnown'
<1> USE DEF HeldKnown, Outside, Before, Lent, After
<1>1. CASE Cpp!Allocate BY <1>1 DEF Cpp!Allocate, Cpp!AfterAllocate
<1>2. CASE Cpp!CreateMemoryBlock BY <1>2 DEF Cpp!CreateMemoryBlock, Cpp!Obtain
<1>3. CASE Cpp!GetServiceHandle BY <1>3 DEF Cpp!GetServiceHandle, Cpp!Obtain
<1>4. CASE Cpp!InitializeShared
  <2>1. detecting = "initialize" /\ handles' = handles /\ mem' = mem /\ connecting' = connecting
        BY <1>4 DEF Cpp!InitializeShared
  <2>2. \/ detecting' = "event" /\ initialized'
        \/ detecting' = "out" /\ shared' = shared /\ refused' = refused
        BY <1>4 DEF Cpp!InitializeShared
  <2>3. mem' /\ {"shm", "iru"} \subseteq handles' BY <2>1
  <2>4. refused \/ (~shared /\ ~connecting) BY <2>1
  <2>5. CASE detecting' = "event" /\ initialized' BY <2>1, <2>3, <2>5
  <2>6. CASE detecting' = "out" /\ shared' = shared /\ refused' = refused
    BY <2>1, <2>3, <2>4, <2>6
  <2> QED BY <2>2, <2>5, <2>6
<1>5. CASE Cpp!GetConnectionEvent BY <1>5 DEF Cpp!GetConnectionEvent, Cpp!Obtain
<1>6. CASE Cpp!RequireConnection
  <2>1. /\ detecting = "require" /\ detecting' \in {"wait", "out"} /\ handles' = handles
        /\ mem' = mem /\ initialized' = initialized /\ shared' = shared /\ refused' = refused
        BY <1>6 DEF Cpp!RequireConnection
  <2> QED BY <2>1
<1>7. CASE Cpp!WaitAndRead BY <1>7 DEF Cpp!WaitAndRead
<1>8. CASE Cpp!Disconnect
  <2>1. /\ detecting = "disconnect" /\ detecting' = "out" /\ handles' = handles
        /\ mem' = mem /\ initialized' = initialized /\ shared' = shared /\ refused' = refused
        BY <1>8 DEF Cpp!Disconnect
  <2>2. connecting' => connecting BY <1>8, Zenon DEF Cpp!Disconnect
  <2> QED BY <2>1, <2>2
<1>9. CASE Cpp!Finalize BY <1>9 DEF Cpp!Finalize, Cpp!Finalizes
<1>10. CASE Cpp!Close("event", "close_event", "close_iru") BY <1>10 DEF Cpp!Close, Cpp!Closed
<1>11. CASE Cpp!Close("iru", "close_iru", "close_shm") BY <1>11 DEF Cpp!Close, Cpp!Closed
<1>12. CASE Cpp!Close("shm", "close_shm", "free") BY <1>12 DEF Cpp!Close, Cpp!Closed
<1>13. CASE Cpp!Free BY <1>13 DEF Cpp!Free
<1> QED
  BY <1>1, <1>2, <1>3, <1>4, <1>5, <1>6, <1>7, <1>8, <1>9, <1>10, <1>11, <1>12, <1>13
  DEF Cpp!Requests, Cpp!Out

\* What neither part touches keeps its invariant.
LEMMA FileUntouched ==
  ASSUME FileKnown, UNCHANGED patchVars
  PROVE  FileKnown' /\ file' = file
BY DEF FileKnown, patchVars, Patch!Writing, Patch!StatusIsTrue, Patch!Ended

LEMMA HeldUntouched ==
  ASSUME HeldKnown, UNCHANGED cppVars
  PROVE  HeldKnown' /\ detecting' = detecting
BY DEF HeldKnown, cppVars

-----------------------------------------------------------------------------
FileSafe ==
  file \in {"same", "other"} /\ ~Patch!Writing => file' = file \/ UserCopies \/ unread

LEMMA MainStep ==
  ASSUME IInv, Main
  PROVE  IInv' /\ FileSafe
<1> USE DEF IInv, FileSafe
<1>1. CASE ShowIrPatchStatus
  BY <1>1, FileUntouched, HeldUntouched DEF ShowIrPatchStatus, DetectedFirst
<1>2. CASE DetectCpp
  <2>1. FileKnown' /\ file' = file BY <1>2, FileUntouched DEF DetectCpp
  <2>2. CASE detecting = "returned"
    BY <1>2, <2>1, <2>2, HeldUntouched DEF DetectCpp, DetectedFirst, Outside
  <2>3. CASE detecting # "returned"
    BY <1>2, <2>1, <2>3, DetectStep DEF DetectCpp, DetectedFirst
  <2> QED BY <2>2, <2>3
<1>3. CASE InstallPatch
  <2>1. HeldKnown' /\ detecting' = detecting BY <1>3, HeldUntouched DEF InstallPatch
  <2>2. CASE step = "returned"
    BY <1>3, <2>1, <2>2, FileUntouched DEF InstallPatch, DetectedFirst
  <2>3. CASE step # "returned"
    BY <1>3, <2>1, <2>3, InstallStep DEF InstallPatch, DetectedFirst
  <2> QED BY <2>2, <2>3
<1>4. CASE Frame
  BY <1>4, FileUntouched, HeldUntouched DEF Frame, DetectedFirst
<1>5. CASE Closed
  BY <1>5, FileUntouched, HeldUntouched DEF Closed, DetectedFirst
<1>6. CASE Leave
  BY <1>6, FileUntouched, HeldUntouched DEF Leave, DetectedFirst
<1>7. CASE LaunchTitle
  BY <1>7, FileUntouched, HeldUntouched DEF LaunchTitle, DetectedFirst
<1> QED BY <1>1, <1>2, <1>3, <1>4, <1>5, <1>6, <1>7 DEF Main

LEMMA WorldStep ==
  ASSUME IInv, World
  PROVE  IInv' /\ FileSafe
<1> USE DEF IInv, FileSafe
<1>1. CASE Press
  BY <1>1, FileUntouched, HeldUntouched DEF Press, DetectedFirst
<1>2. CASE Accessory
  <2>1. FileKnown' /\ file' = file BY <1>2, FileUntouched DEF Accessory
  <2>2. HeldKnown' /\ DetectedFirst'
        BY <1>2 DEF Accessory, Cpp!Accessory, HeldKnown, DetectedFirst
  <2> QED BY <2>1, <2>2
<1>3. CASE Restart
  <2>1. FileKnown' /\ file' = file
        BY <1>3 DEF Restart, Patch!Restart, Patch!Forgotten, FileKnown, Unwanted, Patch!Writing,
                    Patch!StatusIsTrue, Patch!Ended
  <2>2. HeldKnown' /\ DetectedFirst'
        BY <1>3 DEF Restart, HeldKnown, DetectedFirst, Outside, Before, Lent, After
  <2> QED BY <2>1, <2>2
<1>4. CASE Relaunch
  <2>1. FileKnown' /\ file' = file
        BY <1>4, FileUntouched
        DEF Relaunch, Patch!Relaunch, Patch!Forgotten, Patch!card, FileKnown, Unwanted,
            Patch!Writing, Patch!StatusIsTrue, Patch!Ended
  <2>2. detecting \in Outside BY <1>4 DEF Relaunch, DetectedFirst
  <2>3. HeldKnown' /\ DetectedFirst'
        BY <1>4, <2>2 DEF Relaunch, HeldKnown, DetectedFirst, Outside, Before, Lent, After
  <2> QED BY <2>1, <2>3
<1>5. CASE UserCopies
  <2>1. FileKnown'
        BY <1>5 DEF UserCopies, Patch!UserCopies, Patch!Contents, Patch!told, Patch!seen,
                    FileKnown, Unwanted, Patch!Writing, Patch!StatusIsTrue, Patch!Ended
  <2> QED BY <1>5, <2>1, HeldUntouched DEF UserCopies, DetectedFirst
<1> QED BY <1>1, <1>2, <1>3, <1>4, <1>5 DEF World

LEMMA Inductive == Spec => []IInv
<1>1. IInv /\ UNCHANGED launcherVars => IInv'
  BY FileUntouched, HeldUntouched DEF IInv, launcherVars, DetectedFirst
<1>2. IInv /\ [Next]_launcherVars => IInv'
  BY <1>1, MainStep, WorldStep DEF Next
<1> QED BY InitInv, <1>2, PTL DEF Spec

-----------------------------------------------------------------------------
(* Whatever request of cppDetect fails, what is the launcher's is given    *)
(* back before main goes on, and the block is freed under ir:USER only if  *)
(* ir:USER refused FINALIZE.                                               *)
THEOREM AccessoryIsReleased == Spec => []AccessoryReleased
<1>1. IInv => AccessoryReleased
  BY DEF IInv, HeldKnown, DetectedFirst, AccessoryReleased, Cpp!EverythingUndone,
         Cpp!BlockOutlivesUse, Outside, Before, Lent, After
<1> QED BY Inductive, <1>1, PTL

(* What irPatchEnsureInstalled returns is true of the card: what fwrite    *)
(* and fclose say, and what an earlier launch left, lead to no other.      *)
THEOREM StatusIsCorrect == Spec => []StatusIsTrue
<1>1. IInv => StatusIsTrue BY DEF IInv, FileKnown, StatusIsTrue
<1> QED BY Inductive, <1>1, PTL

(* A piece of the copy stays only after a power cut or a failed remove.    *)
THEOREM PiecesExplained == Spec => []PieceOnlyAfterPowerCut
<1>1. IInv => PieceOnlyAfterPowerCut
  BY DEF IInv, FileKnown, PieceOnlyAfterPowerCut, Patch!PieceOnlyAfterPowerCut, Patch!Writing
<1> QED BY Inductive, <1>1, PTL

(* A file of a size readFile takes, and that is not the launcher's own     *)
(* half of a copy, changes in a launch only if reading it failed there.    *)
THEOREM UserFileSafe == Spec => UserFileKept
<1>1. IInv /\ [Next]_launcherVars => [FileSafe]_launcherVars
  BY MainStep, WorldStep DEF Next
<1>2. [][FileSafe]_launcherVars => UserFileKept
  BY PTL DEF FileSafe, UserFileKept
<1> QED BY Inductive, <1>1, <1>2, PTL DEF Spec
=============================================================================
