------------------------------ MODULE Launcher ------------------------------
(***************************************************************************)
(* Launcher/source/launcher_main.c: the homebrew application that sees to  *)
(* the IR patch, shows the console's address, and starts the 3Input module *)
(* when A is pressed.  showIrPatchStatus calls cppDetect on an old console *)
(* and irPatchEnsureInstalled where the patch is of use: CppDetect and     *)
(* PatchInstall, step by step.  The console may be switched off in between *)
(* and the launcher started again.                                         *)
(***************************************************************************)
EXTENDS Integers

CONSTANT Buttons     \* the buttons the user may press

ASSUME LauncherAssumption == {"A", "B"} \subseteq Buttons

VARIABLES
  at,                \* main's step
  isNew3DS,
  isConnected,       \* the value that main holds is 3
  kDown,             \* hidKeysDown of the last frame
  held,              \* the buttons the HID module reports as held
  scanned,           \* what hidScanInput saw in the last frame
  left,              \* history: how the loop was left
  module,            \* the 3Input process: "stopped", "old", "new"
  detecting, mem, handles, initialized, result, shared, connecting, refused, connected,
  attached, step, state, romfs, bundled, written, flushed, file, folder, cut, kept, before, unread

Cpp == INSTANCE CppDetect WITH at <- detecting
Patch == INSTANCE PatchInstall

cppVars == <<detecting, mem, handles, initialized, result, shared, connecting, refused,
             connected, attached>>
patchVars == <<step, state, romfs, bundled, written, flushed, file, folder, cut, kept,
               before, unread>>
loopVars == <<kDown, scanned, left, module>>
launcherVars == <<at, isNew3DS, isConnected, held, loopVars, cppVars, patchVars>>

Init ==
  /\ at = "start"
  /\ isNew3DS \in BOOLEAN
  /\ isConnected \in BOOLEAN     \* ACU_GetStatus may also fail and leave it uninitialized
  /\ kDown = {} /\ held = {} /\ scanned = {} /\ left = "no"
  /\ module \in {"stopped", "old"}
  /\ Cpp!Init /\ Patch!Init

-----------------------------------------------------------------------------
ShowIrPatchStatus ==
  /\ at = "start"
  /\ at' = IF isNew3DS THEN "install" ELSE "detect"
  /\ UNCHANGED <<isNew3DS, isConnected, held, loopVars, cppVars, patchVars>>

\* Without a Circle Pad Pro, or without an answer, the patch is not looked at.
DetectCpp ==
  /\ at = "detect"
  /\ IF detecting = "returned"
     THEN /\ at' = IF result = "present" THEN "install" ELSE "frame"
          /\ UNCHANGED cppVars
     ELSE UNCHANGED at /\ (Cpp!Requests \/ Cpp!Out)
  /\ UNCHANGED <<isNew3DS, isConnected, held, loopVars, patchVars>>

InstallPatch ==
  /\ at = "install"
  /\ IF step = "returned"
     THEN at' = "frame" /\ UNCHANGED patchVars
     ELSE UNCHANGED at /\ Patch!EnsureInstalled
  /\ UNCHANGED <<isNew3DS, isConnected, held, loopVars, cppVars>>

ConnectionChecked == isConnected

LeavesByA(keys) == "A" \in keys /\ ConnectionChecked

\* One frame: the keys that went down since the last one.
Frame ==
  /\ at = "frame"
  /\ kDown' = held \ scanned /\ scanned' = held
  /\ IF LeavesByA(kDown') THEN at' = "leave" /\ left' = "A"
     ELSE IF "B" \in kDown' THEN at' = "leave" /\ left' = "B"
     ELSE UNCHANGED <<at, left>>
  /\ UNCHANGED <<isNew3DS, isConnected, held, module, cppVars, patchVars>>

\* aptMainLoop returned false: the system closes the application.
Closed ==
  /\ at = "frame" /\ at' = "leave" /\ left' = "closed"
  /\ UNCHANGED <<isNew3DS, isConnected, held, kDown, scanned, module, cppVars, patchVars>>

LaunchWanted == kDown = {"A"}

\* A module that runs is terminated first; either call may fail.
Leave ==
  /\ at = "leave"
  /\ \/ LaunchWanted /\ at' = "launch" /\ module' \in {module, "stopped"}
     \/ ~LaunchWanted /\ at' = "exited" /\ UNCHANGED module
  /\ UNCHANGED <<isNew3DS, isConnected, held, kDown, scanned, left, cppVars, patchVars>>

LaunchTitle ==
  /\ at = "launch" /\ at' = "exited"
  /\ module' \in IF module = "stopped" THEN {"stopped", "new"} ELSE {module}
  /\ UNCHANGED <<isNew3DS, isConnected, held, kDown, scanned, left, cppVars, patchVars>>

Press ==
  /\ at \in {"frame", "leave"}
  /\ held' \in SUBSET Buttons
  /\ UNCHANGED <<at, isNew3DS, isConnected, loopVars, cppVars, patchVars>>

Accessory ==
  /\ Cpp!Accessory
  /\ UNCHANGED <<at, isNew3DS, isConnected, held, loopVars, patchVars>>

\* The console is switched off, at any point, and on again: no process is left.
Restart ==
  /\ at' = "off" /\ module' = "stopped" /\ held' = {}
  /\ detecting' = "idle" /\ mem' = FALSE /\ handles' = {} /\ initialized' = FALSE
  /\ result' = "unknown" /\ shared' = FALSE /\ connecting' = FALSE /\ refused' = FALSE
  /\ connected' = FALSE
  /\ Patch!Restart
  /\ UNCHANGED <<isNew3DS, isConnected, kDown, scanned, left, attached>>

\* The user starts the launcher, for another time or after a restart.
Relaunch ==
  /\ at \in {"exited", "off"} /\ at' = "start"
  /\ isConnected' \in BOOLEAN
  /\ kDown' = {} /\ scanned' = {} /\ left' = "no"
  /\ module' = IF module = "stopped" THEN "stopped" ELSE "old"
  /\ detecting' = "idle"
  /\ Patch!Relaunch \/ (step = "idle" /\ UNCHANGED patchVars)
  /\ UNCHANGED <<isNew3DS, held, mem, handles, initialized, result, shared, connecting,
                 refused, connected, attached>>

\* ... and may take the card out in between.
UserCopies ==
  /\ at = "off" /\ Patch!UserCopies
  /\ UNCHANGED <<at, isNew3DS, isConnected, held, loopVars, cppVars>>

Main == ShowIrPatchStatus \/ DetectCpp \/ InstallPatch \/ Frame \/ Closed \/ Leave \/ LaunchTitle
World == Press \/ Accessory \/ Restart \/ Relaunch \/ UserCopies
Next == Main \/ World

Spec == Init /\ [][Next]_launcherVars

-----------------------------------------------------------------------------
TypeOK ==
  /\ at \in {"off", "start", "detect", "install", "frame", "leave", "launch", "exited"}
  /\ isNew3DS \in BOOLEAN /\ isConnected \in BOOLEAN
  /\ \A keys \in {kDown, held, scanned} : keys \subseteq Buttons
  /\ left \in {"no", "A", "B", "closed"} /\ (left = "A" => isConnected)
  /\ module \in {"stopped", "old", "new"}
  /\ Cpp!TypeOK /\ Patch!TypeOK

(* When main goes on, the launcher holds nothing of ir:USER any more,      *)
(* whichever request failed, and ir:USER has a block that was freed or     *)
(* closed under it only if it refused FINALIZE, the answer to which is     *)
(* ignored.                                                                *)
AccessoryReleased ==
  /\ at # "detect" => Cpp!EverythingUndone
  /\ Cpp!BlockOutlivesUse

(* What irPatchEnsureInstalled tells main about the patch is true of the   *)
(* card, whatever failed and wherever an earlier installation was cut off. *)
(* main's words for it are not always: PatchInstall, InstalledNeverPiece.  *)
StatusIsTrue == Patch!StatusIsTrue

(* A piece of a patch stays on the card only if the power failed or the    *)
(* card refused to remove it.                                              *)
PieceOnlyAfterPowerCut == Patch!PieceOnlyAfterPowerCut

(* A file of the user's that has a size readFile takes survives every      *)
(* launch but one in which reading it fails: then it counts as missing.    *)
(* While the launcher writes, the file is the launcher's.                  *)
UserFileKept ==
  [][(file \in {"same", "other"} /\ ~Patch!Writing)
       => file' = file \/ UserCopies \/ unread]_launcherVars
=============================================================================
