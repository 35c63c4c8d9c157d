---------------------------- MODULE PatchInstall ----------------------------
(***************************************************************************)
(* Launcher/source/ir_patch.c: irPatchEnsureInstalled puts the bundled     *)
(* code.ips on the SD card, where Luma looks for it when the console       *)
(* boots.  One step per call of the C library, since the console may lose  *)
(* power between any two.  Every call may fail; the card may be full,      *)
(* locked, or refuse to be read.  Which errno is reported is left out.     *)
(***************************************************************************)
EXTENDS Integers

(* The file at IR_PATCH_PATH: not there, empty, the start of the bundled   *)
(* copy, all of it, another file of at most PATCH_MAX_SIZE, or a longer    *)
(* one.                                                                    *)
Contents == {"absent", "empty", "part", "same", "other", "long"}

VARIABLES
  step,      \* the call irPatchEnsureInstalled is about to make
  state,     \* PatchState
  romfs,     \* romfsInit was called, romfsExit was not
  bundled,   \* bundled holds code.ips
  written,   \* fwrite took all the bytes
  flushed,   \* closeRes is 0
  file, folder,   \* the card: the file, and /luma/sysmodules
  cut,       \* history: the power failed in the middle of writing
  kept,      \* history: what a failed remove left behind
  before,    \* history: file when the call began
  unread     \* history: there was a file of a size to be read, and reading it failed

patchVars == <<step, state, romfs, bundled, written, flushed, file, folder, cut, kept,
               before, unread>>
card == <<file, folder, cut, kept>>
told == <<written, flushed>>
seen == <<before, unread>>

Init ==
  /\ step = "idle" /\ state = "none" /\ romfs = FALSE /\ bundled = FALSE
  /\ file \in Contents \ {"part"} /\ folder \in BOOLEAN /\ (file # "absent" => folder)
  /\ written = FALSE /\ flushed = FALSE /\ before = "absent" /\ unread = FALSE
  /\ cut = FALSE /\ kept = FALSE

-----------------------------------------------------------------------------
Done(result) ==
  /\ step' = "done"
  /\ state' = result

\* The label done: buffers are freed and romfs is closed.
Return ==
  /\ step = "done" /\ step' = "returned"
  /\ bundled' = FALSE /\ romfs' = FALSE
  /\ UNCHANGED <<state, told, card, seen>>

RomfsInit ==
  /\ step = "idle"
  /\ \/ romfs' = TRUE /\ step' = "bundled" /\ UNCHANGED state
     \/ step' = "returned" /\ state' = "failed" /\ UNCHANGED romfs
  /\ before' = file /\ unread' = FALSE
  /\ UNCHANGED <<bundled, told, card>>

AfterReadBundled(read) == IF read THEN "onSd" ELSE "done"

ReadBundled ==
  /\ step = "bundled"
  /\ bundled' \in BOOLEAN
  /\ step' = AfterReadBundled(bundled')
  /\ state' = IF bundled' THEN state ELSE "failed"
  /\ UNCHANGED <<romfs, told, card, seen>>

Compared == IF file = "same" THEN "present" ELSE "different"

\* Mutant of Readable: only a file as long as the bundled copy counts.
ReadableIfSame == file = "same"

\* What readFile can return a buffer for.
Readable == file \in {"part", "same", "other"}

\* Without a buffer the file counts as missing: one of another size, and one
\* for which fopen, malloc or fread failed.
ReadOnSd ==
  /\ step = "onSd"
  /\ \/ Readable /\ Done(Compared) /\ UNCHANGED unread
     \/ Readable /\ step' = "folders" /\ unread' = TRUE /\ UNCHANGED state
     \/ ~Readable /\ step' = "folders" /\ UNCHANGED <<state, unread>>
  /\ UNCHANGED <<romfs, bundled, told, card, before>>

\* A folder that exists is fine, and so is any error until fopen fails, too.
MakeFolders ==
  /\ step = "folders" /\ step' = "open"
  /\ folder' \in {TRUE, folder}
  /\ UNCHANGED <<state, romfs, bundled, told, file, cut, kept, seen>>

\* fopen with "wb" creates the file, or empties it.
OpenForWriting ==
  /\ step = "open"
  /\ \/ /\ folder /\ file' = "empty" /\ step' = "write"
        /\ cut' = FALSE /\ kept' = FALSE
        /\ UNCHANGED state
     \/ Done("failed") /\ UNCHANGED <<file, cut, kept>>
  /\ UNCHANGED <<romfs, bundled, told, folder, seen>>

Writing == step \in {"write", "close", "closed"}

\* Some of the bytes reach the card before others do, in either call.
WriteSome ==
  /\ step \in {"write", "close"} /\ file = "empty"
  /\ file' = "part"
  /\ UNCHANGED <<step, state, romfs, bundled, told, folder, cut, kept, seen>>

\* fwrite may keep bytes back for fclose.
Write ==
  /\ step = "write" /\ step' = "close"
  /\ written' \in BOOLEAN /\ file' \in {"same", file}
  /\ UNCHANGED <<state, romfs, bundled, flushed, folder, cut, kept, seen>>

\* What fwrite took is on the card if fclose says so; else it may be.
Close ==
  /\ step = "close" /\ step' = "closed"
  /\ flushed' \in BOOLEAN
  /\ file' \in IF written /\ flushed' THEN {"same"} ELSE {"same", file}
  /\ UNCHANGED <<state, romfs, bundled, written, folder, cut, kept, seen>>

\* Mutant of WriteOk: what fclose says is ignored.
WriteOkUnflushed == written
WriteOk == written /\ flushed

\* Mutant of AfterRemove: a file that could not be written is left there.
AfterRemoveForgotten == file
AfterRemove == "absent"

\* The result of remove is ignored.
Judge ==
  /\ step = "closed"
  /\ \/ WriteOk /\ Done("installed") /\ UNCHANGED <<file, kept>>
     \/ /\ ~WriteOk /\ Done("failed")
        /\ \/ file' = AfterRemove /\ UNCHANGED kept
           \/ kept' = TRUE /\ UNCHANGED file
  /\ UNCHANGED <<romfs, bundled, told, folder, cut, seen>>

-----------------------------------------------------------------------------
Forgotten ==
  /\ state' = "none" /\ written' = FALSE /\ flushed' = FALSE
  /\ before' = "absent" /\ unread' = FALSE

\* The console restarts, in the middle of the call too.
Restart ==
  /\ step' = "idle" /\ romfs' = FALSE /\ bundled' = FALSE
  /\ Forgotten
  /\ cut' = (cut \/ Writing)
  /\ UNCHANGED <<file, folder, kept>>

\* The user leaves the launcher and starts it again.
Relaunch ==
  /\ step = "returned" /\ step' = "idle"
  /\ Forgotten
  /\ UNCHANGED <<romfs, bundled, card>>

\* Or copies a file by hand, or deletes it, while the launcher does not run.
UserCopies ==
  /\ step = "idle"
  /\ file' \in Contents \ {"part"} /\ folder' = (folder \/ file' # "absent")
  /\ cut' = FALSE /\ kept' = FALSE
  /\ UNCHANGED <<step, state, romfs, bundled, told, seen>>

EnsureInstalled ==
  \/ RomfsInit \/ ReadBundled \/ ReadOnSd \/ MakeFolders \/ OpenForWriting \/ WriteSome
  \/ Write \/ Close \/ Judge \/ Return

Next == EnsureInstalled \/ Restart \/ Relaunch \/ UserCopies

Spec == Init /\ [][Next]_patchVars

-----------------------------------------------------------------------------
TypeOK ==
  /\ step \in {"idle", "bundled", "onSd", "folders", "open", "write", "close", "closed",
               "done", "returned"}
  /\ state \in {"none", "present", "different", "installed", "failed"}
  /\ file \in Contents /\ before \in Contents
  /\ \A b \in {romfs, bundled, written, flushed, folder, cut, kept, unread} : b \in BOOLEAN
  /\ step \in {"onSd", "folders", "open"} \/ Writing => bundled /\ romfs

Ended == step \in {"done", "returned"}

(* What the call returns agrees with the card: PRESENT and INSTALLED mean  *)
(* that the whole bundled copy is there for Luma to load at the next       *)
(* restart, whatever an earlier launch left; DIFFERENT, a file of which    *)
(* readFile has all, and that was left alone; FAILED, that the file is as  *)
(* it was or gone, unless it could not be removed.  A piece of the copy    *)
(* that a power cut left counts as DIFFERENT: see InstalledNeverPiece.     *)
StatusIsTrue ==
  Ended =>
    /\ state \in {"present", "installed"} => file = "same"
    /\ state = "different" => file = before /\ file \in {"part", "other"}
    /\ state = "installed" => unread \/ before \in {"absent", "empty", "long"}
    /\ state = "failed" => kept \/ file \in {before, "absent"}

(* A piece of a patch is left on the card only when the power failed, or   *)
(* the card refused to remove it: a write that fails cleans up.            *)
PieceOnlyAfterPowerCut == file = "part" /\ step \in {"idle", "returned"} => cut \/ kept

(* launcher_main.c:78 begins with a green "IR patch: installed." for       *)
(* DIFFERENT, too.  It does not hold: a piece that a power cut or a failed *)
(* remove left is shown so at every launch, and never repaired.            *)
InstalledNeverPiece == Ended /\ state = "different" => file # "part"

(* ir_patch.h:19, "An existing file is never overwritten."  It does not    *)
(* hold of a file that readFile takes for missing.                         *)
NeverOverwritten ==
  [][step = "open" /\ file # "absent" => file' = file]_patchVars
=============================================================================
