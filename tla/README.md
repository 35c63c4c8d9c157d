# 3Input in TLA+

3Input is a 3DS system module that streams the state of the buttons and sticks
over TCP, a launcher that installs a patch and starts it, two Python clients, and
a script that builds and compares the patch. This directory holds TLA+ models of
all of them, the TLC configurations that check them, and proofs of their safety
properties for every value of the constants.

## The system

| part | code | state it keeps | operations | talks to |
|---|---|---|---|---|
| streamer | `source/net.cpp`, `net.h` | listener, client array, time of the next reopening | `netInit`, `netAccept`, `netBroadcast`, `netReset`, `netExit` | socket service, peers |
| input loop | `source/main.cpp` | timer rate, HOME pulse, previous keys, next accept | one iteration per timer tick or srv notification | all parts of the module |
| Wi-Fi keep-alive | `source/wifi.cpp` | link seen, attempts, recoveries, pending request | `wifiPoll`, `wifiTakeRecovered`, `wifiExit` | `ac`, `nwm` |
| IR keys | `source/irkeys.cpp` | mapped C-Stick block, address of the key word, retry times | `irkeysPoll`, `irkeysRead`, `irkeysCstick`, `irkeysExit` | `ir:rst`, `ir:u`, the hook of `patch.s` |
| pad sampling | `source/hid_shared.h`, `main.cpp:149-182` | none (reads shared memory) | the reads of one tick | the HID process |
| client library | `viewer/threeinput.py` | byte buffer, queue of four, `keepGoing` | `netMain`, `hasInput`, `getInput`, `stop`, `join` | the console |
| terminal client | `viewer/cli.py` | width and lines of the last block | the loop, `Display.show`, `format_block` | the client library, the terminal |
| overlay | `viewer/main.py` | the item each widget holds on a canvas | `update_lable`, the `draw` of each widget, `on_close` | the client library, Tk |
| launcher | `Launcher/source/launcher_main.c` | `kDown`, `isConnected` | patch status, key loop, launch | the next two, `ns` |
| Circle Pad Pro detection | `Launcher/source/cpp_detect.c` | handles, shared block | `cppDetect` | `ir:USER` |
| patch installation | `Launcher/source/ir_patch.c` | buffers, the file on the card | `irPatchEnsureInstalled` | SD card |
| patch tool | `tools/ips_check.py` | records and bytes of one run | `build_ips`, `parse_ips`, the comparison | the assembler, files |

The module has one thread. A timer tick samples the pad, polls the IR keys and
the keep-alive, drops all sockets if the keep-alive reports a recovery, accepts
clients every fifth of a second, and sends one 32-byte packet to each client; a
notification starts a HOME pulse or ends the program. Everything hard comes from
the other side of a call: the network and its address change between two calls,
services refuse or never answer, games take the IR sessions, HID writes while we
read, clients stop reading, the card refuses a write or the power goes. In both
clients the receiver thread and the user's thread share a queue without a lock;
the terminal is resized and printed on while it is drawn to, and Ctrl-C may come
anywhere.

What makes each part correct:

* streamer: no descriptor is lost or used under two meanings; each client gets
  each frame once although removals reorder the array; a stream never continues
  after half a packet; nothing blocks; a dead listener comes back;
* input loop: a HOME press reaches whoever was connected, and only ends in time;
  no socket from before a recovery is used; the listener follows the address;
  everything is released at exit;
* keep-alive: bounded and spaced attempts, recoveries that are real, no leaked
  event, a status that settles;
* IR keys: no session kept, no bogus address dereferenced, a busy service asked
  again and an unpatched one not;
* sampling: one packet, one sample, never an old one;
* client library: exact framing however `recv` cuts the stream, quick resync, the
  newest packets kept, no exception between `hasInput` and `getInput`, both threads end;
* terminal client and overlay: what is shown is one packet, all of it and nothing
  older; it becomes the newest one when the console falls silent; the program ends;
* launcher: what it finds out about the patch is true, a file that could be read is
  never touched, `ir:USER` is given back unless it refuses;
* patch tool: the file it builds makes the patched image, its verdict on a file
  can be relied upon.

`PROJECT.json` lists every component, the hazards by source line with the
properties that cover them, and the source lines behind each definition.

## Modules

| module | models | notes |
|---|---|---|
| `FrameFeed` | what the streamer promises: subscribers, and frames served once to each | abstract specification |
| `NetServer` | `net.cpp` | implements `FrameFeed` (`ImplementsFeed`) |
| `MCNetServer` | | symmetry of descriptors for TLC |
| `NetServerProofs` | | theorems about `NetServer`, for all constants |
| `WifiKeepAlive` | `wifi.cpp` | |
| `WifiProofs` | | theorems about `WifiKeepAlive` |
| `MainLoop` | `main.cpp` | composes `NetServer` and `WifiKeepAlive` by INSTANCE |
| `MCMainLoop` | | symmetry of descriptors |
| `MainProofs` | | theorems about `MainLoop`, on top of those about its two parts |
| `IrKeys` | `irkeys.cpp`, default build | |
| `HidRing` | the reads of `main.cpp:149-182` against the HID process | |
| `SamplingProofs` | | theorems about `HidRing` and `IrKeys` |
| `Conn` | what `threeinput.py` promises: a queue that loses its oldest, a thread that ends | abstract specification |
| `Viewer`, `MCViewer` | `threeinput.py` and the loop of `cli.py`, with the stream's bytes | implements `Conn` (`ImplementsConn`); `MCViewer` gives byte strings |
| `ViewerProofs` | | theorems about `Viewer` |
| `TextWrap` | `format_block` of `cli.py`, and `textwrap.wrap` as it uses it | functions only |
| `Cli` | `cli.py`: the loop and `Display` in a terminal | uses `Conn` and `TextWrap` |
| `Overlay` | `viewer/main.py` | uses `Conn` |
| `Screens`, `MCScreens` | | composes `Conn` with `Cli` or `Overlay`; packets and terminals |
| `ScreensProofs` | | theorems about `Screens`, and so about `Cli`, `Overlay` and `TextWrap` |
| `CppDetect` | `cpp_detect.c` | |
| `PatchInstall` | `ir_patch.c` | |
| `Launcher` | `launcher_main.c` | composes `CppDetect` and `PatchInstall` |
| `LauncherProofs` | | theorems about `Launcher` and the two in it |
| `IpsTool`, `MCIpsTool` | `tools/ips_check.py`, `apply_ips` of `hook_test.py` | `MCIpsTool` gives images and sources |
| `IpsProofs` | | theorems about `IpsTool` |

State variables carry the code's names. Deadlines are kept as the time left
(`retryIn` is `retry_at - now`), so that no absolute clock grows. Variables
marked *history* in the declarations are not in the code: they remember what a
property speaks of (which socket was offered this frame, which streams are torn,
how many event handles the kernel holds for us) and no action reads them to
decide what the code does.

**NetServer.** A call that loops over system calls takes a step per system call:
`phase` and `pos` say where. `NetAccept` is the part of `netAccept` before its
loop, with `openListener` and its failure path; `AcceptClient`, `AcceptFails`
and `AcceptReturns` are the loop; `SendOne` is one `send` with its four results
(sent, would block, cut short, error) and what the loop does with them. `sock` is
the process's descriptor table: what is open, and whether it is non-blocking.
`Closed` is `close`; `SockAfterFailedOpen`, `KeptModes`, `Keeps`, `NextPos`,
`Removed` and `ListenerAfterClose` name the single decisions of the code. `accept()`
and the `fcntl` of a client may fail at any moment, `openListener` too: a port may
be taken while the network is up.

**MainLoop.** `at` is the place in the loop. `WakeTimer` is a tick's start with
the hotkey, `Poll` is `wifiPoll`, `Take` is `wifiTakeRecovered` with `netReset`,
`Now` the reading of the clock and the decision to accept, `Accept`/`Send`/
`Sending` the network part, `Clear` the end of the pulse; `WakeNotification` is
the other branch. `homeDue` is `now >= homeUntil` for the `now` that the code
reads once per tick and uses at its end. The network of `NetServer` and the link
of `WifiKeepAlive` are one variable, `link`. When both handles are signalled the
timer is returned, as `svcWaitSynchronizationN` returns the first; with
`TicksFit` the timer fires only while the loop sleeps, without it at any time.

**WifiKeepAlive.** One action per way through `wifiPoll`; `Granted` makes any
service call fail while `acOk` is false; the status query may then fail, too,
and counts as a link that is down. The event behind `connectEvent` is signalled
by `AcAnswers`, or never.

**IrKeys.** `irkeysPoll` takes one step per request to another process. The key
word and the answer to GET_KEYS_PA are abstracted to what `plausiblePA` and the
folding of bits 16 and 17 tell apart. The retry deadlines count from a time taken
before the requests, so when a failed one returns any part of the delay may be over.

**HidRing.** The writer stores the two halves of an entry and then the index;
the reader takes the index, the buttons, and later the Circle Pad's X and then its
Y. Samples are numbers, so that a packet's parts can be compared. Its `RingInit`, `RingNext` and
`RingSpec` have names of their own because `SamplingProofs` extends `IrKeys`, too.

**Viewer.** Bytes are kept: framing is about them. A packet is the magic, the
version, a counter that never wraps (so that order can be seen) and two bytes.
`RestLen` and the payloads stand for the other 28. Ctrl-C in the loop leads to the
finally block; before the try, or in that block, it ends `main` ("unwound") and the
interpreter waits for the receiver.

**Conn, Cli, Overlay, Screens.** The two programs see `threeinput.py` through four
calls, so they are put on `Conn`, which `Viewer` is shown to implement, and not on
the bytes. In `Cli` a word of a line is its length, and a row of the screen is a
piece of a line of one packet's block: `LookAtWidth` and `Write` are the two halves
of `show`, and the terminal may be resized between them, in which case it reflows
or cuts what it shows in a way of its own (`Garbles`). A terminal narrower than a
line of the block does so whenever the block is written (`Wraps`). `NetPrints` is the
line with which `netThread` ends, printed where the cursor is, whatever `main` is
doing; `Join` prints another. The line with which it starts is left out: it comes
before the first packet, and the first redraw clears the screen. Blocks are tabulated, and an
assumption that TLC evaluates compares the table, which Python's own `textwrap`
filled, with `TextWrap`. `TextWrap` has no recursive operator but a recursive
function over the words taken so far, so that it can be proved about. In `Overlay` the callback
takes a step per call: a label is set, an item deleted, another created, and its
number stored, so that Ctrl-C may come between any two. `held` is the number a widget
has in its attribute (`arrow`, `press`, `touched`), `made` one that was returned and
is not stored yet; Tk, which is modelled from its use, hands out a new number for
each item and ignores a deletion of one that is gone. The two canvases share one
numbering.

**IpsTool.** A source is a sequence of lines of three kinds (`.org`, code, other);
assembling is external. Python's slices are modelled with their negative positions
(`Slice`), as a chunk below `--base` meets them. `maker` says who wrote the file:
`build_ips`, or another generator that may merge near records and use run-length
ones, from any source; the file may have lost its end. `StoreHunk` fills `main`'s
dictionary record by record, so that of two records for a byte the later one holds.
Offsets and sizes have widths (`MaxOffset`, `MaxSize`), and one offset reads "EOF".
`Applied` is what the file does to the image, read by `hook_test.py` as by Luma.

**CppDetect, PatchInstall, Launcher.** One step per request or library call,
each of which may fail. In `PatchInstall` the file is absent, empty, a piece of
the bundled copy, all of it, another file of a size that `readFile` takes, or a
longer one. `readFile` may fail with any of them (`unread`). What `fwrite` and
`fclose` returned is kept apart from what is on the card: bytes may reach it in
either call, all of them although `fclose` failed. Power may fail anywhere
(`Restart`), and the user may put a file there meanwhile. In `CppDetect` FINALIZE may
be refused like any other request (`refused`); its answer is not looked at.
`isConnected` is what `main` holds, which is uninitialized when `ACU_GetStatus`
fails, so either value is possible.

## Runs

| run | instance | what it shows |
|---|---|---|
| `Net` | 5 descriptors, 3 clients, retry 1 | every property of the streamer under any order of calls |
| `MainHome` | 4 descriptors, 2 clients, HOME and exit notifications, ticks of any length, link up | HOME presses, pulses and the way out |
| `MainLink` | 2 descriptors, 1 client, 2 addresses; the link changes only after a check saw its last change | old sockets, and the listener's address |
| `MainFlap` | the same, with changes between two checks | **violation**, see below |
| `WifiKeepAlive` | 2 attempts, 2 recoveries, check 1, retry 3 | handles, bounds, recoveries, where the status settles |
| `IrKeys` | both retries 1 | IR sessions and addresses |
| `IrBlocking` | the same | **violation**, see below |
| `Viewer` | 3 packets, queue of 2, recv of 1, 4 or 9 bytes, 4 starts out of or in sync | framing, resync, overflow, shutdown |
| `Launcher` | buttons A and B | detection, installation, key loop and launch, with restarts |
| `HidRing` | ring of 3, 8 samples | sampling without a lock |
| `Screens` | 3 packets, queue of 2, 12, 20 or 60 columns, 7 rows, 2 resizes; 2 buttons, one with a place | the redrawn block, the canvases, what is shown in the end, that both programs end |
| `Ips` | 2 images of 5 bytes, 64 sources, offsets up to 3, sizes up to 2 | building, reading and comparing an IPS file |

Why the bounds are enough. Three clients are the least for which the removed, the
last and an untouched slot of the array differ; one more descriptor is the
listener's and one is spare, so that a number is free and reused. In the
composition the array is already known to be right, and two clients make one of
them the removed and one the moved; four descriptors leave a spare one. Delays
of 1 separate "due" from "not due"; the retry of the keep-alive is longer than
its check, as in the code, since one property compares them. Limits (attempts,
recoveries, the queue, the ring) are smaller than the behaviour that is let run
against them, so they are reached and passed: 8 samples lap a ring of 3 twice.
The receiver's chunks are shorter than a packet, longer than one and of one byte,
so that a packet is cut at each offset and two arrive at once; payloads look like
the magic, end in half of it, or do neither. Of the terminal's widths one is
below `MIN_WIDTH`, so that lines wrap in the terminal, with netThread's line among
them; in one `format_block` wraps most lines, in one a few. In the narrow ones each
block is taller than the 7 rows, in the wide one it fits, and the cursor starts at the
top, in the middle or at the bottom. Two resizes are needed to go away and come back. Three packets
overflow the queue; one shows nothing on the canvases, one an arrow and buttons
with and without a place, one a touch. The images of `Ips` agree and disagree
with the sources' bytes at the beginning, in the middle and at the end of a
chunk; chunks lie below, across, at and behind the ends of the image, touch,
overlap or leave a gap of one; the offset that reads "EOF" and the widths are
small enough to be met.

### Disagreements with comments and documentation

* `MainFlap` (`ListenerFollowsIp`): `README.md:72` says the listening socket is
  rebuilt after the link comes back. `wifiPoll` looks once a second, so a drop
  that fits between two looks is unseen, `netReset` is not called, and the
  listener stays bound to the old address. `MainLink` shows that this is the
  only way: with drops that are seen the property holds.
* `IrBlocking` (`PollReturns`): `irkeys.hpp:4` calls `irkeysPoll` cheap to call
  every frame, and `irkeys.cpp:222` says why it must not block. The policy that
  keeps it from blocking is set after the first poll has opened `ir:rst`.

Five more are stated as properties that no configuration here lists, and that TLC
refutes when they are added to one:

* `MainLoop!NoStaleHome` (an invariant; add it to `MainHome.cfg`): `main.cpp:198`
  says a stale press cannot show up on the next connection. Within a tick,
  accepting and sending come before the clearing, so a client accepted in the tick
  that would clear the pulse gets it.
* `PatchInstall!NeverOverwritten` (with `Spec` of `PatchInstall` alone):
  `ir_patch.h:19` says an existing file is never overwritten. An empty one, one
  longer than 16 KiB, and one that could not be read just then, is. `Launcher` shows
  the part that holds (`UserFileKept`).
* `PatchInstall!InstalledNeverPiece` (likewise): `launcher_main.c:78` prints a green
  "IR patch: installed." for a file that differs, and a piece of the patch that a power
  cut left, or a `remove` that failed, is such a file: it stays, at every launch.
  `StatusIsTrue` is what `irPatchEnsureInstalled` does tell apart.
* `Cli!RedrawnInPlace` (an invariant; add `C!RedrawnInPlace` for `program = "cli"` to
  `Screens`): `cli.py:6` says the block is redrawn in place. When the connection closes
  between the loop's look at `keepGoing` and its last redraw, netThread's line is below
  the block already, the redraw begins a row too low, and an old row stays.
* `Cli!LinesNeverWrap` (likewise): `cli.py:32` says that lines are shorter than the
  width. Below 20 columns they are made for 20.

Met while reading, without a run: `protocol.h:37` says of WIFI_HOLDING that a
request of our own is held, but `wifi.cpp:91` sets it when the request failed,
too; `cli.py:7` says one line per packet, but the queue drops packets and what
is still in it at the end is not printed; `launcher_main.c:107` says A launches,
but A pressed in the same frame as another button leaves the launcher without
launching. `ips_check.py:193` says bytes shared with stock are simply absent from
the file, but a chunk that changes nothing is absent altogether (127-128) and is
then reported as missing, a mismatch (181-185): `NoFalseAlarm` has it as its only
exception. A chunk below `--base` is looked up with a negative slice (122-125), and
if the bytes it wraps around to are its own it is dropped without a word:
`BuiltFileApplies` leaves such chunks out. What stands before the first `.org` is
dropped, too (77).

`Display` compares the terminal's width with that of its last redraw, so a
terminal resized away and back between two packets is reflowed without its
knowledge and keeps old rows; `BlockInPlace` leaves that case out (`exact`), together
with the two above. Any terminal is in the model, and in one of fewer than
`MIN_WIDTH` columns nothing is promised. In the overlay a Ctrl-C inside the callback is reported by Tk and swallowed, and with it
the rescheduling at the callback's end: the window stays open and still. Outside
the callback it ends the mainloop without `on_close`, and the interpreter then
waits for a receiver nobody stopped. `ProgramEnds` promises nothing in these cases
but that closing the window ends the loop. In `cli.py` it promises the end after a
Ctrl-C only if it did not come before the try, nor a second one before `stop()`:
then nothing tells the receiver to end, and the program waits for the console.
A Ctrl-C between creating an item and storing its number leaves an item that no
widget will delete; `CanvasExact` says that it is the only one, and that no callback
follows in which it would be noticed.

## Fairness

* `NetServer`: loops over system calls run on (weak), the clock runs, and the
  input loop calls `netAccept` again and again (strong, as other calls come in
  between): the loop never stops calling it while it runs. `accept()` failing is
  never assumed, nor its succeeding. Of `openListener`, tried again and again while
  the network is up, and of the clients' `fcntl`, it is assumed that one succeeds some
  time (strong, on the success).
* `MainLoop`: the thread runs, the timer fires, the clock ticks (weak); of
  `openListener` and `fcntl` the same is assumed as for `NetServer`. Nothing
  is assumed of peers, of the link, of `ac` or of srv. A wake-up by a notification
  is not assumed either.
* `WifiKeepAlive`: the loop polls (at least 20 times a second, `RATE_IDLE`), the
  clock runs. `ac` need not answer; `RequestIsMade` says what follows if it does.
* `IrKeys`: polls go on; a request that can be answered is; a session that can
  be had again and again is had some time (strong), since games come and go. The
  strong fairness on the *success* of `Initialize` and GET_KEYS_PA says that a
  registered `ir:u` with a session free for us does not refuse for ever.
* `Viewer`: both threads are scheduled. The console need not send, the user need
  not interrupt.
* `Screens`: the user's thread is scheduled (for the overlay: Tk's mainloop runs
  and fires what is due), and the receiver ends once it was told to, which is the
  liveness part of `Conn` that `Viewer` is shown to have (`StopsSoon`). The console
  need not send, and nobody need close the window.
* `HidRing`, `PatchInstall`, `Launcher`, `IpsTool`: safety only, no fairness.

Deadlock checking is on in every run; where a program ends, a self-loop says so
(`Done`, `Finished`).

## Proofs

`NetServerProofs` proves, from `NetAssumption` alone (`None` is neither a
descriptor nor an address; the limits are positive), for any set of descriptors,
finite or not, any `MaxClients` and any `ListenRetry`:

| theorem | statement |
|---|---|
| `TypeCorrect` | `Spec => []TypeOK` |
| `NoDescriptorLeak` | `Spec => []DescriptorsAccounted` |
| `InputLoopNeverBlocks` | `Spec => []NeverBlocks` |
| `EachClientOncePerFrame` | `Spec => []OncePerFrame` |
| `OnlyWholePackets` | `Spec => WholePackets` |
| `RefinesFeed` | `Spec => FeedSafety` |

The argument is one inductive invariant, `Inv`: the four invariants above and
`CutStreamsClosed`: no descriptor in the client array carries a torn stream. None of the parts is inductive alone. That no packet follows a torn one
needs to know that a torn client left the array, that its number is in no second
slot (`DescriptorsAccounted`), and that `accept` handing the number out again
starts another stream. That a frame is offered once needs the array free of
repetitions, or the client moved into slot `pos` could be one that was served.
There is one lemma per action, and one about `Removed`: the array without
its `pos`-th entry holds exactly the other clients, once each, and leaves the
slots before `pos` alone. The refinement maps subscribers to the set of clients
and `due` to those in slots from `pos` on; a removal maps to `Serve` that drops
its subscriber, and `NetReset` and `NetExit` to `Disband`.

`WifiProofs` proves, from `WifiAssumption` (limits and delays positive, the check
no longer than the retry):

| theorem | statement |
|---|---|
| `TypeCorrect` | `Spec => []TypeOK` |
| `NoEventLeaks` | `Spec => []NoHandleLeak` |
| `AttemptsBounded` | `Spec => TriesBounded` |
| `RecoveriesAreReal` | `Spec => RecoveriesHonest` |

Its invariant adds two facts to the types and the handles. `CountsAgree`: the
attempts really made since the link was last up are what `attempts` says while
the link is seen down, and none while it is seen up (`attempts` is stale then,
and reset at the next change); a drop that was seen has at least one. `DelayKept`:
what is left of the delay after an attempt is no more than the time to the next
check. Without them a bound on the code's counter says nothing about attempts.

`SamplingProofs` proves, from `HidAssumption`, for a ring of any size:

| theorem | statement |
|---|---|
| `RingTypeCorrect` | `RingSpec => []RingTypeOK` |
| `NeverAnOldSample` | `RingSpec => []NeverStale` |
| `OneSample` | `RingSpec => []OneSamplePerPacket` |

Its invariant says of both halves of the ring (`Keeps`) that the entry of sample
`m` holds `m` or a later one, and `m` itself until a whole ring of samples was
written since; and that the index, out of range or not, leads to the newest
sample's entry. The step rests on the arithmetic lemma `SlotsDiffer`: samples
less than a ring apart have different entries.

It also proves, from `IrAssumption` (positive retry times), of `irkeys.cpp`:

| theorem | statement |
|---|---|
| `TypeCorrect` | `Spec => []TypeOK` |
| `NoSessionLeaks` | `Spec => []NoSessionKept` |
| `WordIsSound` | `Spec => []OnlySoundWord` |

Their invariant says exactly which handles are held at every request
(`HandlesKnown`), that `ir:u` is asked only while the question is open
(`AskedWhilePending`), and that an address stems from a patched module's answer
(`WordFromPatch`).

`MainProofs` proves, from `MainAssumption` (those of the two parts, and that rates
and delays are positive), for any number of clients, attempts and notifications:

| theorem | statement |
|---|---|
| `Composes` | `Spec => NetComposes /\ WifiComposes` |
| `NoPressLost` | `Spec => []HomeReachesClients` |
| `NoPressSticks` | `Spec => PulseEnds` |
| `OldSocketsGone` | `Spec => []NoOldSocketUsed` |
| `AllReleased` | `Spec => []ExitReleasesAll` |

`Composes` says that the input loop calls `net.cpp` and `wifi.cpp` only as their own
specifications allow, so that what is proved of each holds in the module. The proof
uses that twice: the invariants of `NetServerProofs` and `WifiProofs`, instantiated
at the loop's variables, are parts of its own, and their lemmas prove those parts.
The rest of the invariant ties the parts to the place in the loop: a call is in
progress only at its own step (`PhaseKnown`); before the first tick and on the way
out nothing is held (`ReleasedKnown`); a recovery is taken in the tick that reports
it, and only then sockets from before it exist (`RecoveryKnown`); and who is still
owed the last press are the clients `netBroadcast` has yet to come to, in the first
packet that has the bit (`HomeKnown`). The last needs the streamer's invariant: a
removal moves a client into the slot that is next, and it must not be one that was
served.

`LauncherProofs` proves, for any set of buttons:

| theorem | statement |
|---|---|
| `AccessoryIsReleased` | `Spec => []AccessoryReleased` |
| `StatusIsCorrect` | `Spec => []StatusIsTrue` |
| `PiecesExplained` | `Spec => []PieceOnlyAfterPowerCut` |
| `UserFileSafe` | `Spec => UserFileKept` |

`FileKnown` follows the file from call to call, and what the calls returned beside
it: only a file that `readFile` refused or could not read is opened for writing, it is
as it was until then, and it is whole when both `fwrite` and `fclose` say so.
`HeldKnown` gives for each request of `cppDetect` what has been obtained and is not
yet undone, a refused FINALIZE being the only way for `ir:USER` to keep something.

`ViewerProofs` proves, from `ViewerAssumption` (which also says that bytes are
numbers), for any stream, payload, chunk and length of the queue:

| theorem | statement |
|---|---|
| `EveryPacketDecoded` | `Spec => []DecodesExactly` |
| `OutOfSyncSoonOver` | `Spec => []ResyncsSoon` |
| `PopleftNeverRaises` | `Spec => []NeverRaises` |
| `RefinesConn` | `Spec => ConnSafety` |

The first two have an invariant of their own, `StreamInv`, about the stream
received so far (`Stream`, the junk before the first packet and what was sent).
`InPlace`: what was not dropped is in `buf` and in flight, in order. `Framed`:
every `Size` bytes of what was sent begin with the header, and only the end of the
connection cuts a packet. `InSync`: if no payload looks like the magic, the
decoder is either still in the junk and the first packet, or exactly between two
packets with all but one of those dropped in the queue. `NothingLost`: after a
start in sync all that was dropped is decoded, and the rest is still there;
`Drained`: no whole packet stays in `buf`. `DecodesExactly` is not inductive: that
the magic is at the head of `buf` follows only from `Framed`, and `Framed` only
applies since `NothingLost` says that `buf` begins between two packets.
`ResyncsSoon` speaks of numbers of packets, and the length of `decoded` alone does
not say where in the stream the decoder is (`InSync`). The lemmas cover
a step each: bytes arrive, a packet is taken (`StreamTaken`), bytes before the first
magic are skipped (`StreamSkipped`).

The step to `getInput` is safe because the receiver, the only other user of the
deque, never leaves it empty: a full one loses a packet only as it gains one. The
refinement maps `Conn`'s `running` to a receiver that has not exited and `newest`
to the packet decoded last; a step of `Decode` is a `Receive` or a stutter.

`ScreensProofs` proves, from `ScreensAssumption`, for any packets, any words of
their blocks without one too long for `MIN_WIDTH`, any widths and height of the
terminal, any number of resizes, and any table of buttons:

| theorem | statement |
|---|---|
| `BlockStaysInPlace` | `Spec => []BlockInPlace` |
| `NothingOldOnScreen` | `Spec => []CanvasExact` |
| `UsesConn` | `Spec => ConnAsPromised` |

The terminal's invariant (`Terminal`): the lines at hand are those of the width
looked at and within its limit (`LinesFit`); what `Display` remembers is what it
wrote (`Remembered`); and the last block is in place with the lines printed since
below it, the cursor right below those, unless the terminal was resized since
(`BlockKept`), also while the next one is being written for the same width. The last
clause is what `BlockInPlace` lacks: `Write` goes up from the cursor, and that this
leads to the block's first row, and to no row above it, is known only from where the
last `Write` and what was printed since left it (`PrintsStep`).
That no line wraps by itself from `MIN_WIDTH` on is `BlockFits`, a lemma about
`format_block`: a word that does not fit begins a line, with its indent shorter than
the limit (`WordFits`), for every number of words (`WrappedFits`).

The overlay's: no two widgets have the same item number and none has one to come
(`NumbersApart`); every item on a canvas is the one its widget has, or was just
created for the widget at hand (`ItemsHeld`); a number that is not stored is one of
the callback's, or the callback was cut off and none will come again (`Timing`); the
widgets drawn so far show the packet at hand, and the one at hand as far as its calls
have come (`DrawnSoFar`, `PartDone`, `AllDrawn`). The arrow keeps the number of an
item that is gone; since Tk uses no number twice, it can never delete another widget's
item.

`UsesConn` is the other half of `RefinesConn`: `Conn` allows `popleft` only while there
is a packet, and neither program asks in the step in which it calls it. Its invariant
(`Queued`) is that a program about to call it still has one: only `main` takes packets,
and a receiver that drops one adds another (`ReceiveStep`).

`IpsProofs` proves, from `IpsAssumption` (numbers are naturals, "EOF" is an offset
that three bytes hold, a line has the fields of its kind), for any images, any texts
of `patch.s`, any widths of offsets and sizes and any `Reach`:

| theorem | statement |
|---|---|
| `BuiltFileGivesPatch` | `Spec => []BuiltFileApplies` |
| `SameSourceMatches` | `Spec => []NoFalseAlarm` |
| `NothingHidden` | `Spec => []MatchIsHonest` |

The properties are about what is known at the end, the invariant about every byte
on its way there, with a part per step of the tool. `Sound`: a hunk lies in the
image, has the bytes of the patched one, and none that is neither in a chunk nor
between changed bytes. `Complete`: every byte to be changed is in a hunk. Both hold
from the first chunk of `build_ips` (`Building`) through sorting and writing
(`Writing`), of another generator's records from the start, and after reading them
back (`Parsing`), where only a whole file gets further. `Built` exempts the hunk of
a chunk that lies below the image and passed for one inside: its offset is negative,
and writing it fails. `Holds` says that the dictionary has for each byte what the
last of the records so far that has it says (`LastHit`), which is also what
applying them gives (`AppliedKnown`); so the verdict speaks of the image, not of
the dictionary only. `Comparing` then says which of the chunks looked at agree, and
that none of them disagrees if the file was made from this source and each chunk
changes something.

The central lemmas: `SliceFits` (a Python slice of full length did not wrap
around), `HunkBuilt` (trimming loses no changed byte), `RunsCover` (each changed byte
is in a run that the other generator writes), `PatchedKnown` (chunks that do not
overlap leave no byte in doubt) and `BetweenExplained` (what a generator adds
between two changed bytes is near enough to chunks to be listed).

**Induction over data.** `FlattenSeq` (the packets decoded, one after the other),
`Wrapped` and `IpsTool`'s `Translated` and `Applied` are recursive functions, and the
library's induction theorems take a predicate as a parameter, which cannot be
instantiated here. The three modules prove induction for sets instead
(`SetInduction`, from `LeastElement` and the library's `WFMin`: a set of naturals
with 0 and with the successor of each of its members has them all). With it they
show that the recursion has a solution for every length (`FlattenExists`,
`WrapExists`, `AppliesExists`, `TranslatesExists`), that the recursive definition,
which chooses one, is equal to it (`FlattenedBy`, `WrappedBy`, `AppliedBy`,
`TranslatedBy`), and then what a proof needs of it (`FlattenAppend`, `WrappedFits`,
`AppliedKnown`, `ChunksKnown`).

Checked by TLC only:

* everything with fairness (`ImplementsFeed`'s and `ImplementsConn`'s liveness
  parts, `AcceptNeverStalls`, `ListenerComesBack`, `ListenerFollowsIp`,
  `StatusSettles`, `RequestIsMade`, `KeysResolved`, `Ends`, `NewestIsShown`,
  `ProgramEnds`), since liveness is beyond the prover;
* that `TextWrap` computes what Python's `textwrap` does: the table in `MCScreens`.

The type invariants of `NetServer`, `WifiKeepAlive`, `IrKeys` and `HidRing` are
proved, and those of `NetServer` and `HidRing` are also in runs. Those of the other
modules are read as documentation of the variables; what a proof needs of them is in
its own invariant.

## Not modelled

* `patch.s`: machine code in another process. `IrKeys` has what is seen of it, and
  `IpsTool` takes it as lines.
* The disassembly that `ips_check.py` prints, and `hook_test.py` but for its
  `apply_ips`: it runs the hook in an ARM emulator.
* `irkeysCstick`, `irkeysCstickInfo`: copies out of shared memory with no state
  of their own. That X and Y may come from two samples is among the hazards; the
  entry has nothing a reader could tell it by, and the code promises nothing.
* The `IRKEYS_HOLD_SESSION` build, in which `irkeysPoll` refers to names that are
  not defined there.
* Coordinates, colours and texts: of the labels, of `raw_line`, and of the
  launcher's console. `getIpAddr` only prints.
* `_init.c`, Makefiles, assets.
* Of the viewer, a Ctrl-C while the connection or the window is being set up, and
  lines of two threads mixed in one row: a `print` is one step.
* `requestConnection`'s two ways to fail after the event was created have the same
  effect and are one alternative.
* The packet's fields but for HOME, the frame counter's width (a client that misses
  a multiple of its range of frames cannot tell; neither program looks at it but to
  print it), the values of `errno` and of result codes, the handles of the timer
  and of srv.

## Plan

Done, in this order: `FrameFeed` and `NetServer` with their proofs, as every
other part of the module serves the streaming; `WifiKeepAlive`; `MainLoop`, which
composes the two; `IrKeys`; `Viewer`; `CppDetect`, `PatchInstall`, `Launcher`;
`HidRing`; the proofs about `HidRing` and `WifiKeepAlive`; `IpsTool`; `Conn` with
`Cli`, `Overlay` and `Screens`; the proofs about `MainLoop`, `IrKeys`, `Launcher`,
`Viewer`, `Overlay`, `Cli` with `TextWrap`, and `IpsTool`.

Left:

1. `IrKeys` in `MainLoop`, for what a poll that waits does to HOME and to exit.
2. A specification of the whole path from a sample to the client's queue
   (sampling, broadcast, stream, decoder), which `NetServer` and `Viewer` compose
   to: each client sees a subsequence of the frames, in order.
