------------------------------ MODULE Screens ------------------------------
(***************************************************************************)
(* One of the two programs of the viewer, cli.py or main.py, on a Conn     *)
(* whose console sends a few packets and may close the connection.         *)
(***************************************************************************)
EXTENDS Integers, Sequences, FiniteSetsExt, SequencesExt

CONSTANTS
  MaxLen,
  Packets, MaxPackets,                \* what the console sends, and how many
  MIN_WIDTH, Widths, Height, MaxResizes, Cursors, Words, Blocks,   \* Cli
  BTN, Placed                         \* Overlay

VARIABLES
  program, sent,                      \* which program; packets sent
  inputs, keepGoing, running, newest, ui, j, interrupted,
  raw, width, lines, prev_lines, prev_width, columns, screen, cursor, resizes, below, reflowed,
  exact, open, scheduled, quitting, pos, part, made, labels, held, nextId, canvas

Q == INSTANCE Conn
C == INSTANCE Cli
O == INSTANCE Overlay

ASSUME ScreensAssumption ==
  /\ MaxPackets \in Nat /\ MaxResizes \in Nat
  /\ Q!ConnAssumption /\ C!CliAssumption /\ O!OverlayAssumption

cliVars == <<raw, width, lines, prev_lines, prev_width, columns, screen, cursor, resizes,
            below, reflowed, exact>>
overlayVars == <<open, scheduled, quitting, pos, part, made, labels, held, nextId, canvas>>
vars == <<program, sent, inputs, keepGoing, running, newest, ui, j, interrupted,
          cliVars, overlayVars>>

Init ==
  /\ program \in {"cli", "overlay"} /\ sent = 0
  /\ Q!Init /\ j = <<>> /\ interrupted = FALSE
  /\ ui = IF program = "cli" THEN "new" ELSE "loop"
  /\ O!WindowInit
  /\ IF program = "cli" THEN C!DisplayInit
     ELSE /\ raw = FALSE /\ width = 0 /\ lines = <<>> /\ prev_lines = 0 /\ prev_width = 0
          /\ columns = MIN_WIDTH /\ screen = <<>> /\ cursor = 1
          /\ resizes = 0 /\ below = 0 /\ reflowed = FALSE /\ exact = TRUE

ConsoleSends ==
  /\ sent < MaxPackets /\ sent' = sent + 1
  /\ \E p \in Packets : Q!Receive(p)
  /\ UNCHANGED <<program, ui, j, interrupted, cliVars, overlayVars>>

\* By itself only when the connection is closed or breaks; it says so on the
\* terminal, on which main.py draws nothing.
NetThreadEnds ==
  /\ Q!NetEnds
  /\ IF program = "cli" THEN C!NetPrints ELSE UNCHANGED cliVars
  /\ UNCHANGED <<program, sent, ui, j, interrupted, overlayVars>>

Cli == program = "cli" /\ C!CliNext /\ UNCHANGED <<program, sent, overlayVars>>
Overlay == program = "overlay" /\ O!OverlayNext /\ UNCHANGED <<program, sent, cliVars>>
Finished == ui = "done" /\ UNCHANGED vars

Next == ConsoleSends \/ NetThreadEnds \/ Cli \/ Overlay \/ Finished

Main ==
  \/ program = "cli" /\ C!Main /\ UNCHANGED <<program, sent, overlayVars>>
  \/ program = "overlay" /\ O!Main /\ UNCHANGED <<program, sent, cliVars>>

\* The user's thread runs, and netThread ends once it was told to.
Spec ==
  /\ Init /\ [][Next]_vars
  /\ WF_vars(Main) /\ WF_vars(~keepGoing /\ NetThreadEnds)

-----------------------------------------------------------------------------
BlockInPlace == program = "cli" => C!BlockInPlace
CanvasExact == program = "overlay" => O!CanvasExact

(* Both programs use the connection as Conn allows: they call popleft only *)
(* while there is a packet, although they looked some time before and the  *)
(* receiver was at the deque meanwhile; and but for that only stop().      *)
ConnAsPromised == Q!Init /\ [][Q!Next]_(Q!conn)

(* When the console stops sending, what is shown becomes the newest packet *)
(* it sent, so no button stays on the screen that was released; unless the *)
(* connection ended, or the user did.                                      *)
NewestIsShown ==
  <>[](j = newest \/ ~running \/ ~open \/ interrupted)

(* Both programs end after the connection did, and without its help: cli   *)
(* after Ctrl-C, the overlay when its window is closed.  No such promise   *)
(* is made once a Ctrl-C reached the overlay, nor if one reaches cli       *)
(* before its try, or a second one before stop() told netThread to end.    *)
ProgramEnds ==
  /\ ~running ~> (ui = "done" \/ (program = "overlay" /\ interrupted))
  /\ program = "cli" /\ interrupted ~> (ui = "done" \/ (ui = "unwound" /\ keepGoing))
  /\ ~open ~> (ui = "done" \/ ui = "unwound")
=============================================================================
