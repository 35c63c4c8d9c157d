-------------------------------- MODULE Cli --------------------------------
(***************************************************************************)
(* viewer/cli.py as a user of Conn: main's loop, and Display, which        *)
(* redraws a block of lines in a terminal that may be resized at any time, *)
(* and that netThread and join() print a line on, too.  A row of the       *)
(* screen is a piece of a line.                                            *)
(***************************************************************************)
EXTENDS Integers, Sequences, FiniteSetsExt, SequencesExt

CONSTANTS
  MaxLen,
  MIN_WIDTH,
  Widths, Height,  \* the terminal's possible columns, and its rows
  MaxResizes,      \* how often it is resized
  Cursors,         \* the rows it may leave the cursor in
  Words,           \* of a packet: its five logical lines, each a sequence of words
  Blocks           \* format_block of each of them for each width, tabulated

F == INSTANCE TextWrap

\* The lengths of "[*] exiting netMain" and "[*] net join".
ExitNote == 19
JoinNote == 12

CliAssumption ==
  /\ MIN_WIDTH \in Nat /\ MIN_WIDTH > ExitNote /\ Height \in Nat \ {0, 1}
  /\ Widths \subseteq Nat \ {0}
  /\ Cursors \subseteq 1..Height
  /\ \A p \in DOMAIN Words : \A n \in 1..5 : F!Unsplit(Words[p], n)
  /\ Blocks = {[packet |-> p, columns |-> w, lines |-> F!format_block(Words[p], w)] :
                 p \in DOMAIN Words, w \in Widths}

VARIABLES
  inputs, keepGoing, running, newest,    \* Conn
  ui, j, interrupted,            \* main: its step, and the packet taken last
  raw,
  width, lines, prev_lines, prev_width,  \* show and Display
  columns, screen, cursor, resizes,      \* the terminal
  below,                         \* history: lines printed below the block
  reflowed, exact                \* history: resized since show looked at the width;
                                 \* and the last redraw knew where the block was

INSTANCE Conn

connVars == <<inputs, keepGoing, running, newest>>

display == <<width, lines, prev_lines, prev_width>>
terminal == <<columns, screen, cursor, resizes>>
cli == <<raw, display, terminal, below, reflowed, exact>>

None == <<>>
Old == <<"old">>         \* what was on the screen before
Note == <<"note">>       \* a line that is not Display's

DisplayInit ==
  /\ raw \in BOOLEAN
  /\ width = 0 /\ lines = <<>> /\ prev_lines = 0 /\ prev_width = 0
  /\ columns \in Widths /\ screen = [r \in 1..Height |-> Old] /\ cursor \in Cursors
  /\ resizes = 0 /\ below = 0
  /\ reflowed = FALSE /\ exact = TRUE

-----------------------------------------------------------------------------
\* A line takes one row, unless the terminal is narrower than what it was made for:
\* it was resized since, or has less than MIN_WIDTH columns.
BlockRows == [i \in DOMAIN lines |-> <<j, width, i>>]
Wraps == \E i \in DOMAIN lines : lines[i] > columns

\* Mutant of Above: the cursor goes up one line too few.
AboveOneMore ==
  IF width # prev_width THEN <<>>
  ELSE SubSeq(screen, 1, Max({1, cursor - prev_lines + 1}) - 1)

\* The rows above the block: after a new width the screen is cleared, else the
\* cursor goes up by the lines of the last block, at most to the top.
Above ==
  IF width # prev_width THEN <<>>
  ELSE SubSeq(screen, 1, Max({1, cursor - prev_lines}) - 1)

\* show: first it looks at the width, then it writes.
LookAtWidth ==
  /\ ui = "show" /\ ui' = "write"
  /\ width' = columns
  /\ \E b \in Blocks : b.packet = j /\ b.columns = columns /\ lines' = b.lines
  /\ exact' = (columns # prev_width \/ (exact /\ ~reflowed))
  /\ reflowed' = FALSE
  /\ UNCHANGED <<connVars, j, interrupted, raw, prev_lines, prev_width, terminal, below>>

\* The last newline scrolls at the bottom; what is below the block is cleared.
Shows(rows) ==
  LET kept == Min({Len(rows), Height - 1})
  IN  /\ cursor' = kept + 1
      /\ screen' = [r \in 1..Height |->
                      IF r <= kept THEN rows[Len(rows) - kept + r] ELSE None]

Garbles == screen' = [r \in 1..Height |-> Old] /\ cursor' \in Cursors

\* A line that was printed since is not counted in prev_lines.
Write ==
  /\ ui = "write" /\ ui' = "check"
  /\ exact' = (exact /\ (below = 0 \/ width # prev_width))
  /\ below' = 0
  /\ IF Wraps THEN Garbles ELSE \E rows \in {Above \o BlockRows} : Shows(rows)
  /\ prev_lines' = Len(lines) /\ prev_width' = width
  /\ UNCHANGED <<connVars, j, interrupted, raw, width, lines, columns, resizes, reflowed>>

\* The terminal reflows or cuts what it shows, each in its own way.
Resize ==
  /\ resizes < MaxResizes /\ resizes' = resizes + 1
  /\ columns' \in Widths \ {columns}
  /\ Garbles
  /\ reflowed' = TRUE
  /\ UNCHANGED <<connVars, ui, j, interrupted, raw, display, below, exact>>

\* print(), with lines that are not followed here if raw.
Prints(length) ==
  IF raw THEN UNCHANGED <<screen, cursor, below>>
  ELSE /\ below' = below + 1
       /\ \/ length > columns /\ Garbles
          \/ /\ length <= columns /\ cursor < Height
             /\ screen' = [screen EXCEPT ![cursor] = Note] /\ cursor' = cursor + 1
          \/ /\ length <= columns /\ cursor = Height
             /\ screen' = [r \in 1..Height |-> IF r = Height THEN None
                                             ELSE IF r = Height - 1 THEN Note ELSE screen[r + 1]]
             /\ UNCHANGED cursor

\* In netThread, in one piece.
NetPrints ==
  /\ Prints(ExitNote)
  /\ UNCHANGED <<raw, display, columns, resizes, reflowed, exact>>

-----------------------------------------------------------------------------
\* main; before the try, the connection and its thread are there already.
EnterTry ==
  /\ ui = "new" /\ ui' = "check"
  /\ UNCHANGED <<connVars, j, interrupted, cli>>

Check ==
  /\ ui = "check"
  /\ ui' = IF keepGoing THEN "has" ELSE "stop"
  /\ UNCHANGED <<connVars, j, interrupted, cli>>

Has ==
  /\ ui = "has"
  /\ ui' = IF HasInput THEN "get" ELSE "check"
  /\ UNCHANGED <<connVars, j, interrupted, cli>>

Get ==
  /\ ui = "get" /\ GetInput
  /\ j' = Head(inputs)
  /\ ui' = IF raw THEN "check" ELSE "show"
  /\ UNCHANGED <<interrupted, cli>>

\* Ctrl-C: in the loop it leads to the finally block; before the try and in that
\* block it ends main, and the interpreter waits for netThread.
Interrupt ==
  /\ \/ ui \in {"check", "has", "get", "show", "write"} /\ ui' = "stop"
     \/ ui \in {"new", "stop", "join"} /\ ui' = "unwound"
  /\ interrupted' = TRUE
  /\ UNCHANGED <<connVars, j, cli>>

StopConn ==
  /\ ui = "stop" /\ ui' = "join"
  /\ Stop
  /\ UNCHANGED <<j, interrupted, cli>>

Join ==
  /\ ~running /\ ui' = "done"
  /\ \/ ui = "join" /\ Prints(JoinNote)
     \/ ui = "unwound" /\ UNCHANGED <<screen, cursor, below>>
  /\ UNCHANGED <<connVars, j, interrupted, raw, display, columns, resizes, reflowed, exact>>

Main == EnterTry \/ Check \/ Has \/ Get \/ LookAtWidth \/ Write \/ StopConn \/ Join
CliNext == Main \/ Interrupt \/ Resize

-----------------------------------------------------------------------------
Waits == ui \in {"check", "has", "get", "show"}

\* The block of the last packet, what was printed after it, and nothing else; the
\* last rows of it if it is too tall.
OnScreen ==
  LET all == prev_lines + below
      shown == Min({all, Height - 1})
  IN  \E p \in DOMAIN Words :
        /\ ui # "show" => p = j
        /\ screen = [r \in 1..Height |->
                       IF r > shown THEN None
                       ELSE IF all - shown + r > prev_lines THEN Note
                       ELSE <<p, width, all - shown + r>>]

(* After a redraw the screen shows the lines of the last packet's block,   *)
(* and below them what was printed since; no rest of an older, longer or   *)
(* differently wrapped block, wherever the cursor was, and no line wraps   *)
(* by itself.  Left out: a terminal of less than MIN_WIDTH columns, in     *)
(* which the lines do wrap (LinesNeverWrap); a redraw for the same width   *)
(* after netThread's last line, which leaves an old row (RedrawnInPlace);  *)
(* a terminal resized away and back between two packets, which Display     *)
(* cannot see; and one resized since.                                      *)
BlockInPlace ==
  Waits /\ prev_width # 0 /\ exact /\ ~reflowed /\ columns >= MIN_WIDTH =>
    OnScreen /\ \A i \in DOMAIN lines : lines[i] < columns

(* cli.py:6, "a small block of live values that is redrawn in place".  It  *)
(* does not hold at the end: when the connection closes between the loop's *)
(* look at keepGoing and the redraw, netThread's line is there first.      *)
RedrawnInPlace ==
  Waits /\ prev_width # 0 /\ resizes = 0 /\ columns >= MIN_WIDTH => OnScreen

(* cli.py:32, "The values as lines no longer than `width - 1`, so they     *)
(* never wrap by themselves."  It does not hold below MIN_WIDTH.           *)
LinesNeverWrap == \A i \in DOMAIN lines : lines[i] <= width - 1
=============================================================================
