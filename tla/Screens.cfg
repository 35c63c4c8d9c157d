\* Three packets through a queue of two; a terminal of 12, 20 or 60 columns in
\* which the narrow blocks are taller than its 7 rows.
CONSTANTS
  MaxLen = 2
  Packets <- Sent
  MaxPackets = 3
  MIN_WIDTH = 20
  Widths <- TerminalWidths
  Height = 7
  MaxResizes = 2
  Cursors = {1, 4, 7}
  Words <- Texts
  Blocks <- BlockTable
  BTN <- Buttons
  Placed <- WithPlace
SPECIFICATION Spec
INVARIANTS BlockInPlace CanvasExact
PROPERTIES NewestIsShown ProgramEnds
