------------------------------ MODULE TextWrap ------------------------------
(***************************************************************************)
(* format_block of viewer/cli.py, and what it uses of textwrap.wrap: the   *)
(* lengths of the lines of a packet's block.  A word is its length.        *)
(***************************************************************************)
EXTENDS Integers, Sequences, FiniteSetsExt, SequencesExt

CONSTANT MIN_WIDTH

Indent == <<0, 2, 4, 4, 4>>

\* The values contain no spaces and fit a line: wrap splits none.
Unsplit(words, n) ==
  words[n] \in Seq(Nat) /\ \A i \in DOMAIN words[n] : Indent[n] + words[n][i] < MIN_WIDTH

\* The lines so far, and one more word: on the last line while it fits.
WithWord(lines, word, limit, indent) ==
  IF lines = <<>> THEN <<word>>
  ELSE IF Last(lines) + 1 + word <= limit THEN [lines EXCEPT ![Len(lines)] = @ + 1 + word]
  ELSE Append(lines, indent + word)

\* textwrap.wrap: the lines of the first n words, for every n.
Wrapped(words, limit, indent) ==
  LET upto[n \in 0..Len(words)] ==
        IF n = 0 THEN <<>> ELSE WithWord(upto[n - 1], words[n], limit, indent)
  IN  upto[Len(words)]

\* A text without words takes a line as well.
LinesOf(words, limit, indent) ==
  IF words = <<>> THEN <<0>> ELSE Wrapped(words, limit, indent)

format_block(words, width) ==
  LET limit == Max({MIN_WIDTH, width}) - 1
      lines(n) == LinesOf(words[n], limit, Indent[n])
  IN  lines(1) \o lines(2) \o lines(3) \o lines(4) \o lines(5)
=============================================================================
