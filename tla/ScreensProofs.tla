--------------------------- MODULE ScreensProofs ---------------------------
(***************************************************************************)
(* The two programs of Screens for any packets, buttons, words of a block  *)
(* and widths of the terminal, and any number of each: cli leaves its      *)
(* block on the screen and nothing else; between two callbacks the         *)
(* overlay's canvases hold what belongs there.                             *)
(***************************************************************************)
EXTENDS Screens, SequenceTheorems, WellFoundedInduction, TLAPS

\* Every set of naturals but the empty one has a least element; so what holds
\* of 0 and of each successor holds of all of them.
LEMMA LeastElement ==
  ASSUME NEW T \in SUBSET Nat, T # {}
  PROVE  \E m \in T : \A n \in T : m <= n
<1> DEFINE R == OpToRel(<, Nat)
<1>1. IsWellFoundedOn(R, Nat)
  BY NatLessThanWellFounded
<1>2. \A x, y \in Nat : <<x, y>> \in R <=> x < y
  BY DEF OpToRel
<1> HIDE DEF R
<1>3. PICK m \in T : \A n \in T : ~(<<n, m>> \in R)
  BY <1>1, WFMin
<1>4. m \in Nat /\ \A n \in T : n \in Nat
  OBVIOUS
<1>5. \A n \in T : ~(n < m)
  BY <1>2, <1>3, <1>4
<1> QED BY <1>4, <1>5

\* Induction, for a set: no predicate is passed as a parameter.
LEMMA SetInduction ==
  ASSUME NEW T, 0 \in T, \A n \in Nat : n \in T => n + 1 \in T
  PROVE  Nat \subseteq T
<1> SUFFICES ASSUME Nat \ T # {} PROVE FALSE
  OBVIOUS
<1>1. PICK m \in Nat \ T : \A n \in Nat \ T : m <= n
  BY LeastElement
<1>2. m # 0 /\ m - 1 \in Nat
  BY <1>1
<1>3. m - 1 \in T
  BY <1>1, <1>2
<1> QED BY <1>1, <1>2, <1>3

\* f is the function wrap computes for the first n words.
Wraps(f, words, limit, indent, n) ==
  /\ f = [k \in 0..n |-> f[k]]
  /\ \A k \in 0..n : f[k] = IF k = 0 THEN <<>> ELSE C!F!WithWord(f[k - 1], words[k], limit, indent)

\* The recursion can be solved for every number of words.
LEMMA WrapExists ==
  ASSUME NEW words, NEW limit, NEW indent, NEW N \in Nat
  PROVE  \E f : Wraps(f, words, limit, indent, N)
<1> DEFINE T == {n \in Nat : \E f : Wraps(f, words, limit, indent, n)}
<1>1. 0 \in T
  <2>1. PICK f : f = [k \in 0..0 |-> <<>>]
    OBVIOUS
  <2>2. f[0] = <<>> /\ f = [k \in 0..0 |-> f[k]]
    BY <2>1
  <2>3. Wraps(f, words, limit, indent, 0)
    BY <2>2 DEF Wraps
  <2> QED BY <2>3
<1>2. ASSUME NEW n \in Nat, n \in T PROVE n + 1 \in T
  <2>1. PICK f : Wraps(f, words, limit, indent, n)
    BY <1>2
  <2>2. PICK v : v = C!F!WithWord(f[n], words[n + 1], limit, indent)
    OBVIOUS
  <2>3. PICK g : g = [k \in 0..(n + 1) |-> IF k = n + 1 THEN v ELSE f[k]]
    OBVIOUS
  <2>4. /\ \A k \in 0..(n + 1) : g[k] = IF k = n + 1 THEN v ELSE f[k]
        /\ g = [k \in 0..(n + 1) |-> g[k]]
    BY <2>3
  <2>5. ASSUME NEW k \in 0..(n + 1)
        PROVE  g[k] = IF k = 0 THEN <<>> ELSE C!F!WithWord(g[k - 1], words[k], limit, indent)
    <3>1. CASE k = n + 1
      <4>1. k # 0 /\ k - 1 = n /\ n \in 0..(n + 1) /\ n # n + 1
        BY <3>1
      <4>2. g[k] = v /\ g[n] = f[n]
        BY <2>4, <3>1, <4>1
      <4> QED BY <2>2, <3>1, <4>1, <4>2
    <3>2. CASE k # n + 1
      <4>1. k \in 0..n /\ g[k] = f[k] /\ (k # 0 => k - 1 \in 0..(n + 1) /\ k - 1 # n + 1)
        BY <2>4, <3>2
      <4>2. f[k] = IF k = 0 THEN <<>> ELSE C!F!WithWord(f[k - 1], words[k], limit, indent)
        BY <2>1, <4>1 DEF Wraps
      <4>3. k # 0 => g[k - 1] = f[k - 1]
        BY <2>4, <4>1
      <4> QED BY <4>1, <4>2, <4>3, Zenon
    <3> QED BY <3>1, <3>2
  <2>6. Wraps(g, words, limit, indent, n + 1)
    BY <2>4, <2>5, Zenon DEF Wraps
  <2> QED BY <2>6
<1> HIDE DEF T
<1>3. N \in T
  BY <1>1, <1>2, SetInduction
<1> QED BY <1>3 DEF T

\* Wrapped, which chooses a solution, takes the last value of one.
LEMMA WrappedBy ==
  ASSUME NEW words, NEW limit, NEW indent, Len(words) \in Nat
  PROVE  \E f : /\ Wraps(f, words, limit, indent, Len(words))
                /\ C!F!Wrapped(words, limit, indent) = f[Len(words)]
<1> DEFINE Solve(f, k) == IF k = 0 THEN <<>> ELSE C!F!WithWord(f[k - 1], words[k], limit, indent)
           Def(f) == f = [k \in 0..Len(words) |-> Solve(f, k)]
           upto == CHOOSE f : Def(f)
<1>1. PICK g : Wraps(g, words, limit, indent, Len(words))
  BY WrapExists
<1>2. PICK h : h = [k \in 0..Len(words) |-> Solve(g, k)]
  OBVIOUS
<1>3. \A k \in 0..Len(words) : g[k] = Solve(g, k)
  BY <1>1 DEF Wraps
<1>4. g = [k \in 0..Len(words) |-> g[k]]
  BY <1>1, Zenon DEF Wraps
<1> HIDE DEF Solve
<1>5. h = [k \in 0..Len(words) |-> g[k]]
  BY <1>2, <1>3
<1>6. h = g
  BY <1>4, <1>5, Zenon
<1>7. Def(g)
  BY <1>2, <1>6
<1>8. Def(upto)
  BY <1>7
<1>9. C!F!Wrapped(words, limit, indent) = upto[Len(words)]
  BY DEF C!F!Wrapped, Solve
<1> HIDE DEF upto
<1>10. /\ upto = [k \in 0..Len(words) |-> upto[k]]
       /\ \A k \in 0..Len(words) : upto[k] = Solve(upto, k)
  BY <1>8
<1>11. Wraps(upto, words, limit, indent, Len(words))
  BY <1>10, Zenon DEF Wraps, Solve
<1> QED BY <1>9, <1>11

\* No line is longer than the limit.
Fit(sofar, limit) == sofar \in Seq(Nat) /\ \A i \in 1..Len(sofar) : sofar[i] <= limit

\* One more word leaves every line short enough.
LEMMA WordFits ==
  ASSUME NEW sofar, NEW word \in Nat, NEW limit \in Nat, NEW indent \in Nat,
         Fit(sofar, limit), indent + word <= limit
  PROVE  /\ Fit(C!F!WithWord(sofar, word, limit, indent), limit)
         /\ C!F!WithWord(sofar, word, limit, indent) # <<>>
<1>1. /\ sofar \in Seq(Nat) /\ Len(sofar) \in Nat
      /\ \A i \in 1..Len(sofar) : sofar[i] \in Nat /\ sofar[i] <= limit
  BY DEF Fit
<1> DEFINE Room == Last(sofar) + 1 + word <= limit
           Longer == [sofar EXCEPT ![Len(sofar)] = sofar[Len(sofar)] + 1 + word]
           Another == Append(sofar, indent + word)
<1>a. C!F!WithWord(sofar, word, limit, indent)
        = IF sofar = <<>> THEN <<word>> ELSE IF Room THEN Longer ELSE Another
  BY DEF C!F!WithWord, C!F!Last, Last
<1>2. CASE sofar = <<>>
  <2>1. <<word>> \in Seq(Nat) /\ Len(<<word>>) = 1 /\ <<word>>[1] = word /\ <<word>> # <<>>
    OBVIOUS
  <2>2. word <= limit
    OBVIOUS
  <2>3. Fit(<<word>>, limit)
    BY <2>1, <2>2 DEF Fit
  <2>4. C!F!WithWord(sofar, word, limit, indent) = <<word>>
    BY <1>2, <1>a, Zenon
  <2> QED BY <2>1, <2>3, <2>4, Zenon
<1>3. CASE sofar # <<>> /\ Room
  <2>1. Len(sofar) \in 1..Len(sofar) /\ Last(sofar) = sofar[Len(sofar)]
    BY <1>1, <1>3 DEF Last
  <2>2. PICK n \in Nat : n = sofar[Len(sofar)] + 1 + word
    <3>1. sofar[Len(sofar)] + 1 + word \in Nat
      BY <1>1, <2>1
    <3> QED BY <3>1
  <2>3. C!F!WithWord(sofar, word, limit, indent) = [sofar EXCEPT ![Len(sofar)] = n]
    <3>1. C!F!WithWord(sofar, word, limit, indent)
            = Longer
      BY <1>3, <1>a, Zenon
    <3> QED BY <2>2, <3>1, Zenon DEF Longer
  <2>4. n <= limit
    BY <1>3, <2>1, <2>2 DEF Room
  <2>5. PICK r : r = [sofar EXCEPT ![Len(sofar)] = n]
    OBVIOUS
  <2>6. /\ r \in Seq(Nat) /\ Len(r) = Len(sofar)
        /\ \A i \in 1..Len(sofar) : r[i] = IF i = Len(sofar) THEN n ELSE sofar[i]
    BY <1>1, <2>1, <2>5, ExceptSeq
  <2>7. r # <<>>
    BY <1>1, <2>1, <2>6
  <2>8. Fit(r, limit)
    BY <1>1, <2>4, <2>6 DEF Fit
  <2> QED BY <2>3, <2>5, <2>7, <2>8
<1>4. CASE sofar # <<>> /\ ~Room
  <2>1. C!F!WithWord(sofar, word, limit, indent) = Append(sofar, indent + word)
    BY <1>4, <1>a, Zenon DEF Another
  <2>2. indent + word \in Nat
    OBVIOUS
  <2>3. PICK r : r = Append(sofar, indent + word)
    OBVIOUS
  <2>4. /\ r \in Seq(Nat) /\ Len(r) = Len(sofar) + 1 /\ r # <<>>
        /\ r[Len(sofar) + 1] = indent + word /\ \A i \in 1..Len(sofar) : r[i] = sofar[i]
    BY <1>1, <2>2, <2>3, AppendProperties
  <2>5. PICK n \in Nat : n = indent + word
    BY <2>2
  <2>6. n <= limit /\ r[Len(sofar) + 1] = n
    BY <2>4, <2>5
  <2>7. ASSUME NEW i \in 1..Len(r) PROVE r[i] <= limit
    <3>1. i \in 1..Len(sofar) \/ i = Len(sofar) + 1
      BY <1>1, <2>4
    <3> QED BY <1>1, <2>4, <2>6, <3>1
  <2>8. Fit(r, limit)
    BY <2>4, <2>7 DEF Fit
  <2> QED BY <2>1, <2>3, <2>4, <2>8
<1> QED BY <1>2, <1>3, <1>4

\* wrap makes no line longer than the limit.
LEMMA WrappedFits ==
  ASSUME NEW words \in Seq(Nat), NEW limit \in Nat, NEW indent \in Nat,
         \A i \in 1..Len(words) : indent + words[i] <= limit, words # <<>>
  PROVE  /\ Fit(C!F!Wrapped(words, limit, indent), limit)
         /\ C!F!Wrapped(words, limit, indent) # <<>>
<1>1. Len(words) \in Nat /\ Len(words) # 0 /\ \A i \in 1..Len(words) : words[i] \in Nat
  OBVIOUS
<1>2. PICK f : /\ Wraps(f, words, limit, indent, Len(words))
               /\ C!F!Wrapped(words, limit, indent) = f[Len(words)]
  BY <1>1, WrappedBy
<1> DEFINE T == {k \in Nat : k \in 0..Len(words) => Fit(f[k], limit) /\ (k # 0 => f[k] # <<>>)}
<1>3. 0 \in T
  <2>1. 0 \in 0..Len(words)
    BY <1>1
  <2>2. f[0] = <<>>
    BY <1>2, <2>1, Zenon DEF Wraps
  <2>3. <<>> \in Seq(Nat) /\ Len(<<>>) = 0
    OBVIOUS
  <2>4. Fit(<<>>, limit)
    BY <2>3 DEF Fit
  <2>5. Fit(f[0], limit)
    BY <2>2, <2>4
  <2> QED BY <2>5
<1>4. ASSUME NEW k \in Nat, k \in T PROVE k + 1 \in T
  <2> SUFFICES ASSUME k + 1 \in 0..Len(words)
               PROVE  Fit(f[k + 1], limit) /\ f[k + 1] # <<>>
    OBVIOUS
  <2>1. k \in 0..Len(words) /\ k + 1 \in 1..Len(words) /\ k + 1 # 0 /\ (k + 1) - 1 = k
    BY <1>1
  <2>2. f[k + 1] = IF k + 1 = 0 THEN <<>>
                   ELSE C!F!WithWord(f[(k + 1) - 1], words[k + 1], limit, indent)
    BY <1>2, <2>1, Zenon DEF Wraps
  <2>3. f[k + 1] = C!F!WithWord(f[k], words[k + 1], limit, indent)
    BY <2>1, <2>2, Zenon
  <2>4. Fit(f[k], limit) /\ words[k + 1] \in Nat /\ indent + words[k + 1] <= limit
    BY <1>1, <1>4, <2>1
  <2> QED BY <2>3, <2>4, WordFits
<1> HIDE DEF T
<1>5. Len(words) \in T
  BY <1>1, <1>3, <1>4, SetInduction
<1> QED BY <1>1, <1>2, <1>5 DEF T

\* A concatenation has no longer lines than its parts.
LEMMA TogetherFit ==
  ASSUME NEW limit \in Nat, NEW some, NEW more, Fit(some, limit), Fit(more, limit), some # <<>>
  PROVE  Fit(some \o more, limit) /\ some \o more # <<>>
<1>1. /\ some \in Seq(Nat) /\ more \in Seq(Nat) /\ Len(some) \in Nat \ {0} /\ Len(more) \in Nat
      /\ \A i \in 1..Len(some) : some[i] <= limit
      /\ \A i \in 1..Len(more) : more[i] <= limit
  BY DEF Fit
<1>2. /\ some \o more \in Seq(Nat) /\ Len(some \o more) = Len(some) + Len(more)
      /\ \A i \in 1 .. Len(some) + Len(more) :
           (some \o more)[i] = IF i <= Len(some) THEN some[i] ELSE more[i - Len(some)]
  BY <1>1, ConcatProperties, Zenon
<1>3. PICK all : all = some \o more
  OBVIOUS
<1>4. \A i \in 1..Len(all) : all[i] <= limit
  BY <1>1, <1>2, <1>3
<1> QED BY <1>1, <1>2, <1>3, <1>4 DEF Fit

LEMMA SmallerOf ==
  ASSUME NEW a \in Nat, NEW b \in Nat
  PROVE  C!Min({a, b}) = IF a <= b THEN a ELSE b
BY DEF C!Min

\* "no longer than `width - 1`, so they never wrap by themselves", from MIN_WIDTH on
Limit(w) == IF w >= MIN_WIDTH THEN w - 1 ELSE MIN_WIDTH - 1

LEMMA BlockFits ==
  ASSUME NEW p \in DOMAIN Words, NEW w \in Widths
  PROVE  Fit(C!F!format_block(Words[p], w), Limit(w)) /\ C!F!format_block(Words[p], w) # <<>>
<1>1. /\ MIN_WIDTH \in Nat \ {0} /\ w \in Nat
      /\ \A n \in 1..5 : C!F!Unsplit(Words[p], n)
  BY ScreensAssumption DEF C!CliAssumption, C!ExitNote
<1>2. /\ Limit(w) \in Nat /\ MIN_WIDTH <= Limit(w) + 1
      /\ C!F!Max({MIN_WIDTH, w}) - 1 = Limit(w)
  BY <1>1 DEF Limit, C!F!Max
<1> DEFINE line(n) == C!F!LinesOf(Words[p][n], Limit(w), C!F!Indent[n])
<1>3. ASSUME NEW n \in 1..5 PROVE Fit(line(n), Limit(w)) /\ line(n) # <<>>
  <2>1. PICK indent \in Nat : indent = C!F!Indent[n]
    BY DEF C!F!Indent
  <2>2. PICK words \in Seq(Nat) : words = Words[p][n]
    BY <1>1 DEF C!F!Unsplit
  <2>3. \A i \in 1..Len(words) : indent + words[i] < MIN_WIDTH
    <3>1. \A i \in DOMAIN Words[p][n] : C!F!Indent[n] + Words[p][n][i] < MIN_WIDTH
      BY <1>1, Zenon DEF C!F!Unsplit
    <3>2. DOMAIN words = 1..Len(words)
      OBVIOUS
    <3> QED BY <2>1, <2>2, <3>1, <3>2, Zenon
  <2>4. \A i \in 1..Len(words) : indent + words[i] <= Limit(w)
    BY <1>1, <1>2, <2>3
  <2>5. line(n) = IF words = <<>> THEN <<0>> ELSE C!F!Wrapped(words, Limit(w), indent)
    BY <2>1, <2>2 DEF C!F!LinesOf
  <2>6. CASE words = <<>>
    <3>1. <<0>> \in Seq(Nat) /\ Len(<<0>>) = 1 /\ <<0>>[1] = 0 /\ <<0>> # <<>>
      OBVIOUS
    <3>2. Fit(<<0>>, Limit(w))
      BY <1>2, <3>1 DEF Fit
    <3> QED BY <2>5, <2>6, <3>1, <3>2, Zenon
  <2>7. CASE words # <<>>
    <3>1. /\ Fit(C!F!Wrapped(words, Limit(w), indent), Limit(w))
          /\ C!F!Wrapped(words, Limit(w), indent) # <<>>
      BY <1>2, <2>4, <2>7, WrappedFits
    <3> QED BY <2>5, <2>7, <3>1, Zenon
  <2> QED BY <2>6, <2>7
<1>4. C!F!format_block(Words[p], w) = line(1) \o line(2) \o line(3) \o line(4) \o line(5)
  BY <1>2 DEF C!F!format_block
<1> HIDE DEF line
<1>5. /\ Fit(line(1), Limit(w)) /\ line(1) # <<>> /\ Fit(line(2), Limit(w))
      /\ Fit(line(3), Limit(w)) /\ Fit(line(4), Limit(w)) /\ Fit(line(5), Limit(w))
  BY <1>3
<1> DEFINE two == line(1) \o line(2)
           three == two \o line(3)
           four == three \o line(4)
<1>6. Fit(two, Limit(w)) /\ two # <<>>
  BY <1>2, <1>5, TogetherFit
<1> HIDE DEF two
<1>7. Fit(three, Limit(w)) /\ three # <<>>
  BY <1>2, <1>5, <1>6, TogetherFit
<1> HIDE DEF three
<1>8. Fit(four, Limit(w)) /\ four # <<>>
  BY <1>2, <1>5, <1>7, TogetherFit
<1> HIDE DEF four
<1>9. Fit(four \o line(5), Limit(w)) /\ four \o line(5) # <<>>
  BY <1>2, <1>5, <1>8, TogetherFit
<1> QED BY <1>4, <1>9 DEF four, three, two

-----------------------------------------------------------------------------
\* What is on the screen is the block of a packet and what was printed after it,
\* the last rows of that if it is too tall.
Drawn(p) ==
  LET all == prev_lines + below
      shown == C!Min({all, Height - 1})
  IN  /\ cursor = shown + 1
      /\ screen = [r \in 1..Height |->
                     IF r > shown THEN C!None
                     ELSE IF all - shown + r > prev_lines THEN C!Note
                     ELSE <<p, prev_width, all - shown + r>>]

Waits == ui \in {"check", "has", "get", "show"}
Live == Waits \/ ui = "write"

DisplayKnown ==
  /\ ui \in {"new", "check", "has", "get", "show", "write", "stop", "join", "unwound", "done"}
  /\ ui = "new" => width = 0 /\ prev_width = 0
  /\ raw => prev_width = 0 /\ ui \notin {"show", "write"}
  /\ columns \in Widths /\ prev_lines \in Nat /\ below \in Nat

\* The lines at hand are short enough, and those of the width looked at.
LinesFit ==
  ui = "write" \/ (Waits /\ prev_width # 0) =>
    /\ width \in Widths
    /\ Fit(lines, Limit(width)) /\ lines # <<>>
    /\ ~reflowed => columns = width
    /\ ui = "write" => j \in DOMAIN Words

\* What Display remembers of the last block is what it wrote.
Remembered ==
  Waits => /\ width = prev_width
           /\ prev_width # 0 => prev_lines = Len(lines)

\* The last block is still in place; unless it wrapped, or the width changed since.
Kept ==
  /\ Live /\ prev_width # 0 /\ prev_width >= MIN_WIDTH /\ exact /\ ~reflowed
  /\ ui = "write" => width = prev_width

BlockKept ==
  Kept => /\ prev_lines # 0
          /\ \E p \in DOMAIN Words : Drawn(p) /\ (ui \notin {"show", "write"} => p = j)

Terminal == program = "cli" => DisplayKnown /\ LinesFit /\ Remembered /\ BlockKept

\* A step that leaves the display and the terminal alone, and takes no packet.
LEMMA DisplayAlone ==
  ASSUME DisplayKnown, LinesFit, Remembered, BlockKept,
         UNCHANGED <<raw, width, lines, prev_lines, prev_width, columns, screen, cursor,
                     below, reflowed, exact>>,
         \/ Waits /\ j' = j /\ ui \in {"check", "has", "get"} /\ ui' \in {"check", "has", "get"}
         \/ j' = j /\ ui' = ui
         \/ ui = "new" /\ ui' = "check"
         \/ ui' \in {"stop", "join", "unwound", "done"}
         \/ ui = "get" /\ ui' = (IF raw THEN "check" ELSE "show")
  PROVE  DisplayKnown' /\ LinesFit' /\ Remembered' /\ BlockKept'
<1>1. \A p : Drawn(p)' <=> Drawn(p)
  BY DEF Drawn
<1>2. DisplayKnown'
  BY DEF DisplayKnown
<1>3. LinesFit'
  BY DEF LinesFit, Waits, DisplayKnown
<1>4. Remembered'
  BY DEF Remembered, Waits, DisplayKnown
<1>5. BlockKept'
  BY <1>1 DEF BlockKept, Kept, Waits, Live, DisplayKnown
<1> QED BY <1>2, <1>3, <1>4, <1>5

\* A line is printed below the block: it goes down, or scrolls it up by a row.
LEMMA PrintsStep ==
  ASSUME DisplayKnown, LinesFit, Remembered, BlockKept, C!NetPrints, ui' = ui, j' = j
  PROVE  DisplayKnown' /\ LinesFit' /\ Remembered' /\ BlockKept'
<1>1. UNCHANGED <<raw, width, lines, prev_lines, prev_width, columns, reflowed, exact>>
  BY DEF C!NetPrints, C!display
<1>2. CASE raw
  BY <1>1, <1>2, DisplayAlone DEF C!NetPrints, C!Prints
<1>3. CASE ~raw
  <2>1. below' = below + 1
    BY <1>3 DEF C!NetPrints, C!Prints
  <2>2. DisplayKnown' /\ LinesFit' /\ Remembered'
    BY <1>1, <2>1 DEF DisplayKnown, LinesFit, Remembered, Waits, Fit
  <2>3. ASSUME Kept, NEW p, Drawn(p) PROVE Drawn(p)'
    <3>1. columns \in Nat /\ columns > C!ExitNote
      <4>1. columns = width /\ width = prev_width /\ width >= MIN_WIDTH /\ width \in Widths
        BY <2>3 DEF Kept, LinesFit, Remembered, Live, Waits
      <4> QED BY <4>1, ScreensAssumption DEF C!CliAssumption, C!ExitNote
    <3>2. Height \in Nat /\ Height >= 2 /\ prev_lines \in Nat /\ below \in Nat
      BY ScreensAssumption DEF C!CliAssumption, DisplayKnown
    <3> DEFINE all == prev_lines + below
               shown == C!Min({all, Height - 1})
               shown1 == C!Min({all + 1, Height - 1})
    <3>3. /\ all \in Nat /\ all >= prev_lines
          /\ shown = (IF all <= Height - 1 THEN all ELSE Height - 1)
          /\ shown1 = (IF all + 1 <= Height - 1 THEN all + 1 ELSE Height - 1)
      BY <3>2, SmallerOf
    <3>4. /\ cursor = shown + 1
          /\ screen = [r \in 1..Height |->
                         IF r > shown THEN C!None
                         ELSE IF all - shown + r > prev_lines THEN C!Note
                         ELSE <<p, prev_width, all - shown + r>>]
      BY <2>3 DEF Drawn
    <3> SUFFICES /\ cursor' = shown1 + 1
                 /\ screen' = [r \in 1..Height |->
                                IF r > shown1 THEN C!None
                                ELSE IF (all + 1) - shown1 + r > prev_lines THEN C!Note
                                ELSE <<p, prev_width, (all + 1) - shown1 + r>>]
      <4>1. (prev_lines + below)' = all + 1
        BY <1>1, <2>1, <3>2
      <4> HIDE DEF all
      <4> QED BY <1>1, <4>1 DEF Drawn
    <3>5. \/ /\ cursor < Height
             /\ screen' = [screen EXCEPT ![cursor] = C!Note] /\ cursor' = cursor + 1
          \/ /\ cursor = Height
             /\ screen' = [r \in 1..Height |->
                            IF r = Height THEN C!None
                            ELSE IF r = Height - 1 THEN C!Note ELSE screen[r + 1]]
             /\ cursor' = cursor
      BY <1>3, <3>1 DEF C!NetPrints, C!Prints, C!ExitNote
    <3> HIDE DEF all, shown, shown1
    <3>6. CASE cursor < Height
      BY <3>2, <3>3, <3>4, <3>5, <3>6
    <3>7. CASE cursor = Height
      <4>1. /\ shown = Height - 1 /\ shown1 = Height - 1 /\ cursor' = cursor
            /\ screen' = [r \in 1..Height |->
                            IF r = Height THEN C!None
                            ELSE IF r = Height - 1 THEN C!Note ELSE screen[r + 1]]
        BY <3>2, <3>3, <3>4, <3>5, <3>7
      <4>2. ASSUME NEW r \in 1..Height
            PROVE  screen'[r] = IF r > shown1 THEN C!None
                                ELSE IF (all + 1) - shown1 + r > prev_lines THEN C!Note
                                ELSE <<p, prev_width, (all + 1) - shown1 + r>>
        <5>1. CASE r >= Height - 1
          BY <3>2, <3>3, <4>1, <5>1
        <5>2. CASE r < Height - 1
          <6>1. r + 1 \in 1..Height /\ screen'[r] = screen[r + 1]
            BY <3>2, <4>1, <5>2
          <6>2. screen[r + 1] = IF r + 1 > shown THEN C!None
                                ELSE IF all - shown + (r + 1) > prev_lines THEN C!Note
                                ELSE <<p, prev_width, all - shown + (r + 1)>>
            BY <3>4, <6>1
          <6>3. all - shown + (r + 1) = (all + 1) - shown1 + r
            BY <3>2, <3>3, <4>1
          <6> QED BY <3>2, <4>1, <5>2, <6>1, <6>2, <6>3
        <5> QED BY <3>2, <5>1, <5>2
      <4>3. cursor' = shown1 + 1
        BY <3>2, <3>4, <3>7, <4>1
      <4>4. screen' = [r \in 1..Height |-> screen'[r]]
        BY <4>1
      <4> QED BY <4>2, <4>3, <4>4
    <3> QED BY <3>2, <3>4, <3>5, <3>6, <3>7
  <2>4. Kept' <=> Kept
    BY <1>1 DEF Kept, Live, Waits
  <2> QED BY <1>1, <2>2, <2>3, <2>4 DEF BlockKept
<1> QED BY <1>2, <1>3

LEMMA LookAtWidthStep ==
  ASSUME DisplayKnown, LinesFit, Remembered, BlockKept, C!LookAtWidth
  PROVE  DisplayKnown' /\ LinesFit' /\ Remembered' /\ BlockKept'
<1>1. /\ ui = "show" /\ ui' = "write" /\ width' = columns /\ reflowed' = FALSE
      /\ exact' = (columns # prev_width \/ (exact /\ ~reflowed))
      /\ UNCHANGED <<j, raw, prev_lines, prev_width, columns, screen, cursor, below>>
      /\ \E b \in Blocks : b.packet = j /\ b.columns = columns /\ lines' = b.lines
  BY DEF C!LookAtWidth, C!terminal
<1>2. PICK p \in DOMAIN Words, w \in Widths :
        lines' = C!F!format_block(Words[p], w) /\ w = columns /\ p = j
  BY <1>1, ScreensAssumption DEF C!CliAssumption
<1>3. Fit(lines', Limit(columns)) /\ lines' # <<>> /\ j \in DOMAIN Words
  BY <1>2, BlockFits
<1>4. DisplayKnown'
  BY <1>1 DEF DisplayKnown
<1>5. LinesFit'
  BY <1>1, <1>3 DEF DisplayKnown, LinesFit, Fit, Limit
<1>6. Remembered'
  BY <1>1 DEF Remembered, Waits
<1>7. \A q : Drawn(q)' <=> Drawn(q)
  BY <1>1 DEF Drawn
<1>8. BlockKept'
  BY <1>1, <1>7 DEF BlockKept, Kept, Live, Waits
<1> QED BY <1>4, <1>5, <1>6, <1>8

LEMMA WriteStep ==
  ASSUME DisplayKnown, LinesFit, Remembered, BlockKept, C!Write
  PROVE  DisplayKnown' /\ LinesFit' /\ Remembered' /\ BlockKept'
<1>1. /\ ui = "write" /\ ui' = "check"
      /\ prev_lines' = Len(lines) /\ prev_width' = width
      /\ exact' = (exact /\ (below = 0 \/ width # prev_width)) /\ below' = 0
      /\ UNCHANGED <<j, raw, width, lines, columns, reflowed>>
  BY DEF C!Write
<1>2. /\ width \in Widths /\ width \in Nat \ {0}
      /\ lines \in Seq(Nat) /\ Len(lines) \in Nat \ {0}
      /\ \A i \in 1..Len(lines) : lines[i] \in Nat /\ lines[i] <= Limit(width)
      /\ DOMAIN lines = 1..Len(lines) /\ j \in DOMAIN Words
  <2>1. width \in Widths /\ Fit(lines, Limit(width)) /\ lines # <<>> /\ j \in DOMAIN Words
    BY <1>1 DEF LinesFit
  <2>2. width \in Nat \ {0}
    BY <2>1, ScreensAssumption DEF C!CliAssumption
  <2> QED BY <2>1, <2>2 DEF Fit
<1>3. DisplayKnown'
  BY <1>1, <1>2 DEF DisplayKnown
<1>4. LinesFit'
  BY <1>1 DEF LinesFit, Fit, Limit
<1>5. Remembered'
  BY <1>1, <1>2 DEF Remembered
<1>6. BlockKept'
  <2> SUFFICES ASSUME exact, ~reflowed, below = 0 \/ width # prev_width, width >= MIN_WIDTH
               PROVE  prev_lines' # 0 /\ Drawn(j)'
    BY <1>1, <1>2 DEF BlockKept, Kept
  <2>1. ~C!Wraps
    BY <1>1, <1>2 DEF LinesFit, Limit, C!Wraps
  <2>2. Height \in Nat /\ Height >= 2
    BY ScreensAssumption DEF C!CliAssumption
  <2>3. C!Above = <<>>
    <3>1. CASE width # prev_width
      BY <3>1 DEF C!Above
    <3>2. CASE width = prev_width
      <4>1. PICK p : Drawn(p)
        BY <1>1, <1>2, <3>2 DEF BlockKept, Kept, Live
      <4>2. prev_lines \in Nat \ {0} /\ prev_lines + below = prev_lines
        BY <1>1, <1>2, <3>2 DEF BlockKept, Kept, Live, DisplayKnown
      <4>3. cursor = C!Min({prev_lines, Height - 1}) + 1
        BY <4>1, <4>2 DEF Drawn
      <4>4. C!Min({prev_lines, Height - 1})
              = IF prev_lines <= Height - 1 THEN prev_lines ELSE Height - 1
        BY <2>2, <4>2, SmallerOf
      <4>5. cursor - prev_lines \in Int /\ cursor - prev_lines <= 1
        BY <2>2, <4>2, <4>3, <4>4
      <4>6. C!Max({1, cursor - prev_lines}) = 1
        BY <4>5 DEF C!Max
      <4>7. C!Above = SubSeq(screen, 1, 1 - 1)
        BY <3>2, <4>6 DEF C!Above
      <4>8. SubSeq(screen, 1, 0) = <<>>
        BY SubSeqEmpty
      <4> QED BY <4>7, <4>8
    <3> QED BY <3>1, <3>2
  <2> DEFINE N == Len(lines)
  <2>4. PICK rows : rows = C!Above \o C!BlockRows /\ C!Shows(rows)
    BY <2>1 DEF C!Write
  <2>5. /\ C!BlockRows = [i \in 1..N |-> <<j, width, i>>]
        /\ C!BlockRows \in Seq({<<j, width, i>> : i \in 1..N})
    BY <1>2 DEF C!BlockRows
  <2>6. rows = C!BlockRows
    BY <2>3, <2>4, <2>5, ConcatEmptySeq
  <2>7. Len(rows) = N /\ \A i \in 1..N : rows[i] = <<j, width, i>>
    BY <1>2, <2>5, <2>6
  <2> DEFINE kept == C!Min({N, Height - 1})
  <2>8. kept = (IF N <= Height - 1 THEN N ELSE Height - 1)
    BY <1>2, <2>2, SmallerOf
  <2>9. /\ cursor' = kept + 1
        /\ screen' = [r \in 1..Height |-> IF r <= kept THEN rows[N - kept + r] ELSE C!None]
    BY <2>4, <2>7 DEF C!Shows
  <2>10. \A r \in 1..Height : r <= kept => /\ rows[N - kept + r] = <<j, width, N - kept + r>>
                                        /\ ~(N - kept + r > N)
    <3> HIDE DEF kept, N
    <3>1. N \in Nat
      BY <1>2 DEF N
    <3>2. ASSUME NEW r \in 1..Height, r <= kept PROVE N - kept + r \in 1..N
      BY <2>2, <2>8, <3>1, <3>2
    <3>3. \A k \in 1..N : ~(k > N)
      BY <3>1
    <3> QED BY <2>7, <3>2, <3>3
  <2>11. screen' = [r \in 1..Height |->
                     IF r > kept THEN C!None
                     ELSE IF N - kept + r > N THEN C!Note ELSE <<j, width, N - kept + r>>]
    <3>1. \A r \in 1..Height : ~(r > kept) <=> r <= kept
      BY <1>2, <2>2, <2>8
    <3> QED BY <2>9, <2>10, <3>1
  <2>12. (prev_lines + below)' = N
    BY <1>1, <1>2
  <2> HIDE DEF N
  <2> QED BY <1>1, <1>2, <2>9, <2>11, <2>12 DEF Drawn, N
<1> QED BY <1>3, <1>4, <1>5, <1>6

LEMMA ResizeStep ==
  ASSUME DisplayKnown, LinesFit, Remembered, BlockKept, C!Resize
  PROVE  DisplayKnown' /\ LinesFit' /\ Remembered' /\ BlockKept'
<1>1. /\ reflowed' = TRUE /\ columns' \in Widths
      /\ UNCHANGED <<ui, j, raw, width, lines, prev_lines, prev_width, below>>
  BY DEF C!Resize, C!display
<1> QED BY <1>1 DEF DisplayKnown, LinesFit, Remembered, BlockKept, Kept, Waits, Fit, Limit

LEMMA TerminalInit == Init => Terminal
<1> SUFFICES ASSUME Init, program = "cli"
             PROVE  DisplayKnown /\ LinesFit /\ Remembered /\ BlockKept
  BY DEF Terminal
<1>1. /\ ui = "new" /\ width = 0 /\ prev_lines = 0 /\ prev_width = 0 /\ below = 0
      /\ columns \in Widths
  BY DEF Init, C!DisplayInit
<1> QED BY <1>1 DEF DisplayKnown, LinesFit, Remembered, BlockKept, Kept, Waits

LEMMA TerminalNext == Terminal /\ [Next]_vars => Terminal'
<1> SUFFICES ASSUME Terminal, [Next]_vars, program' = "cli"
             PROVE  DisplayKnown' /\ LinesFit' /\ Remembered' /\ BlockKept'
  BY DEF Terminal
<1>1. program = "cli"
  BY DEF Next, ConsoleSends, NetThreadEnds, Cli, Overlay, Finished, vars
<1>2. DisplayKnown /\ LinesFit /\ Remembered /\ BlockKept
  BY <1>1 DEF Terminal
<1>3. CASE ConsoleSends \/ Finished \/ UNCHANGED vars
  <2>1. /\ ui' = ui /\ j' = j
        /\ UNCHANGED <<raw, width, lines, prev_lines, prev_width, columns, screen, cursor,
                       below, reflowed, exact>>
    BY <1>3 DEF ConsoleSends, Finished, vars, cliVars
  <2> QED BY <1>2, <2>1, DisplayAlone
<1>9. CASE NetThreadEnds
  BY <1>1, <1>2, <1>9, PrintsStep DEF NetThreadEnds
<1>4. CASE C!EnterTry \/ C!Check \/ C!Has \/ C!Get \/ C!Interrupt \/ C!StopConn \/ C!Join
  <2> USE DEF C!cli, C!display, C!terminal
  <2>1. CASE C!Check
    BY <1>2, <2>1, DisplayAlone DEF C!Check, Waits
  <2>2. CASE C!Has
    BY <1>2, <2>2, DisplayAlone DEF C!Has, Waits
  <2>3. CASE C!Get
    BY <1>2, <2>3, DisplayAlone DEF C!Get
  <2>4. CASE C!EnterTry
    BY <1>2, <2>4, DisplayAlone DEF C!EnterTry
  <2>5. CASE C!Interrupt \/ C!StopConn
    BY <1>2, <2>5, DisplayAlone DEF C!Interrupt, C!StopConn
  <2>6. CASE C!Join
    <3>1. /\ ui' = "done" /\ below' \in Nat
          /\ UNCHANGED <<raw, prev_lines, prev_width, columns>>
      BY <1>2, <2>6 DEF C!Join, C!Prints, DisplayKnown
    <3> QED BY <1>2, <3>1
            DEF DisplayKnown, LinesFit, Remembered, BlockKept, Kept, Live, Waits
  <2> QED BY <1>4, <2>1, <2>2, <2>3, <2>4, <2>5, <2>6
<1>5. CASE C!LookAtWidth
  BY <1>2, <1>5, LookAtWidthStep
<1>6. CASE C!Write
  BY <1>2, <1>6, WriteStep
<1>7. CASE C!Resize
  BY <1>2, <1>7, ResizeStep
<1>8. CASE Overlay
  BY <1>1, <1>8 DEF Overlay
<1> QED BY <1>3, <1>4, <1>5, <1>6, <1>7, <1>8, <1>9 DEF Next, Cli, C!CliNext, C!Main

LEMMA TerminalShows == Terminal => BlockInPlace
<1> SUFFICES ASSUME DisplayKnown, LinesFit, Remembered, BlockKept,
                    Waits, prev_width # 0, exact, ~reflowed, columns >= MIN_WIDTH
             PROVE  C!OnScreen /\ \A i \in DOMAIN lines : lines[i] < columns
  BY DEF Terminal, BlockInPlace, C!BlockInPlace, C!Waits, Waits
<1>1. /\ columns = width /\ width = prev_width /\ width \in Widths
      /\ Fit(lines, Limit(width))
  BY DEF LinesFit, Remembered
<1>2. PICK p \in DOMAIN Words : Drawn(p) /\ (ui # "show" => p = j)
  BY <1>1 DEF BlockKept, Kept, Live, Waits
<1>3. C!OnScreen
  BY <1>1, <1>2 DEF Drawn, C!OnScreen
<1>4. \A i \in DOMAIN lines : lines[i] < columns
  <2>1. width \in Nat
    BY <1>1, ScreensAssumption DEF C!CliAssumption
  <2> QED BY <1>1, <2>1 DEF Fit, Limit
<1> QED BY <1>3, <1>4

(* BlockInPlace (Display.show and format_block of cli.py, the lines that   *)
(* threeinput.py prints): whatever the packets' words, the widths of the   *)
(* terminal and its height, a redraw leaves the last packet's block on the *)
(* screen and below it only what was printed since, and from MIN_WIDTH on  *)
(* no line wraps by itself, wherever the terminal was resized between.     *)
THEOREM BlockStaysInPlace == Spec => []BlockInPlace
<1>1. Spec => []Terminal
  BY TerminalInit, TerminalNext, PTL DEF Spec
<1> QED BY <1>1, TerminalShows, PTL


-----------------------------------------------------------------------------
(* The overlay. *)

\* Widget w shows packet p on labels lb and canvas cv, and nothing older.
Shows(w, p, lb, cv) ==
  /\ lb[w] = p
  /\ \A i \in cv : i.widget = w => i.packet = p /\ O!Visible(w, p)
  /\ w \in O!Drawn /\ O!Visible(w, p) => \E i \in cv : i.widget = w

Shown(w) == Shows(w, j, labels, canvas)

WindowKnown ==
  /\ labels = [w \in O!Names |-> labels[w]]
  /\ held \in [O!Drawn -> Nat]
  /\ nextId \in Nat \ {0} /\ made \in Nat

\* No number is on two items of different widgets, or used up and to come.
NumbersApart ==
  /\ made < nextId /\ \A w \in O!Drawn : held[w] < nextId
  /\ made # O!None => \A w \in O!Drawn : held[w] # made
  /\ \A v, w \in O!Drawn : held[v] = held[w] /\ held[v] # O!None => v = w

\* The arrow may name an item that is gone, but no item is without its name, unless
\* it was created for the widget at hand and its number is still to be stored.
ItemsHeld ==
  \A i \in canvas :
    /\ i.widget \in O!Drawn /\ i.id # O!None
    /\ i.id = held[i.widget] \/ (i.id = made /\ i.widget = O!Widget)

\* A number to be stored is there only in between, or no callback will come.
InCallback == ui \in {"has", "get", "draw", "ended"}
Timing ==
  /\ InCallback => ~scheduled
  /\ made # O!None => \/ ui = "draw" /\ part = "store"
                      \/ interrupted /\ ~scheduled /\ ~InCallback

\* What the callback has been through already; the widget at hand may have been
\* done before, if the table names it twice.
DrawnSoFar ==
  ui = "draw" =>
    /\ pos \in 1..Len(O!Order)
    /\ \A k \in 1..(pos - 1) :
         Shown(O!Order[k]) \/ (part # "label" /\ O!Order[k] = O!Widget)

\* ... and what it has done for the widget at hand.
PartDone ==
  ui = "draw" =>
    /\ part \in {"label", "delete", "create", "store"}
    /\ part # "label" => labels[O!Widget] = j /\ O!Widget \in O!Drawn
    /\ part = "create" =>
         O!Visible(O!Widget, j) /\ \A i \in canvas : i.widget # O!Widget
    /\ part = "store" =>
         /\ \A i \in canvas : i.widget = O!Widget =>
              i.packet = j /\ i.id = made /\ O!Visible(O!Widget, j)
         /\ O!Visible(O!Widget, j) => \E i \in canvas : i.widget = O!Widget

AllDrawn ==
  ui \in {"loop", "has", "ended"} /\ ~interrupted /\ j # <<>> =>
    \A w \in O!Names : Shown(w)

Window == WindowKnown /\ NumbersApart /\ ItemsHeld /\ Timing
Progress == DrawnSoFar /\ PartDone /\ AllDrawn
Overlaid == program = "overlay" => Window /\ Progress

-----------------------------------------------------------------------------
LEMMA OrderKnown ==
  /\ Len(O!Order) \in Nat \ {0}
  /\ O!Names = {O!Order[k] : k \in 1..Len(O!Order)}
  /\ O!Drawn \subseteq O!Names
<1> DEFINE Rest == <<"cp", "tp", "cs", "wifi", "ir">>
           S == {BTN[k] : k \in DOMAIN BTN} \cup {"cp", "tp", "cs", "wifi", "ir"}
<1>1. BTN \in Seq(S) /\ Len(BTN) \in Nat /\ DOMAIN BTN = 1..Len(BTN)
  <2>1. BTN \in Seq({BTN[k] : k \in DOMAIN BTN})
    BY ScreensAssumption DEF O!OverlayAssumption
  <2>2. BTN \in Seq(S)
    BY <2>1, SeqMonotonic
  <2> QED BY <2>1, <2>2
<1>2. Rest \in Seq(S) /\ Len(Rest) = 5 /\ Rest[1] = "cp" /\ Rest[2] = "tp"
  OBVIOUS
<1>3. /\ O!Order \in Seq(S) /\ Len(O!Order) = Len(BTN) + 5
      /\ \A k \in 1..Len(BTN) : O!Order[k] = BTN[k]
      /\ O!Order[Len(BTN) + 1] = "cp" /\ O!Order[Len(BTN) + 2] = "tp"
  <2>1. O!Order = BTN \o Rest
    BY DEF O!Order
  <2> HIDE DEF Rest, S
  <2>2. /\ BTN \o Rest \in Seq(S) /\ Len(BTN \o Rest) = Len(BTN) + Len(Rest)
        /\ \A k \in 1 .. Len(BTN) + Len(Rest) :
             (BTN \o Rest)[k] = IF k <= Len(BTN) THEN BTN[k] ELSE Rest[k - Len(BTN)]
    BY <1>1, <1>2, ConcatProperties, Zenon
  <2> QED BY <1>1, <1>2, <2>1, <2>2
<1> HIDE DEF Rest, S
<1>4. O!Names = {O!Order[k] : k \in 1..Len(O!Order)}
  BY <1>1, <1>3 DEF O!Names
<1>5. ASSUME NEW w \in O!Drawn PROVE w \in O!Names
  <2>1. CASE w \in Placed
    <3>1. PICK k \in 1..Len(BTN) : BTN[k] = w
      BY <1>1, <2>1, ScreensAssumption DEF O!OverlayAssumption
    <3> QED BY <1>1, <1>3, <1>4, <3>1
  <2>2. CASE w \in {"cp", "tp"}
    BY <1>1, <1>3, <1>4, <2>2
  <2> QED BY <2>1, <2>2 DEF O!Drawn
<1> QED BY <1>1, <1>3, <1>4, <1>5

\* Where the callback is, in the middle of drawing.
LEMMA AtWidget ==
  ASSUME Window, Progress, ui = "draw"
  PROVE  /\ pos \in 1..Len(O!Order) /\ Len(O!Order) \in Nat
         /\ O!Widget \in O!Names
         /\ part # "store" => made = O!None
         /\ ~scheduled
<1>1. pos \in 1..Len(O!Order) /\ Len(O!Order) \in Nat
  BY OrderKnown DEF Progress, DrawnSoFar
<1>2. O!Widget \in O!Names
  BY <1>1, OrderKnown DEF O!Widget
<1> QED BY <1>1, <1>2 DEF Window, Timing, InCallback

\* A widget is done, and with it all before it.
LEMMA Advance ==
  ASSUME NEW w, w = O!Widget, Window, Progress, ui = "draw", O!NextWidget,
         UNCHANGED <<j, interrupted>>, Shown(w)',
         \A k \in 1..(pos - 1) : O!Order[k] # w => Shown(O!Order[k])'
  PROVE  Progress'
<1>1. /\ pos \in 1..Len(O!Order) /\ Len(O!Order) \in Nat /\ part' = "label"
      /\ \/ pos < Len(O!Order) /\ pos' = pos + 1 /\ ui' = ui
         \/ pos = Len(O!Order) /\ ui' = "ended" /\ pos' = pos
  BY AtWidget DEF O!NextWidget
<1>2. w = O!Order[pos]
  BY DEF O!Widget
<1>3. \A k \in 1..pos : Shown(O!Order[k])'
  <2> SUFFICES ASSUME NEW k \in 1..pos PROVE Shown(O!Order[k])'
    OBVIOUS
  <2>1. CASE O!Order[k] = w
    BY <2>1
  <2>2. CASE O!Order[k] # w
    BY <1>1, <1>2, <2>2
  <2> QED BY <2>1, <2>2
<1>4. CASE pos' = pos + 1 /\ pos < Len(O!Order) /\ ui' = ui
  <2>1. pos' \in 1..Len(O!Order) /\ 1..(pos' - 1) = 1..pos
    BY <1>1, <1>4
  <2> QED BY <1>1, <1>3, <1>4, <2>1 DEF Progress, DrawnSoFar, PartDone, AllDrawn
<1>5. CASE pos = Len(O!Order) /\ ui' = "ended"
  <2>1. \A v \in O!Names : Shown(v)'
    BY <1>3, <1>5, OrderKnown
  <2> QED BY <1>5, <2>1 DEF Progress, DrawnSoFar, PartDone, AllDrawn
<1> QED BY <1>1, <1>4, <1>5

\* Or there is another call to make for it.
LEMMA Stay ==
  ASSUME NEW w, w = O!Widget, Window, Progress, ui = "draw", UNCHANGED <<ui, pos, j>>,
         part' # "label",
         \A v \in O!Names : v # w /\ Shown(v) => Shown(v)'
  PROVE  DrawnSoFar' /\ AllDrawn'
<1>1. /\ pos \in 1..Len(O!Order)
      /\ \A k \in 1..(pos - 1) : k \in 1..Len(O!Order) /\ O!Order[k] \in O!Names
  BY AtWidget, OrderKnown
<1>2. w = O!Order[pos] /\ w = O!Order[pos']
  BY DEF O!Widget
<1>3. \A k \in 1..(pos - 1) : Shown(O!Order[k])' \/ O!Order[k] = w
  BY <1>1 DEF Progress, DrawnSoFar
<1> QED BY <1>1, <1>2, <1>3 DEF DrawnSoFar, AllDrawn, O!Widget

\* While no number waits to be stored, each item has its widget's.
LEMMA ItemsNamed ==
  ASSUME Window, made = O!None, NEW i \in canvas
  PROVE  i.widget \in O!Drawn /\ i.id = held[i.widget] /\ i.id # O!None
BY DEF Window, ItemsHeld

LEMMA SetLabelStep ==
  ASSUME Window, Progress, O!SetLabel PROVE Window' /\ Progress'
<1>1. PICK w : w = O!Widget
  OBVIOUS
<1>2. /\ ui = "draw" /\ part = "label" /\ made = O!None /\ w \in O!Names /\ ~scheduled
      /\ labels' = [labels EXCEPT ![w] = j]
      /\ UNCHANGED <<j, interrupted, scheduled, made, held, nextId, canvas>>
      /\ IF w \in O!Drawn THEN part' = "delete" /\ ui' = ui /\ pos' = pos ELSE O!NextWidget
  BY <1>1, AtWidget DEF O!SetLabel, O!DrawVars
<1>3. /\ labels'[w] = j /\ \A v \in O!Names \ {w} : labels'[v] = labels[v]
      /\ labels' = [v \in O!Names |-> labels'[v]]
  BY <1>2 DEF Window, WindowKnown
<1>4. Window'
  <2>1. ItemsHeld'
    BY <1>2, ItemsNamed DEF ItemsHeld
  <2>2. Timing'
    BY <1>2 DEF Timing
  <2> QED BY <1>2, <1>3, <2>1, <2>2 DEF Window, WindowKnown, NumbersApart
<1>5. ASSUME NEW v \in O!Names, v # w, Shown(v) PROVE Shown(v)'
  BY <1>2, <1>3, <1>5 DEF Shown, Shows
<1>6. CASE w \in O!Drawn
  <2>1. DrawnSoFar' /\ AllDrawn'
    BY <1>1, <1>2, <1>5, <1>6, Stay
  <2>2. O!Widget' = w
    BY <1>1, <1>2, <1>6 DEF O!Widget
  <2>3. PartDone'
    BY <1>2, <1>3, <1>6, <2>2 DEF PartDone
  <2> QED BY <1>4, <2>1, <2>3 DEF Progress
<1>7. CASE w \notin O!Drawn
  <2>1. Shown(w)'
    BY <1>2, <1>3, <1>7, ItemsNamed DEF Shown, Shows
  <2>2. ASSUME NEW k \in 1..(pos - 1), O!Order[k] # w PROVE Shown(O!Order[k])'
    <3>1. O!Order[k] \in O!Names
      BY <1>2, AtWidget, OrderKnown
    <3>2. Shown(O!Order[k])
      BY <1>2 DEF Progress, DrawnSoFar
    <3> QED BY <1>5, <2>2, <3>1, <3>2
  <2>3. Progress'
    BY <1>1, <1>2, <1>7, <2>1, <2>2, Advance
  <2> QED BY <1>4, <2>3
<1> QED BY <1>6, <1>7

\* The item before is the widget's only one.
LEMMA DeleteStep ==
  ASSUME Window, Progress, O!DeleteItem PROVE Window' /\ Progress'
<1>1. PICK w : w = O!Widget
  OBVIOUS
<1>2. /\ ui = "draw" /\ part = "delete" /\ made = O!None /\ w \in O!Names /\ ~scheduled
      /\ canvas' = O!Kept(w)
      /\ UNCHANGED <<j, interrupted, scheduled, made, labels, held, nextId>>
      /\ labels[w] = j /\ w \in O!Drawn
  BY <1>1, AtWidget DEF O!DeleteItem, O!DrawVars, Progress, PartDone
<1>3. canvas' = {i \in canvas : i.widget # w}
  BY <1>2, ItemsNamed DEF O!Kept, O!Deletes, Window, NumbersApart
<1>4. Window'
  <2>1. ItemsHeld'
    BY <1>2, <1>3, ItemsNamed DEF ItemsHeld
  <2>2. Timing'
    BY <1>2 DEF Timing
  <2> QED BY <1>2, <2>1, <2>2 DEF Window, WindowKnown, NumbersApart
<1>5. ASSUME NEW v \in O!Names, v # w, Shown(v) PROVE Shown(v)'
  BY <1>2, <1>3, <1>5 DEF Shown, Shows
<1>6. CASE ~O!Visible(w, j) /\ w = "cp"
  <2>1. O!NextWidget
    BY <1>1, <1>6 DEF O!DeleteItem
  <2>2. Shown(w)'
    BY <1>2, <1>3, <1>6 DEF Shown, Shows
  <2>3. ASSUME NEW k \in 1..(pos - 1), O!Order[k] # w PROVE Shown(O!Order[k])'
    <3>1. O!Order[k] \in O!Names
      BY <1>2, AtWidget, OrderKnown
    <3>2. Shown(O!Order[k])
      BY <1>1, <1>2, <2>3 DEF Progress, DrawnSoFar
    <3> QED BY <1>5, <2>3, <3>1, <3>2
  <2>4. Progress'
    BY <1>1, <1>2, <2>1, <2>2, <2>3, Advance
  <2> QED BY <1>4, <2>4
<1>7. CASE ~(~O!Visible(w, j) /\ w = "cp")
  <2>1. /\ part' = (IF O!Visible(w, j) THEN "create" ELSE "store")
        /\ ui' = ui /\ pos' = pos
    BY <1>1, <1>7 DEF O!DeleteItem
  <2>2. DrawnSoFar' /\ AllDrawn'
    BY <1>1, <1>2, <1>5, <2>1, Stay
  <2>3. O!Widget' = w
    BY <1>1, <2>1 DEF O!Widget
  <2>4. O!Visible(w, j)' <=> O!Visible(w, j)
    BY <1>2 DEF O!Visible
  <2>5. PartDone'
    BY <1>2, <1>3, <2>1, <2>3, <2>4 DEF PartDone
  <2> QED BY <1>4, <2>2, <2>5 DEF Progress
<1> QED BY <1>6, <1>7

\* Tk's number is new, and not yet the widget's.
LEMMA CreateStep ==
  ASSUME Window, Progress, O!CreateItem PROVE Window' /\ Progress'
<1>1. PICK w : w = O!Widget
  OBVIOUS
<1> DEFINE new == [id |-> nextId, widget |-> w, packet |-> j]
<1>2. /\ ui = "draw" /\ part = "create" /\ made = O!None /\ w \in O!Names /\ ~scheduled
      /\ canvas' = canvas \cup {new} /\ made' = nextId /\ nextId' = nextId + 1
      /\ part' = "store" /\ ui' = ui /\ pos' = pos
      /\ UNCHANGED <<j, interrupted, scheduled, labels, held>>
      /\ labels[w] = j /\ w \in O!Drawn /\ O!Visible(w, j)
      /\ \A i \in canvas : i.widget # w
  BY <1>1, AtWidget DEF O!CreateItem, O!DrawVars, Progress, PartDone
<1>3. new.id = nextId /\ new.widget = w /\ new.packet = j
  OBVIOUS
<1> HIDE DEF new
<1>4. O!Widget' = w
  BY <1>1, <1>2 DEF O!Widget
<1>5. Window'
  <2>1. nextId \in Nat \ {0} /\ \A v \in O!Drawn : held[v] \in Nat /\ held[v] < nextId
    BY DEF Window, WindowKnown, NumbersApart
  <2>2. ItemsHeld'
    BY <1>2, <1>3, <1>4, <2>1, ItemsNamed DEF ItemsHeld, O!None
  <2>3. Timing'
    BY <1>2 DEF Timing
  <2>4. NumbersApart'
    BY <1>2, <2>1 DEF Window, NumbersApart
  <2> QED BY <1>2, <2>1, <2>2, <2>3, <2>4 DEF Window, WindowKnown
<1>6. ASSUME NEW v \in O!Names, v # w, Shown(v) PROVE Shown(v)'
  BY <1>2, <1>3, <1>6 DEF Shown, Shows
<1>7. DrawnSoFar' /\ AllDrawn'
  BY <1>1, <1>2, <1>6, Stay
<1>8. O!Visible(w, j)' <=> O!Visible(w, j)
  BY <1>2 DEF O!Visible
<1>9. PartDone'
  BY <1>2, <1>3, <1>4, <1>8 DEF PartDone
<1> QED BY <1>5, <1>7, <1>9 DEF Progress

LEMMA StoreStep ==
  ASSUME Window, Progress, O!StoreItem PROVE Window' /\ Progress'
<1>1. PICK w : w = O!Widget
  OBVIOUS
<1>2. /\ ui = "draw" /\ part = "store" /\ w \in O!Names /\ ~scheduled
      /\ held' = [held EXCEPT ![w] = made] /\ made' = O!None
      /\ UNCHANGED <<j, interrupted, scheduled, labels, nextId, canvas>>
      /\ O!NextWidget
      /\ labels[w] = j /\ w \in O!Drawn
      /\ \A i \in canvas : i.widget = w =>
           i.packet = j /\ i.id = made /\ O!Visible(w, j)
      /\ O!Visible(w, j) => \E i \in canvas : i.widget = w
  BY <1>1, AtWidget DEF O!StoreItem, O!DrawVars, Progress, PartDone
<1>3. /\ held \in [O!Drawn -> Nat] /\ made \in Nat /\ nextId \in Nat \ {0}
      /\ held' \in [O!Drawn -> Nat] /\ held'[w] = made
      /\ \A v \in O!Drawn \ {w} : held'[v] = held[v]
  BY <1>2 DEF Window, WindowKnown
<1>4. Window'
  <2>1. ItemsHeld'
    <3> SUFFICES ASSUME NEW i \in canvas
                 PROVE  i.widget \in O!Drawn /\ i.id # O!None /\ i.id = held'[i.widget]
      BY <1>2 DEF ItemsHeld
    <3>1. /\ i.widget \in O!Drawn /\ i.id # O!None
          /\ i.id = held[i.widget] \/ (i.id = made /\ i.widget = w)
      BY <1>1 DEF Window, ItemsHeld
    <3> QED BY <1>2, <1>3, <3>1
  <2>2. Timing'
    BY <1>2 DEF Timing, InCallback, O!NextWidget
  <2>3. NumbersApart'
    BY <1>2, <1>3 DEF Window, NumbersApart, O!None
  <2> QED BY <1>2, <1>3, <2>1, <2>2, <2>3 DEF Window, WindowKnown, O!None
<1>5. ASSUME NEW v \in O!Names, Shown(v) PROVE Shown(v)'
  BY <1>2, <1>5 DEF Shown, Shows
<1>6. Shown(w)'
  BY <1>2 DEF Shown, Shows
<1>7. ASSUME NEW k \in 1..(pos - 1), O!Order[k] # w PROVE Shown(O!Order[k])'
  <2>1. O!Order[k] \in O!Names
    BY <1>2, AtWidget, OrderKnown
  <2>2. Shown(O!Order[k])
    BY <1>1, <1>2, <1>7 DEF Progress, DrawnSoFar
  <2> QED BY <1>5, <2>1, <2>2
<1>8. Progress'
  BY <1>1, <1>2, <1>6, <1>7, Advance
<1> QED BY <1>4, <1>8

-----------------------------------------------------------------------------
LEMMA WindowInit == Init => Overlaid
<1> SUFFICES ASSUME Init, program = "overlay" PROVE Window /\ Progress
  BY DEF Overlaid
<1>1. /\ ui = "loop" /\ j = <<>> /\ canvas = {} /\ nextId = 1 /\ made = 0
      /\ labels = [w \in O!Names |-> <<>>] /\ held = [w \in O!Drawn |-> 0]
  BY DEF Init, O!WindowInit, O!None
<1>2. labels = [w \in O!Names |-> labels[w]]
  BY <1>1
<1>3. Window
  BY <1>1, <1>2 DEF Window, WindowKnown, NumbersApart, ItemsHeld, Timing, InCallback, O!None
<1>4. Progress
  BY <1>1 DEF Progress, DrawnSoFar, PartDone, AllDrawn
<1> QED BY <1>3, <1>4

LEMMA WindowNext == Overlaid /\ [Next]_vars => Overlaid'
<1> SUFFICES ASSUME Overlaid, [Next]_vars, program' = "overlay" PROVE Window' /\ Progress'
  BY DEF Overlaid
<1>1. program = "overlay" /\ Window /\ Progress
  BY DEF Overlaid, Next, ConsoleSends, NetThreadEnds, Cli, Overlay, Finished, vars
<1> DEFINE Items == <<labels, held, nextId, canvas, made>>
<1>a. ASSUME UNCHANGED Items, pos' = pos \/ made = O!None, Timing' PROVE Window'
  <2>1. ItemsHeld'
    BY <1>1, <1>a, ItemsNamed DEF Window, ItemsHeld, O!Widget
  <2> QED BY <1>1, <1>a, <2>1 DEF Window, WindowKnown, NumbersApart
<1>b. ASSUME UNCHANGED <<labels, canvas, j>>, NEW v PROVE Shown(v)' <=> Shown(v)
  BY <1>b DEF Shown, Shows
<1>2. ASSUME UNCHANGED <<ui, j, interrupted, scheduled, pos, part, Items>>
      PROVE  Window' /\ Progress'
  <2>1. Window'
    BY <1>1, <1>2, <1>a DEF Window, Timing, InCallback
  <2>2. O!Widget' = O!Widget /\ \A w : O!Visible(w, j)' <=> O!Visible(w, j)
    BY <1>2 DEF O!Widget, O!Visible
  <2>3. DrawnSoFar' /\ AllDrawn'
    BY <1>1, <1>2, <1>b, <2>2 DEF Progress, DrawnSoFar, AllDrawn
  <2>4. PartDone'
    BY <1>1, <1>2, <2>2 DEF Progress, PartDone
  <2> QED BY <2>1, <2>3, <2>4 DEF Progress
<1>3. CASE ConsoleSends \/ NetThreadEnds \/ Finished \/ UNCHANGED vars
  BY <1>2, <1>3 DEF ConsoleSends, NetThreadEnds, Finished, vars, overlayVars
<1>4. CASE O!Draw
  BY <1>1, <1>4, SetLabelStep, DeleteStep, CreateStep, StoreStep DEF O!Draw
<1>5. CASE O!Get
  <2>1. /\ UNCHANGED Items /\ UNCHANGED scheduled /\ ui = "get"
        /\ ui' = "draw" /\ pos' = 1 /\ part' = "label"
    BY <1>5 DEF O!Get, O!widgets
  <2>2. made = O!None /\ Timing'
    BY <1>1, <2>1 DEF Window, Timing, InCallback
  <2> QED BY <1>a, <2>1, <2>2, OrderKnown DEF Progress, DrawnSoFar, PartDone, AllDrawn
<1>6. ASSUME UNCHANGED <<j, interrupted, pos, Items>>, ui' # "draw", Timing',
             ui' \in {"loop", "has", "ended"} => ui \in {"loop", "has", "ended"}
      PROVE  Window' /\ Progress'
  BY <1>1, <1>6, <1>a, <1>b DEF Progress, DrawnSoFar, PartDone, AllDrawn
<1>7. CASE O!Interrupt
  <2>1. /\ UNCHANGED Items /\ UNCHANGED <<scheduled, pos>> /\ ~InCallback'
        /\ interrupted' = TRUE /\ ui' \in {"loop", "unwound"}
        /\ InCallback \/ ~InCallback
    BY <1>7 DEF O!Interrupt, O!overlay, O!widgets, O!drawing, InCallback
  <2>2. Timing'
    BY <1>1, <2>1 DEF Window, Timing, InCallback
  <2> QED BY <1>a, <2>1, <2>2 DEF Progress, DrawnSoFar, PartDone, AllDrawn
<1> USE DEF O!overlay, O!widgets, O!drawing
<1>8. CASE O!Fire \/ O!Has \/ O!Reschedule \/ O!UserCloses
  <2>1. Timing'
    BY <1>1, <1>8
    DEF Window, Timing, InCallback, O!Fire, O!Has, O!Reschedule, O!UserCloses
  <2> QED BY <1>6, <1>8, <2>1 DEF O!Fire, O!Has, O!Reschedule, O!UserCloses
<1>9. CASE O!MainloopReturns \/ O!StopConn \/ O!Join
  <2>1. Timing'
    BY <1>1, <1>9 DEF Window, Timing, InCallback, O!MainloopReturns, O!StopConn, O!Join
  <2> QED BY <1>6, <1>9, <2>1 DEF O!MainloopReturns, O!StopConn, O!Join
<1>10. CASE Cli
  BY <1>1, <1>10 DEF Cli
<1> QED BY <1>3, <1>4, <1>5, <1>7, <1>8, <1>9, <1>10
        DEF Next, Overlay, O!OverlayNext, O!Main

-----------------------------------------------------------------------------
LEMMA WindowShows == Overlaid => CanvasExact
<1> SUFFICES ASSUME program = "overlay", Window, Progress PROVE O!CanvasExact
  BY DEF Overlaid, CanvasExact
<1>1. ASSUME ui = "loop", ~interrupted, j # <<>>
      PROVE  /\ labels = [w \in O!Names |-> j]
             /\ {<<i.widget, i.packet>> : i \in canvas}
                  = {<<w, j>> : w \in {v \in O!Drawn : O!Visible(v, j)}}
  <2>1. \A w \in O!Names : Shown(w)
    BY <1>1 DEF Progress, AllDrawn
  <2>2. labels = [w \in O!Names |-> j]
    BY <2>1 DEF Window, WindowKnown, Shown, Shows
  <2>3. ASSUME NEW i \in canvas
        PROVE  i.packet = j /\ i.widget \in {v \in O!Drawn : O!Visible(v, j)}
    BY <2>1, <2>3, OrderKnown DEF Window, ItemsHeld, Shown, Shows
  <2>4. ASSUME NEW w \in O!Drawn, O!Visible(w, j)
        PROVE  \E i \in canvas : i.widget = w /\ i.packet = j
    BY <2>1, <2>4, OrderKnown DEF Shown, Shows
  <2> QED BY <2>2, <2>3, <2>4
<1>2. \A i \in canvas : i.id \in {held[i.widget], made}
  BY DEF Window, ItemsHeld
<1>3. made # O!None => \/ ui = "draw" /\ part = "store"
                       \/ /\ interrupted /\ ~scheduled
                          /\ ui \notin {"has", "get", "draw", "ended"}
  BY DEF Window, Timing, InCallback
<1> QED BY <1>1, <1>2, <1>3 DEF O!CanvasExact

(* CanvasExact (Arrow, ButtonPress, TouchScreen and update_lable of        *)
(* main.py): the canvases show the packet taken last and nothing before    *)
(* it, and no item is left that no widget will delete but the one a Ctrl-C *)
(* came between creating and storing, after which nothing is drawn; for    *)
(* every table of buttons and every packet.                                *)
THEOREM NothingOldOnScreen == Spec => []CanvasExact
<1>1. Spec => []Overlaid
  BY WindowInit, WindowNext, PTL DEF Spec
<1> QED BY <1>1, WindowShows, PTL

-----------------------------------------------------------------------------
(***************************************************************************)
(* The queue.  That there is a packet when popleft is called is known from *)
(* a step before; what keeps it true is that nobody but main takes packets *)
(* and that a full queue makes room by dropping one and adding another.    *)
(***************************************************************************)
Queued ==
  /\ inputs \in Seq(Packets)
  /\ ui = "get" => Len(inputs) > 0

LEMMA ReceiveStep ==
  ASSUME NEW p \in Packets, Queued, Q!Receive(p)
  PROVE  inputs' \in Seq(Packets) /\ Len(inputs') > 0
<1>1. MaxLen \in Nat /\ MaxLen > 0
  BY ScreensAssumption DEF Q!ConnAssumption
<1>2. CASE Len(inputs) < MaxLen
  BY <1>2 DEF Q!Receive, Q!Appended, Queued
<1>3. CASE ~(Len(inputs) < MaxLen)
  <2>1. inputs # <<>> /\ Tail(inputs) \in Seq(Packets)
    BY <1>1, <1>3 DEF Queued
  <2>2. inputs' = Append(Tail(inputs), p)
    BY <1>3 DEF Q!Receive, Q!Appended
  <2> QED BY <2>1, <2>2
<1> QED BY <1>2, <1>3

\* What either program does to the queue: it takes a packet there is, or nothing.
LEMMA CliQueue ==
  ASSUME Queued, C!CliNext
  PROVE  Queued' /\ (Q!Next \/ UNCHANGED Q!conn)
<1> USE DEF Q!conn
<1>1. CASE C!Get
  <2>1. ui = "get" /\ inputs # <<>> /\ inputs' = Tail(inputs) /\ ui' # "get"
    BY <1>1 DEF C!Get, C!GetInput, Queued
  <2>2. Q!HasInput /\ Q!GetInput
    BY <1>1, <2>1 DEF C!Get, C!GetInput, Q!GetInput, Q!HasInput, Queued
  <2> QED BY <2>1, <2>2 DEF Queued, Q!Next
<1>2. CASE C!StopConn
  BY <1>2 DEF C!StopConn, C!Stop, Q!Stop, Q!Next, Queued
<1>3. CASE C!Has
  BY <1>3 DEF C!Has, C!HasInput, C!connVars, Queued
<1>4. CASE C!EnterTry \/ C!Check \/ C!Interrupt \/ C!Join
  BY <1>4 DEF C!EnterTry, C!Check, C!Interrupt, C!Join, C!connVars, Queued
<1>5. CASE C!LookAtWidth \/ C!Write \/ C!Resize
  BY <1>5 DEF C!LookAtWidth, C!Write, C!Resize, C!connVars, Queued
<1> QED BY <1>1, <1>2, <1>3, <1>4, <1>5 DEF C!CliNext, C!Main

LEMMA OverlayQueue ==
  ASSUME Queued, O!OverlayNext
  PROVE  Queued' /\ (Q!Next \/ UNCHANGED Q!conn)
<1> USE DEF Q!conn
<1>1. CASE O!Get
  <2>1. ui = "get" /\ inputs # <<>> /\ inputs' = Tail(inputs) /\ ui' # "get"
    BY <1>1 DEF O!Get, O!GetInput, Queued
  <2>2. Q!HasInput /\ Q!GetInput
    BY <1>1, <2>1 DEF O!Get, O!GetInput, Q!GetInput, Q!HasInput, Queued
  <2> QED BY <2>1, <2>2 DEF Queued, Q!Next
<1>2. CASE O!StopConn
  BY <1>2 DEF O!StopConn, O!Stop, Q!Stop, Q!Next, Queued
<1>3. CASE O!Has
  BY <1>3 DEF O!Has, O!HasInput, O!connVars, Queued
<1>4. CASE O!Draw
  BY <1>4 DEF O!Draw, O!SetLabel, O!DeleteItem, O!CreateItem, O!StoreItem, O!NextWidget,
              O!DrawVars, O!connVars, Queued
<1>5. CASE O!Fire \/ O!Reschedule \/ O!MainloopReturns
  BY <1>5 DEF O!Fire, O!Reschedule, O!MainloopReturns, O!connVars, Queued
<1>6. CASE O!Join \/ O!UserCloses \/ O!Interrupt
  BY <1>6 DEF O!Join, O!UserCloses, O!Interrupt, O!connVars, Queued
<1> QED BY <1>1, <1>2, <1>3, <1>4, <1>5, <1>6 DEF O!OverlayNext, O!Main

LEMMA QueueNext ==
  ASSUME Queued, [Next]_vars
  PROVE  Queued' /\ (Q!Next \/ UNCHANGED Q!conn)
<1>1. CASE ConsoleSends
  <2>1. PICK p \in Packets : Q!Receive(p)
    BY <1>1 DEF ConsoleSends
  <2>2. newest' = p /\ ui' = ui
    BY <1>1, <2>1 DEF Q!Receive, ConsoleSends
  <2> QED BY <2>1, <2>2, ReceiveStep DEF Q!Next, Queued
<1>2. CASE NetThreadEnds
  BY <1>2 DEF NetThreadEnds, Q!NetEnds, Q!Next, Queued
<1>3. CASE Cli \/ Overlay
  BY <1>3, CliQueue, OverlayQueue DEF Cli, Overlay
<1>4. CASE Finished \/ UNCHANGED vars
  BY <1>4 DEF Finished, vars, Q!conn, Queued
<1> QED BY <1>1, <1>2, <1>3, <1>4 DEF Next

(* ConnAsPromised (the loops of cli.py and main.py): popleft is called     *)
(* only on a deque that has a packet, though hasInput was asked some steps *)
(* before and the receiver appended and dropped meanwhile; and but for     *)
(* that a program only calls stop().  Viewer implements Conn's safety, so  *)
(* no more can happen here than the decoder can do.                        *)
THEOREM UsesConn == Spec => ConnAsPromised
<1>1. Init => Q!Init /\ Queued
  BY DEF Init, Q!Init, C!Init, Queued
<1>2. Queued /\ [Next]_vars => Queued' /\ [Q!Next]_(Q!conn)
  BY QueueNext
<1> QED BY <1>1, <1>2, PTL DEF Spec, ConnAsPromised
=============================================================================
