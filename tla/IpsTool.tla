------------------------------ MODULE IpsTool ------------------------------
(***************************************************************************)
(* tools/ips_check.py: an IPS patch is built from patch.s and the stock    *)
(* module, or comes from another generator; it is decoded and compared     *)
(* with patch.s.  A source line is an .org, a run of assembled bytes, or   *)
(* one that makes none.  The toolchain is external.  A file is a sequence  *)
(* of records; count # 0 is a run-length record of one byte.               *)
(***************************************************************************)
EXTENDS Integers, Sequences, FiniteSets, FiniteSetsExt, SequencesExt, Functions

CONSTANTS
  Base,         \* --base: the address of the image's first byte
  EofOffset,    \* the offset that reads "EOF"
  MaxOffset,    \* what an offset's three bytes hold
  MaxSize,      \* what a size's two bytes hold
  Reach,        \* how near patched bytes must be to explain a byte between
  Stocks,       \* images of the stock module
  Sources       \* texts of patch.s, as lines

\* A line's fields are those of its kind.
IsText(src) ==
  /\ src \in Seq({src[i] : i \in DOMAIN src})
  /\ \A i \in DOMAIN src :
       /\ src[i].kind = "org" => src[i].addr \in Nat
       /\ src[i].kind = "code" => src[i].bytes \in Seq(Nat)

ASSUME IpsAssumption ==
  /\ {Base, EofOffset, MaxOffset, MaxSize, Reach} \subseteq Nat
  /\ EofOffset <= MaxOffset
  /\ Stocks \subseteq Seq(Nat) /\ \A src \in Sources : IsText(src)

VARIABLES
  stock, source,     \* the two inputs
  maker, made,       \* history: who writes the file, and from which source
  at, k,             \* the step, and the loop's position in it
  hunks,             \* of build_ips, then of main
  file, cut,         \* the file's records; it ends before its EOF
  ips_bytes, explained, bad,
  fill, result

vars == <<stock, source, maker, made, at, k, hunks, file, cut, ips_bytes, explained,
          bad, fill, result>>
inputVars == <<stock, source, maker, made>>
verdictVars == <<ips_bytes, explained, bad, fill, result>>

Init ==
  /\ stock \in Stocks /\ source \in Sources
  /\ maker \in {"build_ips", "other"} /\ made = source
  /\ at = "build" /\ k = 1 /\ hunks = <<>>
  /\ file = <<>> /\ cut = FALSE
  /\ ips_bytes = <<>> /\ explained = {} /\ bad = 0 /\ fill = {} /\ result = "none"

-----------------------------------------------------------------------------
\* translate: every .org begins a chunk; what stands before the first is
\* dropped, and lines that assemble to nothing are.
WithLine(chunks, line) ==
  CASE line.kind = "org" -> Append(chunks, [addr |-> line.addr, data |-> <<>>])
    [] line.kind = "code" /\ chunks # <<>> ->
         [chunks EXCEPT ![Len(chunks)].data = @ \o line.bytes]
    [] OTHER -> chunks

Translated(src) ==
  LET upto[n \in 0..Len(src)] == IF n = 0 THEN <<>> ELSE WithLine(upto[n - 1], src[n])
  IN  upto[Len(src)]

Extent(c) == c.addr .. (c.addr + Len(c.data) - 1)

\* assemble: the linker refuses sections that overlap.
Assembles(src) ==
  LET chunks == Translated(src)
  IN  \A i, j \in DOMAIN chunks : i < j => Extent(chunks[i]) \cap Extent(chunks[j]) = {}

Chunks == Translated(source)

\* s[lo:hi] of Python: negative positions count from the end.
Position(s, i) == IF i < 0 THEN Max({0, Len(s) + i}) ELSE Min({Len(s), i})
Slice(s, lo, hi) == SubSeq(s, Position(s, lo) + 1, Position(s, hi))

Fails(step) == at = step /\ at' = "failed" /\ UNCHANGED <<k, hunks, file, cut>>

\* Both build_ips and main assemble first.
AssembleFails ==
  /\ ~Assembles(source) /\ k = 1 /\ Fails(IF maker = "build_ips" THEN "build" ELSE "compare")
  /\ UNCHANGED <<inputVars, verdictVars>>

\* From the first byte that differs from stock to the last.
Trimmed(data, diff) == SubSeq(data, Min(diff), Max(diff))

\* build_ips' first loop: one chunk.
BuildChunk ==
  /\ at = "build" /\ maker = "build_ips" /\ Assembles(source) /\ k <= Len(Chunks)
  /\ LET c == Chunks[k]
         off == c.addr - Base
         old == Slice(stock, off, off + Len(c.data))
         diff == {i \in 1..Len(c.data) : c.data[i] # old[i]}
     IN  IF Len(old) # Len(c.data)
         THEN Fails("build")
         ELSE /\ hunks' = IF diff = {} THEN hunks
                          ELSE Append(hunks, [off |-> off + Min(diff) - 1,
                                              payload |-> Trimmed(c.data, diff)])
              /\ k' = k + 1
              /\ UNCHANGED <<at, file, cut>>
  /\ UNCHANGED <<inputVars, verdictVars>>

\* By offset; those of chunks inside the image all have different ones.
SortHunks ==
  /\ at = "build" /\ maker = "build_ips" /\ Assembles(source) /\ k > Len(Chunks)
  /\ \E order \in Bijection(DOMAIN hunks, DOMAIN hunks) :
       /\ \A i, j \in DOMAIN hunks : i < j => hunks[order[i]].off <= hunks[order[j]].off
       /\ hunks' = [i \in DOMAIN hunks |-> hunks[order[i]]]
  /\ at' = "write" /\ k' = 1
  /\ UNCHANGED <<inputVars, file, cut, verdictVars>>

\* Mutant of Collides: an offset that reads "EOF" is written.
CollidesNever(h) == FALSE
Collides(h) == h.off = EofOffset

\* to_bytes and pack raise for what their bytes do not hold.
Encodes(h) == h.off \in 0..MaxOffset /\ Len(h.payload) <= MaxSize

Record(h) == [off |-> h.off, count |-> 0, payload |-> h.payload]

WriteHunk ==
  /\ at = "write" /\ k <= Len(hunks)
  /\ IF Collides(hunks[k]) \/ ~Encodes(hunks[k])
     THEN Fails("write")
     ELSE /\ file' = Append(file, Record(hunks[k])) /\ k' = k + 1
          /\ UNCHANGED <<at, hunks, cut>>
  /\ UNCHANGED <<inputVars, verdictVars>>

FileWritten ==
  /\ at = "write" /\ k > Len(hunks)
  /\ at' = "parse" /\ k' = 1 /\ hunks' = <<>>
  /\ UNCHANGED <<inputVars, file, cut, verdictVars>>

-----------------------------------------------------------------------------
\* What patch.s asks for: the stock image with its chunks in place.
Patched(image, src) ==
  LET chunks == Translated(src)
      Over(o) == {i \in DOMAIN chunks : Base + o - 1 \in Extent(chunks[i])}
  IN  [o \in DOMAIN image |->
         IF Over(o) = {} THEN image[o]
         ELSE LET c == chunks[Max(Over(o))] IN c.data[Base + o - c.addr]]

\* Another generator compares the two images.  It writes what differs, may
\* write short runs of equal bytes in between, and may use run-length records.
Changed(src) == {o \in DOMAIN stock : Patched(stock, src)[o] # stock[o]}

Between(os) == {o \in DOMAIN stock : \E a, b \in os : a < o /\ o < b /\ b - a - 1 <= Reach}

Runs(os) == {ab \in os \X os : /\ ab[1] <= ab[2] /\ ab[1]..ab[2] \subseteq os
                               /\ ab[1] - 1 \notin os /\ ab[2] + 1 \notin os}

RecordOf(ab, image, rle) ==
  LET bytes == SubSeq(image, ab[1], ab[2])
  IN  IF rle /\ \A i \in DOMAIN bytes : bytes[i] = bytes[1]
      THEN [off |-> ab[1] - 1, count |-> Len(bytes), payload |-> <<bytes[1]>>]
      ELSE [off |-> ab[1] - 1, count |-> 0, payload |-> bytes]

OtherWrites ==
  /\ at = "build" /\ maker = "other"
  /\ \E src \in Sources :
       /\ Assembles(src) /\ made' = src
       /\ \E extra \in SUBSET Between(Changed(src)) :
            LET runs == Runs(Changed(src) \cup extra)
            IN  /\ \A ab \in runs : /\ ab[1] - 1 \in (0..MaxOffset) \ {EofOffset}
                                   /\ ab[2] - ab[1] < MaxSize
                /\ \E order \in Bijection(1..Cardinality(runs), runs) :
                     /\ \A i, j \in DOMAIN order : i < j => order[i][1] < order[j][1]
                     /\ \E rle \in SUBSET DOMAIN order :
                          file' = [i \in DOMAIN order |->
                                     RecordOf(order[i], Patched(stock, src), i \in rle)]
  /\ at' = "parse"
  /\ UNCHANGED <<stock, source, maker, k, hunks, cut, verdictVars>>

\* The file on disk may have lost its end.
CutShort ==
  /\ at = "parse" /\ k = 1 /\ ~cut
  /\ cut' = TRUE
  /\ \E n \in 0..Len(file) : file' = SubSeq(file, 1, n)
  /\ UNCHANGED <<inputVars, at, k, hunks, verdictVars>>

-----------------------------------------------------------------------------
\* A record's bytes.
Expanded(r) == IF r.count = 0 THEN r.payload ELSE [i \in 1..r.count |-> r.payload[1]]

\* parse_ips: an offset that reads "EOF" ends the file; without one, unpacking
\* the next header raises.
ParseRecord ==
  /\ at = "parse" /\ k <= Len(file) /\ file[k].off # EofOffset
  /\ hunks' = Append(hunks, [off |-> file[k].off, payload |-> Expanded(file[k])])
  /\ k' = k + 1
  /\ UNCHANGED <<inputVars, at, file, cut, verdictVars>>

ParseEnds ==
  /\ at = "parse"
  /\ \/ k > Len(file) /\ ~cut
     \/ k <= Len(file) /\ file[k].off = EofOffset
  /\ at' = "store" /\ k' = 1
  /\ UNCHANGED <<inputVars, hunks, file, cut, verdictVars>>

ParseFails ==
  /\ cut /\ k > Len(file) /\ Fails("parse")
  /\ UNCHANGED <<inputVars, verdictVars>>

-----------------------------------------------------------------------------
\* main's dictionary: a later record replaces an earlier one's bytes.
Stored(m, h) ==
  LET new == (Base + h.off) .. (Base + h.off + Len(h.payload) - 1)
  IN  [a \in new \cup DOMAIN m |->
         IF a \in new THEN h.payload[a - Base - h.off + 1] ELSE m[a]]

StoreHunk ==
  /\ at = "store"
  /\ IF k <= Len(hunks)
     THEN ips_bytes' = Stored(ips_bytes, hunks[k]) /\ k' = k + 1 /\ UNCHANGED at
     ELSE at' = "compare" /\ k' = 1 /\ UNCHANGED ips_bytes
  /\ UNCHANGED <<inputVars, hunks, file, cut, explained, bad, fill, result>>

\* Without a patch.s the tool only lists the records.
OnlyDecodes ==
  /\ at = "compare" /\ k = 1 /\ at' = "done"
  /\ UNCHANGED <<inputVars, k, hunks, file, cut, verdictVars>>

Covered(c) == {i \in 1..Len(c.data) : c.addr + i - 1 \in DOMAIN ips_bytes}

\* Mutant of Differs: only the first covered byte is looked at.
DiffersFirst(c) == LET i == Min(Covered(c)) IN ips_bytes[c.addr + i - 1] # c.data[i]
Differs(c) == \E i \in Covered(c) : ips_bytes[c.addr + i - 1] # c.data[i]

CompareChunk ==
  /\ at = "compare" /\ Assembles(source) /\ k <= Len(Chunks)
  /\ LET c == Chunks[k]
     IN  /\ explained' = explained \cup Extent(c)
         /\ bad' = IF Covered(c) = {} THEN bad + 1
                   ELSE IF Differs(c) THEN bad + 1 ELSE bad
  /\ k' = k + 1
  /\ UNCHANGED <<inputVars, at, hunks, file, cut, ips_bytes, fill, result>>

\* Mutant of Near: the distance is one too short.
NearShort(a, b) == b - a \in 1..(Reach - 1)
Near(a, b) == b - a \in 1..Reach

\* Bytes of the file between patched ones, assumed to be stock's.
Fill == {a \in DOMAIN ips_bytes \ explained :
           (\E e \in explained : Near(e, a)) /\ (\E e \in explained : Near(a, e))}

Judge ==
  /\ at = "compare" /\ Assembles(source) /\ k > Len(Chunks)
  /\ IF explained = {}
     THEN Fails("compare") /\ UNCHANGED <<bad, fill, result>>  \* min of nothing
     ELSE /\ fill' = Fill
          /\ bad' = IF DOMAIN ips_bytes \subseteq explained \cup Fill THEN bad ELSE bad + 1
          /\ result' = IF bad' = 0 THEN "matches" ELSE "mismatch"
          /\ at' = "done" /\ UNCHANGED <<k, hunks, file, cut>>
  /\ UNCHANGED <<inputVars, ips_bytes, explained>>

Ended == at \in {"done", "failed"} /\ UNCHANGED vars

BuildIps == AssembleFails \/ BuildChunk \/ SortHunks \/ WriteHunk \/ FileWritten
ParseIps == ParseRecord \/ ParseEnds \/ ParseFails
Main == StoreHunk \/ OnlyDecodes \/ CompareChunk \/ Judge
Next == BuildIps \/ OtherWrites \/ CutShort \/ ParseIps \/ Main \/ Ended

Spec == Init /\ [][Next]_vars

-----------------------------------------------------------------------------
\* apply_ips of hook_test.py (Luma does the same): record after record.
WithHunk(image, h) ==
  Slice(image, 0, h.off) \o h.payload \o Slice(image, h.off + Len(h.payload), Len(image))

Applied(image, hs) ==
  LET upto[n \in 0..Len(hs)] == IF n = 0 THEN image ELSE WithHunk(upto[n - 1], hs[n])
  IN  upto[Len(hs)]

(* The file build_ips writes, read back and applied to the stock image,    *)
(* gives the image patch.s asks for, all of its chunks inside, though      *)
(* unchanged bytes were trimmed, unchanged chunks dropped and the records  *)
(* sorted.  (A chunk below --base may pass for one inside: see README.)    *)
BuiltFileApplies ==
  at \in {"compare", "done"} /\ maker = "build_ips"
    /\ (\A i \in DOMAIN Chunks : Chunks[i].addr >= Base)
    => /\ \A i \in DOMAIN Chunks : Extent(Chunks[i]) \subseteq Base..(Base + Len(stock) - 1)
       /\ Applied(stock, hunks) = Patched(stock, source)

(* A file made from this very patch.s, by build_ips or by a generator that *)
(* merges near records and uses run-length ones, is only reported as a     *)
(* mismatch if some chunk of patch.s changes nothing at all.               *)
NoFalseAlarm ==
  result = "mismatch" /\ made = source =>
    \E i \in DOMAIN Chunks : \A o \in Changed(source) : Base + o - 1 \notin Extent(Chunks[i])

(* A file is only reported as matching patch.s if every byte it changes,   *)
(* whatever source it was made from, is what patch.s makes of that byte or *)
(* is listed as lying between patched bytes.                               *)
MatchIsHonest ==
  result = "matches" =>
    \A o \in DOMAIN stock :
      Applied(stock, hunks)[o] \notin {stock[o], Patched(stock, source)[o]}
        => Base + o - 1 \in fill
=============================================================================
