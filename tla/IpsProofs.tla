----------------------------- MODULE IpsProofs -----------------------------
(***************************************************************************)
(* What ips_check.py promises, from IpsAssumption alone: for any images,   *)
(* sources, widths of offsets and sizes and distance between patched       *)
(* bytes.  Patched, Applied and Translated are folds over the chunks, the  *)
(* records and the lines; the first part gives for each what it says of a  *)
(* single byte, by induction on a set of numbers.  The invariant IInv has  *)
(* a part per step of the tool; it follows each byte of the image from     *)
(* patch.s through hunks, records and hunks again into the dictionary that *)
(* the verdict is taken from.                                              *)
(***************************************************************************)
EXTENDS IpsTool, SequenceTheorems, FiniteSetTheorems, WellFoundedInduction, TLAPS

-----------------------------------------------------------------------------
(* Sets of numbers. *)

\* Every set of naturals but the empty one has a least element; so what holds
\* of 0 and of each successor holds of all of them.
LEMMA LeastElement ==
  ASSUME NEW T \in SUBSET Nat, T # {}
  PROVE  \E m \in T : \A n \in T : m <= n
<1> DEFINE R == OpToRel(<, Nat)
<1>1. IsWellFoundedOn(R, Nat)
  BY NatLessThanWellFounded
<1>2. \A x, y \in Nat : <<x, y>> \in R <=> x < y
  BY DEF OpToRel
<1> HIDE DEF R
<1>3. PICK m \in T : \A n \in T : ~(<<n, m>> \in R)
  BY <1>1, WFMin
<1>4. m \in Nat /\ \A n \in T : n \in Nat
  OBVIOUS
<1>5. \A n \in T : ~(n < m)
  BY <1>2, <1>3, <1>4
<1> QED BY <1>4, <1>5

\* Induction, for a set: no predicate is passed as a parameter.
LEMMA SetInduction ==
  ASSUME NEW T, 0 \in T, \A n \in Nat : n \in T => n + 1 \in T
  PROVE  Nat \subseteq T
<1> SUFFICES ASSUME Nat \ T # {} PROVE FALSE
  OBVIOUS
<1>1. PICK m \in Nat \ T : \A n \in Nat \ T : m <= n
  BY LeastElement
<1>2. m # 0 /\ m - 1 \in Nat
  BY <1>1
<1>3. m - 1 \in T
  BY <1>1, <1>2
<1> QED BY <1>1, <1>2, <1>3

\* So every set of bounded ones has a greatest.
LEMMA GreatestElement ==
  ASSUME NEW N \in Nat, NEW T \in SUBSET (0..N), T # {}
  PROVE  \E m \in T : \A n \in T : n <= m
<1> DEFINE U == {N - n : n \in T}
<1>1. U \in SUBSET Nat /\ U # {}
  <2>1. \A n \in T : n \in Nat /\ n <= N /\ N - n \in Nat
    OBVIOUS
  <2> QED BY <2>1
<1>2. PICK u \in U : \A v \in U : u <= v
  BY <1>1, LeastElement
<1>3. PICK m \in T : u = N - m
  BY <1>2
<1>4. ASSUME NEW n \in T PROVE n <= m
  <2>1. N - m <= N - n
    BY <1>2, <1>3
  <2> QED BY <2>1
<1> QED BY <1>3, <1>4

\* Min and Max choose them.
LEMMA MinMaxKnown ==
  ASSUME NEW N \in Nat, NEW T \in SUBSET (1..N), T # {}
  PROVE  /\ Min(T) \in T /\ Max(T) \in T
         /\ \A n \in T : Min(T) <= n /\ n <= Max(T)
<1>1. \E m \in T : \A n \in T : m <= n
  BY LeastElement
<1>2. \E m \in T : \A n \in T : n <= m
  <2>1. T \in SUBSET (0..N)
    OBVIOUS
  <2> QED BY <2>1, GreatestElement
<1>3. \E m \in T : \A n \in T : m >= n
  BY <1>2
<1>4. Min(T) \in T /\ \A n \in T : Min(T) <= n
  BY <1>1 DEF Min
<1>5. Max(T) \in T /\ \A n \in T : Max(T) >= n
  BY <1>3 DEF Max
<1> QED BY <1>4, <1>5

\* A number of a set lies in a run of it.
LEMMA RunsCover ==
  ASSUME NEW N \in Nat, NEW os \in SUBSET (1..N), NEW o \in os
  PROVE  \E ab \in Runs(os) : ab[1] <= o /\ o <= ab[2]
<1> DEFINE Lows == {a \in 1..N : a <= o /\ a..o \subseteq os}
           Highs == {b \in 1..N : o <= b /\ o..b \subseteq os}
<1>1. o \in Lows /\ o \in Highs /\ o \in Nat
  OBVIOUS
<1>2. PICK a \in Lows : \A n \in Lows : a <= n
  <2>1. Lows \in SUBSET Nat /\ Lows # {}
    BY <1>1
  <2> HIDE DEF Lows
  <2> QED BY <2>1, LeastElement
<1>3. PICK b \in Highs : \A n \in Highs : n <= b
  <2>1. Highs \in SUBSET (0..N) /\ Highs # {}
    BY <1>1
  <2> HIDE DEF Highs
  <2> QED BY <2>1, GreatestElement
<1>4. a \in os /\ b \in os /\ a \in Nat /\ b \in Nat /\ a <= o /\ o <= b
  BY <1>2, <1>3
<1>5. a..b \subseteq os
  <2>1. a..b \subseteq (a..o) \cup (o..b)
    BY <1>1, <1>4
  <2> QED BY <1>2, <1>3, <2>1
<1>6. a - 1 \notin os
  <2> SUFFICES ASSUME a - 1 \in os PROVE FALSE
    OBVIOUS
  <2>1. (a - 1)..o \subseteq {a - 1} \cup (a..o)
    BY <1>1, <1>4
  <2>2. a - 1 \in Lows
    BY <1>2, <1>4, <2>1
  <2> QED BY <1>2, <1>4, <2>2
<1>7. b + 1 \notin os
  <2> SUFFICES ASSUME b + 1 \in os PROVE FALSE
    OBVIOUS
  <2>1. o..(b + 1) \subseteq {b + 1} \cup (o..b)
    BY <1>1, <1>4
  <2>2. b + 1 \in Highs
    BY <1>3, <1>4, <2>1
  <2> QED BY <1>3, <1>4, <2>2
<1>8. PICK ab : ab = <<a, b>>
  OBVIOUS
<1>9. ab \in os \X os /\ ab[1] = a /\ ab[2] = b
  BY <1>4, <1>8
<1>10. ab \in Runs(os)
  BY <1>4, <1>5, <1>6, <1>7, <1>9 DEF Runs
<1> QED BY <1>4, <1>9, <1>10

-----------------------------------------------------------------------------
\* What the records say of byte o of an image: hunk h has it.
Hits(h, o) == o \in (h.off + 1)..(h.off + Len(h.payload))

\* j is the last of the first n hunks that has byte o.
LastHit(hs, n, o, j) ==
  /\ j \in 1..n /\ Hits(hs[j], o)
  /\ \A i \in (j + 1)..n : ~Hits(hs[i], o)

\* h lies within an image of len bytes.
Inside(h, len) ==
  /\ h.off \in Nat /\ h.payload \in Seq(Nat)
  /\ h.off + Len(h.payload) <= len

-----------------------------------------------------------------------------
(* Slices, and records applied to an image. *)

\* Max and Min of two, as Position uses them.
LEMMA TwoNumbers ==
  ASSUME NEW a \in Int, NEW b \in Int
  PROVE  /\ Min({a, b}) = IF a <= b THEN a ELSE b
         /\ Max({a, b}) = IF a <= b THEN b ELSE a
BY DEF Min, Max

\* A position not before the first is cut at the end.
LEMMA PositionKnown ==
  ASSUME NEW s \in Seq(Nat), NEW i \in Int
  PROVE  /\ Position(s, i) \in 0..Len(s) /\ Len(s) \in Nat
         /\ i \in 0..Len(s) => Position(s, i) = i
         /\ i > Len(s) => Position(s, i) = Len(s)
<1>1. PICK n \in Nat : n = Len(s)
  OBVIOUS
<1>2. Position(s, i) = IF i < 0 THEN Max({0, n + i}) ELSE Min({n, i})
  BY <1>1 DEF Position
<1>3. Max({0, n + i}) = (IF 0 <= n + i THEN n + i ELSE 0) /\ Min({n, i}) = (IF n <= i THEN n ELSE i)
  <2>1. 0 \in Int /\ n \in Int /\ n + i \in Int
    OBVIOUS
  <2>2. Max({0, n + i}) = IF 0 <= n + i THEN n + i ELSE 0
    BY <2>1, TwoNumbers, Zenon
  <2>3. Min({n, i}) = IF n <= i THEN n ELSE i
    BY <2>1, TwoNumbers, Zenon
  <2> QED BY <2>2, <2>3
<1> QED BY <1>1, <1>2, <1>3

\* From position p to position q.
LEMMA Piece ==
  ASSUME NEW s \in Seq(Nat), NEW p \in 0..Len(s), NEW q \in 0..Len(s)
  PROVE  /\ SubSeq(s, p + 1, q) \in Seq(Nat)
         /\ Len(SubSeq(s, p + 1, q)) = IF p <= q THEN q - p ELSE 0
         /\ \A i \in 1..(q - p) : SubSeq(s, p + 1, q)[i] = s[p + i]
<1>1. p + 1 \in Int /\ q \in Int /\ Len(s) \in Nat /\ \A i \in (p + 1)..q : s[i] \in Nat
  OBVIOUS
<1>2. /\ SubSeq(s, p + 1, q) \in Seq(Nat)
      /\ Len(SubSeq(s, p + 1, q)) = IF p + 1 <= q THEN q - (p + 1) + 1 ELSE 0
      /\ \A i \in 1..(q - (p + 1) + 1) : SubSeq(s, p + 1, q)[i] = s[p + 1 + i - 1]
  BY <1>1, SubSeqProperties
<1>3. q - (p + 1) + 1 = q - p /\ (q - p = 0 => ~(p + 1 <= q)) /\ (p + 1 <= q <=> p <= q /\ q - p # 0)
  BY <1>1
<1>4. \A i \in 1..(q - p) : p + 1 + i - 1 = p + i
  BY <1>1
<1>5. Len(SubSeq(s, p + 1, q)) = IF p <= q THEN q - p ELSE 0
  BY <1>2, <1>3
<1>6. \A i \in 1..(q - p) : SubSeq(s, p + 1, q)[i] = s[p + i]
  BY <1>2, <1>3, <1>4
<1> QED BY <1>2, <1>5, <1>6

\* A slice that lies within the image is that piece of it.
LEMMA SliceWithin ==
  ASSUME NEW s \in Seq(Nat), NEW lo \in 0..Len(s), NEW hi \in 0..Len(s), lo <= hi
  PROVE  /\ Slice(s, lo, hi) \in Seq(Nat) /\ Len(Slice(s, lo, hi)) = hi - lo
         /\ \A i \in 1..(hi - lo) : Slice(s, lo, hi)[i] = s[lo + i]
<1>1. lo \in Int /\ hi \in Int
  OBVIOUS
<1>2. Position(s, lo) = lo /\ Position(s, hi) = hi
  BY <1>1, PositionKnown
<1>3. Slice(s, lo, hi) = SubSeq(s, lo + 1, hi)
  BY <1>2 DEF Slice
<1> QED BY <1>3, Piece

\* A slice as long as asked for, of a place that does not end before the image
\* begins, is within the image: it did not wrap around.
LEMMA SliceFits ==
  ASSUME NEW s \in Seq(Nat), NEW off \in Int, NEW n \in Nat \ {0}, off + n >= 1,
         Len(Slice(s, off, off + n)) = n
  PROVE  off \in Nat /\ off + n <= Len(s)
<1>1. PICK p \in Int, q \in Int : p = Position(s, off) /\ q = Position(s, off + n)
  BY PositionKnown
<1>2. p \in 0..Len(s) /\ q \in 0..Len(s) /\ Len(s) \in Nat
  BY <1>1, PositionKnown
<1>3. Len(Slice(s, off, off + n)) = IF p <= q THEN q - p ELSE 0
  BY <1>1, <1>2, Piece DEF Slice
<1>4. p <= q /\ q - p = n
  BY <1>2, <1>3
<1>5. /\ off \in 0..Len(s) => p = off
      /\ off > Len(s) => p = Len(s)
      /\ off + n <= Len(s) => q = off + n
      /\ off + n > Len(s) => q = Len(s)
  BY <1>1, PositionKnown
<1>6. off \in Nat
  <2> SUFFICES ASSUME off < 0 PROVE FALSE
    OBVIOUS
  <2>1. q <= off + n
    BY <1>2, <1>5
  <2> QED BY <1>2, <1>4, <2>1
<1>7. off + n <= Len(s)
  <2> SUFFICES ASSUME off + n > Len(s) PROVE FALSE
    BY <1>2
  <2> QED BY <1>2, <1>4, <1>5, <1>6
<1> QED BY <1>6, <1>7

LEMMA Cat ==
  ASSUME NEW s \in Seq(Nat), NEW t \in Seq(Nat)
  PROVE  /\ s \o t \in Seq(Nat) /\ Len(s \o t) = Len(s) + Len(t)
         /\ \A i \in 1..(Len(s) + Len(t)) :
              (s \o t)[i] = IF i <= Len(s) THEN s[i] ELSE t[i - Len(s)]
BY ConcatProperties, Zenon

\* One record changes its bytes, and no other.
LEMMA OneApplied ==
  ASSUME NEW image \in Seq(Nat), NEW h, Inside(h, Len(image))
  PROVE  /\ WithHunk(image, h) \in Seq(Nat) /\ Len(WithHunk(image, h)) = Len(image)
         /\ \A o \in 1..Len(image) :
              WithHunk(image, h)[o] = IF Hits(h, o) THEN h.payload[o - h.off] ELSE image[o]
<1>1. PICK L \in Nat, m \in Nat, n \in Nat, p \in Seq(Nat) :
         L = Len(image) /\ m = h.off /\ p = h.payload /\ n = Len(p) /\ m + n <= L
  BY DEF Inside
<1>2. PICK s, u : s = Slice(image, 0, m) /\ u = Slice(image, m + n, L)
  OBVIOUS
<1>3. /\ 0 \in 0..Len(image) /\ m \in 0..Len(image) /\ m + n \in 0..Len(image) /\ L \in 0..Len(image)
      /\ 0 <= m /\ m + n <= L /\ m - 0 = m
  BY <1>1
<1>4. s \in Seq(Nat) /\ Len(s) = m /\ \A i \in 1..m : s[i] = image[0 + i]
  BY <1>2, <1>3, SliceWithin
<1>5. u \in Seq(Nat) /\ Len(u) = L - (m + n) /\ \A i \in 1..(L - (m + n)) : u[i] = image[m + n + i]
  BY <1>2, <1>3, SliceWithin
<1>6. PICK v : v = s \o p
  OBVIOUS
<1>7. /\ v \in Seq(Nat) /\ Len(v) = m + n
      /\ \A i \in 1..(m + n) : v[i] = IF i <= m THEN s[i] ELSE p[i - m]
  <2>1. /\ s \o p \in Seq(Nat) /\ Len(s \o p) = Len(s) + Len(p)
        /\ \A i \in 1..(Len(s) + Len(p)) :
             (s \o p)[i] = IF i <= Len(s) THEN s[i] ELSE p[i - Len(s)]
    BY <1>1, <1>4, Cat, Zenon
  <2> QED BY <1>1, <1>4, <1>6, <2>1, Zenon
<1>8. PICK r : r = v \o u
  OBVIOUS
<1>9. /\ r \in Seq(Nat) /\ Len(r) = L
      /\ \A i \in 1..L : r[i] = IF i <= m + n THEN v[i] ELSE u[i - (m + n)]
  <2>1. /\ v \o u \in Seq(Nat) /\ Len(v \o u) = Len(v) + Len(u)
        /\ \A i \in 1..(Len(v) + Len(u)) :
             (v \o u)[i] = IF i <= Len(v) THEN v[i] ELSE u[i - Len(v)]
    BY <1>5, <1>7, Cat, Zenon
  <2>2. Len(v) + Len(u) = L
    BY <1>5, <1>7
  <2> QED BY <1>7, <1>8, <2>1, <2>2, Zenon
<1>10. WithHunk(image, h) = r
  BY <1>1, <1>2, <1>6, <1>8 DEF WithHunk
<1>11. ASSUME NEW o \in 1..L PROVE r[o] = IF o \in (m + 1)..(m + n) THEN p[o - m] ELSE image[o]
  <2>1. CASE o <= m
    <3>1. o \in 1..m /\ o \in 1..(m + n) /\ o <= m + n /\ o \notin (m + 1)..(m + n) /\ 0 + o = o
      BY <2>1
    <3> QED BY <1>4, <1>7, <1>9, <2>1, <3>1
  <2>2. CASE o > m /\ o <= m + n
    <3>1. o \in 1..(m + n) /\ ~(o <= m) /\ o \in (m + 1)..(m + n)
      BY <2>2
    <3> QED BY <1>7, <1>9, <2>2, <3>1
  <2>3. CASE o > m + n
    <3>1. /\ o - (m + n) \in 1..(L - (m + n)) /\ m + n + (o - (m + n)) = o
          /\ ~(o <= m + n) /\ o \notin (m + 1)..(m + n)
      BY <2>3
    <3> QED BY <1>5, <1>9, <3>1
  <2> QED BY <2>1, <2>2, <2>3
<1> QED BY <1>1, <1>9, <1>10, <1>11 DEF Hits

ChunkSet == [addr : Nat, data : Seq(Nat)]

\* f[x] is the image after the first x records.
Applies(f, image, hs, n) ==
  /\ f = [x \in 0..n |-> f[x]]
  /\ \A x \in 0..n : f[x] = IF x = 0 THEN image ELSE WithHunk(f[x - 1], hs[x])

LEMMA AppliesExists ==
  ASSUME NEW image, NEW hs, NEW N \in Nat
  PROVE  \E f : Applies(f, image, hs, N)
<1> DEFINE T == {n \in Nat : \E f : Applies(f, image, hs, n)}
<1>1. 0 \in T
  <2>1. PICK f : f = [x \in 0..0 |-> image]
    OBVIOUS
  <2>2. f[0] = image /\ f = [x \in 0..0 |-> f[x]]
    BY <2>1
  <2>3. Applies(f, image, hs, 0)
    BY <2>2 DEF Applies
  <2> QED BY <2>3
<1>2. ASSUME NEW n \in Nat, n \in T PROVE n + 1 \in T
  <2>1. PICK f : Applies(f, image, hs, n)
    BY <1>2
  <2>2. PICK v : v = WithHunk(f[n], hs[n + 1])
    OBVIOUS
  <2>3. PICK g : g = [x \in 0..(n + 1) |-> IF x = n + 1 THEN v ELSE f[x]]
    OBVIOUS
  <2>4. /\ \A x \in 0..(n + 1) : g[x] = IF x = n + 1 THEN v ELSE f[x]
        /\ g = [x \in 0..(n + 1) |-> g[x]]
    BY <2>3
  <2>5. ASSUME NEW x \in 0..(n + 1)
        PROVE  g[x] = IF x = 0 THEN image ELSE WithHunk(g[x - 1], hs[x])
    <3>1. CASE x = n + 1
      <4>1. x # 0 /\ x - 1 = n /\ n \in 0..(n + 1) /\ n # n + 1
        BY <3>1
      <4>2. g[x] = v /\ g[n] = f[n]
        BY <2>4, <3>1, <4>1
      <4> QED BY <2>2, <3>1, <4>1, <4>2
    <3>2. CASE x # n + 1
      <4>1. x \in 0..n /\ g[x] = f[x] /\ (x # 0 => x - 1 \in 0..(n + 1) /\ x - 1 # n + 1)
        BY <2>4, <3>2
      <4>2. f[x] = IF x = 0 THEN image ELSE WithHunk(f[x - 1], hs[x])
        BY <2>1, <4>1 DEF Applies
      <4>3. x # 0 => g[x - 1] = f[x - 1]
        BY <2>4, <4>1
      <4> QED BY <4>1, <4>2, <4>3, Zenon
    <3> QED BY <3>1, <3>2
  <2>6. Applies(g, image, hs, n + 1)
    BY <2>4, <2>5, Zenon DEF Applies
  <2> QED BY <2>6
<1> HIDE DEF T
<1>3. N \in T
  BY <1>1, <1>2, SetInduction
<1> QED BY <1>3 DEF T

\* Applied takes the last value of such an f.
LEMMA AppliedBy ==
  ASSUME NEW image, NEW hs, Len(hs) \in Nat
  PROVE  \E f : Applies(f, image, hs, Len(hs)) /\ Applied(image, hs) = f[Len(hs)]
<1> DEFINE Solve(f, x) == IF x = 0 THEN image ELSE WithHunk(f[x - 1], hs[x])
           Def(f) == f = [x \in 0..Len(hs) |-> Solve(f, x)]
           upto == CHOOSE f : Def(f)
<1>1. PICK g : Applies(g, image, hs, Len(hs))
  BY AppliesExists
<1>2. PICK h : h = [x \in 0..Len(hs) |-> Solve(g, x)]
  OBVIOUS
<1>3. \A x \in 0..Len(hs) : g[x] = Solve(g, x)
  BY <1>1 DEF Applies
<1>4. g = [x \in 0..Len(hs) |-> g[x]]
  BY <1>1, Zenon DEF Applies
<1> HIDE DEF Solve
<1>5. h = [x \in 0..Len(hs) |-> g[x]]
  BY <1>2, <1>3
<1>6. h = g
  BY <1>4, <1>5, Zenon
<1>7. Def(g)
  BY <1>2, <1>6
<1>8. Def(upto)
  BY <1>7
<1>9. Applied(image, hs) = upto[Len(hs)]
  BY DEF Applied, Solve
<1> HIDE DEF upto
<1>10. /\ upto = [x \in 0..Len(hs) |-> upto[x]]
       /\ \A x \in 0..Len(hs) : upto[x] = Solve(upto, x)
  BY <1>8
<1>11. Applies(upto, image, hs, Len(hs))
  BY <1>10, Zenon DEF Applies, Solve
<1> QED BY <1>9, <1>11

\* Every byte of r is that of the last of n records that has it, or the image's.
ResultOf(r, image, hs, n) ==
  /\ r \in Seq(Nat) /\ Len(r) = Len(image)
  /\ \A o \in 1..Len(image) :
       \/ (\A j \in 1..n : ~Hits(hs[j], o)) /\ r[o] = image[o]
       \/ \E j \in 1..n : LastHit(hs, n, o, j) /\ r[o] = hs[j].payload[o - hs[j].off]

LEMMA AppliedKnown ==
  ASSUME NEW image \in Seq(Nat), NEW hs, Len(hs) \in Nat,
         \A j \in 1..Len(hs) : Inside(hs[j], Len(image))
  PROVE  ResultOf(Applied(image, hs), image, hs, Len(hs))
<1>1. PICK f : Applies(f, image, hs, Len(hs)) /\ Applied(image, hs) = f[Len(hs)]
  BY AppliedBy
<1> DEFINE Known(r, n) == ResultOf(r, image, hs, n)
           T == {n \in Nat : n \in 0..Len(hs) => Known(f[n], n)}
<1> HIDE DEF Known
<1>2. 0 \in T
  <2>1. 0 \in 0..Len(hs)
    OBVIOUS
  <2>2. f[0] = image
    BY <1>1, <2>1, Zenon DEF Applies
  <2>3. Known(image, 0)
    BY DEF Known, ResultOf
  <2> QED BY <2>2, <2>3
<1>3. ASSUME NEW n \in Nat, n \in T PROVE n + 1 \in T
  <2> SUFFICES ASSUME n + 1 \in 0..Len(hs) PROVE Known(f[n + 1], n + 1)
    OBVIOUS
  <2>1. n \in 0..Len(hs) /\ n + 1 \in 1..Len(hs) /\ n + 1 # 0 /\ (n + 1) - 1 = n
    OBVIOUS
  <2>2. f[n + 1] = IF n + 1 = 0 THEN image ELSE WithHunk(f[(n + 1) - 1], hs[n + 1])
    BY <1>1, <2>1, Zenon DEF Applies
  <2>3. PICK before, after, h : before = f[n] /\ after = f[n + 1] /\ h = hs[n + 1]
    OBVIOUS
  <2>4. after = WithHunk(before, h)
    BY <2>1, <2>2, <2>3, Zenon
  <2>5. Known(before, n)
    BY <1>3, <2>1, <2>3
  <2>6. before \in Seq(Nat) /\ Len(before) = Len(image)
    BY <2>5 DEF Known, ResultOf
  <2>7. Inside(h, Len(before))
    BY <2>1, <2>3, <2>6
  <2>8. /\ after \in Seq(Nat) /\ Len(after) = Len(image)
        /\ \A o \in 1..Len(image) :
             after[o] = IF Hits(h, o) THEN h.payload[o - h.off] ELSE before[o]
    <3>1. /\ WithHunk(before, h) \in Seq(Nat) /\ Len(WithHunk(before, h)) = Len(before)
          /\ \A o \in 1..Len(before) :
               WithHunk(before, h)[o] = IF Hits(h, o) THEN h.payload[o - h.off] ELSE before[o]
      BY <2>6, <2>7, OneApplied, Zenon
    <3> QED BY <2>4, <2>6, <3>1, Zenon
  <2>9. ASSUME NEW o \in 1..Len(image)
        PROVE  \/ (\A j \in 1..(n + 1) : ~Hits(hs[j], o)) /\ after[o] = image[o]
               \/ \E j \in 1..(n + 1) : /\ LastHit(hs, n + 1, o, j)
                                        /\ after[o] = hs[j].payload[o - hs[j].off]
    <3>1. CASE Hits(h, o)
      <4>1. LastHit(hs, n + 1, o, n + 1)
        BY <2>3, <3>1 DEF LastHit
      <4>2. after[o] = hs[n + 1].payload[o - hs[n + 1].off] /\ n + 1 \in 1..(n + 1)
        BY <2>3, <2>8, <3>1
      <4> QED BY <4>1, <4>2
    <3>2. CASE ~Hits(h, o)
      <4>1. after[o] = before[o]
        BY <2>8, <3>2
      <4>2. \A j \in 1..(n + 1) : j \in 1..n \/ j = n + 1
        OBVIOUS
      <4>3. CASE (\A j \in 1..n : ~Hits(hs[j], o)) /\ before[o] = image[o]
        <5>1. \A j \in 1..(n + 1) : ~Hits(hs[j], o)
          BY <2>3, <3>2, <4>2, <4>3
        <5> QED BY <4>1, <4>3, <5>1
      <4>4. CASE \E j \in 1..n : LastHit(hs, n, o, j) /\ before[o] = hs[j].payload[o - hs[j].off]
        <5>1. PICK j \in 1..n : LastHit(hs, n, o, j) /\ before[o] = hs[j].payload[o - hs[j].off]
          BY <4>4
        <5>2. \A i \in (j + 1)..(n + 1) : i \in (j + 1)..n \/ i = n + 1
          OBVIOUS
        <5>3. j \in 1..(n + 1) /\ LastHit(hs, n + 1, o, j)
          BY <2>3, <3>2, <5>1, <5>2 DEF LastHit
        <5> QED BY <4>1, <5>1, <5>3
      <4> QED BY <2>5, <4>3, <4>4 DEF Known, ResultOf
    <3> QED BY <3>1, <3>2
  <2>10. Known(after, n + 1)
    BY <2>8, <2>9 DEF Known, ResultOf
  <2> QED BY <2>3, <2>10
<1> HIDE DEF T
<1>4. Len(hs) \in T
  BY <1>2, <1>3, SetInduction
<1>5. Known(f[Len(hs)], Len(hs))
  BY <1>4 DEF T
<1>6. Known(Applied(image, hs), Len(hs))
  BY <1>1, <1>5, Zenon
<1> QED BY <1>6 DEF Known

-----------------------------------------------------------------------------
(* Chunks. *)

\* f[x] are the chunks of the first x lines.
Translates(f, src, n) ==
  /\ f = [x \in 0..n |-> f[x]]
  /\ \A x \in 0..n : f[x] = IF x = 0 THEN <<>> ELSE WithLine(f[x - 1], src[x])

LEMMA TranslatesExists ==
  ASSUME NEW src, NEW N \in Nat
  PROVE  \E f : Translates(f, src, N)
<1> DEFINE T == {n \in Nat : \E f : Translates(f, src, n)}
<1>1. 0 \in T
  <2>1. PICK f : f = [x \in 0..0 |-> <<>>]
    OBVIOUS
  <2>2. f[0] = <<>> /\ f = [x \in 0..0 |-> f[x]]
    BY <2>1
  <2>3. Translates(f, src, 0)
    BY <2>2 DEF Translates
  <2> QED BY <2>3
<1>2. ASSUME NEW n \in Nat, n \in T PROVE n + 1 \in T
  <2>1. PICK f : Translates(f, src, n)
    BY <1>2
  <2>2. PICK v : v = WithLine(f[n], src[n + 1])
    OBVIOUS
  <2>3. PICK g : g = [x \in 0..(n + 1) |-> IF x = n + 1 THEN v ELSE f[x]]
    OBVIOUS
  <2>4. /\ \A x \in 0..(n + 1) : g[x] = IF x = n + 1 THEN v ELSE f[x]
        /\ g = [x \in 0..(n + 1) |-> g[x]]
    BY <2>3
  <2>5. ASSUME NEW x \in 0..(n + 1)
        PROVE  g[x] = IF x = 0 THEN <<>> ELSE WithLine(g[x - 1], src[x])
    <3>1. CASE x = n + 1
      <4>1. x # 0 /\ x - 1 = n /\ n \in 0..(n + 1) /\ n # n + 1
        BY <3>1
      <4>2. g[x] = v /\ g[n] = f[n]
        BY <2>4, <3>1, <4>1
      <4> QED BY <2>2, <3>1, <4>1, <4>2
    <3>2. CASE x # n + 1
      <4>1. x \in 0..n /\ g[x] = f[x] /\ (x # 0 => x - 1 \in 0..(n + 1) /\ x - 1 # n + 1)
        BY <2>4, <3>2
      <4>2. f[x] = IF x = 0 THEN <<>> ELSE WithLine(f[x - 1], src[x])
        BY <2>1, <4>1 DEF Translates
      <4>3. x # 0 => g[x - 1] = f[x - 1]
        BY <2>4, <4>1
      <4> QED BY <4>1, <4>2, <4>3, Zenon
    <3> QED BY <3>1, <3>2
  <2>6. Translates(g, src, n + 1)
    BY <2>4, <2>5, Zenon DEF Translates
  <2> QED BY <2>6
<1> HIDE DEF T
<1>3. N \in T
  BY <1>1, <1>2, SetInduction
<1> QED BY <1>3 DEF T

\* Translated takes the last value of such an f.
LEMMA TranslatedBy ==
  ASSUME NEW src, Len(src) \in Nat
  PROVE  \E f : Translates(f, src, Len(src)) /\ Translated(src) = f[Len(src)]
<1> DEFINE Solve(f, x) == IF x = 0 THEN <<>> ELSE WithLine(f[x - 1], src[x])
           Def(f) == f = [x \in 0..Len(src) |-> Solve(f, x)]
           upto == CHOOSE f : Def(f)
<1>1. PICK g : Translates(g, src, Len(src))
  BY TranslatesExists
<1>2. PICK h : h = [x \in 0..Len(src) |-> Solve(g, x)]
  OBVIOUS
<1>3. \A x \in 0..Len(src) : g[x] = Solve(g, x)
  BY <1>1 DEF Translates
<1>4. g = [x \in 0..Len(src) |-> g[x]]
  BY <1>1, Zenon DEF Translates
<1> HIDE DEF Solve
<1>5. h = [x \in 0..Len(src) |-> g[x]]
  BY <1>2, <1>3
<1>6. h = g
  BY <1>4, <1>5, Zenon
<1>7. Def(g)
  BY <1>2, <1>6
<1>8. Def(upto)
  BY <1>7
<1>9. Translated(src) = upto[Len(src)]
  BY DEF Translated, Solve
<1> HIDE DEF upto
<1>10. /\ upto = [x \in 0..Len(src) |-> upto[x]]
       /\ \A x \in 0..Len(src) : upto[x] = Solve(upto, x)
  BY <1>8
<1>11. Translates(upto, src, Len(src))
  BY <1>10, Zenon DEF Translates, Solve
<1> QED BY <1>9, <1>11

\* The chunks of a text: addresses and bytes.
LEMMA ChunksKnown ==
  ASSUME NEW src \in Sources
  PROVE  /\ Translated(src) \in Seq(ChunkSet) /\ Len(Translated(src)) \in Nat
         /\ DOMAIN Translated(src) = 1..Len(Translated(src))
         /\ \A i \in 1..Len(Translated(src)) : /\ Translated(src)[i].addr \in Nat
                                               /\ Translated(src)[i].data \in Seq(Nat)
<1>1. Len(src) \in Nat /\ \A i \in 1..Len(src) : /\ src[i].kind = "org" => src[i].addr \in Nat
                                                 /\ src[i].kind = "code" => src[i].bytes \in Seq(Nat)
  <2>1. IsText(src)
    BY IpsAssumption
  <2>2. PICK S : src \in Seq(S)
    BY <2>1 DEF IsText
  <2>3. Len(src) \in Nat /\ DOMAIN src = 1..Len(src)
    BY <2>2
  <2> QED BY <2>1, <2>3 DEF IsText
<1>2. PICK f : Translates(f, src, Len(src)) /\ Translated(src) = f[Len(src)]
  BY <1>1, TranslatedBy
<1> DEFINE T == {n \in Nat : n \in 0..Len(src) => f[n] \in Seq(ChunkSet)}
<1>3. 0 \in T
  <2>1. 0 \in 0..Len(src)
    BY <1>1
  <2>2. f[0] = <<>>
    BY <1>2, <2>1, Zenon DEF Translates
  <2>3. <<>> \in Seq(ChunkSet)
    OBVIOUS
  <2> QED BY <2>2, <2>3
<1>4. ASSUME NEW n \in Nat, n \in T PROVE n + 1 \in T
  <2> SUFFICES ASSUME n + 1 \in 0..Len(src) PROVE f[n + 1] \in Seq(ChunkSet)
    OBVIOUS
  <2>1. n \in 0..Len(src) /\ n + 1 \in 1..Len(src) /\ n + 1 # 0 /\ (n + 1) - 1 = n
    BY <1>1
  <2>2. f[n + 1] = IF n + 1 = 0 THEN <<>> ELSE WithLine(f[(n + 1) - 1], src[n + 1])
    BY <1>2, <2>1, Zenon DEF Translates
  <2>3. PICK line : line = src[n + 1]
    OBVIOUS
  <2>4. PICK chunks \in Seq(ChunkSet) : chunks = f[n]
    BY <1>4, <2>1
  <2>5. f[n + 1] = WithLine(chunks, line)
    BY <2>1, <2>2, <2>3, <2>4, Zenon
  <2>6. CASE line.kind = "org"
    <3>1. [addr |-> line.addr, data |-> <<>>] \in ChunkSet
      BY <1>1, <2>1, <2>3, <2>6 DEF ChunkSet
    <3>2. Append(chunks, [addr |-> line.addr, data |-> <<>>]) \in Seq(ChunkSet)
      BY <3>1, AppendProperties
    <3> QED BY <2>5, <2>6, <3>2 DEF WithLine
  <2>7. CASE line.kind = "code" /\ chunks # <<>>
    <3>1. PICK m : m = Len(chunks) /\ m \in 1..Len(chunks) /\ chunks[m] \in ChunkSet
      BY <2>7
    <3>2. line.bytes \in Seq(Nat) /\ chunks[m].addr \in Nat /\ chunks[m].data \in Seq(Nat)
      BY <1>1, <2>1, <2>3, <2>7, <3>1 DEF ChunkSet
    <3>3. chunks[m].data \o line.bytes \in Seq(Nat)
      BY <3>2, Cat
    <3>4. PICK c : c = [chunks[m] EXCEPT !.data = chunks[m].data \o line.bytes]
      OBVIOUS
    <3>5. c \in ChunkSet
      BY <3>1, <3>3, <3>4 DEF ChunkSet
    <3>6. [chunks EXCEPT ![m] = c] \in Seq(ChunkSet)
      BY <3>1, <3>5, ExceptSeq
    <3>7. WithLine(chunks, line) = [chunks EXCEPT ![Len(chunks)].data = @ \o line.bytes]
      BY <2>7 DEF WithLine
    <3> QED BY <2>5, <3>1, <3>4, <3>6, <3>7
  <2>8. CASE line.kind # "org" /\ ~(line.kind = "code" /\ chunks # <<>>)
    BY <2>5, <2>8 DEF WithLine
  <2> QED BY <2>6, <2>7, <2>8
<1> HIDE DEF T
<1>5. Len(src) \in T
  BY <1>1, <1>3, <1>4, SetInduction
<1>6. Translated(src) \in Seq(ChunkSet)
  BY <1>1, <1>2, <1>5 DEF T
<1>7. PICK chunks \in Seq(ChunkSet) : chunks = Translated(src)
  BY <1>6
<1>8. \A i \in 1..Len(chunks) : chunks[i].addr \in Nat /\ chunks[i].data \in Seq(Nat)
  <2>1. \A i \in 1..Len(chunks) : chunks[i] \in ChunkSet
    OBVIOUS
  <2>2. \A c \in ChunkSet : c.addr \in Nat /\ c.data \in Seq(Nat)
    BY DEF ChunkSet
  <2> QED BY <2>1, <2>2
<1> QED BY <1>7, <1>8

-----------------------------------------------------------------------------
(* The invariant. *)

\* Byte o of the image is in a chunk of src.
InChunk(src, o) == \E i \in DOMAIN Translated(src) : Base + o - 1 \in Extent(Translated(src)[i])

\* h says what the patched image says, and of no byte that lies apart from the chunks.
Sound(h) ==
  /\ Inside(h, Len(stock)) /\ h.off # EofOffset
  /\ \A o \in DOMAIN stock :
       Hits(h, o) => /\ h.payload[o - h.off] = Patched(stock, made)[o]
                     /\ InChunk(made, o) \/ o \in Between(Changed(made))

\* Every byte to be changed is in a hunk.
Complete(hs) == \A o \in Changed(made) : \E j \in DOMAIN hs : Hits(hs[j], o)

\* A hunk of build_ips; one below the image cannot be encoded.
Built(h) ==
  /\ h.off \in Int /\ h.payload \in Seq(Nat)
  /\ h.off \in Nat \ {EofOffset} => Sound(h)

\* The hunk that parse_ips makes of a record.
HunkOf(r) == [off |-> r.off, payload |-> Expanded(r)]

\* A chunk that begins at the image's first byte or later lies within the image.
ChunkInside(c) ==
  c.addr >= Base => Extent(c) \subseteq Base..(Base + Len(stock) - 1)

\* What the two lists hold.
Hunk == [off : Int, payload : Seq(Nat)]
FileRecord == [off : Int, count : Nat, payload : Seq(Nat)]

Typed == hunks \in Seq(Hunk) /\ file \in Seq(FileRecord)

Inputs ==
  /\ stock \in Stocks /\ source \in Sources /\ made \in Sources
  /\ maker = "build_ips" => made = source

Building ==
  at = "build" =>
    /\ k \in 1..(Len(Chunks) + 1) /\ file = <<>> /\ made = source
    /\ maker = "other" => k = 1 /\ hunks = <<>>
    /\ k > 1 => Assembles(source)
    /\ \A j \in DOMAIN hunks : Built(hunks[j])
    /\ \A i \in 1..(k - 1) :
         /\ ChunkInside(Chunks[i])
         /\ \A o \in Changed(source) :
              Base + o - 1 \in Extent(Chunks[i]) => \E j \in DOMAIN hunks : Hits(hunks[j], o)

\* After its chunks build_ips has only some for which it made no hunk.
Inserted == maker = "build_ips" => \A i \in DOMAIN Chunks : ChunkInside(Chunks[i])

Writing ==
  at = "write" =>
    /\ maker = "build_ips" /\ Assembles(made) /\ Inserted
    /\ k \in 1..(Len(hunks) + 1) /\ Len(file) = k - 1
    /\ \A j \in DOMAIN hunks : Built(hunks[j])
    /\ Complete(hunks)
    /\ \A j \in 1..(k - 1) : file[j] = Record(hunks[j]) /\ hunks[j].off \in Nat \ {EofOffset}

Parsing ==
  at = "parse" =>
    /\ Assembles(made) /\ Inserted
    /\ k \in 1..(Len(file) + 1) /\ Len(hunks) = k - 1
    /\ \A j \in DOMAIN file : Sound(HunkOf(file[j]))
    /\ ~cut => \A o \in Changed(made) : \E j \in DOMAIN file : Hits(HunkOf(file[j]), o)
    /\ \A j \in DOMAIN hunks : hunks[j] = HunkOf(file[j])

\* The dictionary has the bytes of the first n hunks, of the last that has each.
Holds(n) ==
  /\ \A a \in DOMAIN ips_bytes : a \in Nat /\ \E j \in 1..n : LastHit(hunks, n, a - Base + 1, j)
  /\ \A o \in DOMAIN stock, j \in 1..n :
       LastHit(hunks, n, o, j) =>
         /\ Base + o - 1 \in DOMAIN ips_bytes
         /\ ips_bytes[Base + o - 1] = hunks[j].payload[o - hunks[j].off]

Storing ==
  /\ at \in {"build", "write", "parse"} => ips_bytes = <<>>
  /\ at \in {"store", "compare", "done"} =>
       /\ Assembles(made) /\ Inserted
       /\ \A j \in DOMAIN hunks : Sound(hunks[j])
       /\ Complete(hunks)
       /\ Holds(IF at = "store" THEN k - 1 ELSE Len(hunks))
  /\ at = "store" => k \in 1..(Len(hunks) + 1)

\* Each chunk changes something.
AllChange == \A i \in DOMAIN Chunks : \E o \in Changed(source) : Base + o - 1 \in Extent(Chunks[i])

Comparing ==
  /\ at \in {"build", "write", "parse", "store"} => explained = {} /\ bad = 0
  /\ at = "compare" =>
       /\ k \in 1..(Len(Chunks) + 1) /\ (k > 1 => Assembles(source))
       /\ explained = UNION {Extent(Chunks[i]) : i \in 1..(k - 1)}
       /\ bad \in Nat
       /\ bad = 0 => \A i \in 1..(k - 1) : ~Differs(Chunks[i])
       /\ made = source /\ AllChange => bad = 0
  /\ at # "done" => result = "none"

Judged ==
  at = "done" =>
    /\ result = "matches" =>
         /\ Assembles(source)
         /\ \A a \in DOMAIN ips_bytes :
              \/ a \in fill
              \/ \E i \in DOMAIN Chunks : a \in Extent(Chunks[i]) /\ ~Differs(Chunks[i])
    /\ result = "mismatch" => ~(made = source /\ AllChange)

IInv == Typed /\ Inputs /\ Building /\ Writing /\ Parsing /\ Storing /\ Comparing /\ Judged

-----------------------------------------------------------------------------
(* What patch.s asks for, and a hunk of build_ips. *)

\* Where byte o of the image is in a chunk.
LEMMA ByteOfChunk ==
  ASSUME NEW c, c.addr \in Nat, c.data \in Seq(Nat), NEW o \in Int
  PROVE  /\ Base + o - 1 \in Extent(c) <=> Base + o - c.addr \in 1..Len(c.data)
         /\ Base + o - 1 \in Extent(c) => c.data[Base + o - c.addr] \in Nat
<1>1. PICK a \in Nat, b \in Nat, n \in Nat : a = c.addr /\ b = Base /\ n = Len(c.data)
  BY IpsAssumption
<1>2. Extent(c) = a..(a + n - 1)
  BY <1>1 DEF Extent
<1>3. b + o - 1 \in a..(a + n - 1) <=> b + o - a \in 1..n
  OBVIOUS
<1>4. Base + o - 1 \in Extent(c) <=> Base + o - c.addr \in 1..Len(c.data)
  BY <1>1, <1>2, <1>3
<1>5. \A i \in 1..Len(c.data) : c.data[i] \in Nat
  OBVIOUS
<1> QED BY <1>4, <1>5

LEMMA PatchedKnown ==
  ASSUME NEW image \in Seq(Nat), NEW src \in Sources
  PROVE  /\ Patched(image, src) \in Seq(Nat) /\ Len(Patched(image, src)) = Len(image)
         /\ DOMAIN Patched(image, src) = 1..Len(image)
         /\ \A o \in 1..Len(image) : ~InChunk(src, o) => Patched(image, src)[o] = image[o]
         /\ Assembles(src) =>
              \A o \in 1..Len(image), i \in DOMAIN Translated(src) :
                Base + o - 1 \in Extent(Translated(src)[i]) =>
                  Patched(image, src)[o]
                    = Translated(src)[i].data[Base + o - Translated(src)[i].addr]
<1> DEFINE chunks == Translated(src)
           Over(o) == {i \in DOMAIN chunks : Base + o - 1 \in Extent(chunks[i])}
           Byte(o) == IF Over(o) = {} THEN image[o]
                      ELSE chunks[Max(Over(o))].data[Base + o - chunks[Max(Over(o))].addr]
<1>1. /\ Len(chunks) \in Nat /\ DOMAIN chunks = 1..Len(chunks)
      /\ \A i \in 1..Len(chunks) : chunks[i].addr \in Nat /\ chunks[i].data \in Seq(Nat)
  BY ChunksKnown
<1>2. Base \in Nat /\ Len(image) \in Nat /\ DOMAIN image = 1..Len(image)
      /\ \A o \in 1..Len(image) : image[o] \in Nat
  BY IpsAssumption
<1>3. Patched(image, src) = [o \in 1..Len(image) |-> Byte(o)]
  BY <1>2 DEF Patched
<1>4. \A o \in 1..Len(image) : Over(o) # {} => Max(Over(o)) \in Over(o)
  <2> SUFFICES ASSUME NEW o \in 1..Len(image), Over(o) # {} PROVE Max(Over(o)) \in Over(o)
    OBVIOUS
  <2>1. Over(o) \in SUBSET (1..Len(chunks))
    BY <1>1
  <2> HIDE DEF Over
  <2> QED BY <1>1, <2>1, MinMaxKnown
<1>5. \A o \in 1..Len(image) : Byte(o) \in Nat
  <2> SUFFICES ASSUME NEW o \in 1..Len(image), Over(o) # {} PROVE Byte(o) \in Nat
    BY <1>2
  <2>1. PICK i \in 1..Len(chunks) : i = Max(Over(o)) /\ Base + o - 1 \in Extent(chunks[i])
    BY <1>1, <1>4
  <2>2. o \in Int /\ chunks[i].addr \in Nat /\ chunks[i].data \in Seq(Nat)
    BY <1>1
  <2> HIDE DEF chunks
  <2>3. chunks[i].data[Base + o - chunks[i].addr] \in Nat
    BY <2>1, <2>2, ByteOfChunk
  <2> QED BY <2>1, <2>3
<1>6. ASSUME NEW o \in 1..Len(image), ~InChunk(src, o) PROVE Byte(o) = image[o]
  BY <1>6 DEF InChunk
<1>7. ASSUME Assembles(src), NEW o \in 1..Len(image), NEW i \in DOMAIN chunks,
             Base + o - 1 \in Extent(chunks[i])
      PROVE  Byte(o) = chunks[i].data[Base + o - chunks[i].addr]
  <2>1. i \in Over(o)
    BY <1>7
  <2>2. \A j \in Over(o) : j = i
    <3> SUFFICES ASSUME NEW j \in Over(o), j # i PROVE FALSE
      OBVIOUS
    <3>1. i \in Nat /\ j \in DOMAIN chunks /\ j \in Nat /\ (i < j \/ j < i)
      BY <1>1
    <3>2. Base + o - 1 \in Extent(chunks[i]) /\ Base + o - 1 \in Extent(chunks[j])
      BY <1>7
    <3> QED BY <1>7, <3>1, <3>2 DEF Assembles
  <2>3. Over(o) # {}
    BY <2>1
  <2>4. Max(Over(o)) = i
    BY <1>4, <2>2, <2>3
  <2> QED BY <2>3, <2>4
<1> HIDE DEF Byte, Over
<1>8. [o \in 1..Len(image) |-> Byte(o)] \in Seq(Nat)
  BY <1>2, <1>5
<1>9. /\ Len([o \in 1..Len(image) |-> Byte(o)]) = Len(image)
      /\ \A o \in 1..Len(image) : [n \in 1..Len(image) |-> Byte(n)][o] = Byte(o)
  BY <1>2
<1> HIDE DEF chunks
<1>10. \A o \in 1..Len(image) : Patched(image, src)[o] = Byte(o)
  BY <1>3, <1>9
<1>11. DOMAIN Patched(image, src) = 1..Len(image)
  BY <1>3
<1> QED BY <1>3, <1>6, <1>7, <1>8, <1>9, <1>10, <1>11 DEF chunks

LEMMA InputsKnown ==
  ASSUME Inputs
  PROVE  /\ stock \in Seq(Nat) /\ Len(stock) \in Nat /\ DOMAIN stock = 1..Len(stock)
         /\ Base \in Nat /\ Reach \in Nat
         /\ Changed(made) \subseteq 1..Len(stock) /\ Changed(source) \subseteq 1..Len(stock)
BY IpsAssumption DEF Inputs, Changed

\* What is changed lies in a chunk.
LEMMA ChangedInChunk ==
  ASSUME Inputs, NEW src \in Sources, NEW o \in Changed(src)
  PROVE  o \in 1..Len(stock) /\ InChunk(src, o)
BY InputsKnown, PatchedKnown DEF Changed

LEMMA Shifted ==
  ASSUME NEW b \in Int, NEW f \in Int, NEW n \in Int, NEW o \in Int
  PROVE  b + o - 1 \in (b + f)..(b + f + n - 1) <=> o - f \in 1..n
OBVIOUS

LEMMA ShiftedBack ==
  ASSUME NEW a \in Int, NEW b \in Int, NEW o \in Int
  PROVE  a + (b + o - a) - 1 = b + o - 1
OBVIOUS

LEMMA ShiftedPart ==
  ASSUME NEW f \in Int, NEW m \in Int, NEW x \in Int, NEW o \in Int
  PROVE  o \in (f + m - 1 + 1)..(f + m - 1 + (x - m + 1)) <=> o - f \in m..x
OBVIOUS

\* A chunk that build_ips accepts: its hunk has every byte of it that changes.
LEMMA HunkBuilt ==
  ASSUME Inputs, made = source, Assembles(source), NEW i \in DOMAIN Chunks,
         NEW addr, NEW data, addr = Chunks[i].addr, data = Chunks[i].data,
         NEW off, off = addr - Base, NEW old, old = Slice(stock, off, off + Len(data)),
         Len(old) = Len(data),
         NEW diff, diff = {d \in 1..Len(data) : data[d] # old[d]},
         NEW h, h = [off |-> off + Min(diff) - 1, payload |-> Trimmed(data, diff)]
  PROVE  /\ ChunkInside(Chunks[i])
         /\ \A o \in Changed(source) :
              Base + o - 1 \in Extent(Chunks[i]) => diff # {} /\ Hits(h, o)
         /\ diff # {} => Built(h)
<1>1. /\ stock \in Seq(Nat) /\ Len(stock) \in Nat /\ DOMAIN stock = 1..Len(stock) /\ Base \in Nat
      /\ source \in Sources /\ Changed(source) \subseteq 1..Len(stock)
  BY InputsKnown DEF Inputs
<1>2. addr \in Nat /\ data \in Seq(Nat)
  BY <1>1, ChunksKnown DEF Chunks
<1>3. PICK n \in Nat : n = Len(data)
  BY <1>2
<1>4. off \in Int /\ addr = Base + off
  BY <1>1, <1>2
<1>5. Extent(Chunks[i]) = addr..(addr + n - 1)
  BY <1>3 DEF Extent
<1>6. \A o \in Int : Base + o - 1 \in Extent(Chunks[i]) <=> o - off \in 1..n
  <2>1. PICK b \in Nat : b = Base
    BY <1>1
  <2>2. addr = b + off /\ addr \in Nat /\ off \in Int
    BY <1>2, <1>4, <2>1
  <2>3. \A o \in Int : b + o - 1 \in (b + off)..(b + off + n - 1) <=> o - off \in 1..n
    <3>1. b \in Int /\ off \in Int /\ n \in Int
      BY <2>2
    <3> QED BY <3>1, Shifted, Zenon
  <2> QED BY <1>5, <2>1, <2>2, <2>3
<1>7. n # 0 /\ off + n >= 1 =>
        /\ off \in Nat /\ off + n <= Len(stock)
        /\ \A d \in 1..n : old[d] = stock[off + d]
  <2> SUFFICES ASSUME n # 0, off + n >= 1
               PROVE  /\ off \in Nat /\ off + n <= Len(stock)
                      /\ \A d \in 1..n : old[d] = stock[off + d]
    OBVIOUS
  <2>1. off \in Nat /\ off + n <= Len(stock)
    BY <1>1, <1>3, <1>4, SliceFits
  <2>2. off \in 0..Len(stock) /\ off + n \in 0..Len(stock) /\ off <= off + n /\ (off + n) - off = n
    BY <1>1, <2>1
  <2>3. \A d \in 1..((off + n) - off) : Slice(stock, off, off + n)[d] = stock[off + d]
    BY <1>1, <2>2, SliceWithin
  <2> QED BY <1>3, <2>1, <2>2, <2>3
<1>8. ChunkInside(Chunks[i])
  <2> SUFFICES ASSUME addr >= Base, n # 0
               PROVE  addr..(addr + n - 1) \subseteq Base..(Base + Len(stock) - 1)
    BY <1>2, <1>5 DEF ChunkInside
  <2>1. off + n >= 1
    BY <1>1, <1>4
  <2> QED BY <1>1, <1>4, <1>7, <2>1
<1>9. Assembles(source) /\ \A o \in 1..Len(stock) :
        o - off \in 1..n => Patched(stock, source)[o] = data[o - off] /\ InChunk(source, o)
  <2> SUFFICES ASSUME NEW o \in 1..Len(stock), o - off \in 1..n
               PROVE  Patched(stock, source)[o] = data[o - off] /\ InChunk(source, o)
    OBVIOUS
  <2>1. Base + o - 1 \in Extent(Chunks[i])
    BY <1>6
  <2>2. Base + o - addr = o - off
    BY <1>1, <1>2
  <2>3. InChunk(source, o)
    BY <2>1 DEF InChunk, Chunks
  <2>4. Patched(stock, source)[o] = Chunks[i].data[Base + o - Chunks[i].addr]
    BY <1>1, <2>1, PatchedKnown DEF Chunks
  <2> QED BY <2>2, <2>3, <2>4
<1>10. ASSUME NEW o \in Changed(source), Base + o - 1 \in Extent(Chunks[i])
       PROVE  off \in Nat /\ off + n <= Len(stock) /\ o - off \in diff
  <2>1. o \in 1..Len(stock) /\ o - off \in 1..n /\ Patched(stock, source)[o] # stock[o]
    BY <1>1, <1>6, <1>10 DEF Changed
  <2>2. n # 0 /\ off + n >= 1
    BY <1>4, <2>1
  <2>3. old[o - off] = stock[o]
    <3>1. off + (o - off) = o
      BY <1>4, <2>1
    <3> QED BY <1>7, <2>1, <2>2, <3>1
  <2> QED BY <1>3, <1>7, <1>9, <2>1, <2>2, <2>3
<1>11. ASSUME diff # {} PROVE Built(h) /\ \A d \in diff : Hits(h, off + d)
  <2>1. diff \in SUBSET (1..n)
    BY <1>3
  <2>2. PICK mn, mx : mn = Min(diff) /\ mx = Max(diff)
    OBVIOUS
  <2>3. mn \in diff /\ mx \in diff /\ \A d \in diff : mn <= d /\ d <= mx
    <3>1. diff # {}
      BY <1>11
    <3> QED BY <2>1, <2>2, <3>1, MinMaxKnown
  <2>13. mn \in 1..n /\ mx \in 1..n /\ mn <= mx
    BY <2>1, <2>3
  <2>4. PICK p : p = SubSeq(data, mn, mx)
    OBVIOUS
  <2>5. p \in Seq(Nat) /\ Len(p) = mx - mn + 1 /\ \A d \in 1..(mx - mn + 1) : p[d] = data[mn - 1 + d]
    <3>1. mn - 1 \in 0..Len(data) /\ mx \in 0..Len(data) /\ mn - 1 + 1 = mn /\ mn - 1 <= mx
          /\ mx - (mn - 1) = mx - mn + 1
      BY <1>3, <2>13
    <3>2. /\ SubSeq(data, mn - 1 + 1, mx) \in Seq(Nat)
          /\ Len(SubSeq(data, mn - 1 + 1, mx)) = IF mn - 1 <= mx THEN mx - (mn - 1) ELSE 0
          /\ \A d \in 1..(mx - (mn - 1)) : SubSeq(data, mn - 1 + 1, mx)[d] = data[mn - 1 + d]
      BY <1>2, <3>1, Piece, Zenon
    <3> QED BY <2>4, <3>1, <3>2
  <2>6. h.off = off + mn - 1 /\ h.payload = p
    BY <2>2, <2>4 DEF Trimmed
  <2>7. \A o \in Int : Hits(h, o) <=> o - off \in mn..mx
    <3>1. \A o \in Int : Hits(h, o) <=> o \in (off + mn - 1 + 1)..(off + mn - 1 + (mx - mn + 1))
      BY <2>5, <2>6 DEF Hits
    <3>2. \A o \in Int : o \in (off + mn - 1 + 1)..(off + mn - 1 + (mx - mn + 1)) <=> o - off \in mn..mx
      <4>1. off \in Int /\ mn \in Int /\ mx \in Int
        BY <1>4, <2>13
      <4> QED BY <4>1, ShiftedPart, Zenon
    <3> QED BY <3>1, <3>2
  <2>8. h.off \in Int /\ h.payload \in Seq(Nat)
    BY <1>4, <2>5, <2>6, <2>13
  <2>9. ASSUME h.off \in Nat PROVE Inside(h, Len(stock))
    <3>1. n # 0 /\ off + n >= 1
      BY <1>4, <2>6, <2>9, <2>13
    <3>2. off + n <= Len(stock)
      BY <1>7, <3>1
    <3>3. off + mn - 1 + (mx - mn + 1) <= Len(stock)
      <4>1. PICK L \in Nat : L = Len(stock)
        BY <1>1
      <4>2. off + n <= L => off + mn - 1 + (mx - mn + 1) <= L
        BY <1>4, <2>13
      <4> QED BY <3>2, <4>1, <4>2
    <3> QED BY <2>5, <2>6, <2>8, <2>9, <3>3 DEF Inside
  <2>10. ASSUME NEW o \in 1..Len(stock), Hits(h, o)
         PROVE  h.payload[o - h.off] = Patched(stock, source)[o] /\ InChunk(source, o)
    <3>1. o - off \in mn..mx /\ o - off \in 1..n
      BY <1>4, <2>7, <2>10, <2>13
    <3>2. o - h.off \in 1..(mx - mn + 1) /\ mn - 1 + (o - h.off) = o - off
      <4>1. /\ o - (off + mn - 1) \in 1..(mx - mn + 1)
            /\ mn - 1 + (o - (off + mn - 1)) = o - off
        BY <1>4, <2>13, <3>1
      <4> QED BY <2>6, <4>1
    <3>3. h.payload[o - h.off] = data[o - off]
      BY <2>5, <2>6, <3>2
    <3> QED BY <1>9, <3>1, <3>3
  <2>11. Built(h)
    BY <1>1, <2>8, <2>9, <2>10 DEF Built, Sound
  <2>12. ASSUME NEW d \in diff PROVE Hits(h, off + d)
    <3>1. d \in mn..mx /\ off + d \in Int /\ (off + d) - off = d
      BY <1>4, <2>1, <2>3, <2>13
    <3> QED BY <2>7, <3>1
  <2> QED BY <2>11, <2>12
<1>12. ASSUME NEW o \in Changed(source), Base + o - 1 \in Extent(Chunks[i])
       PROVE  diff # {} /\ Hits(h, o)
  <2>1. o - off \in diff /\ off + (o - off) = o
    BY <1>1, <1>4, <1>10, <1>12
  <2> QED BY <1>11, <2>1
<1> QED BY <1>8, <1>11, <1>12

-----------------------------------------------------------------------------
(* The invariant is kept, action by action. *)

\* All but OtherWrites leave the inputs as they are, and what is said of them.
LEMMA Kept ==
  ASSUME UNCHANGED inputVars
  PROVE  /\ stock' = stock /\ source' = source /\ made' = made /\ maker' = maker
         /\ Chunks' = Chunks
         /\ \A src : Changed(src)' = Changed(src)
         /\ \A h : Sound(h)' <=> Sound(h)
         /\ \A h : Built(h)' <=> Built(h)
         /\ \A hs : Complete(hs)' <=> Complete(hs)
         /\ \A c : ChunkInside(c)' <=> ChunkInside(c)
         /\ Inserted' <=> Inserted
         /\ AllChange' <=> AllChange
         /\ Inputs' <=> Inputs
<1>1. stock' = stock /\ source' = source /\ made' = made /\ maker' = maker
  BY DEF inputVars
<1>2. Chunks' = Chunks
  BY <1>1 DEF Chunks
<1>3. \A src : Changed(src)' = Changed(src)
  BY <1>1 DEF Changed
<1>4. \A h : Sound(h)' <=> Sound(h)
  BY <1>1 DEF Sound, Changed, Between
<1>5. \A h : Built(h)' <=> Built(h)
  BY <1>1, <1>4 DEF Built
<1>6. \A hs : Complete(hs)' <=> Complete(hs)
  BY <1>1 DEF Complete, Changed
<1>7. \A c : ChunkInside(c)' <=> ChunkInside(c)
  BY <1>1 DEF ChunkInside
<1>8. Inserted' <=> Inserted
  BY <1>1 DEF Inserted, ChunkInside, Chunks
<1>9. AllChange' <=> AllChange
  BY <1>1 DEF AllChange, Changed, Chunks
<1>10. Inputs' <=> Inputs
  BY <1>1 DEF Inputs
<1> QED BY <1>1, <1>2, <1>3, <1>4, <1>5, <1>6, <1>7, <1>8, <1>9, <1>10

LEMMA HunksKnown ==
  ASSUME NEW hs \in Seq(Hunk)
  PROVE  /\ Len(hs) \in Nat /\ DOMAIN hs = 1..Len(hs)
         /\ \A j \in 1..Len(hs) : hs[j] \in Hunk
OBVIOUS

LEMMA FileKnown ==
  ASSUME NEW f \in Seq(FileRecord)
  PROVE  /\ Len(f) \in Nat /\ DOMAIN f = 1..Len(f)
         /\ \A j \in 1..Len(f) : f[j] \in FileRecord
OBVIOUS

LEMMA ReadBack ==
  ASSUME NEW h \in Hunk
  PROVE  Record(h) \in FileRecord /\ HunkOf(Record(h)) = h
<1>1. h = [off |-> h.off, payload |-> h.payload] /\ h.off \in Int /\ h.payload \in Seq(Nat)
  BY DEF Hunk
<1>2. PICK r : r = Record(h)
  OBVIOUS
<1>3. r = [off |-> h.off, count |-> 0, payload |-> h.payload]
  BY <1>2 DEF Record
<1>4. r.off = h.off /\ r.count = 0 /\ r.payload = h.payload /\ r \in FileRecord
  BY <1>1, <1>3 DEF FileRecord
<1>5. Expanded(r) = h.payload
  BY <1>4 DEF Expanded
<1> QED BY <1>1, <1>2, <1>4, <1>5 DEF HunkOf

LEMMA FailsInv ==
  ASSUME IInv, at # "done", at' = "failed",
         UNCHANGED <<inputVars, hunks, file, result>>
  PROVE  IInv'
<1>1. Typed'
  BY DEF IInv, Typed
<1>2. Inputs'
  BY Kept DEF IInv
<1>3. Building' /\ Writing' /\ Parsing' /\ Storing' /\ Judged'
  BY DEF Building, Writing, Parsing, Storing, Judged
<1>4. Comparing'
  BY DEF IInv, Comparing
<1> QED BY <1>1, <1>2, <1>3, <1>4 DEF IInv

\* Until something is stored the dictionary and the verdict stay as they began.
LEMMA NothingStored ==
  ASSUME Storing, Comparing, at \in {"build", "write", "parse"},
         at' \in {"build", "write", "parse"}, UNCHANGED verdictVars
  PROVE  Storing' /\ Comparing' /\ Judged'
<1>1. ips_bytes = <<>> /\ explained = {} /\ bad = 0 /\ result = "none"
  BY DEF Storing, Comparing
<1> QED BY <1>1 DEF Storing, Comparing, Judged, verdictVars

LEMMA BuildChunkInv ==
  ASSUME IInv, BuildChunk PROVE IInv'
<1> DEFINE c == Chunks[k]
           off == c.addr - Base
           old == Slice(stock, off, off + Len(c.data))
           diff == {d \in 1..Len(c.data) : c.data[d] # old[d]}
           h == [off |-> off + Min(diff) - 1, payload |-> Trimmed(c.data, diff)]
<1>1. /\ at = "build" /\ maker = "build_ips" /\ Assembles(source) /\ k <= Len(Chunks)
      /\ UNCHANGED <<inputVars, verdictVars>>
  BY DEF BuildChunk
<1>2. CASE Len(old) # Len(c.data)
  <2>1. at' = "failed" /\ UNCHANGED <<inputVars, hunks, file, result>>
    BY <1>1, <1>2 DEF BuildChunk, Fails, verdictVars
  <2> QED BY <1>1, <2>1, FailsInv
<1>3. CASE Len(old) = Len(c.data)
  <2>1. /\ hunks' = IF diff = {} THEN hunks ELSE Append(hunks, h)
        /\ k' = k + 1 /\ at' = at /\ file' = file
    BY <1>1, <1>3 DEF BuildChunk
  <2>2. Inputs /\ made = source /\ Len(Chunks) \in Nat /\ DOMAIN Chunks = 1..Len(Chunks)
    BY <1>1, ChunksKnown DEF IInv, Inputs, Chunks
  <2>3. k \in 1..Len(Chunks) /\ k \in Nat
    BY <1>1, <2>2 DEF IInv, Building
  <2> HIDE DEF c, off, old, diff, h
  <2>4. /\ ChunkInside(Chunks[k])
        /\ \A o \in Changed(source) :
             Base + o - 1 \in Extent(Chunks[k]) => diff # {} /\ Hits(h, o)
        /\ diff # {} => Built(h)
    BY <1>1, <1>3, <2>2, <2>3, HunkBuilt, Zenon DEF c, off, old, diff, h
  <2>5. diff # {} => h \in Hunk
    <3>1. h = [off |-> h.off, payload |-> h.payload]
      BY DEF h
    <3> QED BY <2>4, <3>1 DEF Built, Hunk
  <2>6. hunks \in Seq(Hunk) /\ Len(hunks) \in Nat /\ DOMAIN hunks = 1..Len(hunks)
    BY HunksKnown DEF IInv, Typed
  <2>7. /\ hunks' \in Seq(Hunk)
        /\ \A j \in DOMAIN hunks : j \in DOMAIN hunks' /\ hunks'[j] = hunks[j]
        /\ \A j \in DOMAIN hunks' : j \in DOMAIN hunks \/ (diff # {} /\ hunks'[j] = h)
        /\ diff # {} => \E j \in DOMAIN hunks' : hunks'[j] = h
    <3>1. CASE diff = {}
      BY <2>1, <2>6, <3>1
    <3>2. CASE diff # {}
      <4>1. h \in Hunk /\ hunks' = Append(hunks, h)
        BY <2>1, <2>5, <3>2
      <4>2. /\ hunks' \in Seq(Hunk) /\ Len(hunks') = Len(hunks) + 1
            /\ \A j \in 1..Len(hunks) : hunks'[j] = hunks[j]
            /\ hunks'[Len(hunks) + 1] = h
        BY <2>6, <4>1, AppendProperties
      <4>3. DOMAIN hunks' = 1..(Len(hunks) + 1)
        BY <4>2
      <4>4. \A j \in 1..(Len(hunks) + 1) : j \in 1..Len(hunks) \/ j = Len(hunks) + 1
        BY <2>6
      <4>5. Len(hunks) + 1 \in 1..(Len(hunks) + 1) /\ \A j \in 1..Len(hunks) : j \in 1..(Len(hunks) + 1)
        BY <2>6
      <4> QED BY <2>6, <3>2, <4>2, <4>3, <4>4, <4>5
    <3> QED BY <3>1, <3>2
  <2>8. \A j \in DOMAIN hunks' : Built(hunks'[j])
    BY <1>1, <2>4, <2>7 DEF IInv, Building
  <2>9. ASSUME NEW i \in 1..k
        PROVE  /\ ChunkInside(Chunks[i])
               /\ \A o \in Changed(source) :
                    Base + o - 1 \in Extent(Chunks[i]) => \E j \in DOMAIN hunks' : Hits(hunks'[j], o)
    <3>1. CASE i = k
      BY <2>4, <2>7, <3>1
    <3>2. CASE i # k
      <4>1. i \in 1..(k - 1)
        BY <2>3, <3>2
      <4>2. /\ ChunkInside(Chunks[i])
            /\ \A o \in Changed(source) :
                 Base + o - 1 \in Extent(Chunks[i]) => \E j \in DOMAIN hunks : Hits(hunks[j], o)
        BY <1>1, <4>1 DEF IInv, Building
      <4> QED BY <2>7, <4>2
    <3> QED BY <3>1, <3>2
  <2>10. Building'
    <3>1. k' \in 1..(Len(Chunks) + 1) /\ k' - 1 = k
      BY <2>1, <2>2, <2>3
    <3>2. file' = <<>> /\ made' = source' /\ maker' # "other"
      BY <1>1, <2>1, <2>2, Kept DEF IInv, Building
    <3>3. Assembles(source') /\ Chunks' = Chunks /\ Changed(source)' = Changed(source)
      BY <1>1, Kept DEF Changed
    <3>4. \A j \in DOMAIN hunks' : Built(hunks[j])'
      BY <1>1, <2>8, Kept
    <3>5. \A i \in 1..k : ChunkInside(Chunks[i])'
      BY <1>1, <2>9, <3>3, Kept
    <3> QED BY <2>9, <3>1, <3>2, <3>3, <3>4, <3>5 DEF Building
  <2>11. Typed' /\ Inputs' /\ Writing' /\ Parsing'
    BY <1>1, <2>1, <2>7, Kept DEF IInv, Typed, Writing, Parsing
  <2>12. Storing' /\ Comparing' /\ Judged'
    BY <1>1, <2>1, NothingStored DEF IInv
  <2> QED BY <2>10, <2>11, <2>12 DEF IInv
<1> QED BY <1>2, <1>3

\* Sorting keeps the hunks.
LEMMA SortHunksInv ==
  ASSUME IInv, SortHunks PROVE IInv'
<1>1. /\ at = "build" /\ maker = "build_ips" /\ Assembles(source) /\ k > Len(Chunks)
      /\ at' = "write" /\ k' = 1 /\ file' = file
      /\ UNCHANGED <<inputVars, verdictVars>>
  BY DEF SortHunks
<1>2. PICK order \in Bijection(DOMAIN hunks, DOMAIN hunks) :
        hunks' = [i \in DOMAIN hunks |-> hunks[order[i]]]
  BY DEF SortHunks
<1>3. hunks \in Seq(Hunk) /\ Len(hunks) \in Nat /\ DOMAIN hunks = 1..Len(hunks)
      /\ \A j \in 1..Len(hunks) : hunks[j] \in Hunk
  BY HunksKnown DEF IInv, Typed
<1>4. /\ order \in [DOMAIN hunks -> DOMAIN hunks]
      /\ \A j \in DOMAIN hunks : \E i \in DOMAIN hunks : order[i] = j
  BY DEF Bijection, Injection, Surjection
<1>5. /\ hunks' \in Seq(Hunk) /\ Len(hunks') = Len(hunks) /\ DOMAIN hunks' = DOMAIN hunks
      /\ \A i \in DOMAIN hunks : order[i] \in DOMAIN hunks /\ hunks'[i] = hunks[order[i]]
  <2>1. \A i \in 1..Len(hunks) : order[i] \in 1..Len(hunks) /\ hunks[order[i]] \in Hunk
    BY <1>3, <1>4
  <2>2. hunks' = [i \in 1..Len(hunks) |-> hunks[order[i]]]
    BY <1>2, <1>3
  <2> QED BY <1>3, <2>1, <2>2
<1>6. Inputs /\ made = source /\ source \in Sources
      /\ Len(Chunks) \in Nat /\ DOMAIN Chunks = 1..Len(Chunks) /\ k - 1 = Len(Chunks)
  <2>1. Inputs /\ made = source /\ source \in Sources
    BY <1>1 DEF IInv, Inputs
  <2>2. Len(Chunks) \in Nat /\ DOMAIN Chunks = 1..Len(Chunks)
    BY <2>1, ChunksKnown DEF Chunks
  <2>3. k \in 1..(Len(Chunks) + 1)
    BY <1>1 DEF IInv, Building
  <2> QED BY <1>1, <2>1, <2>2, <2>3
<1>7. /\ file = <<>> /\ \A j \in DOMAIN hunks : Built(hunks[j])
      /\ \A i \in DOMAIN Chunks :
           /\ ChunkInside(Chunks[i])
           /\ \A o \in Changed(source) :
                Base + o - 1 \in Extent(Chunks[i]) => \E j \in DOMAIN hunks : Hits(hunks[j], o)
  BY <1>1, <1>6 DEF IInv, Building
<1>8. \A o \in Changed(made) : \E j \in DOMAIN hunks' : Hits(hunks'[j], o)
  <2> SUFFICES ASSUME NEW o \in Changed(source) PROVE \E j \in DOMAIN hunks' : Hits(hunks'[j], o)
    BY <1>6
  <2>1. PICK i \in DOMAIN Chunks : Base + o - 1 \in Extent(Chunks[i])
    BY <1>6, ChangedInChunk DEF InChunk, Chunks
  <2>2. PICK j \in DOMAIN hunks : Hits(hunks[j], o)
    BY <1>7, <2>1
  <2>3. PICK n \in DOMAIN hunks : order[n] = j
    BY <1>4
  <2> QED BY <1>5, <2>2, <2>3
<1>9. Writing'
  <2>1. maker' = "build_ips" /\ Assembles(made') /\ k' \in 1..(Len(hunks') + 1) /\ Len(file') = k' - 1
    BY <1>1, <1>3, <1>5, <1>6, <1>7, Kept
  <2>2. Inserted'
    BY <1>1, <1>7, Kept DEF Inserted
  <2>3. \A j \in DOMAIN hunks' : Built(hunks[j])'
    BY <1>1, <1>5, <1>7, Kept
  <2>4. Complete(hunks)'
    BY <1>1, <1>8, Kept DEF Complete
  <2>5. 1..(k' - 1) = {}
    BY <1>1
  <2> QED BY <2>1, <2>2, <2>3, <2>4, <2>5 DEF Writing
<1>10. Typed' /\ Inputs' /\ Building' /\ Parsing'
  BY <1>1, <1>5, Kept DEF IInv, Typed, Building, Parsing
<1>11. Storing' /\ Comparing' /\ Judged'
  BY <1>1, NothingStored DEF IInv
<1> QED BY <1>9, <1>10, <1>11 DEF IInv

LEMMA WriteHunkInv ==
  ASSUME IInv, WriteHunk PROVE IInv'
<1>1. at = "write" /\ k <= Len(hunks) /\ UNCHANGED <<inputVars, verdictVars>>
  BY DEF WriteHunk
<1>2. CASE Collides(hunks[k]) \/ ~Encodes(hunks[k])
  <2>1. at' = "failed" /\ UNCHANGED <<inputVars, hunks, file, result>>
    BY <1>1, <1>2 DEF WriteHunk, Fails, verdictVars
  <2> QED BY <1>1, <2>1, FailsInv
<1>3. CASE ~(Collides(hunks[k]) \/ ~Encodes(hunks[k]))
  <2>1. /\ file' = Append(file, Record(hunks[k])) /\ k' = k + 1
        /\ at' = at /\ hunks' = hunks
    BY <1>1, <1>3 DEF WriteHunk
  <2>2. /\ maker = "build_ips" /\ Assembles(made) /\ Inserted
        /\ k \in 1..(Len(hunks) + 1) /\ Len(file) = k - 1
        /\ \A j \in DOMAIN hunks : Built(hunks[j])
        /\ Complete(hunks)
        /\ \A j \in 1..(k - 1) : file[j] = Record(hunks[j]) /\ hunks[j].off \in Nat \ {EofOffset}
    BY <1>1 DEF IInv, Writing
  <2>3. /\ Len(hunks) \in Nat /\ k \in Nat /\ k \in 1..Len(hunks) /\ hunks[k] \in Hunk
        /\ file \in Seq(FileRecord)
    BY <1>1, <2>2, HunksKnown DEF IInv, Typed
  <2>4. hunks[k].off \in Nat \ {EofOffset}
    <3>1. hunks[k].off \in 0..MaxOffset /\ hunks[k].off # EofOffset
      BY <1>3 DEF Encodes, Collides
    <3>2. MaxOffset \in Nat
      BY IpsAssumption
    <3> QED BY <3>1, <3>2
  <2>5. /\ file' \in Seq(FileRecord) /\ Len(file') = k
        /\ \A j \in 1..(k - 1) : file'[j] = file[j]
        /\ file'[k] = Record(hunks[k])
    <3>1. Record(hunks[k]) \in FileRecord
      BY <2>3, ReadBack
    <3>2. /\ file' \in Seq(FileRecord) /\ Len(file') = Len(file) + 1
          /\ \A j \in 1..Len(file) : file'[j] = file[j]
          /\ file'[Len(file) + 1] = Record(hunks[k])
      BY <2>1, <2>3, <3>1, AppendProperties
    <3>3. Len(file) + 1 = k
      BY <2>2, <2>3
    <3> QED BY <2>2, <3>2, <3>3
  <2>6. Writing'
    <3>1. maker' = "build_ips" /\ Assembles(made') /\ Inserted'
      BY <1>1, <2>2, Kept
    <3>2. k' \in 1..(Len(hunks) + 1) /\ Len(file') = k' - 1 /\ k' - 1 = k
      BY <2>1, <2>3, <2>5
    <3>3. \A j \in DOMAIN hunks : Built(hunks[j])'
      BY <1>1, <2>1, <2>2, Kept
    <3>4. Complete(hunks)'
      BY <1>1, <2>1, <2>2, Kept DEF Complete
    <3>5. \A j \in 1..k : file'[j] = Record(hunks[j]) /\ hunks[j].off \in Nat \ {EofOffset}
      <4>1. \A j \in 1..k : j \in 1..(k - 1) \/ j = k
        BY <2>3
      <4> QED BY <2>2, <2>4, <2>5, <4>1
    <3> QED BY <2>1, <3>1, <3>2, <3>3, <3>4, <3>5 DEF Writing
  <2>7. Typed' /\ Inputs' /\ Building' /\ Parsing'
    BY <1>1, <2>1, <2>5, Kept DEF IInv, Typed, Building, Parsing
  <2>8. Storing' /\ Comparing' /\ Judged'
    BY <1>1, <2>1, NothingStored DEF IInv
  <2> QED BY <2>6, <2>7, <2>8 DEF IInv
<1> QED BY <1>2, <1>3

LEMMA FileWrittenInv ==
  ASSUME IInv, FileWritten PROVE IInv'
<1>1. /\ at = "write" /\ k > Len(hunks) /\ at' = "parse" /\ k' = 1 /\ hunks' = <<>>
      /\ file' = file /\ cut' = cut /\ UNCHANGED <<inputVars, verdictVars>>
  BY DEF FileWritten
<1>2. /\ maker = "build_ips" /\ Assembles(made) /\ Inserted
      /\ k \in 1..(Len(hunks) + 1) /\ Len(file) = k - 1
      /\ \A j \in DOMAIN hunks : Built(hunks[j])
      /\ Complete(hunks)
      /\ \A j \in 1..(k - 1) : file[j] = Record(hunks[j]) /\ hunks[j].off \in Nat \ {EofOffset}
  BY <1>1 DEF IInv, Writing
<1>3. /\ Len(hunks) \in Nat /\ DOMAIN hunks = 1..Len(hunks) /\ k - 1 = Len(hunks)
      /\ DOMAIN file = 1..Len(hunks) /\ Len(file) = Len(hunks)
      /\ \A j \in 1..Len(hunks) : hunks[j] \in Hunk
  <2>1. Len(hunks) \in Nat /\ DOMAIN hunks = 1..Len(hunks) /\ \A j \in 1..Len(hunks) : hunks[j] \in Hunk
    BY HunksKnown DEF IInv, Typed
  <2>2. k - 1 = Len(hunks)
    BY <1>1, <1>2, <2>1
  <2>3. DOMAIN file = 1..Len(file)
    BY FileKnown DEF IInv, Typed
  <2> QED BY <1>2, <2>1, <2>2, <2>3
<1>4. \A j \in DOMAIN file : HunkOf(file[j]) = hunks[j] /\ Sound(hunks[j])
  <2> SUFFICES ASSUME NEW j \in 1..Len(hunks) PROVE HunkOf(file[j]) = hunks[j] /\ Sound(hunks[j])
    BY <1>3
  <2>1. file[j] = Record(hunks[j]) /\ hunks[j].off \in Nat \ {EofOffset} /\ Built(hunks[j])
    BY <1>2, <1>3
  <2> QED BY <1>3, <2>1, ReadBack DEF Built
<1>5. Parsing'
  <2>1. Assembles(made') /\ Inserted'
    BY <1>1, <1>2, Kept
  <2>2. k' \in 1..(Len(file') + 1) /\ Len(hunks') = k' - 1 /\ DOMAIN hunks' = {} /\ DOMAIN file' = DOMAIN file
    BY <1>1, <1>3
  <2>3. \A j \in DOMAIN file : Sound(HunkOf(file[j]))'
    BY <1>1, <1>4, Kept
  <2>4. \A o \in Changed(made)' : \E j \in DOMAIN file : Hits(HunkOf(file'[j]), o)
    BY <1>1, <1>2, <1>3, <1>4, Kept DEF Complete
  <2> QED BY <2>1, <2>2, <2>3, <2>4 DEF Parsing
<1>6. Typed' /\ Inputs' /\ Building' /\ Writing'
  BY <1>1, Kept DEF IInv, Typed, Building, Writing
<1>7. Storing' /\ Comparing' /\ Judged'
  BY <1>1, NothingStored DEF IInv
<1> QED BY <1>5, <1>6, <1>7 DEF IInv

\* Another generator's records: their bytes are the image's.
LEMMA RecordKnown ==
  ASSUME NEW image \in Seq(Nat), NEW ab, NEW rle,
         ab[1] \in 1..Len(image), ab[2] \in 1..Len(image), ab[1] <= ab[2]
  PROVE  /\ RecordOf(ab, image, rle) \in FileRecord
         /\ RecordOf(ab, image, rle).off = ab[1] - 1
         /\ Expanded(RecordOf(ab, image, rle)) \in Seq(Nat)
         /\ Len(Expanded(RecordOf(ab, image, rle))) = ab[2] - ab[1] + 1
         /\ \A i \in 1..(ab[2] - ab[1] + 1) :
              Expanded(RecordOf(ab, image, rle))[i] = image[ab[1] - 1 + i]
<1> PICK a, b, r : a = ab[1] /\ b = ab[2] /\ r = RecordOf(ab, image, rle)
  OBVIOUS
<1>1. a \in Nat /\ b \in Nat /\ Len(image) \in Nat /\ a \in 1..Len(image) /\ b \in 1..Len(image)
      /\ a <= b
  OBVIOUS
<1>2. PICK bytes : bytes = SubSeq(image, a, b)
  OBVIOUS
<1>3. PICK n \in Nat \ {0} : n = b - a + 1
  BY <1>1
<1>4. bytes \in Seq(Nat) /\ Len(bytes) = n /\ \A i \in 1..n : bytes[i] = image[a - 1 + i]
  <2>1. /\ a - 1 \in 0..Len(image) /\ b \in 0..Len(image) /\ a - 1 + 1 = a /\ a - 1 <= b
        /\ b - (a - 1) = n
    <3>1. PICK L \in Nat : L = Len(image) /\ a \in 1..L /\ b \in 1..L
      BY <1>1
    <3>2. a - 1 \in 0..L /\ b \in 0..L
      BY <3>1
    <3>3. a - 1 + 1 = a /\ a - 1 <= b
      BY <1>1
    <3>4. b - (a - 1) = n
      BY <1>1, <1>3
    <3> QED BY <3>1, <3>2, <3>3, <3>4
  <2>2. /\ SubSeq(image, a - 1 + 1, b) \in Seq(Nat)
        /\ Len(SubSeq(image, a - 1 + 1, b)) = IF a - 1 <= b THEN b - (a - 1) ELSE 0
        /\ \A i \in 1..(b - (a - 1)) : SubSeq(image, a - 1 + 1, b)[i] = image[a - 1 + i]
    BY <2>1, Piece, Zenon
  <2> QED BY <1>2, <2>1, <2>2
<1>5. 1 \in 1..n /\ DOMAIN bytes = 1..n /\ \A i \in 1..n : bytes[i] \in Nat
  <2>1. 1 \in 1..n
    BY <1>3
  <2>2. DOMAIN bytes = 1..n
    BY <1>4
  <2>3. \A i \in 1..Len(bytes) : bytes[i] \in Nat
    BY <1>4
  <2> QED BY <1>4, <2>1, <2>2, <2>3
<1>6. r = IF rle /\ \A i \in DOMAIN bytes : bytes[i] = bytes[1]
          THEN [off |-> a - 1, count |-> n, payload |-> <<bytes[1]>>]
          ELSE [off |-> a - 1, count |-> 0, payload |-> bytes]
  BY <1>2, <1>4 DEF RecordOf
<1>7. CASE rle /\ \A i \in DOMAIN bytes : bytes[i] = bytes[1]
  <2>1. r = [off |-> a - 1, count |-> n, payload |-> <<bytes[1]>>]
    BY <1>6, <1>7
  <2>2. r \in FileRecord /\ r.off = a - 1 /\ r.count = n /\ r.payload[1] = bytes[1]
    BY <1>1, <1>5, <2>1 DEF FileRecord
  <2>3. Expanded(r) = [i \in 1..n |-> bytes[1]]
    BY <1>3, <2>2 DEF Expanded
  <2>4. bytes[1] \in Nat
    BY <1>5
  <2>5. Expanded(r) \in Seq(Nat) /\ Len(Expanded(r)) = n /\ \A i \in 1..n : Expanded(r)[i] = bytes[1]
    BY <2>3, <2>4
  <2> QED BY <1>3, <1>4, <1>5, <1>7, <2>2, <2>5
<1>8. CASE ~(rle /\ \A i \in DOMAIN bytes : bytes[i] = bytes[1])
  <2>1. r = [off |-> a - 1, count |-> 0, payload |-> bytes]
    BY <1>6, <1>8, Zenon
  <2>2. r \in FileRecord /\ r.off = a - 1 /\ r.count = 0 /\ r.payload = bytes
    BY <1>1, <1>4, <2>1 DEF FileRecord
  <2>3. Expanded(r) = bytes
    BY <2>2 DEF Expanded
  <2> QED BY <1>3, <1>4, <2>2, <2>3
<1> QED BY <1>7, <1>8

LEMMA RunKnown ==
  ASSUME NEW N \in Nat, NEW os \in SUBSET (1..N), NEW ab \in Runs(os)
  PROVE  /\ ab[1] \in 1..N /\ ab[2] \in 1..N /\ ab[1] <= ab[2]
         /\ ab[1]..ab[2] \subseteq os
BY DEF Runs

LEMMA RunsCounted ==
  ASSUME NEW N \in Nat, NEW os \in SUBSET (1..N)
  PROVE  Cardinality(Runs(os)) \in Nat
<1>1. IsFiniteSet(1..N)
  BY FS_Interval
<1>2. IsFiniteSet(os)
  BY <1>1, FS_Subset
<1>3. IsFiniteSet(os \X os)
  BY <1>2, FS_Product
<1>4. Runs(os) \subseteq os \X os
  BY DEF Runs
<1>5. IsFiniteSet(Runs(os))
  BY <1>3, <1>4, FS_Subset
<1> QED BY <1>5, FS_CardinalityType

\* h has the image's bytes from ab[1] to ab[2].
Copies(h, image, ab) ==
  /\ Inside(h, Len(image)) /\ h.off = ab[1] - 1
  /\ \A o \in Int : Hits(h, o) <=> o \in ab[1]..ab[2]
  /\ \A o \in ab[1]..ab[2] : h.payload[o - h.off] = image[o]

LEMMA RecordCopies ==
  ASSUME NEW image \in Seq(Nat), NEW ab, NEW rle,
         ab[1] \in 1..Len(image), ab[2] \in 1..Len(image), ab[1] <= ab[2]
  PROVE  Copies(HunkOf(RecordOf(ab, image, rle)), image, ab)
<1> PICK h : h = HunkOf(RecordOf(ab, image, rle))
  OBVIOUS
<1>1. PICK a, b, r : a = ab[1] /\ b = ab[2] /\ r = RecordOf(ab, image, rle)
  OBVIOUS
<1>2. /\ r.off = a - 1
      /\ Expanded(r) \in Seq(Nat) /\ Len(Expanded(r)) = b - a + 1
      /\ \A i \in 1..(b - a + 1) : Expanded(r)[i] = image[a - 1 + i]
  <2>1. /\ RecordOf(ab, image, rle) \in FileRecord
        /\ RecordOf(ab, image, rle).off = ab[1] - 1
        /\ Expanded(RecordOf(ab, image, rle)) \in Seq(Nat)
        /\ Len(Expanded(RecordOf(ab, image, rle))) = ab[2] - ab[1] + 1
        /\ \A i \in 1..(ab[2] - ab[1] + 1) :
             Expanded(RecordOf(ab, image, rle))[i] = image[ab[1] - 1 + i]
    BY RecordKnown, Zenon
  <2> QED BY <1>1, <2>1
<1>3. PICK p : p = Expanded(r)
  OBVIOUS
<1>4. h.off = a - 1 /\ h.payload = p
  BY <1>1, <1>2, <1>3 DEF HunkOf
<1>5. PICK L \in Nat : L = Len(image) /\ a \in 1..L /\ b \in 1..L /\ a <= b
  BY <1>1
<1>6. Inside(h, Len(image))
  <2>1. a - 1 \in Nat /\ a - 1 + (b - a + 1) <= L
    BY <1>5
  <2> QED BY <1>2, <1>3, <1>4, <1>5, <2>1 DEF Inside
<1>7. \A o \in Int : Hits(h, o) <=> o \in a..b
  <2>1. \A o \in Int : Hits(h, o) <=> o \in (a - 1 + 1)..(a - 1 + (b - a + 1))
    BY <1>2, <1>3, <1>4 DEF Hits
  <2>2. a - 1 + 1 = a /\ a - 1 + (b - a + 1) = b
    BY <1>5
  <2> QED BY <2>1, <2>2
<1>8. ASSUME NEW o \in a..b PROVE h.payload[o - h.off] = image[o]
  <2>1. o - (a - 1) \in 1..(b - a + 1) /\ a - 1 + (o - (a - 1)) = o
    BY <1>5
  <2> QED BY <1>2, <1>3, <1>4, <2>1
<1> QED BY <1>1, <1>4, <1>6, <1>7, <1>8 DEF Copies

LEMMA OtherWritesInv ==
  ASSUME IInv, OtherWrites PROVE IInv'
<1>1. /\ at = "build" /\ maker = "other" /\ at' = "parse"
      /\ UNCHANGED <<stock, source, maker, k, hunks, cut, verdictVars>>
  BY DEF OtherWrites
<1>2. PICK src \in Sources :
        /\ Assembles(src) /\ made' = src
        /\ \E extra \in SUBSET Between(Changed(src)) :
             LET runs == Runs(Changed(src) \cup extra)
             IN  /\ \A ab \in runs : /\ ab[1] - 1 \in (0..MaxOffset) \ {EofOffset}
                                    /\ ab[2] - ab[1] < MaxSize
                 /\ \E order \in Bijection(1..Cardinality(runs), runs) :
                      /\ \A i, j \in DOMAIN order : i < j => order[i][1] < order[j][1]
                      /\ \E rle \in SUBSET DOMAIN order :
                           file' = [i \in DOMAIN order |->
                                      RecordOf(order[i], Patched(stock, src), i \in rle)]
  BY DEF OtherWrites
<1>3. PICK extra \in SUBSET Between(Changed(src)) :
        LET runs == Runs(Changed(src) \cup extra)
        IN  /\ \A ab \in runs : ab[1] - 1 \in (0..MaxOffset) \ {EofOffset}
            /\ \E order \in Bijection(1..Cardinality(runs), runs) :
                 \E rle \in SUBSET DOMAIN order :
                   file' = [i \in DOMAIN order |->
                              RecordOf(order[i], Patched(stock, src), i \in rle)]
  BY <1>2
<1>4. PICK os, runs, image :
        os = Changed(src) \cup extra /\ runs = Runs(os) /\ image = Patched(stock, src)
  OBVIOUS
<1>5. PICK order \in Bijection(1..Cardinality(runs), runs) :
        \E rle : file' = [i \in DOMAIN order |-> RecordOf(order[i], image, i \in rle)]
  BY <1>3, <1>4
<1>20. PICK rle : file' = [i \in DOMAIN order |-> RecordOf(order[i], image, i \in rle)]
  BY <1>5
<1>6. \A ab \in runs : ab[1] - 1 # EofOffset
  BY <1>3, <1>4
<1>7. Inputs /\ stock \in Seq(Nat) /\ Len(stock) \in Nat /\ DOMAIN stock = 1..Len(stock)
  BY InputsKnown DEF IInv
<1>8. os \in SUBSET (1..Len(stock)) /\ image \in Seq(Nat) /\ Len(image) = Len(stock)
  BY <1>4, <1>7, PatchedKnown DEF Changed, Between
<1>9. PICK n \in Nat : n = Cardinality(runs)
  BY <1>4, <1>7, <1>8, RunsCounted
<1>10. /\ order \in [1..n -> runs] /\ DOMAIN order = 1..n
       /\ \A ab \in runs : \E i \in 1..n : order[i] = ab
  BY <1>9 DEF Bijection, Injection, Surjection
<1>11. /\ file' = [i \in 1..n |-> RecordOf(order[i], image, i \in rle)]
       /\ DOMAIN file' = 1..n
       /\ \A i \in 1..n : file'[i] = RecordOf(order[i], image, i \in rle)
  BY <1>20, <1>10
<1>12. ASSUME NEW i \in 1..n
       PROVE  /\ order[i] \in runs /\ order[i][1] \in 1..Len(image) /\ order[i][2] \in 1..Len(image)
              /\ order[i][1] <= order[i][2] /\ order[i][1]..order[i][2] \subseteq os
  <2>1. order[i] \in Runs(os)
    BY <1>4, <1>10
  <2> QED BY <1>4, <1>7, <1>8, <2>1, RunKnown
<1>13. ASSUME NEW i \in 1..n
       PROVE  /\ file'[i] \in FileRecord
              /\ Inside(HunkOf(file'[i]), Len(stock)) /\ HunkOf(file'[i]).off # EofOffset
              /\ \A o \in Int : Hits(HunkOf(file'[i]), o) <=> o \in order[i][1]..order[i][2]
              /\ \A o \in 1..Len(stock) :
                   Hits(HunkOf(file'[i]), o) =>
                     /\ HunkOf(file'[i]).payload[o - HunkOf(file'[i]).off] = Patched(stock, src)[o]
                     /\ InChunk(src, o) \/ o \in Between(Changed(src))
  <2>1. PICK ab, z : ab = order[i] /\ z = (i \in rle)
    OBVIOUS
  <2>2. /\ ab[1] \in 1..Len(image) /\ ab[2] \in 1..Len(image) /\ ab[1] <= ab[2]
        /\ ab[1]..ab[2] \subseteq os
    BY <1>12, <2>1
  <2>3. file'[i] = RecordOf(ab, image, z)
    BY <1>11, <2>1
  <2>4. RecordOf(ab, image, z) \in FileRecord
    BY <1>8, <2>2, RecordKnown, Zenon
  <2>5. Copies(HunkOf(RecordOf(ab, image, z)), image, ab)
    BY <1>8, <2>2, RecordCopies, Zenon
  <2>6. PICK h : h = HunkOf(RecordOf(ab, image, z)) /\ Copies(h, image, ab)
    BY <2>5
  <2>11. /\ Inside(h, Len(image)) /\ h.off = ab[1] - 1
         /\ \A o \in Int : Hits(h, o) <=> o \in ab[1]..ab[2]
         /\ \A o \in ab[1]..ab[2] : h.payload[o - h.off] = image[o]
    BY <2>6 DEF Copies
  <2>7. h = HunkOf(file'[i])
    BY <2>3, <2>6
  <2>8. h.off # EofOffset
    BY <1>6, <1>12, <2>1, <2>11
  <2>9. ASSUME NEW o \in 1..Len(stock), Hits(h, o)
        PROVE  /\ h.payload[o - h.off] = Patched(stock, src)[o]
               /\ InChunk(src, o) \/ o \in Between(Changed(src))
    <3>1. o \in ab[1]..ab[2] /\ o \in os
      BY <2>2, <2>9, <2>11
    <3>2. o \in Changed(src) => InChunk(src, o)
      BY <1>7, ChangedInChunk
    <3> QED BY <1>4, <2>11, <3>1, <3>2
  <2> QED BY <1>8, <2>1, <2>3, <2>4, <2>7, <2>8, <2>9, <2>11
<1>14. Typed'
  <2>1. \A i \in 1..n : RecordOf(order[i], image, i \in rle) \in FileRecord
    BY <1>11, <1>13
  <2>2. file' \in Seq(FileRecord)
    BY <1>11, <2>1
  <2> QED BY <1>1, <2>2 DEF IInv, Typed
<1>15. Inputs'
  BY <1>1, <1>2, <1>7 DEF Inputs
<1>16. Changed(src)' = Changed(src) /\ Between(Changed(src))' = Between(Changed(src))
  BY <1>1 DEF Changed, Between
<1>17. Parsing'
  <2>1. k' = 1 /\ hunks' = <<>> /\ Len(file') \in Nat
    BY <1>1, <1>14, FileKnown DEF IInv, Building, Typed
  <2>2. Inserted'
    BY <1>1 DEF Inserted
  <2>3. \A j \in 1..n : Sound(HunkOf(file[j]))'
    <3> SUFFICES ASSUME NEW j \in 1..n PROVE Sound(HunkOf(file[j]))'
      OBVIOUS
    <3>1. Between(Changed(made))' = Between(Changed(src))
      BY <1>1, <1>2 DEF Changed, Between
    <3> QED BY <1>1, <1>2, <1>7, <1>13, <3>1 DEF Sound
  <2>4. ASSUME NEW o \in Changed(made)' PROVE \E j \in 1..n : Hits(HunkOf(file'[j]), o)
    <3>1. o \in Changed(src)
      BY <1>1, <1>2 DEF Changed
    <3>2. PICK ab \in runs : ab[1] <= o /\ o <= ab[2]
      BY <1>4, <1>7, <1>8, <3>1, RunsCover
    <3>3. PICK j \in 1..n : order[j] = ab
      BY <1>10
    <3>4. o \in Int /\ o \in order[j][1]..order[j][2]
      BY <1>4, <1>8, <1>12, <3>1, <3>2, <3>3
    <3> QED BY <1>13, <3>4
  <2>5. k' \in 1..(Len(file') + 1) /\ Len(hunks') = k' - 1 /\ DOMAIN hunks' = {}
    BY <2>1
  <2> QED BY <1>2, <1>11, <2>2, <2>3, <2>4, <2>5 DEF Parsing
<1>18. Building' /\ Writing'
  BY <1>1 DEF Building, Writing
<1>19. Storing' /\ Comparing' /\ Judged'
  BY <1>1, NothingStored DEF IInv
<1> QED BY <1>14, <1>15, <1>17, <1>18, <1>19 DEF IInv

LEMMA CutShortInv ==
  ASSUME IInv, CutShort PROVE IInv'
<1>1. /\ at = "parse" /\ k = 1 /\ cut' = TRUE /\ at' = at /\ k' = k /\ hunks' = hunks
      /\ UNCHANGED <<inputVars, verdictVars>>
  BY DEF CutShort
<1>2. PICK n \in 0..Len(file) : file' = SubSeq(file, 1, n)
  BY DEF CutShort
<1>3. /\ file \in Seq(FileRecord) /\ Len(file) \in Nat /\ DOMAIN file = 1..Len(file)
      /\ \A j \in 1..Len(file) : file[j] \in FileRecord
  BY FileKnown DEF IInv, Typed
<1>4. file' \in Seq(FileRecord) /\ DOMAIN file' = 1..n /\ Len(file') = n /\ n \in Nat
      /\ \A j \in 1..n : j \in DOMAIN file /\ file'[j] = file[j]
  <2>1. 1 \in Int /\ n \in Int /\ n \in Nat /\ \A j \in 1..n : file[j] \in FileRecord /\ j \in 1..Len(file)
    BY <1>3
  <2>2. /\ SubSeq(file, 1, n) \in Seq(FileRecord)
        /\ Len(SubSeq(file, 1, n)) = IF 1 <= n THEN n - 1 + 1 ELSE 0
        /\ \A i \in 1..(n - 1 + 1) : SubSeq(file, 1, n)[i] = file[1 + i - 1]
    BY <1>3, <2>1, SubSeqProperties
  <2>3. n - 1 + 1 = n /\ (IF 1 <= n THEN n - 1 + 1 ELSE 0) = n /\ \A i \in 1..n : 1 + i - 1 = i
    BY <2>1
  <2>4. file' \in Seq(FileRecord) /\ Len(file') = n /\ \A i \in 1..n : file'[i] = file[i]
    BY <1>2, <2>2, <2>3
  <2> QED BY <1>3, <2>1, <2>4
<1>5. /\ Assembles(made) /\ Inserted
      /\ k \in 1..(Len(file) + 1) /\ Len(hunks) = k - 1
      /\ \A j \in DOMAIN file : Sound(HunkOf(file[j]))
  BY <1>1 DEF IInv, Parsing
<1>6. DOMAIN hunks = {}
  <2>1. DOMAIN hunks = 1..Len(hunks)
    BY HunksKnown DEF IInv, Typed
  <2> QED BY <1>1, <1>5, <2>1
<1>7. Parsing'
  <2>1. Assembles(made') /\ Inserted' /\ Len(hunks') = k' - 1 /\ k' \in 1..(Len(file') + 1)
    BY <1>1, <1>4, <1>5, Kept
  <2>2. \A j \in DOMAIN file' : Sound(HunkOf(file[j]))'
    BY <1>1, <1>4, <1>5, Kept
  <2> QED BY <1>1, <1>6, <2>1, <2>2 DEF Parsing
<1>8. Typed' /\ Inputs' /\ Building' /\ Writing'
  BY <1>1, <1>4, Kept DEF IInv, Typed, Building, Writing
<1>9. Storing' /\ Comparing' /\ Judged'
  BY <1>1, NothingStored DEF IInv
<1> QED BY <1>7, <1>8, <1>9 DEF IInv

LEMMA ParseRecordInv ==
  ASSUME IInv, ParseRecord PROVE IInv'
<1>1. /\ at = "parse" /\ k <= Len(file) /\ file[k].off # EofOffset
      /\ hunks' = Append(hunks, HunkOf(file[k]))
      /\ k' = k + 1 /\ at' = at /\ file' = file /\ cut' = cut
      /\ UNCHANGED <<inputVars, verdictVars>>
  BY DEF ParseRecord, HunkOf
<1>2. /\ Assembles(made) /\ Inserted
      /\ k \in 1..(Len(file) + 1) /\ Len(hunks) = k - 1
      /\ \A j \in DOMAIN file : Sound(HunkOf(file[j]))
      /\ ~cut => \A o \in Changed(made) : \E j \in DOMAIN file : Hits(HunkOf(file[j]), o)
      /\ \A j \in DOMAIN hunks : hunks[j] = HunkOf(file[j])
  BY <1>1 DEF IInv, Parsing
<1>3. /\ file \in Seq(FileRecord) /\ Len(file) \in Nat /\ DOMAIN file = 1..Len(file)
      /\ hunks \in Seq(Hunk) /\ DOMAIN hunks = 1..Len(hunks)
  BY FileKnown, HunksKnown DEF IInv, Typed
<1>4. k \in Nat /\ k \in DOMAIN file
  BY <1>1, <1>2, <1>3
<1>5. HunkOf(file[k]) \in Hunk
  <2>1. PICK h : h = HunkOf(file[k])
    OBVIOUS
  <2>2. h.off \in Int /\ h.payload \in Seq(Nat)
    BY <1>2, <1>4, <2>1 DEF Sound, Inside
  <2>3. h = [off |-> h.off, payload |-> h.payload]
    BY <2>1 DEF HunkOf
  <2> QED BY <2>1, <2>2, <2>3 DEF Hunk
<1>6. /\ hunks' \in Seq(Hunk) /\ Len(hunks') = k
      /\ \A j \in 1..(k - 1) : hunks'[j] = hunks[j]
      /\ hunks'[k] = HunkOf(file[k])
  <2>1. /\ hunks' \in Seq(Hunk) /\ Len(hunks') = Len(hunks) + 1
        /\ \A j \in 1..Len(hunks) : hunks'[j] = hunks[j]
        /\ hunks'[Len(hunks) + 1] = HunkOf(file[k])
    BY <1>1, <1>3, <1>5, AppendProperties
  <2>2. Len(hunks) + 1 = k
    BY <1>2, <1>4
  <2> QED BY <1>2, <2>1, <2>2
<1>7. \A j \in DOMAIN hunks' : hunks'[j] = HunkOf(file[j])
  <2>1. DOMAIN hunks' = 1..k
    BY <1>6
  <2>2. \A j \in 1..k : j \in 1..(k - 1) \/ j = k
    BY <1>4
  <2> QED BY <1>2, <1>3, <1>6, <2>1, <2>2
<1>8. Parsing'
  <2>1. Assembles(made') /\ Inserted' /\ Len(hunks') = k' - 1 /\ k' \in 1..(Len(file') + 1)
    BY <1>1, <1>2, <1>3, <1>4, <1>6, Kept
  <2>2. \A j \in DOMAIN file : Sound(HunkOf(file[j]))'
    BY <1>1, <1>2, Kept
  <2>3. ~cut => \A o \in Changed(made)' : \E j \in DOMAIN file : Hits(HunkOf(file[j]), o)
    BY <1>1, <1>2, Kept
  <2>4. \A j \in DOMAIN hunks' : hunks'[j] = HunkOf(file'[j])
    BY <1>1, <1>7
  <2> QED BY <1>1, <2>1, <2>2, <2>3, <2>4 DEF Parsing
<1>9. Typed' /\ Inputs' /\ Building' /\ Writing'
  BY <1>1, <1>6, Kept DEF IInv, Typed, Building, Writing
<1>10. Storing' /\ Comparing' /\ Judged'
  BY <1>1, NothingStored DEF IInv
<1> QED BY <1>8, <1>9, <1>10 DEF IInv

\* No record's offset reads "EOF": only a whole file gets beyond parsing.
LEMMA ParseEndsInv ==
  ASSUME IInv, ParseEnds PROVE IInv'
<1>1. /\ at = "parse" /\ at' = "store" /\ k' = 1 /\ hunks' = hunks /\ file' = file
      /\ UNCHANGED <<inputVars, verdictVars>>
      /\ \/ k > Len(file) /\ ~cut
         \/ k <= Len(file) /\ file[k].off = EofOffset
  BY DEF ParseEnds
<1>2. /\ Assembles(made) /\ Inserted
      /\ k \in 1..(Len(file) + 1) /\ Len(hunks) = k - 1
      /\ \A j \in DOMAIN file : Sound(HunkOf(file[j]))
      /\ ~cut => \A o \in Changed(made) : \E j \in DOMAIN file : Hits(HunkOf(file[j]), o)
      /\ \A j \in DOMAIN hunks : hunks[j] = HunkOf(file[j])
  BY <1>1 DEF IInv, Parsing
<1>3. /\ Len(file) \in Nat /\ DOMAIN file = 1..Len(file)
      /\ Len(hunks) \in Nat /\ DOMAIN hunks = 1..Len(hunks)
  BY FileKnown, HunksKnown DEF IInv, Typed
<1>4. ~(k <= Len(file) /\ file[k].off = EofOffset)
  <2> SUFFICES ASSUME k <= Len(file) PROVE file[k].off # EofOffset
    OBVIOUS
  <2>1. k \in DOMAIN file
    BY <1>2, <1>3
  <2>2. HunkOf(file[k]).off # EofOffset
    BY <1>2, <2>1 DEF Sound
  <2> QED BY <2>2 DEF HunkOf
<1>5. k > Len(file) /\ ~cut /\ DOMAIN hunks = DOMAIN file
  <2>1. k > Len(file) /\ ~cut
    BY <1>1, <1>4
  <2>2. Len(hunks) = Len(file)
    BY <1>2, <1>3, <2>1
  <2> QED BY <1>3, <2>1, <2>2
<1>6. (\A j \in DOMAIN hunks : Sound(hunks[j])) /\ Complete(hunks)
  BY <1>2, <1>5 DEF Complete
<1>7. Holds(0)'
  <2>1. ips_bytes' = <<>>
    BY <1>1 DEF IInv, Storing, verdictVars
  <2>2. DOMAIN ips_bytes' = {}
    BY <2>1
  <2>3. 1..0 = {}
    OBVIOUS
  <2> QED BY <2>2, <2>3 DEF Holds
<1>8. Storing'
  <2>1. Assembles(made') /\ Inserted'
    BY <1>1, <1>2, Kept
  <2>2. \A j \in DOMAIN hunks : Sound(hunks[j])'
    BY <1>1, <1>6, Kept
  <2>3. Complete(hunks)'
    BY <1>1, <1>6, Kept DEF Complete
  <2>4. k' \in 1..(Len(hunks') + 1) /\ k' - 1 = 0 /\ at' = "store" /\ hunks' = hunks
    BY <1>1, <1>3
  <2> QED BY <1>7, <2>1, <2>2, <2>3, <2>4 DEF Storing
<1>9. Comparing' /\ Judged'
  <2>1. explained = {} /\ bad = 0 /\ result = "none"
    BY <1>1 DEF IInv, Comparing
  <2> QED BY <1>1, <2>1 DEF Comparing, Judged, verdictVars
<1>10. Typed' /\ Inputs' /\ Building' /\ Writing' /\ Parsing'
  BY <1>1, Kept DEF IInv, Typed, Building, Writing, Parsing
<1> QED BY <1>8, <1>9, <1>10 DEF IInv

-----------------------------------------------------------------------------
(* The dictionary. *)

\* d is m with the bytes of h.
WithBytes(d, m, h) ==
  /\ \A a \in DOMAIN d : a \in DOMAIN m \/ (a \in Nat /\ Hits(h, a - Base + 1))
  /\ \A a \in DOMAIN m : a \in DOMAIN d /\ (~Hits(h, a - Base + 1) => d[a] = m[a])
  /\ \A o \in Nat :
       Hits(h, o) => /\ Base + o - 1 \in DOMAIN d
                     /\ d[Base + o - 1] = h.payload[o - h.off]

LEMMA StoredKnown ==
  ASSUME NEW m, DOMAIN m \subseteq Int, NEW h, h.off \in Nat, h.payload \in Seq(Nat)
  PROVE  WithBytes(Stored(m, h), m, h)
<1>1. PICK b \in Nat, f \in Nat, n \in Nat : b = Base /\ f = h.off /\ n = Len(h.payload)
  BY IpsAssumption
<1>2. PICK new : new = (b + f)..(b + f + n - 1)
  OBVIOUS
<1>3. \A a \in Int : a \in new <=> Hits(h, a - Base + 1)
  <2>1. \A a \in Int : Hits(h, a - Base + 1) <=> a - b + 1 \in (f + 1)..(f + n)
    BY <1>1 DEF Hits
  <2>2. \A a \in Int : a \in (b + f)..(b + f + n - 1) <=> a - b + 1 \in (f + 1)..(f + n)
    OBVIOUS
  <2> QED BY <1>2, <2>1, <2>2
<1>4. Stored(m, h) = [a \in new \cup DOMAIN m |->
                        IF a \in new THEN h.payload[a - b - f + 1] ELSE m[a]]
  BY <1>1, <1>2 DEF Stored
<1>5. /\ DOMAIN Stored(m, h) = new \cup DOMAIN m
      /\ \A a \in new \cup DOMAIN m :
           Stored(m, h)[a] = IF a \in new THEN h.payload[a - b - f + 1] ELSE m[a]
  BY <1>4
<1>6. new \subseteq Nat
  BY <1>2
<1>7. ASSUME NEW o \in Nat, Hits(h, o)
      PROVE  /\ Base + o - 1 \in new
             /\ h.payload[(Base + o - 1) - b - f + 1] = h.payload[o - h.off]
  <2>1. Base + o - 1 \in Int /\ (Base + o - 1) - Base + 1 = o /\ (Base + o - 1) - b - f + 1 = o - h.off
    BY <1>1
  <2> QED BY <1>3, <1>7, <2>1
<1>8. \A a \in DOMAIN Stored(m, h) : a \in DOMAIN m \/ (a \in Nat /\ Hits(h, a - Base + 1))
  <2>1. \A a \in new : a \in Nat /\ a \in Int
    BY <1>6
  <2>2. \A a \in new : Hits(h, a - Base + 1)
    BY <1>3, <2>1
  <2> QED BY <1>5, <2>1, <2>2
<1>9. \A a \in DOMAIN m :
        a \in DOMAIN Stored(m, h) /\ (~Hits(h, a - Base + 1) => Stored(m, h)[a] = m[a])
  BY <1>3, <1>5
<1>10. \A o \in Nat :
        Hits(h, o) => /\ Base + o - 1 \in DOMAIN Stored(m, h)
                      /\ Stored(m, h)[Base + o - 1] = h.payload[o - h.off]
  BY <1>5, <1>7
<1> QED BY <1>8, <1>9, <1>10 DEF WithBytes

\* Of the first n hunks and of the next.
LEMMA LastHitNext ==
  ASSUME NEW hs, NEW n \in Nat, NEW o
  PROVE  /\ Hits(hs[n + 1], o) => LastHit(hs, n + 1, o, n + 1)
         /\ \A j : ~Hits(hs[n + 1], o) /\ LastHit(hs, n, o, j) => LastHit(hs, n + 1, o, j)
         /\ \A j : LastHit(hs, n + 1, o, j) =>
              \/ j = n + 1 /\ Hits(hs[n + 1], o)
              \/ ~Hits(hs[n + 1], o) /\ LastHit(hs, n, o, j)
<1>1. ASSUME Hits(hs[n + 1], o) PROVE LastHit(hs, n + 1, o, n + 1)
  <2>1. n + 1 \in 1..(n + 1) /\ (n + 1 + 1)..(n + 1) = {}
    OBVIOUS
  <2> QED BY <1>1, <2>1 DEF LastHit
<1>2. ASSUME NEW j, ~Hits(hs[n + 1], o), LastHit(hs, n, o, j) PROVE LastHit(hs, n + 1, o, j)
  <2>1. j \in 1..n
    BY <1>2 DEF LastHit
  <2>2. j \in 1..(n + 1) /\ \A i \in (j + 1)..(n + 1) : i \in (j + 1)..n \/ i = n + 1
    BY <2>1
  <2> QED BY <1>2, <2>2 DEF LastHit
<1>3. ASSUME NEW j, LastHit(hs, n + 1, o, j)
      PROVE  \/ j = n + 1 /\ Hits(hs[n + 1], o)
             \/ ~Hits(hs[n + 1], o) /\ LastHit(hs, n, o, j)
  <2>1. j \in 1..(n + 1) /\ Hits(hs[j], o) /\ \A i \in (j + 1)..(n + 1) : ~Hits(hs[i], o)
    BY <1>3 DEF LastHit
  <2>2. CASE j = n + 1
    BY <2>1, <2>2
  <2>3. CASE j # n + 1
    <3>1. j \in 1..n /\ n + 1 \in (j + 1)..(n + 1) /\ \A i \in (j + 1)..n : i \in (j + 1)..(n + 1)
      BY <2>1, <2>3
    <3> QED BY <2>1, <3>1 DEF LastHit
  <2> QED BY <2>2, <2>3
<1> QED BY <1>1, <1>2, <1>3

LEMMA StoreHunkInv ==
  ASSUME IInv, StoreHunk PROVE IInv'
<1>1. /\ at = "store" /\ UNCHANGED <<inputVars, hunks, file, cut, explained, bad, fill, result>>
      /\ UNCHANGED inputVars
  BY DEF StoreHunk
<1>2. /\ Assembles(made) /\ Inserted
      /\ \A j \in DOMAIN hunks : Sound(hunks[j])
      /\ Complete(hunks) /\ Holds(k - 1) /\ k \in 1..(Len(hunks) + 1)
      /\ explained = {} /\ bad = 0 /\ result = "none"
  BY <1>1 DEF IInv, Storing, Comparing
<1>3. Len(hunks) \in Nat /\ DOMAIN hunks = 1..Len(hunks) /\ k \in Nat
  BY <1>2, HunksKnown DEF IInv, Typed
<1>4. Typed' /\ Inputs'
  BY <1>1, Kept DEF IInv, Typed
<1>5. /\ Assembles(made') /\ Inserted'
      /\ \A j \in DOMAIN hunks : Sound(hunks[j])'
      /\ Complete(hunks)'
  BY <1>1, <1>2, Kept DEF Complete
<1>6. CASE k <= Len(hunks)
  <2>1. ips_bytes' = Stored(ips_bytes, hunks[k]) /\ k' = k + 1 /\ at' = at
    BY <1>6 DEF StoreHunk
  <2>2. PICK n \in Nat, h \in {hunks[k]} : n = k - 1 /\ n + 1 = k /\ h = hunks[k]
    BY <1>2, <1>3
  <2>3. h.off \in Nat /\ h.payload \in Seq(Nat)
    <3>1. Sound(h)
      BY <1>2, <1>3, <1>6, <2>2
    <3> QED BY <3>1 DEF Sound, Inside
  <2>4. /\ \A a \in DOMAIN ips_bytes : a \in Nat /\ \E j \in 1..n : LastHit(hunks, n, a - Base + 1, j)
        /\ \A o \in DOMAIN stock, j \in 1..n :
             LastHit(hunks, n, o, j) =>
               /\ Base + o - 1 \in DOMAIN ips_bytes
               /\ ips_bytes[Base + o - 1] = hunks[j].payload[o - hunks[j].off]
    BY <1>2, <2>2 DEF Holds
  <2>5. /\ \A a \in DOMAIN ips_bytes' :
             a \in DOMAIN ips_bytes \/ (a \in Nat /\ Hits(h, a - Base + 1))
        /\ \A a \in DOMAIN ips_bytes :
             /\ a \in DOMAIN ips_bytes'
             /\ ~Hits(h, a - Base + 1) => ips_bytes'[a] = ips_bytes[a]
        /\ \A o \in Nat :
             Hits(h, o) => /\ Base + o - 1 \in DOMAIN ips_bytes'
                           /\ ips_bytes'[Base + o - 1] = h.payload[o - h.off]
    <3>1. DOMAIN ips_bytes \subseteq Int
      BY <2>4
    <3>2. WithBytes(Stored(ips_bytes, h), ips_bytes, h)
      BY <2>3, <3>1, StoredKnown, Zenon
    <3>3. ips_bytes' = Stored(ips_bytes, h)
      BY <2>1, <2>2
    <3>4. PICK d : d = ips_bytes' /\ WithBytes(d, ips_bytes, h)
      BY <3>2, <3>3
    <3> QED BY <3>4 DEF WithBytes
  <2>6. ASSUME NEW a \in DOMAIN ips_bytes'
        PROVE  a \in Nat /\ \E j \in 1..(n + 1) : LastHit(hunks, n + 1, a - Base + 1, j)
    <3>1. CASE Hits(h, a - Base + 1)
      <4>1. LastHit(hunks, n + 1, a - Base + 1, n + 1)
        BY <2>2, <3>1, LastHitNext
      <4>2. n + 1 \in 1..(n + 1)
        OBVIOUS
      <4> QED BY <2>4, <2>5, <4>1, <4>2
    <3>2. CASE ~Hits(h, a - Base + 1)
      <4>1. PICK j \in 1..n : a \in Nat /\ LastHit(hunks, n, a - Base + 1, j)
        BY <2>4, <2>5, <3>2
      <4>2. j \in 1..(n + 1) /\ LastHit(hunks, n + 1, a - Base + 1, j)
        BY <2>2, <3>2, <4>1, LastHitNext
      <4> QED BY <4>1, <4>2
    <3> QED BY <3>1, <3>2
  <2>7. ASSUME NEW o \in DOMAIN stock, NEW j \in 1..(n + 1), LastHit(hunks, n + 1, o, j)
        PROVE  /\ Base + o - 1 \in DOMAIN ips_bytes'
               /\ ips_bytes'[Base + o - 1] = hunks[j].payload[o - hunks[j].off]
    <3>1. o \in Nat /\ Base \in Nat /\ (Base + o - 1) - Base + 1 = o
      BY InputsKnown DEF IInv
    <3>2. CASE j = n + 1 /\ Hits(hunks[n + 1], o)
      BY <2>2, <2>5, <3>1, <3>2
    <3>3. CASE ~Hits(hunks[n + 1], o) /\ LastHit(hunks, n, o, j)
      <4>1. j \in 1..n
        BY <3>3 DEF LastHit
      <4>2. /\ Base + o - 1 \in DOMAIN ips_bytes
            /\ ips_bytes[Base + o - 1] = hunks[j].payload[o - hunks[j].off]
        BY <2>4, <3>3, <4>1
      <4> QED BY <2>2, <2>5, <3>1, <3>3, <4>2
    <3> QED BY <2>7, <3>2, <3>3, LastHitNext
  <2>8. Holds(n + 1)'
    BY <1>1, <2>6, <2>7, Kept DEF Holds
  <2>9. Storing'
    <3>1. at' = "store" /\ k' - 1 = n + 1 /\ k' \in 1..(Len(hunks') + 1) /\ hunks' = hunks
      BY <1>1, <1>3, <1>6, <2>1, <2>2
    <3> QED BY <1>5, <2>8, <3>1 DEF Storing
  <2>10. Building' /\ Writing' /\ Parsing' /\ Comparing' /\ Judged'
    BY <1>1, <1>2, <2>1 DEF Building, Writing, Parsing, Comparing, Judged
  <2> QED BY <1>4, <2>9, <2>10 DEF IInv
<1>7. CASE k > Len(hunks)
  <2>1. at' = "compare" /\ k' = 1 /\ ips_bytes' = ips_bytes
    BY <1>3, <1>7 DEF StoreHunk
  <2>2. k - 1 = Len(hunks) /\ Holds(Len(hunks))
    BY <1>2, <1>3, <1>7
  <2>3. Holds(Len(hunks))'
    BY <1>1, <2>1, <2>2, Kept DEF Holds
  <2>4. Storing'
    BY <1>1, <1>5, <2>1, <2>3 DEF Storing
  <2>5. Comparing'
    <3>1. Len(Chunks) \in Nat /\ Chunks' = Chunks
      BY <1>1, ChunksKnown, Kept DEF IInv, Inputs, Chunks
    <3>2. k' \in 1..(Len(Chunks') + 1) /\ 1..(k' - 1) = {} /\ ~(k' > 1)
      BY <2>1, <3>1
    <3>3. UNION {Extent(Chunks'[i]) : i \in {}} = {}
      OBVIOUS
    <3> QED BY <1>1, <1>2, <2>1, <3>2, <3>3 DEF Comparing
  <2>6. Building' /\ Writing' /\ Parsing' /\ Judged'
    BY <1>1, <1>2, <2>1 DEF Building, Writing, Parsing, Judged
  <2> QED BY <1>4, <2>4, <2>5, <2>6 DEF IInv
<1> QED BY <1>3, <1>6, <1>7

\* Where a byte is in some hunk, one of the hunks is the last to have it.
LEMMA LastHitExists ==
  ASSUME NEW hs, NEW n \in Nat, NEW o, NEW i \in 1..n, Hits(hs[i], o)
  PROVE  \E j \in 1..n : LastHit(hs, n, o, j)
<1> DEFINE T == {j \in 1..n : Hits(hs[j], o)}
<1>1. T \in SUBSET (0..n) /\ T # {}
  OBVIOUS
<1>2. PICK j \in T : \A m \in T : m <= j
  <2> HIDE DEF T
  <2> QED BY <1>1, GreatestElement
<1>3. j \in 1..n /\ Hits(hs[j], o)
  OBVIOUS
<1>4. ASSUME NEW m \in (j + 1)..n PROVE ~Hits(hs[m], o)
  <2>1. m \in 1..n /\ ~(m <= j)
    BY <1>3
  <2> QED BY <1>2, <2>1
<1> QED BY <1>3, <1>4 DEF LastHit

\* What the dictionary says when patch.s is compared with it.
LEMMA DictionaryKnown ==
  ASSUME IInv, at \in {"compare", "done"}
  PROVE  /\ \A a \in DOMAIN ips_bytes : \E o \in 1..Len(stock) :
              /\ a = Base + o - 1 /\ ips_bytes[a] = Patched(stock, made)[o]
              /\ InChunk(made, o) \/ o \in Between(Changed(made))
         /\ \A o \in Changed(made) : Base + o - 1 \in DOMAIN ips_bytes
<1>1. /\ stock \in Seq(Nat) /\ Len(stock) \in Nat /\ DOMAIN stock = 1..Len(stock) /\ Base \in Nat
      /\ Changed(made) \subseteq 1..Len(stock)
  BY InputsKnown DEF IInv
<1>2. /\ \A j \in DOMAIN hunks : Sound(hunks[j])
      /\ Complete(hunks) /\ Holds(Len(hunks))
  BY DEF IInv, Storing
<1>3. Len(hunks) \in Nat /\ DOMAIN hunks = 1..Len(hunks)
  BY HunksKnown DEF IInv, Typed
<1>4. ASSUME NEW a \in DOMAIN ips_bytes
      PROVE  \E o \in 1..Len(stock) :
               /\ a = Base + o - 1 /\ ips_bytes[a] = Patched(stock, made)[o]
               /\ InChunk(made, o) \/ o \in Between(Changed(made))
  <2>1. PICK j \in 1..Len(hunks) : a \in Nat /\ LastHit(hunks, Len(hunks), a - Base + 1, j)
    BY <1>2 DEF Holds
  <2>2. PICK o \in Int : o = a - Base + 1 /\ a = Base + o - 1
    BY <1>1, <2>1
  <2>3. PICK h : h = hunks[j] /\ Hits(h, o) /\ Sound(h)
    BY <1>2, <1>3, <2>1, <2>2 DEF LastHit
  <2>4. o \in 1..Len(stock)
    <3>1. PICK f \in Nat, n \in Nat : f = h.off /\ n = Len(h.payload) /\ f + n <= Len(stock)
      BY <2>3 DEF Sound, Inside
    <3>2. o \in (f + 1)..(f + n)
      BY <2>3, <3>1 DEF Hits
    <3> QED BY <1>1, <3>1, <3>2
  <2>5. /\ h.payload[o - h.off] = Patched(stock, made)[o]
        /\ InChunk(made, o) \/ o \in Between(Changed(made))
    BY <1>1, <2>3, <2>4 DEF Sound
  <2>6. ips_bytes[Base + o - 1] = hunks[j].payload[o - hunks[j].off]
    BY <1>1, <1>2, <2>1, <2>2, <2>4 DEF Holds
  <2> QED BY <2>2, <2>3, <2>4, <2>5, <2>6
<1>5. ASSUME NEW o \in Changed(made) PROVE Base + o - 1 \in DOMAIN ips_bytes
  <2>1. PICK i \in 1..Len(hunks) : Hits(hunks[i], o)
    BY <1>2, <1>3 DEF Complete
  <2>2. PICK j \in 1..Len(hunks) : LastHit(hunks, Len(hunks), o, j)
    BY <1>3, <2>1, LastHitExists
  <2> QED BY <1>1, <1>2, <2>2 DEF Holds
<1> QED BY <1>4, <1>5

\* A chunk that changes something is found as it is in a file made from this source.
LEMMA ChunkFound ==
  ASSUME IInv, at \in {"compare", "done"}, made = source, AllChange, NEW i \in DOMAIN Chunks
  PROVE  Covered(Chunks[i]) # {} /\ ~Differs(Chunks[i])
<1>1. PICK c : c = Chunks[i]
  OBVIOUS
<1>2. Inputs /\ source \in Sources /\ Assembles(source)
  BY DEF IInv, Inputs, Storing
<1>3. c.addr \in Nat /\ c.data \in Seq(Nat) /\ Len(c.data) \in Nat /\ Base \in Nat
      /\ stock \in Seq(Nat) /\ Len(stock) \in Nat
  BY <1>1, <1>2, ChunksKnown, InputsKnown DEF Chunks
<1>4. Covered(c) # {}
  <2>1. PICK o \in Changed(source) : Base + o - 1 \in Extent(c)
    BY <1>1 DEF AllChange
  <2>2. Base + o - 1 \in DOMAIN ips_bytes /\ o \in Int
    BY <1>2, <2>1, DictionaryKnown, InputsKnown
  <2>3. PICK d : d = Base + o - c.addr /\ d \in 1..Len(c.data)
    BY <1>3, <2>1, <2>2, ByteOfChunk
  <2>4. c.addr + d - 1 = Base + o - 1
    <3>1. c.addr \in Int /\ Base \in Int /\ o \in Int
      BY <1>3, <2>2
    <3>2. c.addr + (Base + o - c.addr) - 1 = Base + o - 1
      BY <3>1, ShiftedBack, Zenon
    <3> QED BY <2>3, <3>2, Zenon
  <2> QED BY <2>2, <2>3, <2>4 DEF Covered
<1>5. ASSUME NEW d \in Covered(c) PROVE ips_bytes[c.addr + d - 1] = c.data[d]
  <2>1. d \in 1..Len(c.data) /\ d \in Nat /\ c.addr + d - 1 \in DOMAIN ips_bytes
    BY <1>3 DEF Covered
  <2>2. PICK o \in 1..Len(stock) :
          /\ c.addr + d - 1 = Base + o - 1
          /\ ips_bytes[c.addr + d - 1] = Patched(stock, made)[o]
    BY <2>1, DictionaryKnown
  <2>3. o \in Int /\ Base + o - c.addr = d
    <3>1. PICK a \in Nat, b \in Nat, n \in Nat : a = c.addr /\ b = Base /\ n = Len(stock)
      BY <1>3
    <3>2. o \in 1..n /\ a + d - 1 = b + o - 1
      BY <2>2, <3>1
    <3>3. o \in Int /\ b + o - a = d
      BY <2>1, <3>2
    <3> QED BY <3>1, <3>3
  <2>4. Base + o - 1 \in Extent(c)
    BY <1>3, <2>1, <2>3, ByteOfChunk
  <2>5. Patched(stock, source)[o] = c.data[Base + o - c.addr]
    BY <1>1, <1>2, <1>3, <2>4, PatchedKnown DEF Chunks
  <2> QED BY <2>2, <2>3, <2>5
<1>6. ~Differs(c)
  BY <1>5 DEF Differs
<1> QED BY <1>1, <1>4, <1>6

\* Comparing leaves the hunks and the dictionary.
LEMMA DictionaryKept ==
  ASSUME IInv, at \in {"compare", "done"}, at' \in {"compare", "done"},
         UNCHANGED <<inputVars, hunks, file, ips_bytes>>
  PROVE  /\ Typed' /\ Inputs' /\ Building' /\ Writing' /\ Parsing' /\ Storing'
         /\ \A c : Differs(c)' <=> Differs(c)
<1>1. UNCHANGED inputVars /\ hunks' = hunks /\ file' = file /\ ips_bytes' = ips_bytes
  OBVIOUS
<1>2. Typed' /\ Inputs' /\ Building' /\ Writing' /\ Parsing'
  BY <1>1, Kept DEF IInv, Typed, Building, Writing, Parsing
<1>3. /\ Assembles(made) /\ Inserted
      /\ \A j \in DOMAIN hunks : Sound(hunks[j])
      /\ Complete(hunks) /\ Holds(Len(hunks))
  BY DEF IInv, Storing
<1>4. /\ Assembles(made') /\ Inserted'
      /\ \A j \in DOMAIN hunks : Sound(hunks[j])'
  BY <1>1, <1>3, Kept
<1>5. Complete(hunks)'
  BY <1>1, <1>3, Kept DEF Complete
<1>6. Holds(Len(hunks))'
  BY <1>1, <1>3, Kept DEF Holds
<1>7. Storing'
  BY <1>1, <1>4, <1>5, <1>6 DEF Storing
<1>8. \A c : Differs(c)' <=> Differs(c)
  BY <1>1 DEF Differs, Covered
<1> QED BY <1>2, <1>7, <1>8

LEMMA CompareChunkInv ==
  ASSUME IInv, CompareChunk PROVE IInv'
<1>1. /\ at = "compare" /\ Assembles(source) /\ k <= Len(Chunks)
      /\ explained' = explained \cup Extent(Chunks[k])
      /\ bad' = IF Covered(Chunks[k]) = {} THEN bad + 1
                ELSE IF Differs(Chunks[k]) THEN bad + 1 ELSE bad
      /\ k' = k + 1 /\ at' = at /\ result' = result
      /\ UNCHANGED <<inputVars, hunks, file, ips_bytes>> /\ UNCHANGED inputVars
  BY DEF CompareChunk
<1>2. /\ k \in 1..(Len(Chunks) + 1)
      /\ explained = UNION {Extent(Chunks[i]) : i \in 1..(k - 1)}
      /\ bad \in Nat
      /\ bad = 0 => \A i \in 1..(k - 1) : ~Differs(Chunks[i])
      /\ made = source /\ AllChange => bad = 0
      /\ result = "none"
  BY <1>1 DEF IInv, Comparing
<1>3. Len(Chunks) \in Nat /\ DOMAIN Chunks = 1..Len(Chunks)
  BY ChunksKnown DEF IInv, Inputs, Chunks
<1>4. k \in Nat /\ k \in DOMAIN Chunks /\ k' - 1 = k /\ k' \in 1..(Len(Chunks) + 1)
  BY <1>1, <1>2, <1>3
<1>5. \A i \in 1..k : i \in 1..(k - 1) \/ i = k
  BY <1>4
<1>6. explained' = UNION {Extent(Chunks[i]) : i \in 1..k}
  <2>1. \A i \in 1..(k - 1) : i \in 1..k
    BY <1>4
  <2>2. k \in 1..k
    BY <1>4
  <2> QED BY <1>1, <1>2, <1>5, <2>1, <2>2
<1>7. bad' \in Nat /\ (bad' = 0 => bad = 0 /\ ~Differs(Chunks[k]))
  BY <1>1, <1>2
<1>8. bad' = 0 => \A i \in 1..k : ~Differs(Chunks[i])
  BY <1>2, <1>5, <1>7
<1>9. made = source /\ AllChange => bad' = 0
  BY <1>1, <1>2, <1>4, ChunkFound
<1>10. Comparing'
  <2>1. made' = made /\ source' = source /\ Chunks' = Chunks /\ (AllChange' <=> AllChange)
    BY <1>1, Kept
  <2>2. \A i \in 1..k : Differs(Chunks[i])' <=> Differs(Chunks[i])
    BY <1>1, <2>1 DEF Differs, Covered
  <2> QED BY <1>1, <1>2, <1>4, <1>6, <1>7, <1>8, <1>9, <2>1, <2>2 DEF Comparing
<1>11. Judged'
  BY <1>1 DEF Judged
<1> QED BY <1>1, <1>10, <1>11, DictionaryKept DEF IInv

\* What a file made from this source has outside the chunks is near enough to them.
LEMMA BetweenExplained ==
  ASSUME IInv, at = "compare", made = source,
         explained = UNION {Extent(Chunks[i]) : i \in DOMAIN Chunks}
  PROVE  DOMAIN ips_bytes \subseteq explained \cup Fill
<1>1. Inputs /\ source \in Sources /\ Base \in Nat /\ Reach \in Nat /\ Len(stock) \in Nat
  BY InputsKnown DEF IInv, Inputs
<1>2. \A o : InChunk(source, o) => Base + o - 1 \in explained
  BY DEF InChunk, Chunks
<1>3. ASSUME NEW a \in DOMAIN ips_bytes, a \notin explained PROVE a \in Fill
  <2>1. PICK o \in 1..Len(stock) :
          /\ a = Base + o - 1
          /\ InChunk(source, o) \/ o \in Between(Changed(source))
    BY DictionaryKnown
  <2>2. PICK x \in Changed(source), y \in Changed(source) : x < o /\ o < y /\ y - x - 1 <= Reach
    BY <1>2, <1>3, <2>1 DEF Between
  <2>3. x \in Nat /\ y \in Nat /\ InChunk(source, x) /\ InChunk(source, y)
    BY <1>1, ChangedInChunk
  <2>4. PICK e, f : e = Base + x - 1 /\ f = Base + y - 1 /\ e \in explained /\ f \in explained
    BY <1>2, <2>3
  <2>5. Near(e, a)
    <3>1. (Base + o - 1) - (Base + x - 1) \in 1..Reach
      BY <1>1, <2>2, <2>3
    <3> QED BY <2>1, <2>4, <3>1 DEF Near
  <2>6. Near(a, f)
    <3>1. (Base + y - 1) - (Base + o - 1) \in 1..Reach
      BY <1>1, <2>2, <2>3
    <3> QED BY <2>1, <2>4, <3>1 DEF Near
  <2> QED BY <1>3, <2>4, <2>5, <2>6 DEF Fill
<1> QED BY <1>3

LEMMA JudgeInv ==
  ASSUME IInv, Judge PROVE IInv'
<1>1. at = "compare" /\ Assembles(source) /\ k > Len(Chunks)
      /\ UNCHANGED <<inputVars, ips_bytes, explained>> /\ UNCHANGED inputVars
  BY DEF Judge
<1>2. CASE explained = {}
  <2>1. at' = "failed" /\ UNCHANGED <<inputVars, hunks, file, result>>
    BY <1>1, <1>2 DEF Judge, Fails
  <2> QED BY <1>1, <2>1, FailsInv
<1>3. CASE explained # {}
  <2>1. /\ fill' = Fill
        /\ bad' = IF DOMAIN ips_bytes \subseteq explained \cup Fill THEN bad ELSE bad + 1
        /\ result' = IF bad' = 0 THEN "matches" ELSE "mismatch"
        /\ at' = "done" /\ UNCHANGED <<inputVars, hunks, file, ips_bytes>>
    BY <1>1, <1>3 DEF Judge
  <2>2. /\ k \in 1..(Len(Chunks) + 1)
        /\ explained = UNION {Extent(Chunks[i]) : i \in 1..(k - 1)}
        /\ bad \in Nat
        /\ bad = 0 => \A i \in 1..(k - 1) : ~Differs(Chunks[i])
        /\ made = source /\ AllChange => bad = 0
    BY <1>1 DEF IInv, Comparing
  <2>3. Len(Chunks) \in Nat /\ DOMAIN Chunks = 1..Len(Chunks)
    BY ChunksKnown DEF IInv, Inputs, Chunks
  <2>4. 1..(k - 1) = DOMAIN Chunks
    <3>1. k - 1 = Len(Chunks)
      BY <1>1, <2>2, <2>3
    <3> QED BY <2>3, <3>1
  <2>5. explained = UNION {Extent(Chunks[i]) : i \in DOMAIN Chunks}
    BY <2>2, <2>4
  <2>6. ASSUME result' = "matches"
        PROVE  \A a \in DOMAIN ips_bytes :
                 \/ a \in Fill
                 \/ \E i \in DOMAIN Chunks : a \in Extent(Chunks[i]) /\ ~Differs(Chunks[i])
    <3>1. bad = 0 /\ DOMAIN ips_bytes \subseteq explained \cup Fill
      BY <2>1, <2>2, <2>6
    <3> QED BY <2>2, <2>4, <2>5, <3>1
  <2>7. made = source /\ AllChange => result' = "matches"
    BY <1>1, <2>1, <2>2, <2>5, BetweenExplained
  <2>8. Judged'
    <3>1. made' = made /\ source' = source /\ Chunks' = Chunks /\ (AllChange' <=> AllChange)
      BY <1>1, Kept
    <3>2. \A i \in DOMAIN Chunks : Differs(Chunks[i])' <=> Differs(Chunks[i])
      BY <1>1, <3>1 DEF Differs, Covered
    <3> QED BY <1>1, <2>1, <2>6, <2>7, <3>1, <3>2 DEF Judged
  <2>9. Comparing'
    BY <2>1 DEF Comparing
  <2> QED BY <1>1, <2>1, <2>8, <2>9, DictionaryKept DEF IInv
<1> QED BY <1>2, <1>3

LEMMA InitInv ==
  ASSUME Init PROVE IInv
<1>1. /\ stock \in Stocks /\ source \in Sources /\ made = source
      /\ at = "build" /\ k = 1 /\ hunks = <<>> /\ file = <<>>
      /\ ips_bytes = <<>> /\ explained = {} /\ bad = 0 /\ result = "none"
  BY DEF Init
<1>2. Inputs /\ Typed
  BY <1>1 DEF Inputs, Typed
<1>3. Building
  <2>1. Len(Chunks) \in Nat
    BY <1>1, ChunksKnown DEF Chunks
  <2>2. k \in 1..(Len(Chunks) + 1) /\ ~(k > 1) /\ 1..(k - 1) = {} /\ DOMAIN hunks = {}
    BY <1>1, <2>1
  <2> QED BY <1>1, <2>2 DEF Building
<1>4. Writing /\ Parsing /\ Storing /\ Comparing /\ Judged
  BY <1>1 DEF Writing, Parsing, Storing, Comparing, Judged
<1> QED BY <1>2, <1>3, <1>4 DEF IInv

LEMMA StutterInv ==
  ASSUME IInv, UNCHANGED vars PROVE IInv'
<1>1. /\ stock' = stock /\ source' = source /\ maker' = maker /\ made' = made
      /\ at' = at /\ k' = k /\ hunks' = hunks /\ file' = file /\ cut' = cut
      /\ ips_bytes' = ips_bytes /\ explained' = explained /\ bad' = bad
      /\ fill' = fill /\ result' = result
  BY DEF vars
<1>2. Typed' /\ Inputs'
  BY <1>1 DEF IInv, Typed, Inputs
<1>3. Building' /\ Writing'
  BY <1>1 DEF IInv, Building, Writing, Inserted, Built, Sound, Complete, ChunkInside, Chunks, Changed, Between
<1>4. Parsing' /\ Storing'
  BY <1>1 DEF IInv, Parsing, Storing, Inserted, Sound, Complete, ChunkInside, Chunks, Changed, Between, Holds
<1>5. Comparing' /\ Judged'
  <2>1. Chunks' = Chunks /\ (AllChange' <=> AllChange)
    BY <1>1, Kept DEF inputVars
  <2>2. \A c : Differs(c)' <=> Differs(c)
    BY <1>1 DEF Differs, Covered
  <2>3. \A i : Differs(Chunks[i])' <=> Differs(Chunks[i])
    BY <1>1, <2>1 DEF Differs, Covered
  <2>4. Comparing'
    BY <1>1, <2>1, <2>3 DEF IInv, Comparing
  <2>5. Judged'
    BY <1>1, <2>1, <2>3 DEF IInv, Judged
  <2> QED BY <2>4, <2>5
<1> QED BY <1>2, <1>3, <1>4, <1>5 DEF IInv

LEMMA NextInv ==
  ASSUME IInv, Next PROVE IInv'
<1>1. CASE AssembleFails
  <2>1. at \in {"build", "compare"} /\ at' = "failed" /\ UNCHANGED <<inputVars, hunks, file, result>>
    BY <1>1 DEF AssembleFails, Fails, verdictVars
  <2> QED BY <2>1, FailsInv
<1>2. CASE ParseFails
  <2>1. at = "parse" /\ at' = "failed" /\ UNCHANGED <<inputVars, hunks, file, result>>
    BY <1>2 DEF ParseFails, Fails, verdictVars
  <2> QED BY <2>1, FailsInv
<1>3. CASE OnlyDecodes
  <2>1. /\ at = "compare" /\ at' = "done" /\ UNCHANGED <<inputVars, hunks, file, ips_bytes>>
        /\ result' = result
    BY <1>3 DEF OnlyDecodes, verdictVars
  <2>2. result = "none"
    BY <2>1 DEF IInv, Comparing
  <2>3. Comparing' /\ Judged'
    <3>1. at' = "done" /\ result' = "none"
      BY <2>1, <2>2
    <3>2. Comparing'
      BY <3>1 DEF Comparing
    <3>3. Judged'
      BY <3>1 DEF Judged
    <3> QED BY <3>2, <3>3
  <2> QED BY <2>1, <2>3, DictionaryKept DEF IInv
<1>4. CASE Ended
  <2>1. UNCHANGED vars
    BY <1>4 DEF Ended
  <2> QED BY <2>1, StutterInv
<1>5. CASE BuildChunk
  BY <1>5, BuildChunkInv
<1>6. CASE SortHunks
  BY <1>6, SortHunksInv
<1>7. CASE WriteHunk
  BY <1>7, WriteHunkInv
<1>8. CASE FileWritten
  BY <1>8, FileWrittenInv
<1>9. CASE OtherWrites
  BY <1>9, OtherWritesInv
<1>10. CASE CutShort
  BY <1>10, CutShortInv
<1>11. CASE ParseRecord
  BY <1>11, ParseRecordInv
<1>12. CASE ParseEnds
  BY <1>12, ParseEndsInv
<1>13. CASE StoreHunk
  BY <1>13, StoreHunkInv
<1>14. CASE CompareChunk
  BY <1>14, CompareChunkInv
<1>15. CASE Judge
  BY <1>15, JudgeInv
<1> QED
  BY <1>1, <1>2, <1>3, <1>4, <1>5, <1>6, <1>7, <1>8, <1>9, <1>10, <1>11, <1>12, <1>13, <1>14, <1>15
  DEF Next, BuildIps, ParseIps, Main

LEMMA Inductive == Spec => []IInv
<1>1. Init => IInv
  BY InitInv
<1>2. IInv /\ [Next]_vars => IInv'
  <2> SUFFICES ASSUME IInv, [Next]_vars PROVE IInv'
    OBVIOUS
  <2>1. CASE Next
    BY <2>1, NextInv
  <2>2. CASE UNCHANGED vars
    BY <2>2, StutterInv
  <2> QED BY <2>1, <2>2
<1> QED BY <1>1, <1>2, PTL DEF Spec

-----------------------------------------------------------------------------
(* What the tool promises. *)

(* Two images of the same length are the same when their bytes are.        *)
LEMMA SameImage ==
  ASSUME NEW s \in Seq(Nat), NEW t \in Seq(Nat), Len(s) = Len(t),
         \A i \in 1..Len(s) : s[i] = t[i]
  PROVE  s = t
OBVIOUS

(* BuiltFileApplies: the file build_ips writes, applied to the stock image, *)
(* gives the image patch.s asks for, whatever was trimmed, dropped and      *)
(* sorted on the way.                                                       *)
LEMMA BuiltApplies ==
  ASSUME IInv PROVE BuiltFileApplies
<1> SUFFICES ASSUME at \in {"compare", "done"}, maker = "build_ips",
                    \A i \in DOMAIN Chunks : Chunks[i].addr >= Base
             PROVE  /\ \A i \in DOMAIN Chunks : Extent(Chunks[i]) \subseteq Base..(Base + Len(stock) - 1)
                    /\ Applied(stock, hunks) = Patched(stock, source)
  BY Zenon DEF BuiltFileApplies
<1>1. /\ stock \in Seq(Nat) /\ Len(stock) \in Nat /\ DOMAIN stock = 1..Len(stock)
      /\ source \in Sources /\ made = source
  BY InputsKnown DEF IInv, Inputs
<1>2. /\ Inserted /\ \A j \in DOMAIN hunks : Sound(hunks[j])
      /\ Complete(hunks)
  BY DEF IInv, Storing
<1>3. Len(hunks) \in Nat /\ DOMAIN hunks = 1..Len(hunks)
  BY HunksKnown DEF IInv, Typed
<1>4. \A i \in DOMAIN Chunks : Extent(Chunks[i]) \subseteq Base..(Base + Len(stock) - 1)
  BY <1>2 DEF Inserted, ChunkInside
<1>5. PICK r, p : r = Applied(stock, hunks) /\ p = Patched(stock, source)
  OBVIOUS
<1>6. p \in Seq(Nat) /\ Len(p) = Len(stock)
  BY <1>1, <1>5, PatchedKnown
<1>7. \A j \in 1..Len(hunks) : Inside(hunks[j], Len(stock))
  BY <1>2, <1>3 DEF Sound
<1>8. ResultOf(r, stock, hunks, Len(hunks))
  BY <1>1, <1>3, <1>5, <1>7, AppliedKnown
<1>9. ASSUME NEW o \in 1..Len(stock) PROVE r[o] = p[o]
  <2>1. CASE (\A j \in 1..Len(hunks) : ~Hits(hunks[j], o)) /\ r[o] = stock[o]
    <3>1. o \notin Changed(source)
      BY <1>1, <1>2, <1>3, <2>1 DEF Complete
    <3> QED BY <1>1, <1>5, <2>1, <3>1 DEF Changed
  <2>2. CASE \E j \in 1..Len(hunks) : /\ LastHit(hunks, Len(hunks), o, j)
                                      /\ r[o] = hunks[j].payload[o - hunks[j].off]
    <3>1. PICK j \in 1..Len(hunks) : /\ LastHit(hunks, Len(hunks), o, j)
                                     /\ r[o] = hunks[j].payload[o - hunks[j].off]
      BY <2>2
    <3>2. Hits(hunks[j], o) /\ Sound(hunks[j])
      BY <1>2, <1>3, <3>1 DEF LastHit
    <3> QED BY <1>1, <1>5, <3>1, <3>2 DEF Sound
  <2> QED BY <1>8, <2>1, <2>2 DEF ResultOf
<1>10. r = p
  <2>1. r \in Seq(Nat) /\ Len(r) = Len(p) /\ \A o \in 1..Len(r) : r[o] = p[o]
    BY <1>6, <1>8, <1>9 DEF ResultOf
  <2> QED BY <1>6, <2>1, SameImage
<1> QED BY <1>4, <1>5, <1>10

(* NoFalseAlarm: a file made from this very patch.s is reported as a       *)
(* mismatch only if a chunk changes nothing.                               *)
LEMMA AlarmTrue ==
  ASSUME IInv PROVE NoFalseAlarm
<1> SUFFICES ASSUME result = "mismatch", made = source
             PROVE  \E i \in DOMAIN Chunks :
                      \A o \in Changed(source) : Base + o - 1 \notin Extent(Chunks[i])
  BY DEF NoFalseAlarm
<1>1. at = "done"
  BY DEF IInv, Comparing
<1> QED BY <1>1 DEF IInv, Judged, AllChange

(* MatchIsHonest: what a file that is reported as matching changes is what *)
(* patch.s makes of it or is listed.                                       *)
LEMMA MatchTrue ==
  ASSUME IInv PROVE MatchIsHonest
<1> SUFFICES ASSUME result = "matches", NEW o \in DOMAIN stock,
                    Applied(stock, hunks)[o] \notin {stock[o], Patched(stock, source)[o]}
             PROVE  Base + o - 1 \in fill
  BY DEF MatchIsHonest
<1>1. at = "done"
  BY DEF IInv, Comparing
<1>2. /\ Assembles(source)
      /\ \A a \in DOMAIN ips_bytes :
           \/ a \in fill
           \/ \E i \in DOMAIN Chunks : a \in Extent(Chunks[i]) /\ ~Differs(Chunks[i])
  BY <1>1 DEF IInv, Judged
<1>3. /\ stock \in Seq(Nat) /\ Len(stock) \in Nat /\ DOMAIN stock = 1..Len(stock)
      /\ source \in Sources /\ Base \in Nat /\ o \in 1..Len(stock) /\ o \in Int
  BY InputsKnown DEF IInv, Inputs
<1>4. (\A j \in DOMAIN hunks : Sound(hunks[j])) /\ Holds(Len(hunks))
  BY <1>1 DEF IInv, Storing
<1>5. Len(hunks) \in Nat /\ DOMAIN hunks = 1..Len(hunks)
  BY HunksKnown DEF IInv, Typed
<1>6. \A j \in 1..Len(hunks) : Inside(hunks[j], Len(stock))
  BY <1>4, <1>5 DEF Sound
<1>7. PICK r : r = Applied(stock, hunks)
  OBVIOUS
<1>8. ResultOf(r, stock, hunks, Len(hunks))
  BY <1>3, <1>5, <1>6, <1>7, AppliedKnown
<1>9. PICK j \in 1..Len(hunks) : /\ LastHit(hunks, Len(hunks), o, j)
                                 /\ r[o] = hunks[j].payload[o - hunks[j].off]
  BY <1>3, <1>7, <1>8 DEF ResultOf
<1>10. Base + o - 1 \in DOMAIN ips_bytes /\ r[o] = ips_bytes[Base + o - 1]
  BY <1>3, <1>4, <1>9 DEF Holds
<1>11. ASSUME NEW i \in DOMAIN Chunks, Base + o - 1 \in Extent(Chunks[i]), ~Differs(Chunks[i])
       PROVE  FALSE
  <2>1. PICK c : c = Chunks[i] /\ c.addr \in Nat /\ c.data \in Seq(Nat)
    BY <1>3, ChunksKnown DEF Chunks
  <2>2. PICK d : d = Base + o - c.addr /\ d \in 1..Len(c.data)
    BY <1>3, <1>11, <2>1, ByteOfChunk
  <2>3. c.addr + d - 1 = Base + o - 1
    <3>1. c.addr \in Int /\ Base \in Int /\ o \in Int
      BY <1>3, <2>1
    <3>2. c.addr + (Base + o - c.addr) - 1 = Base + o - 1
      BY <3>1, ShiftedBack, Zenon
    <3> QED BY <2>2, <3>2, Zenon
  <2>4. d \in Covered(c)
    BY <1>10, <2>2, <2>3 DEF Covered
  <2>5. ips_bytes[Base + o - 1] = c.data[d]
    BY <1>11, <2>1, <2>3, <2>4 DEF Differs
  <2>6. Patched(stock, source)[o] = c.data[Base + o - c.addr]
    BY <1>2, <1>3, <1>11, <2>1, PatchedKnown DEF Chunks
  <2> QED BY <1>7, <1>10, <2>2, <2>5, <2>6
<1> QED BY <1>2, <1>10, <1>11

(* Whatever the stock image and patch.s are, build_ips' file gives the     *)
(* image patch.s asks for.                                                 *)
THEOREM BuiltFileGivesPatch == Spec => []BuiltFileApplies
<1>1. IInv => BuiltFileApplies
  BY BuiltApplies
<1> QED BY <1>1, Inductive, PTL

(* Whoever made the file from this patch.s, it is not reported as a        *)
(* mismatch, unless a chunk of patch.s changes nothing.                    *)
THEOREM SameSourceMatches == Spec => []NoFalseAlarm
<1>1. IInv => NoFalseAlarm
  BY AlarmTrue
<1> QED BY <1>1, Inductive, PTL

(* Whatever the file holds, a match hides no change that patch.s does not  *)
(* make and the report does not list.                                      *)
THEOREM NothingHidden == Spec => []MatchIsHonest
<1>1. IInv => MatchIsHonest
  BY MatchTrue
<1> QED BY <1>1, Inductive, PTL
====
