----------------------------- MODULE DataProofs -----------------------------
(***************************************************************************)
(* Proofs about the components that only work on data: RgbTransform and    *)
(* LineTransform, for an input of any length cut anywhere, and the CPU     *)
(* statistics, for any CPUs and ticks.                                     *)
(***************************************************************************)
EXTENDS MCData, FiniteSetTheorems, FunctionTheorems, SequenceTheorems, TLAPS

(***************************************************************************)
(* RgbTransform.                                                           *)
(***************************************************************************)
\* The n bytes from one on, of an input whose bytes are numbered.
Numbered(from, n) == [i \in 1 .. n |-> from + i - 1]

\* The mode of an RgbTransform.  Leftover: what is kept is the rest of the input
\* after the whole pixels.  Whole: with all chunks aligned there is none.
RgbMode == ~IsLine => mode.pixel \in {3, 4} /\ \A c \in 1 .. 3 : mode.pos[c] \in 0 .. 2
RgbSeqs ==
    ~IsLine => output \in Seq(Nat) /\ Len(fed) \in Nat /\ fed = Numbered(0, Len(fed))
InPixels == mode.pixel * Pixels(Len(fed))
Leftover == ~IsLine => kept = Numbered(InPixels, Len(fed) - InPixels)
Whole == ~IsLine /\ aligned => Len(fed) = InPixels
RgbInv == RgbMode /\ RgbSeqs /\ Leftover /\ Whole /\ PixelsWhole

\* Division by the bytes of a pixel.
LEMMA Divides ==
    ASSUME NEW P \in {3, 4}, NEW q \in Nat, NEW n \in Nat
    PROVE  /\ n \div P \in Nat /\ P * (n \div P) \in Nat
           /\ P * (n \div P) <= n /\ n < P * (n \div P) + P
           /\ (P * q + n) \div P = q + (n \div P)
           /\ P * (q + (n \div P)) = P * q + P * (n \div P)
<1>1. CASE P = 3
  BY <1>1
<1>2. CASE P = 4
  BY <1>2
<1> QED
  BY <1>1, <1>2

\* The length and the elements of numbered bytes.
LEMMA NumberedType ==
    ASSUME NEW from \in Nat, NEW n \in Nat
    PROVE  /\ Numbered(from, n) \in Seq(Nat) /\ Len(Numbered(from, n)) = n
           /\ \A i \in 1 .. n : Numbered(from, n)[i] = from + i - 1
<1>1. \A i \in 1 .. n : from + i - 1 \in Nat
  OBVIOUS
<1>2. Numbered(from, n) \in [1 .. n -> Nat]
  BY <1>1 DEF Numbered
<1> QED
  BY <1>2 DEF Numbered

\* Bytes that follow each other are numbered on.
LEMMA Joined ==
    ASSUME NEW from \in Nat, NEW a \in Nat, NEW b \in Nat
    PROVE  Numbered(from, a) \o Numbered(from + a, b) = Numbered(from, a + b)
<1>1. /\ from + a \in Nat /\ a + b \in Nat
  OBVIOUS
<1>2. /\ Numbered(from, a) \in Seq(Nat) /\ Len(Numbered(from, a)) = a
      /\ Numbered(from + a, b) \in Seq(Nat) /\ Len(Numbered(from + a, b)) = b
      /\ Numbered(from, a + b) \in Seq(Nat) /\ Len(Numbered(from, a + b)) = a + b
  BY <1>1, NumberedType
<1>3. PICK s : s = Numbered(from, a)
  OBVIOUS
<1>4. PICK t : t = Numbered(from + a, b)
  OBVIOUS
<1>5. s \in Seq(Nat) /\ Len(s) = a /\ t \in Seq(Nat) /\ Len(t) = b
  BY <1>2, <1>3, <1>4
<1>6. /\ s \o t \in Seq(Nat) /\ Len(s \o t) = a + b
      /\ \A i \in 1 .. a + b : (s \o t)[i] = IF i <= a THEN s[i] ELSE t[i - a]
  BY <1>5, ConcatProperties
<1>7. ASSUME NEW i \in 1 .. a + b PROVE (s \o t)[i] = Numbered(from, a + b)[i]
  <2>1. CASE i <= a
    <3>1. (s \o t)[i] = s[i] /\ i \in 1 .. a
      BY <1>6, <2>1
    <3> QED
      BY <3>1, <1>3 DEF Numbered
  <2>2. CASE a < i
    <3>1. (s \o t)[i] = t[i - a] /\ i - a \in 1 .. b
      BY <1>6, <2>2
    <3> QED
      BY <3>1, <1>4 DEF Numbered
  <2>3. i <= a \/ a < i
    OBVIOUS
  <2> QED
    BY <2>1, <2>2, <2>3, Zenon
<1>8. s \o t = Numbered(from, a + b)
  BY <1>2, <1>6, <1>7, SeqEqual
<1> QED
  BY <1>3, <1>4, <1>8

\* The rest of numbered bytes is numbered.
LEMMA Cut ==
    ASSUME NEW from \in Nat, NEW n \in Nat, NEW d \in 0 .. n
    PROVE  SubSeq(Numbered(from, n), d + 1, n) = Numbered(from + d, n - d)
<1>1. Numbered(from, n) \in Seq(Nat) /\ Len(Numbered(from, n)) = n
  BY NumberedType
<1>2. /\ Numbered(from + d, n - d) \in Seq(Nat)
      /\ Len(Numbered(from + d, n - d)) = n - d
  <2>1. from + d \in Nat /\ n - d \in Nat
    OBVIOUS
  <2> QED
    BY <2>1, NumberedType
<1> DEFINE cut == SubSeq(Numbered(from, n), d + 1, n)
<1>3. cut \in Seq(Nat) /\ Len(cut) = n - d
  BY <1>1
<1>4. ASSUME NEW i \in 1 .. n - d PROVE cut[i] = Numbered(from + d, n - d)[i]
  <2>1. cut[i] = Numbered(from, n)[d + i] /\ d + i \in 1 .. n
    BY <1>1
  <2> QED
    BY <2>1 DEF Numbered
<1> QED
  BY <1>2, <1>3, <1>4, SeqEqual

\* The colours of the pixels: the byte of the buffer each byte of the target takes.
LEMMA Colours ==
    ASSUME RgbMode, ~IsLine, NEW from \in Nat, NEW n \in Nat
    PROVE  LET target == Converted(Numbered(from, n))
           IN  /\ target \in Seq(Nat) /\ Len(target) = 3 * (n \div mode.pixel)
               /\ \A p \in 0 .. (n \div mode.pixel) - 1, c \in 1 .. 3 :
                    target[3 * p + c] = from + p * mode.pixel + mode.pos[c]
<1> DEFINE P == mode.pixel
           d == n \div P
           target == Converted(Numbered(from, n))
           At3(i) == ((i - 1) \div 3) * P + mode.pos[1 + ((i - 1) % 3)] + 1
<1>1. P \in {3, 4} /\ \A c \in 1 .. 3 : mode.pos[c] \in 0 .. 2
  BY DEF RgbMode
<1>2. d \in Nat /\ P * d <= n
  BY <1>1, Divides
<1>3. target = [i \in 1 .. 3 * d |-> Numbered(from, n)[At3(i)]]
  BY NumberedType DEF Converted, Pixels
<1> HIDE DEF P, d, target
<1>4. ASSUME NEW p \in 0 .. d - 1, NEW c \in 1 .. 3
      PROVE  /\ 3 * p + c \in 1 .. 3 * d /\ At3(3 * p + c) = p * P + mode.pos[c] + 1
             /\ At3(3 * p + c) \in 1 .. n
  <2>1. 3 * p + c \in 1 .. 3 * d
    BY <1>2
  <2>2. ((3 * p + c - 1) \div 3) = p /\ ((3 * p + c - 1) % 3) = c - 1
    BY <1>2
  <2>3. At3(3 * p + c) = p * P + mode.pos[c] + 1
    <3>1. 1 + ((3 * p + c - 1) % 3) = c
      BY <2>2
    <3> QED
      BY <2>2, <3>1
  <2>4. mode.pos[c] \in 0 .. 2
    BY <1>1
  <2>5. p * P + mode.pos[c] + 1 \in 1 .. n
    <3>1. CASE P = 3
      BY <3>1, <2>4, <1>2
    <3>2. CASE P = 4
      BY <3>2, <2>4, <1>2
    <3> QED
      BY <3>1, <3>2, <1>1
  <2> QED
    BY <2>1, <2>3, <2>5
<1>5. ASSUME NEW i \in 1 .. 3 * d
      PROVE  \E p \in 0 .. d - 1, c \in 1 .. 3 : i = 3 * p + c
  <2>1. /\ (i - 1) \div 3 \in 0 .. d - 1 /\ 1 + ((i - 1) % 3) \in 1 .. 3
        /\ i = 3 * ((i - 1) \div 3) + (1 + ((i - 1) % 3))
    BY <1>2
  <2> QED
    BY <2>1
<1>6. \A i \in 1 .. 3 * d : target[i] \in Nat
  <2> TAKE i \in 1 .. 3 * d
  <2>1. At3(i) \in 1 .. n
    BY <1>4, <1>5
  <2>2. target[i] = Numbered(from, n)[At3(i)]
    BY <1>3
  <2> HIDE DEF At3
  <2>3. Numbered(from, n)[At3(i)] = from + At3(i) - 1
    BY <2>1, NumberedType
  <2> QED
    BY <2>1, <2>2, <2>3
<1>7. target \in Seq(Nat) /\ Len(target) = 3 * d
  <2>1. target \in [1 .. 3 * d -> Nat]
    BY <1>3, <1>6
  <2>2. 3 * d \in Nat
    BY <1>2
  <2> QED
    BY <2>1, <2>2
<1>8. ASSUME NEW p \in 0 .. d - 1, NEW c \in 1 .. 3
      PROVE  target[3 * p + c] = from + p * P + mode.pos[c]
  <2>1. 3 * p + c \in 1 .. 3 * d /\ At3(3 * p + c) \in 1 .. n
    BY <1>4
  <2>2. target[3 * p + c] = Numbered(from, n)[At3(3 * p + c)]
    BY <1>3, <2>1
  <2>3. At3(3 * p + c) = p * P + mode.pos[c] + 1
    BY <1>4
  <2> HIDE DEF At3
  <2>4. Numbered(from, n)[At3(3 * p + c)] = from + At3(3 * p + c) - 1
    BY <2>1, NumberedType
  <2>5. mode.pos[c] \in 0 .. 2 /\ p * P \in Nat
    BY <1>1
  <2> QED
    BY <2>2, <2>3, <2>4, <2>5
<1> QED
  BY <1>7, <1>8 DEF P, d, target


\* A new transform satisfies RgbInv.
LEMMA InitRgb == TransformInit => RgbInv
<1> SUFFICES ASSUME TransformInit, ~IsLine
             PROVE  RgbInv
  <2>1. IsLine => RgbMode /\ RgbSeqs /\ Leftover /\ Whole /\ PixelsWhole
    BY DEF RgbMode, RgbSeqs, Leftover, Whole, PixelsWhole
  <2> QED
    BY <2>1 DEF RgbInv
<1>1. mode \in {Rgb(3, 0, 1, 2), Rgb(3, 2, 1, 0), Rgb(4, 0, 1, 2), Rgb(4, 2, 1, 0)}
  BY DEF TransformInit, Modes, IsLine, Line
<1>2. RgbMode
  BY <1>1 DEF RgbMode, Rgb
<1>3. mode.pixel \in {3, 4} /\ fed = <<>> /\ kept = <<>> /\ output = <<>> /\ Len(fed) = 0
  BY <1>2 DEF TransformInit, RgbMode
<1>4. Pixels(Len(fed)) = 0 /\ mode.pixel * Pixels(Len(fed)) = 0
  BY <1>3 DEF Pixels
<1>5. Numbered(0, 0) = <<>>
  BY DEF Numbered
<1>6. RgbSeqs
  BY <1>3, <1>5 DEF RgbSeqs
<1>7. Leftover
  BY <1>3, <1>4, <1>5 DEF Leftover, InPixels
<1>8. Whole
  BY <1>3, <1>4 DEF Whole, InPixels
<1>9. PixelsWhole
  BY <1>3, <1>4 DEF PixelsWhole, RgbOf
<1> QED
  BY <1>2, <1>6, <1>7, <1>8, <1>9 DEF RgbInv

\* A chunk makes pixels of what was kept and itself, and keeps the rest.
LEMMA ChunkStep ==
    ASSUME RgbInv, ~IsLine, NEW n \in Nat \ {0}, NEW chunk, chunk = Numbered(Len(fed), n),
           fed' = fed \o chunk, RgbChunk(chunk), mode' = mode,
           aligned' = (aligned /\ Len(chunk) % mode.pixel = 0)
    PROVE  RgbInv'
<1> DEFINE P == mode.pixel
           L == Len(fed)
           q == Pixels(L)
           m == L + n - P * q
           d == m \div P
           buffer == kept \o chunk
           target == Converted(buffer)
<1> HIDE DEF P, L, q, m, d, buffer, target
<1>1. P \in {3, 4} /\ \A c \in 1 .. 3 : mode.pos[c] \in 0 .. 2
  BY DEF RgbInv, RgbMode, P
<1>2. L \in Nat /\ fed = Numbered(0, L) /\ output \in Seq(Nat)
  BY DEF RgbInv, RgbSeqs, L
<1>3. q = L \div P /\ q \in Nat /\ P * q \in Nat /\ P * q <= L
  BY <1>1, <1>2, Divides DEF Pixels, q, P
<1>4. kept = Numbered(P * q, L - P * q)
  BY DEF RgbInv, Leftover, InPixels, P, q, L
<1>5. m \in Nat /\ L - P * q \in Nat
  BY <1>2, <1>3 DEF m
<1>6. d \in Nat /\ P * d \in 0 .. m
  BY <1>1, <1>5, Divides DEF d
<1>7. (L + n) \div P = q + d /\ P * (q + d) = P * q + P * d
  <2>1. (P * q + m) \div P = q + (m \div P) /\ P * (q + (m \div P)) = P * q + P * (m \div P)
    <3>1. P \in {3, 4} /\ q \in Nat /\ m \in Nat
      BY <1>1, <1>3, <1>5
    <3> QED
      BY <3>1, Divides, SMTT(30)
  <2>2. P * q + m = L + n
    BY <1>2, <1>3 DEF m
  <2> QED
    BY <2>1, <2>2 DEF d
<1>8. fed' = Numbered(0, L + n) /\ Len(fed)' = L + n
  <2>1. Numbered(0, L) \o Numbered(L, n) = Numbered(0, L + n)
    <3>1. Numbered(0, L) \o Numbered(0 + L, n) = Numbered(0, L + n)
      BY <1>2, Joined
    <3>2. 0 + L = L
      BY <1>2
    <3> QED
      BY <3>1, <3>2
  <2>2. fed' = Numbered(0, L + n)
    BY <1>2, <2>1 DEF L
  <2>3. L + n \in Nat
    BY <1>2
  <2> QED
    BY <2>2, <2>3, NumberedType
<1>9. buffer = Numbered(P * q, m) /\ Len(buffer) = m
  <2>1. P * q + (L - P * q) = L /\ (L - P * q) + n = m
    BY <1>2, <1>3 DEF m
  <2>2. Numbered(P * q, L - P * q) \o Numbered(P * q + (L - P * q), n)
          = Numbered(P * q, (L - P * q) + n)
    <3>1. P * q \in Nat /\ L - P * q \in Nat /\ n \in Nat
      BY <1>3, <1>5
    <3> QED
      BY <3>1, Joined, Zenon
  <2>3. buffer = Numbered(P * q, m)
    BY <1>4, <2>1, <2>2 DEF buffer, L
  <2> QED
    BY <2>3, <1>3, <1>5, NumberedType
<1>10. /\ target \in Seq(Nat) /\ Len(target) = 3 * d
       /\ \A p \in 0 .. d - 1, c \in 1 .. 3 :
            target[3 * p + c] = P * q + p * P + mode.pos[c]
  <2>1. RgbMode /\ P * q \in Nat /\ m \in Nat /\ target = Converted(Numbered(P * q, m))
    BY <1>3, <1>5, <1>9 DEF RgbInv, target
  <2> QED
    BY <2>1, Colours, ZenonT(30) DEF d, P
<1>11. /\ output' = output \o SubSeq(target, 1, Smaller(3 * d, Room(chunk)))
       /\ kept' = Rest(buffer)
  BY <1>10 DEF RgbChunk, target, buffer
<1>12. Pixels(Len(fed))' = q + d
  BY <1>7, <1>8 DEF Pixels, P
<1>13. Len(chunk) = n
  BY <1>2, NumberedType DEF L
<1>14. Len(kept) = L - P * q
  BY <1>4, <1>3, <1>5, NumberedType
<1>15. aligned /\ n % P = 0 => L = P * q /\ m = n /\ L + n = P * (q + d) /\ n = P * d
  <2> SUFFICES ASSUME aligned, n % P = 0
               PROVE  L = P * q /\ m = n /\ L + n = P * (q + d) /\ n = P * d
    OBVIOUS
  <2>1. L = P * q
    BY DEF RgbInv, Whole, InPixels, L, q, P
  <2>2. m = n
    BY <2>1, <1>2, <1>3 DEF m
  <2>3. n = P * d
    <3>1. CASE P = 3
      BY <3>1, <2>2 DEF d
    <3>2. CASE P = 4
      BY <3>2, <2>2 DEF d
    <3> QED
      BY <3>1, <3>2, <1>1
  <2> QED
    BY <2>1, <2>2, <2>3, <1>7, <1>2, <1>3, <1>6
<1>16. Room(chunk) \in Nat /\ (P = 3 \/ (aligned /\ n % P = 0) => 3 * d <= Room(chunk))
  <2>1. CASE P = 3
    <3>1. Room(chunk) = m
      BY <2>1, <1>13, <1>14, <1>2, <1>3 DEF Room, m, P
    <3> QED
      BY <2>1, <3>1, <1>5, <1>6
  <2>2. CASE P = 4
    <3>1. Room(chunk) = IF (n * 3) \div 4 < 4 THEN 4 ELSE (n * 3) \div 4
      BY <2>2, <1>13 DEF Room, P
    <3>2. Room(chunk) \in Nat /\ (n * 3) \div 4 <= Room(chunk)
      BY <3>1
    <3>3. aligned /\ n % P = 0 => 3 * d = (n * 3) \div 4
      BY <1>15, <2>2, <1>6
    <3> QED
      BY <3>2, <3>3, <2>2
  <2> QED
    BY <2>1, <2>2, <1>1
<1>17. Smaller(3 * d, Room(chunk)) \in 0 .. 3 * d
  BY <1>6, <1>16 DEF Smaller
<1>18. output' \in Seq(Nat)
  <2>1. SubSeq(target, 1, Smaller(3 * d, Room(chunk))) \in Seq(Nat)
    BY <1>10, <1>17
  <2> QED
    BY <2>1, <1>2, <1>11
<1>19. RgbMode'
  BY DEF RgbInv, RgbMode, IsLine
<1>20. RgbSeqs'
  <2>1. L + n \in Nat
    BY <1>2
  <2> QED
    BY <2>1, <1>8, <1>18 DEF RgbSeqs
<1>21. Leftover'
  <2>1. Rest(buffer) = SubSeq(buffer, P * d + 1, m)
    <3>1. Pixels(Len(buffer)) = d
      BY <1>9 DEF Pixels, P, d
    <3>2. d * P = P * d
      BY <1>1, <1>6
    <3> QED
      BY <3>1, <3>2, <1>9 DEF Rest, P
  <2>2. SubSeq(Numbered(P * q, m), P * d + 1, m) = Numbered(P * q + P * d, m - P * d)
    BY <1>3, <1>5, <1>6, Cut
  <2>3. m - P * d = (L + n) - P * (q + d)
    <3>1. P * d \in Nat
      BY <1>6, <1>5
    <3> QED
      BY <3>1, <1>2, <1>3, <1>7 DEF m
  <2>4. kept' = Numbered(P * (q + d), (L + n) - P * (q + d))
    BY <1>7, <1>9, <1>11, <2>1, <2>2, <2>3
  <2>5. Len(fed)' = L + n /\ mode.pixel' = P
    BY <1>8 DEF P
  <2> QED
    <3>1. InPixels' = P * (q + d)
      BY <1>12, <2>5 DEF InPixels
    <3>2. kept' = Numbered(InPixels', Len(fed') - InPixels')
      <4>1. Len(fed') - InPixels' = (L + n) - P * (q + d)
        BY <2>5, <3>1
      <4> QED
        BY <2>4, <3>1, <4>1, Zenon
    <3> QED
      BY <3>2 DEF Leftover
<1>22. aligned' = (aligned /\ n % P = 0)
  BY <1>13 DEF P
<1>23. Whole'
  <2> SUFFICES ASSUME aligned' PROVE (Len(fed) = InPixels)'
    BY DEF Whole
  <2>1. L + n = P * (q + d)
    BY <1>15, <1>22
  <2> QED
    BY <2>1, <1>8, <1>12 DEF InPixels, P
<1>24. PixelsWhole'
  <2> PICK k : k = q + d
    OBVIOUS
  <2> SUFFICES ASSUME P = 3 \/ aligned' PROVE RgbOf(k)'
    <3>1. (mode.pixel = 3)' <=> P = 3
      BY DEF P
    <3>2. Pixels(Len(fed))' = k
      BY <1>12
    <3>3. RgbOf(Pixels(Len(fed)))' <=> RgbOf(k)'
      BY <3>2, Zenon DEF RgbOf
    <3> QED
      BY <3>1, <3>3, Zenon DEF PixelsWhole
  <2>1. 3 * d <= Room(chunk)
    BY <1>16, <1>22
  <2>2. Smaller(3 * d, Room(chunk)) = 3 * d
    <3>1. \A x, y \in Nat : x <= y => Smaller(x, y) = x
      BY DEF Smaller
    <3>2. 3 * d \in Nat /\ Room(chunk) \in Nat
      BY <1>6, <1>16
    <3> QED
      BY <2>1, <3>1, <3>2, Zenon
  <2>3. SubSeq(target, 1, 3 * d) = target
    BY <1>10, SubSeqFull
  <2>4. output' = output \o target
    BY <1>11, <2>2, <2>3
  <2>5. RgbOf(q)
    BY <1>22 DEF RgbInv, PixelsWhole, q, L, P
  <2>6. /\ Len(output) = 3 * q
        /\ \A p \in 0 .. q - 1, c \in 1 .. 3 : output[3 * p + c] = p * P + mode.pos[c]
    BY <2>5 DEF RgbOf, P
  <2>7. /\ Len(output') = 3 * q + 3 * d
        /\ \A i \in 1 .. 3 * q + 3 * d :
             output'[i] = IF i <= 3 * q THEN output[i] ELSE target[i - 3 * q]
    <3>1. PICK s : s = output
      OBVIOUS
    <3>2. s \in Seq(Nat) /\ Len(s) = 3 * q /\ target \in Seq(Nat) /\ Len(target) = 3 * d
      BY <3>1, <2>6, <1>10, <1>2
    <3>3. /\ Len(s \o target) = 3 * q + 3 * d
          /\ \A i \in 1 .. 3 * q + 3 * d :
               (s \o target)[i] = IF i <= 3 * q THEN s[i] ELSE target[i - 3 * q]
      <4>1. /\ Len(s \o target) = Len(s) + Len(target)
            /\ \A i \in 1 .. Len(s) + Len(target) :
                 (s \o target)[i] = IF i <= Len(s) THEN s[i] ELSE target[i - Len(s)]
        BY <3>2, ConcatProperties, Zenon
      <4> QED
        BY <4>1, <3>2, Zenon
    <3> QED
      BY <3>1, <3>3, <2>4
  <2>10. q \in Nat /\ d \in Nat
    BY <1>3, <1>6
  <2>11. k \in Nat /\ k = q + d
    BY <2>10
  <2>8. ASSUME NEW p \in 0 .. k - 1, NEW c \in 1 .. 3, NEW i, i = 3 * p + c
        PROVE  output'[i] = p * P + mode.pos[c]
    <3>1. CASE p < q
      <4>1. i \in 1 .. 3 * q + 3 * d /\ i <= 3 * q
        BY <2>8, <3>1, <2>10, <2>11
      <4>2. output'[i] = output[i]
        BY <4>1, <2>7, Zenon
      <4>3. p \in 0 .. q - 1
        BY <3>1, <2>10, <2>11
      <4>4. output[i] = p * P + mode.pos[c]
        BY <4>3, <2>6, <2>8, Zenon
      <4> QED
        BY <4>2, <4>4
    <3>2. CASE q <= p
      <4>1. /\ i \in 1 .. 3 * q + 3 * d /\ ~(i <= 3 * q)
            /\ i - 3 * q = 3 * (p - q) + c /\ p - q \in 0 .. d - 1
        BY <2>8, <3>2, <2>10, <2>11
      <4>2. output'[i] = target[i - 3 * q]
        BY <4>1, <2>7, Zenon
      <4>3. target[3 * (p - q) + c] = P * q + (p - q) * P + mode.pos[c]
        BY <4>1, <1>10, Zenon
      <4>4. P * q + (p - q) * P = p * P
        BY <1>1, <2>10, <3>2
      <4>5. target[i - 3 * q] = P * q + (p - q) * P + mode.pos[c]
        BY <4>1, <4>3, Zenon
      <4> QED
        BY <4>2, <4>4, <4>5, Zenon
    <3> QED
      BY <3>1, <3>2, <2>10, <2>11
  <2>9. Len(output') = 3 * (q + d)
    BY <2>7, <1>3, <1>6
  <2> QED
    <3>1. Len(output') = 3 * k
      BY <2>9
    <3>2. \A p \in 0 .. k - 1, c \in 1 .. 3 : output'[3 * p + c] = p * P + mode.pos[c]
      BY <2>8, Zenon
    <3>3. RgbOf(k)' <=>
            /\ Len(output') = 3 * k
            /\ \A p \in 0 .. k - 1, c \in 1 .. 3 : output'[3 * p + c] = p * P + mode.pos[c]
      BY Zenon DEF RgbOf, P
    <3> QED
      BY <3>1, <3>2, <3>3
<1> QED
  BY <1>19, <1>20, <1>21, <1>23, <1>24 DEF RgbInv

\* Every step preserves RgbInv.
LEMMA StepRgb == RgbInv /\ [TransformNext]_transform => RgbInv'
<1> SUFFICES ASSUME RgbInv, [TransformNext]_transform PROVE RgbInv'
  OBVIOUS
<1>1. mode' = mode
  BY DEF TransformNext, Transforms, Flushes, transform
<1>2. CASE IsLine
  <2>1. IsLine'
    BY <1>1, <1>2 DEF IsLine
  <2> QED
    BY <2>1 DEF RgbInv, RgbMode, RgbSeqs, Leftover, Whole, PixelsWhole
<1>3. CASE ~IsLine /\ Transforms
  <2>1. Len(fed) \in Nat
    BY <1>3 DEF RgbInv, RgbSeqs
  <2>2. PICK n \in 1 .. MaxFrame - Len(fed) : \E chunk \in Inputs(n) :
          /\ fed' = fed \o chunk /\ RgbChunk(chunk)
          /\ aligned' = (aligned /\ Len(chunk) % mode.pixel = 0)
    BY <1>3 DEF Transforms
  <2>3. n \in Nat \ {0}
    BY <2>1, TransformsAssumption DEF TransformsAssumption
  <2>4. Inputs(n) = {Numbered(Len(fed), n)}
    BY <1>3 DEF Inputs, Numbered
  <2>5. PICK chunk : chunk = Numbered(Len(fed), n) /\ fed' = fed \o chunk /\ RgbChunk(chunk)
                     /\ aligned' = (aligned /\ Len(chunk) % mode.pixel = 0)
    BY <2>2, <2>4
  <2> QED
    BY <1>1, <1>3, <2>3, <2>5, ChunkStep
<1>4. CASE ~IsLine /\ (Flushes \/ UNCHANGED transform)
  <2>1. output \in Seq(Nat)
    BY <1>4 DEF RgbInv, RgbSeqs
  <2>2. output \o <<>> = output
    BY <2>1, ConcatEmptySeq
  <2>3. UNCHANGED <<mode, fed, kept, aligned, output>>
    BY <1>4, <2>2 DEF Flushes, transform
  <2> QED
    BY <2>3 DEF RgbInv, RgbMode, RgbSeqs, Leftover, Whole, PixelsWhole, InPixels, RgbOf, Pixels, IsLine
<1> QED
  BY <1>2, <1>3, <1>4 DEF TransformNext

\* Every whole pixel comes out, in order and as red, green, blue, for an input of
\* any length cut anywhere, if pixels have 3 bytes or the chunks end with a pixel
\* (RgbTransform._transform).
THEOREM PixelsComeOut == TransformSpec => []PixelsWhole
<1>1. RgbInv => PixelsWhole
  BY DEF RgbInv
<1> QED
  BY <1>1, InitRgb, StepRgb, PTL DEF TransformSpec

(***************************************************************************)
(* LineTransform.  Nth gives the position of a rank, so that what At reads *)
(* of two chunks joined is what it reads of each: the invariant compares   *)
(* the output with that of one chunk made of all that came.                *)
(***************************************************************************)
\* How many of some positions are not after p.
Rank(positions, p) == Cardinality({q \in positions : q <= p})

\* Every position has a rank of its own.
LEMMA Ranks ==
    ASSUME NEW n \in Nat, NEW P \in SUBSET (1 .. n)
    PROVE  /\ IsFiniteSet(P) /\ Cardinality(P) \in Nat
           /\ \A p \in P : Rank(P, p) \in 1 .. Cardinality(P)
           /\ \A p, q \in P : Rank(P, p) = Rank(P, q) => p = q
           /\ \A i \in 1 .. Cardinality(P) : Nth(P, i) \in P /\ Rank(P, Nth(P, i)) = i
<1> DEFINE Upto(p) == {q \in P : q <= p}
           rank == [p \in P |-> Rank(P, p)]
<1>1. IsFiniteSet(P) /\ Cardinality(P) \in Nat
  <2>1. IsFiniteSet(1 .. n)
    BY FS_Interval
  <2>2. IsFiniteSet(P)
    BY <2>1, FS_Subset
  <2> QED
    BY <2>2, FS_CardinalityType
<1>2. ASSUME NEW p \in P
      PROVE  IsFiniteSet(Upto(p)) /\ Rank(P, p) \in 1 .. Cardinality(P)
  <2>1. IsFiniteSet(Upto(p)) /\ Cardinality(Upto(p)) <= Cardinality(P)
    BY <1>1, FS_Subset
  <2>2. Cardinality(Upto(p)) \in Nat
    BY <2>1, FS_CardinalityType
  <2>3. Upto(p) # {}
    BY <1>2
  <2>4. Cardinality(Upto(p)) # 0
    BY <2>1, <2>3, FS_EmptySet
  <2>5. Rank(P, p) = Cardinality(Upto(p))
    BY DEF Rank
  <2> HIDE DEF Upto
  <2> QED
    BY <2>1, <2>2, <2>4, <2>5, <1>1
<1>3. ASSUME NEW p \in P, NEW q \in P, Rank(P, p) = Rank(P, q), p < q
      PROVE  FALSE
  <2>4. p \in Int /\ q \in Int
    OBVIOUS
  <2>1. Upto(p) \in SUBSET Upto(q)
    <3>1. \A x \in P : x <= p => x <= q
      BY <1>3, <2>4
    <3> QED
      BY <3>1
  <2>2. Cardinality(Upto(p)) = Cardinality(Upto(q))
    BY <1>3 DEF Rank
  <2>3. Upto(p) = Upto(q)
    BY <1>2, <2>1, <2>2, FS_Subset
  <2>5. q \in Upto(q) /\ q \notin Upto(p)
    BY <1>3, <2>4
  <2> QED
    BY <2>3, <2>5
<1>4. \A p, q \in P : Rank(P, p) = Rank(P, q) => p = q
  <2> SUFFICES ASSUME NEW p \in P, NEW q \in P, Rank(P, p) = Rank(P, q) PROVE p = q
    OBVIOUS
  <2>1. p < q \/ q < p \/ p = q
    OBVIOUS
  <2> QED
    BY <2>1, <1>3
<1>5. rank \in Injection(P, 1 .. Cardinality(P))
  <2>1. rank \in [P -> 1 .. Cardinality(P)]
    BY <1>2
  <2>2. \A p, q \in P : rank[p] = rank[q] => p = q
    BY <1>4
  <2> QED
    BY <2>1, <2>2, Fun_IsInj
<1>6. IsFiniteSet(1 .. Cardinality(P)) /\ Cardinality(1 .. Cardinality(P)) = Cardinality(P)
  BY <1>1, FS_Interval
<1>7. rank \in Surjection(P, 1 .. Cardinality(P))
  BY <1>5, <1>6, FS_Injection
<1>8. ASSUME NEW i \in 1 .. Cardinality(P)
      PROVE  Nth(P, i) \in P /\ Rank(P, Nth(P, i)) = i
  <2>1. PICK p \in P : Rank(P, p) = i
    <3>1. \E p \in P : rank[p] = i
      <4> HIDE DEF rank
      <4>1. \A j \in 1 .. Cardinality(P) : \E p \in P : rank[p] = j
        BY <1>7, Fun_SurjectionProperties, Zenon
      <4> QED
        BY <4>1
    <3> QED
      BY <3>1
  <2>2. Cardinality({q \in P : q <= p}) = i
    BY <2>1 DEF Rank
  <2>3. Nth(P, i) \in P /\ Cardinality({q \in P : q <= Nth(P, i)}) = i
    BY <2>2, Zenon DEF Nth
  <2> QED
    BY <2>3 DEF Rank
<1> QED
  BY <1>1, <1>2, <1>4, <1>8

\* The position of a rank.
LEMMA NthIs ==
    ASSUME NEW n \in Nat, NEW P \in SUBSET (1 .. n), NEW p \in P
    PROVE  Nth(P, Rank(P, p)) = p
BY Ranks

\* The bytes at some positions.
LEMMA AtType ==
    ASSUME NEW S, NEW s \in Seq(S), NEW P \in SUBSET (1 .. Len(s))
    PROVE  At(s, P) \in Seq(S) /\ Len(At(s, P)) = Cardinality(P)
<1>0. Len(s) \in Nat
  OBVIOUS
<1>1. Cardinality(P) \in Nat /\ \A i \in 1 .. Cardinality(P) : Nth(P, i) \in 1 .. Len(s)
  BY <1>0, Ranks
<1>2. \A i \in 1 .. Cardinality(P) : s[Nth(P, i)] \in S
  BY <1>1
<1>3. At(s, P) \in [1 .. Cardinality(P) -> S]
  BY <1>2 DEF At
<1> QED
  BY <1>1, <1>3 DEF At

\* Some positions after n others.
After(n, positions) == {n + q : q \in positions}

\* Adding the same to numbers does not change how many there are.
LEMMA ShiftedSize ==
    ASSUME NEW a \in Nat, NEW n \in Nat, NEW Q \in SUBSET (1 .. n)
    PROVE  /\ IsFiniteSet(After(a, Q))
           /\ Cardinality(After(a, Q)) = Cardinality(Q)
<1> DEFINE T == After(a, Q)
           f == [q \in Q |-> a + q]
<1>1. IsFiniteSet(Q)
  BY Ranks
<1>2. f \in Surjection(Q, T)
  BY Fun_IsSurj DEF After
<1>3. f \in Injection(Q, T)
  <2>1. f \in [Q -> T]
    BY DEF After
  <2>2. \A x, y \in Q : f[x] = f[y] => x = y
    <3> SUFFICES ASSUME NEW x \in Q, NEW y \in Q, f[x] = f[y] PROVE x = y
      OBVIOUS
    <3>1. x \in 1 .. n /\ y \in 1 .. n /\ a + x = a + y
      OBVIOUS
    <3> QED
      BY <3>1
  <2> HIDE DEF f, T
  <2> QED
    BY <2>1, <2>2, Fun_IsInj
<1> HIDE DEF f, T
<1>4. IsFiniteSet(T) /\ Cardinality(T) = Cardinality(Q)
  BY <1>1, <1>2, <1>3, FS_Surjection
<1> QED
  BY <1>4 DEF T

\* Positions of a sequence.
Within(S, s, positions) == s \in Seq(S) /\ positions \subseteq 1 .. Len(s)

\* The bytes of two sequences joined are those of the one, then those of the other.
LEMMA AtJoined ==
    ASSUME NEW S, NEW s, NEW t, NEW P, NEW Q, Within(S, s, P), Within(S, t, Q)
    PROVE  At(s \o t, P \cup After(Len(s), Q)) = At(s, P) \o At(t, Q)
<1> s \in Seq(S) /\ t \in Seq(S) /\ P \in SUBSET (1 .. Len(s)) /\ Q \in SUBSET (1 .. Len(t))
  BY DEF Within
<1> DEFINE a == Len(s)
           T == After(a, Q)
           R == P \cup T
           k == Cardinality(P)
           m == Cardinality(Q)
<1>1. a \in Nat /\ Len(t) \in Nat /\ Len(s \o t) = a + Len(t) /\ s \o t \in Seq(S)
  OBVIOUS
<1> HIDE DEF a
<1>2. P \in SUBSET (1 .. a) /\ a + Len(t) \in Nat /\ R \in SUBSET (1 .. a + Len(t))
  <2>1. \A p \in P : p \in 1 .. a /\ p \in 1 .. a + Len(t)
    BY <1>1 DEF a
  <2>2. \A q \in Q : a + q \in 1 .. a + Len(t)
    BY <1>1
  <2>3. \A x \in R : x \in 1 .. a + Len(t)
    BY <2>1, <2>2 DEF After
  <2>4. a + Len(t) \in Nat
    BY <1>1
  <2> QED
    BY <2>1, <2>3, <2>4, Zenon
<1>3. k \in Nat /\ m \in Nat /\ IsFiniteSet(P) /\ IsFiniteSet(Q)
  BY <1>1, <1>2, Ranks
<1>4. IsFiniteSet(T) /\ Cardinality(T) = m
  BY <1>1, ShiftedSize
<1>5. ASSUME NEW U \in SUBSET T, IsFiniteSet(U)
      PROVE  Cardinality(P \cup U) = k + Cardinality(U)
  <2>1. P \cap U = {}
    BY <1>1, <1>2 DEF After
  <2>2. Cardinality(P \cap U) = 0
    BY <2>1, FS_EmptySet
  <2>3. Cardinality(U) \in Nat
    BY <1>5, FS_CardinalityType
  <2>4. Cardinality(P \cup U) = k + Cardinality(U) - 0
    <3>1. Cardinality(P \cup U) = k + Cardinality(U) - Cardinality(P \cap U)
      BY <1>3, <1>5, FS_Union
    <3> QED
      BY <2>2, <3>1, Zenon
  <2> HIDE DEF k
  <2> QED
    BY <1>3, <2>3, <2>4
<1>6. Cardinality(R) = k + m
  BY <1>4, <1>5
<1>7. /\ At(s, P) \in Seq(S) /\ Len(At(s, P)) = k
      /\ At(t, Q) \in Seq(S) /\ Len(At(t, Q)) = m
      /\ At(s \o t, R) \in Seq(S) /\ Len(At(s \o t, R)) = k + m
  <2>1. R \in SUBSET (1 .. Len(s \o t))
    BY <1>1, <1>2
  <2> HIDE DEF R
  <2> QED
    BY <1>1, <1>6, <2>1, AtType
<1>8. ASSUME NEW i \in 1 .. k + m
      PROVE  At(s \o t, R)[i] = (At(s, P) \o At(t, Q))[i]
  <2>1. At(s \o t, R)[i] = (s \o t)[Nth(R, i)]
    BY <1>6 DEF At
  <2>2. CASE i <= k
    <3> DEFINE p == Nth(P, i)
    <3>1. i \in 1 .. k
      BY <1>3, <2>2
    <3>2. p \in P /\ Rank(P, p) = i
      BY <1>1, <1>2, <3>1, Ranks
    <3>3. {x \in R : x <= p} = {x \in P : x <= p}
      BY <1>1, <1>2, <3>2 DEF After
    <3>4. Rank(R, p) = i
      BY <3>2, <3>3 DEF Rank
    <3>5. Nth(R, i) = p
      <4>1. p \in R
        BY <3>2
      <4> HIDE DEF p, R
      <4> QED
        BY <4>1, <3>4, <1>2, NthIs
    <3>6. (s \o t)[p] = s[p]
      BY <1>2, <3>2 DEF a
    <3>7. (At(s, P) \o At(t, Q))[i] = At(s, P)[i]
      BY <1>7, <3>1
    <3> QED
      BY <2>1, <3>1, <3>5, <3>6, <3>7 DEF At
  <2>3. CASE k < i
    <3>1. PICK j : j = i - k
      OBVIOUS
    <3>2. j \in 1 .. m /\ i = k + j
      BY <1>3, <2>3, <3>1
    <3> DEFINE q == Nth(Q, j)
               Below == {x \in Q : x <= q}
               U == After(a, Below)
    <3>3. q \in Q /\ Rank(Q, q) = j
      BY <1>1, <3>2, Ranks
    <3>4. q \in 1 .. Len(t)
      BY <3>3
    <3> HIDE DEF q
    <3>5. {x \in R : x <= a + q} = P \cup U
      <4>1. \A x \in P : x <= a + q
        BY <1>1, <1>2, <3>4
      <4>2. \A x \in Q : a + x <= a + q <=> x <= q
        BY <1>1, <3>4
      <4> QED
        BY <4>1, <4>2 DEF After
    <3>6. Cardinality(Below) = j
      BY <3>3 DEF Rank
    <3>7. IsFiniteSet(U) /\ Cardinality(U) = j
      BY <1>1, <3>6, ShiftedSize
    <3>8. U \in SUBSET T
      BY DEF After
    <3>9. Rank(R, a + q) = i
      BY <1>5, <3>2, <3>5, <3>7, <3>8 DEF Rank
    <3>10. a + q \in R
      BY <3>3 DEF After
    <3>11. Nth(R, i) = a + q
      <4> HIDE DEF R
      <4> QED
        BY <1>2, <3>9, <3>10, NthIs
    <3>12. (s \o t)[a + q] = t[q]
      BY <1>1, <3>4 DEF a
    <3>13. (At(s, P) \o At(t, Q))[i] = At(t, Q)[j]
      <4>1. i \in 1 .. k + m /\ ~(i <= k) /\ i - k = j
        BY ONLY <1>3, <3>2
      <4>2. PICK x : x = At(s, P)
        OBVIOUS
      <4>3. PICK y : y = At(t, Q)
        OBVIOUS
      <4> HIDE DEF k, m
      <4>4. x \in Seq(S) /\ Len(x) = k /\ y \in Seq(S) /\ Len(y) = m
        BY ONLY <1>7, <4>2, <4>3
      <4>5. (x \o y)[i] = y[j]
        BY ONLY <4>1, <4>4, ConcatProperties, SMTT(30)
      <4> QED
        BY ONLY <4>2, <4>3, <4>5
    <3>14. At(t, Q)[j] = t[q]
      BY <3>2 DEF At, q
    <3> QED
      BY <2>1, <3>11, <3>12, <3>13, <3>14
  <2> QED
    <3>1. i <= k \/ k < i
      <4> HIDE DEF k, m
      <4> QED
        BY <1>3
    <3> QED
      BY <2>2, <2>3, <3>1, Zenon
<1> HIDE DEF R, k, m
<1>9. At(s \o t, R) = At(s, P) \o At(t, Q)
  <2>1. /\ At(s, P) \o At(t, Q) \in Seq(S)
        /\ Len(At(s, P) \o At(t, Q)) = k + m
    BY <1>7, <1>3
  <2> QED
    BY <1>7, <1>8, <2>1, SeqEqual
<1> QED
  BY <1>9 DEF R, a

\* What is read at some positions depends on the bytes there only.
LEMMA AtSame ==
    ASSUME NEW n \in Nat, NEW P \in SUBSET (1 .. n), NEW s, NEW t, \A p \in P : s[p] = t[p]
    PROVE  At(s, P) = At(t, P)
<1>1. \A i \in 1 .. Cardinality(P) : s[Nth(P, i)] = t[Nth(P, i)]
  BY Ranks
<1> QED
  BY <1>1 DEF At

\* The last byte after those at earlier positions.
LEMMA LastOne ==
    ASSUME NEW S, NEW s \in Seq(S), NEW n \in Nat, n = Len(s), n > 0,
           NEW P \in SUBSET (1 .. n - 1)
    PROVE  At(s, P \cup {n}) = At(s, P) \o <<s[n]>>
<1> DEFINE f == SubSeq(s, 1, n - 1)
           t == <<s[n]>>
<1>1. f \in Seq(S) /\ Len(f) = n - 1 /\ \A i \in 1 .. n - 1 : f[i] = s[i]
  OBVIOUS
<1>2. t \in Seq(S) /\ Len(t) = 1 /\ t[1] = s[n]
  OBVIOUS
<1> HIDE DEF f, t
<1>3. f \o t = s
  <2>1. f \o t \in Seq(S) /\ Len(f \o t) = n /\ \A i \in 1 .. n : (f \o t)[i] = s[i]
    <3>1. f \o t \in Seq(S) /\ Len(f \o t) = n
      <4>1. f \o t \in Seq(S) /\ Len(f \o t) = Len(f) + Len(t)
        BY <1>1, <1>2, ConcatProperties
      <4> QED
        BY <4>1, <1>1, <1>2
    <3>2. ASSUME NEW i \in 1 .. n PROVE (f \o t)[i] = s[i]
      <4>1. CASE i <= n - 1
        <5>1. (f \o t)[i] = f[i]
          BY <1>1, <1>2, <4>1
        <5> QED
          BY <1>1, <4>1, <5>1
      <4>2. CASE i = n
        <5>1. i \in 1 .. (n - 1) + 1 /\ ~(i <= n - 1) /\ i - (n - 1) = 1
          BY <4>2
        <5>2. (f \o t)[i] = t[1]
          BY <5>1, <1>1, <1>2, ConcatProperties, SMTT(30)
        <5> QED
          BY <1>2, <4>2, <5>2
      <4>3. i <= n - 1 \/ i = n
        OBVIOUS
      <4> QED
        BY <4>1, <4>2, <4>3
    <3> QED
      BY <3>1, <3>2
  <2> QED
    BY <2>1, SeqEqual
<1>4. After(Len(f), {1}) = {n}
  <2>1. Len(f) + 1 = n
    BY <1>1
  <2> QED
    BY <2>1 DEF After
<1>5. At(f \o t, P \cup After(Len(f), {1})) = At(f, P) \o At(t, {1})
  <2>1. P \in SUBSET (1 .. Len(f)) /\ {1} \in SUBSET (1 .. Len(t))
    BY <1>1, <1>2
  <2>2. f \in Seq(S) /\ t \in Seq(S)
    BY <1>1, <1>2
  <2>3. Within(S, f, P) /\ Within(S, t, {1})
    BY <2>1, <2>2 DEF Within
  <2> QED
    BY ONLY <2>3, AtJoined, SMTT(20)
<1>6. At(f, P) = At(s, P)
  <2>1. P \in SUBSET (1 .. n - 1) /\ n - 1 \in Nat /\ \A q \in P : f[q] = s[q]
    BY <1>1
  <2> QED
    BY <2>1, AtSame
<1>7. At(t, {1}) = <<s[n]>>
  <2>1. {1} \in SUBSET (1 .. 1) /\ 1 \in Nat
    OBVIOUS
  <2>2. Cardinality({1}) = 1 /\ \A i \in 1 .. 1 : Nth({1}, i) = 1
    <3>1. Cardinality({1}) = 1
      BY FS_Singleton
    <3>2. \A i \in 1 .. 1 : Nth({1}, i) \in {1}
      BY <2>1, <3>1, Ranks
    <3> QED
      BY <3>1, <3>2
  <2>3. At(t, {1}) = [i \in 1 .. 1 |-> s[n]]
    BY <2>2, <1>2 DEF At
  <2> QED
    BY <2>3
<1> QED
  BY <1>3, <1>4, <1>5, <1>6, <1>7

\* The bytes of a line, and the CR that a chunk starting with next releases.
Bytes == {"R", "N", "x"}
Held(w, next) == IF w[Len(w)] = "R" /\ next # "N" THEN {Len(w)} ELSE {}

\* Unfolding passes on what a chunk does, and the CR it ends with.
LEMMA Unfolds ==
    ASSUME NEW w \in Seq(Bytes), w # <<>>
    PROVE  Unfolded(w) = At(w, Passed(w)) \o Saved(w)
<1> DEFINE n == Len(w)
<1>1. n \in Nat /\ n > 0 /\ Last(w) = w[n]
  BY DEF Last
<1>2. Passed(w) \in SUBSET (1 .. n)
  BY DEF Passed
<1> DEFINE dropped == {i \in 1 .. n - 1 : w[i] = "R" /\ w[i + 1] = "N"}
<1>3. CASE w[n] = "R"
  <2>1. \A i \in 1 .. n : i \in (1 .. n) \ dropped <=> i \in Passed(w) \cup {n}
    BY <1>1, <1>3 DEF Passed
  <2>2. (1 .. n) \ dropped = Passed(w) \cup {n}
    BY <2>1, <1>1, <1>2
  <2>3. Passed(w) \in SUBSET (1 .. n - 1)
    BY <1>1, <1>3 DEF Passed
  <2>4. At(w, Passed(w) \cup {n}) = At(w, Passed(w)) \o <<w[n]>>
    BY <1>1, <2>3, LastOne
  <2> QED
    BY <1>1, <1>3, <2>2, <2>4 DEF Unfolded, Saved
<1>4. CASE w[n] # "R"
  <2>1. \A i \in 1 .. n : i \in (1 .. n) \ dropped <=> i \in Passed(w)
    BY <1>1, <1>4 DEF Passed
  <2>2. (1 .. n) \ dropped = Passed(w)
    BY <2>1, <1>1, <1>2
  <2>3. At(w, Passed(w)) \in Seq(Bytes)
    BY <1>2, AtType
  <2>4. At(w, Passed(w)) \o <<>> = At(w, Passed(w))
    BY <2>3, ConcatEmptySeq
  <2> QED
    BY <1>1, <1>4, <2>2, <2>4 DEF Unfolded, Saved
<1> QED
  BY <1>3, <1>4

\* Two chunks pass on what one made of both does, with the CR between them.
LEMMA PassesJoined ==
    ASSUME NEW w \in Seq(Bytes), NEW c \in Seq(Bytes), w # <<>>, c # <<>>
    PROVE  At(w \o c, Passed(w \o c))
             = At(w, Passed(w)) \o (IF Saved(w) # <<>> /\ c[1] # "N" THEN Saved(w) ELSE <<>>)
                 \o At(c, Passed(c))
<1> DEFINE n == Len(w)
           m == Len(c)
           E == Held(w, c[1])
           B == Passed(w) \cup E
<1>1. /\ n \in Nat /\ n > 0 /\ m \in Nat /\ m > 0 /\ Last(w) = w[n]
      /\ w \o c \in Seq(Bytes) /\ Len(w \o c) = n + m
  BY DEF Last
<1>2. /\ \A i \in 1 .. n : (w \o c)[i] = w[i]
      /\ \A j \in 1 .. m : (w \o c)[n + j] = c[j]
  OBVIOUS
<1>3. /\ Passed(w) \in SUBSET (1 .. n) /\ Passed(c) \in SUBSET (1 .. m)
      /\ B \in SUBSET (1 .. n)
  BY <1>1 DEF Passed, Held
<1> PICK v : v = w \o c
  OBVIOUS
<1>4. ASSUME NEW i \in 1 .. n PROVE i \in Passed(v) <=> i \in B
  <2>1. CASE i < n
    <3>1. v[i] = w[i] /\ v[i + 1] = w[i + 1] /\ i # Len(v) /\ i \in 1 .. Len(v)
      BY <1>1, <1>2, <2>1
    <3> QED
      BY <1>1, <2>1, <3>1 DEF Passed, Held
  <2>2. CASE i = n
    <3>1. v[n] = w[n] /\ v[n + 1] = c[1] /\ n # Len(v) /\ n \in 1 .. Len(v)
      BY <1>1, <1>2
    <3> QED
      BY <1>1, <2>2, <3>1 DEF Passed, Held
  <2> QED
    BY <2>1, <2>2, <1>1
<1>5. ASSUME NEW j \in 1 .. m PROVE n + j \in Passed(v) <=> j \in Passed(c)
  <2>1. v[n + j] = c[j] /\ n + j \in 1 .. Len(v)
    BY <1>1, <1>2
  <2>2. CASE j < m
    <3>1. v[n + (j + 1)] = c[j + 1] /\ n + j + 1 = n + (j + 1) /\ n + j # Len(v)
      BY <1>1, <1>2, <2>2
    <3> QED
      BY <2>1, <2>2, <3>1 DEF Passed
  <2>3. CASE j = m
    <3>1. n + j = Len(v)
      BY <1>1, <2>3
    <3> QED
      BY <2>1, <2>3, <3>1 DEF Passed
  <2> QED
    BY <2>2, <2>3, <1>1
<1>6. Passed(v) = B \cup After(n, Passed(c))
  <2>1. ASSUME NEW i \in Passed(v) PROVE i \in B \cup After(n, Passed(c))
    <3>1. i \in 1 .. n + m
      BY <1>1 DEF Passed
    <3>2. CASE i <= n
      BY <1>4, <3>1, <3>2
    <3>3. CASE n < i
      <4>1. i - n \in 1 .. m /\ i = n + (i - n)
        BY <1>1, <3>1, <3>3
      <4>2. i - n \in Passed(c)
        BY <1>5, <4>1
      <4> QED
        BY <4>1, <4>2 DEF After
    <3> QED
      BY <3>1, <3>2, <3>3, <1>1
  <2>2. B \subseteq Passed(v)
    BY <1>3, <1>4
  <2>3. \A q \in Passed(c) : n + q \in Passed(v)
    BY <1>3, <1>5
  <2> HIDE DEF B
  <2> QED
    BY <2>1, <2>2, <2>3 DEF After
<1>7. At(v, Passed(v)) = At(w, B) \o At(c, Passed(c))
  <2> HIDE DEF B
  <2> QED
    <3>1. Within(Bytes, w, B) /\ Within(Bytes, c, Passed(c))
      BY <1>3 DEF Within
    <3>2. At(w \o c, B \cup After(Len(w), Passed(c))) = At(w, B) \o At(c, Passed(c))
      BY ONLY <3>1, AtJoined, SMTT(20)
    <3> QED
      BY <1>6, <3>2
<1>8. At(w, B) = At(w, Passed(w)) \o (IF Saved(w) # <<>> /\ c[1] # "N" THEN Saved(w) ELSE <<>>)
  <2>1. CASE w[n] = "R" /\ c[1] # "N"
    <3>1. Passed(w) \in SUBSET (1 .. n - 1)
      BY <1>1, <2>1 DEF Passed
    <3>2. B = Passed(w) \cup {n}
      BY <2>1 DEF Held
    <3>3. Saved(w) = <<w[n]>> /\ Saved(w) # <<>>
      BY <1>1, <2>1 DEF Saved
    <3>4. At(w, Passed(w) \cup {n}) = At(w, Passed(w)) \o <<w[n]>>
      BY <1>1, <3>1, LastOne
    <3> QED
      BY <2>1, <3>2, <3>3, <3>4
  <2>2. CASE ~(w[n] = "R" /\ c[1] # "N")
    <3>1. B = Passed(w)
      BY <2>2 DEF Held
    <3>2. ~(Saved(w) # <<>> /\ c[1] # "N")
      BY <1>1, <2>2 DEF Saved
    <3>3. At(w, Passed(w)) \in Seq(Bytes)
      BY <1>3, AtType
    <3>4. At(w, Passed(w)) \o <<>> = At(w, Passed(w))
      BY <3>3, ConcatEmptySeq
    <3> QED
      BY <3>1, <3>2, <3>4
  <2> QED
    BY <2>1, <2>2
<1> QED
  BY <1>7, <1>8

\* All but the first L bytes.
LEMMA Suffix ==
    ASSUME NEW S, NEW s \in Seq(S), NEW L \in Nat
    PROVE  /\ SubSeq(s, L + 1, Len(s)) \in Seq(S)
           /\ Len(SubSeq(s, L + 1, Len(s))) = IF L <= Len(s) THEN Len(s) - L ELSE 0
           /\ \A i \in 1 .. IF L <= Len(s) THEN Len(s) - L ELSE 0 :
                SubSeq(s, L + 1, Len(s))[i] = s[L + i]
<1> PICK n : n = Len(s)
  OBVIOUS
<1>1. n \in Nat /\ L + 1 \in Int /\ \A i \in L + 1 .. n : s[i] \in S
  OBVIOUS
<1>2. /\ SubSeq(s, L + 1, n) \in Seq(S)
      /\ Len(SubSeq(s, L + 1, n)) = IF L + 1 <= n THEN n - (L + 1) + 1 ELSE 0
      /\ \A i \in 1 .. n - (L + 1) + 1 : SubSeq(s, L + 1, n)[i] = s[(L + 1) + i - 1]
  BY <1>1, SubSeqProperties
<1>3. (IF L + 1 <= n THEN n - (L + 1) + 1 ELSE 0) = IF L <= n THEN n - L ELSE 0
  BY <1>1
<1>4. ASSUME NEW i \in 1 .. IF L <= n THEN n - L ELSE 0
      PROVE  SubSeq(s, L + 1, n)[i] = s[L + i]
  <2>1. i \in 1 .. n - (L + 1) + 1 /\ (L + 1) + i - 1 = L + i
    BY <1>1
  <2> QED
    BY <1>2, <2>1
<1> QED
  BY <1>2, <1>3, <1>4

\* What is left of a chunk when the first L of all bytes are not needed.
LEMMA RestJoined ==
    ASSUME NEW S, NEW f \in Seq(S), NEW c \in Seq(S), NEW L \in Nat, NEW d \in Nat,
           d = IF L <= Len(f) THEN 0 ELSE L - Len(f)
    PROVE  SubSeq(f \o c, L + 1, Len(f \o c))
             = SubSeq(f, L + 1, Len(f)) \o SubSeq(c, d + 1, Len(c))
<1>10. PICK n : n = Len(f)
  OBVIOUS
<1>11. PICK m : m = Len(c)
  OBVIOUS
<1>12. PICK fc : fc = f \o c
  OBVIOUS
<1>13. PICK l : l = SubSeq(fc, L + 1, Len(fc))
  OBVIOUS
<1>14. PICK a : a = SubSeq(f, L + 1, Len(f))
  OBVIOUS
<1>15. PICK b : b = SubSeq(c, d + 1, Len(c))
  OBVIOUS
<1>16. PICK na : na = IF L <= n THEN n - L ELSE 0
  OBVIOUS
<1>17. PICK nb : nb = IF d <= m THEN m - d ELSE 0
  OBVIOUS
<1>1. n \in Nat /\ m \in Nat /\ d = IF L <= n THEN 0 ELSE L - n
  BY <1>10, <1>11
<1>2. /\ fc \in Seq(S) /\ Len(fc) = n + m
      /\ \A i \in 1 .. n + m : fc[i] = IF i <= n THEN f[i] ELSE c[i - n]
  BY <1>10, <1>11, <1>12, ConcatProperties
<1>3. a \in Seq(S) /\ Len(a) = na /\ \A i \in 1 .. na : a[i] = f[L + i]
  BY <1>10, <1>14, <1>16, Suffix
<1>4. b \in Seq(S) /\ Len(b) = nb /\ \A i \in 1 .. nb : b[i] = c[d + i]
  BY ONLY <1>11, <1>15, <1>17, c \in Seq(S), d \in Nat, Suffix
<1>5. na \in Nat /\ nb \in Nat /\ na + nb = IF L <= n + m THEN n + m - L ELSE 0
  <2>1. CASE L <= n
    <3>1. d = 0 /\ na = n - L /\ nb = m /\ L <= n + m
      BY ONLY <2>1, <1>1, <1>16, <1>17, L \in Nat, d \in Nat
    <3> QED
      BY ONLY <2>1, <3>1, <1>1, L \in Nat
  <2>2. CASE n < L
    <3>1. d = L - n /\ na = 0 /\ nb = IF d <= m THEN m - d ELSE 0
      BY ONLY <2>2, <1>1, <1>16, <1>17, L \in Nat, d \in Nat
    <3> QED
      BY ONLY <2>2, <3>1, <1>1, L \in Nat
  <2> QED
    BY ONLY <2>1, <2>2, <1>1, L \in Nat
<1>6. l \in Seq(S) /\ Len(l) = na + nb /\ \A i \in 1 .. na + nb : l[i] = fc[L + i]
  <2>1. /\ l \in Seq(S) /\ Len(l) = IF L <= Len(fc) THEN Len(fc) - L ELSE 0
        /\ \A i \in 1 .. IF L <= Len(fc) THEN Len(fc) - L ELSE 0 : l[i] = fc[L + i]
    BY <1>2, <1>13, Suffix
  <2>2. (IF L <= Len(fc) THEN Len(fc) - L ELSE 0) = na + nb
    BY ONLY <1>2, <1>5, <1>1
  <2> QED
    BY ONLY <2>1, <2>2
<1>7. /\ a \o b \in Seq(S) /\ Len(a \o b) = na + nb
      /\ \A i \in 1 .. na + nb : (a \o b)[i] = IF i <= na THEN a[i] ELSE b[i - na]
  <2>1. a \in Seq(S) /\ b \in Seq(S)
    BY ONLY <1>3, <1>4
  <2>2. /\ a \o b \in Seq(S) /\ Len(a \o b) = Len(a) + Len(b)
        /\ \A i \in 1 .. Len(a) + Len(b) :
              (a \o b)[i] = IF i <= Len(a) THEN a[i] ELSE b[i - Len(a)]
    BY ONLY <2>1, ConcatProperties, ZenonT(30)
  <2> QED
    BY ONLY <1>3, <1>4, <2>2, Zenon
<1>8. ASSUME NEW i \in 1 .. na + nb PROVE l[i] = (a \o b)[i]
  <2>1. CASE i <= na
    <3>1. i \in 1 .. na /\ L + i \in 1 .. n + m /\ L + i <= n
      BY ONLY <2>1, <1>1, <1>5, <1>8, <1>16, L \in Nat
    <3> QED
      BY ONLY <3>1, <2>1, <1>8, <1>2, <1>3, <1>6, <1>7
  <2>2. CASE na < i
    <3>1. i - na \in 1 .. nb /\ ~(i <= na)
      BY ONLY <2>2, <1>5, <1>8
    <3>2. L + i \in 1 .. n + m /\ ~(L + i <= n) /\ L + i - n = d + (i - na)
      BY ONLY <2>2, <1>1, <1>5, <1>8, <1>16, L \in Nat, d \in Nat
    <3>3. (a \o b)[i] = c[d + (i - na)]
      BY ONLY <1>8, <3>1, <1>4, <1>7
    <3>4. l[i] = c[L + i - n]
      <4>1. l[i] = fc[L + i]
        BY ONLY <1>8, <1>6
      <4>2. fc[L + i] = c[L + i - n]
        BY ONLY <3>2, <1>2, <1>1
      <4> QED
        BY ONLY <4>1, <4>2
    <3> QED
      BY <3>2, <3>3, <3>4
  <2>3. i <= na \/ na < i
    BY <1>5
  <2> QED
    BY <2>1, <2>2, <2>3, Zenon
<1>9. l = a \o b
  BY ONLY <1>6, <1>7, <1>8, SeqEqual
<1> QED
  BY <1>9, <1>12, <1>13, <1>14, <1>15

\* LineMode: the modes and inputs of a LineTransform.  Skipping: the skipBytes
\* that are left of the bytes autoDetect takes off, and what it found.  Passing:
\* what was pushed of the lines after them, and the CR that waits.
Lost == IF mode.auto /\ fed # <<>> THEN (IF fed[1] = "N" THEN 1 ELSE 2) ELSE 0
InLines == SubSeq(fed, Lost + 1, Len(fed))
LineMode == IsLine => mode.auto \in BOOLEAN /\ fed \in Seq(Bytes)
Skipping ==
    IsLine => /\ detect <=> mode.auto /\ fed = <<>>
              /\ ~detect => skip = IF Lost <= Len(fed) THEN 0 ELSE Lost - Len(fed)
              /\ needed <=> ~(mode.auto /\ fed # <<>> /\ fed[1] = "N")
Passing ==
    IsLine => /\ kept = IF ~needed \/ InLines = <<>> THEN <<>> ELSE Saved(InLines)
              /\ output = (IF needed THEN At(InLines, Passed(InLines)) ELSE InLines)
                          \o (IF flushed THEN kept ELSE <<>>)
LineInv == LineMode /\ Skipping /\ Passing

\* What the lines after the lost bytes are made of.
LEMMA LinesType ==
    ASSUME LineMode, IsLine
    PROVE  /\ Lost \in Nat /\ InLines \in Seq(Bytes)
           /\ At(InLines, Passed(InLines)) \in Seq(Bytes)
           /\ InLines = <<>> => At(InLines, Passed(InLines)) = <<>>
           /\ InLines # <<>> => Saved(InLines) \in {<<>>, <<"R">>}
<1>1. fed \in Seq(Bytes) /\ Lost \in Nat
  BY DEF LineMode, Lost
<1>2. InLines \in Seq(Bytes)
  BY <1>1, Suffix DEF InLines
<1>3. Passed(InLines) \in SUBSET (1 .. Len(InLines))
  BY DEF Passed
<1>4. At(InLines, Passed(InLines)) \in Seq(Bytes)
  BY <1>2, <1>3, AtType
<1>5. ASSUME InLines = <<>> PROVE At(InLines, Passed(InLines)) = <<>>
  <2>1. Passed(InLines) = {}
    BY <1>5 DEF Passed
  <2>2. Len(At(InLines, Passed(InLines))) = 0
    BY <1>2, <1>3, <2>1, AtType, FS_EmptySet
  <2> QED
    BY <1>4, <2>2, EmptySeq
<1> QED
  BY <1>1, <1>2, <1>4, <1>5 DEF Saved

\* LineInv gives the whole lines.
LEMMA LineWhole == LineInv => LinesWhole
<1> SUFFICES ASSUME LineInv, IsLine
             PROVE  /\ output \o (IF flushed THEN <<>> ELSE kept) = WholeLines
                    /\ kept \in {<<>>, <<"R">>}
  BY DEF LinesWhole
<1>1. /\ LineMode /\ fed \in Seq(Bytes) /\ mode.auto \in BOOLEAN
      /\ needed <=> ~(mode.auto /\ fed # <<>> /\ fed[1] = "N")
      /\ kept = IF ~needed \/ InLines = <<>> THEN <<>> ELSE Saved(InLines)
  BY DEF LineInv, LineMode, Skipping, Passing
<1> PICK whole : whole = IF needed THEN At(InLines, Passed(InLines)) ELSE InLines
  OBVIOUS
<1>2. output = whole \o (IF flushed THEN kept ELSE <<>>)
  BY DEF LineInv, Passing
<1>3. kept \in {<<>>, <<"R">>} /\ kept \in Seq(Bytes) /\ whole \in Seq(Bytes)
  <2>1. <<>> \in Seq(Bytes) /\ <<"R">> \in Seq(Bytes)
    BY DEF Bytes
  <2>2. kept \in {<<>>, <<"R">>} /\ whole \in Seq(Bytes)
    BY <1>1, LinesType
  <2> QED
    BY <2>1, <2>2
<1>4. output \o (IF flushed THEN <<>> ELSE kept) = whole \o kept
  <2>1. CASE flushed
    <3>1. whole \o kept \in Seq(Bytes)
      BY <1>3
    <3>2. (whole \o kept) \o <<>> = whole \o kept
      BY <3>1, ConcatEmptySeq
    <3> QED
      BY <1>2, <2>1, <3>2
  <2>2. CASE ~flushed
    <3>1. whole \o <<>> = whole
      BY <1>3, ConcatEmptySeq
    <3> QED
      BY <1>2, <2>2, <3>1
  <2> QED
    BY <2>1, <2>2
<1>5. CASE needed
  <2>1. WholeLines = Unfolded(InLines)
    <3>1. CASE mode.auto /\ fed # <<>>
      BY <1>1, <1>5, <3>1 DEF WholeLines, InLines, Lost
    <3>2. CASE ~(mode.auto /\ fed # <<>>)
      <4>1. InLines = fed
        BY <1>1, <3>2, SubSeqFull DEF InLines, Lost
      <4> QED
        BY <3>2, <4>1 DEF WholeLines
    <3> QED
      BY <3>1, <3>2
  <2>2. Unfolded(InLines) = whole \o kept
    <3>1. CASE InLines = <<>>
      <4>1. whole = <<>> /\ kept = <<>>
        BY <1>1, <1>5, <3>1, LinesType
      <4>2. whole \o kept = <<>>
        BY <4>1
      <4>3. \A d : (1 .. Len(<<>>)) \ d = {}
        OBVIOUS
      <4>4. Unfolded(InLines) = At(<<>>, {})
        BY <3>1, <4>3 DEF Unfolded
      <4>5. Passed(<<>>) = {}
        BY DEF Passed
      <4> QED
        BY <1>1, <3>1, <4>2, <4>4, <4>5, LinesType
    <3>2. CASE InLines # <<>>
      BY <1>1, <1>5, <3>2, LinesType, Unfolds
    <3> QED
      BY <3>1, <3>2
  <2> QED
    BY <1>3, <1>4, <2>1, <2>2
<1>6. CASE ~needed
  <2>1. mode.auto /\ fed # <<>> /\ fed[1] = "N"
    BY <1>1, <1>6
  <2>2. WholeLines = Tail(fed) /\ InLines = SubSeq(fed, 2, Len(fed))
    BY <2>1 DEF WholeLines, InLines, Lost
  <2>3. whole \o kept = InLines
    BY <1>1, <1>3, <1>6, ConcatEmptySeq
  <2> QED
    BY <1>1, <1>3, <1>4, <2>1, <2>2, <2>3, TailIsSubSeq
<1> QED
  BY <1>5, <1>6

\* A new transform satisfies LineInv.
LEMMA InitLine == TransformInit => LineInv
<1> SUFFICES ASSUME TransformInit, IsLine PROVE LineInv
  <2>1. ~IsLine => LineMode /\ Skipping /\ Passing
    BY DEF LineMode, Skipping, Passing
  <2> QED
    BY <2>1 DEF LineInv
<1>1. mode = Line(FALSE) \/ mode = Line(TRUE)
  <2>1. \A b, x, y, z \in Nat : Rgb(b, x, y, z).kind # "line"
    BY DEF Rgb
  <2>2. mode \in Modes /\ mode.kind = "line"
    BY DEF TransformInit, IsLine
  <2> QED
    BY <2>1, <2>2 DEF Modes
<1>2. mode.auto \in BOOLEAN /\ (mode = Line(TRUE) <=> mode.auto)
  <2>1. \A b \in BOOLEAN : Line(b).auto = b
    BY DEF Line
  <2>2. Line(FALSE) # Line(TRUE)
    <3>1. Line(FALSE).auto = FALSE /\ Line(TRUE).auto = TRUE
      BY <2>1
    <3> QED
      BY <3>1
  <2> QED
    BY <1>1, <2>1, <2>2
<1>3. /\ fed = <<>> /\ kept = <<>> /\ skip = 0 /\ needed = TRUE /\ output = <<>>
      /\ (detect <=> mode.auto) /\ Lost = 0 /\ ~flushed
  BY <1>2 DEF TransformInit, Lost
<1>4. LineMode
  BY <1>2, <1>3 DEF LineMode
<1>5. Skipping
  BY <1>3 DEF Skipping
<1>6. InLines = <<>>
  BY <1>3 DEF InLines
<1>7. At(InLines, Passed(InLines)) = <<>>
  BY <1>4, <1>6, LinesType
<1>8. Passing
  BY <1>3, <1>6, <1>7 DEF Passing
<1> QED
  BY <1>4, <1>5, <1>8 DEF LineInv

\* A chunk adds to the lines what is not skipped of it.
LEMMA Feeds ==
    ASSUME LineInv, IsLine, NEW chunk \in Seq(Bytes), chunk # <<>>,
           fed' = fed \o chunk, mode' = mode, detect' = FALSE, needed' = Needed(chunk),
           NEW n, n = Smaller(Len(chunk), Skips(chunk)), skip' = Skips(chunk) - n
    PROVE  /\ LineMode' /\ Skipping'
           /\ SubSeq(chunk, n + 1, Len(chunk)) \in Seq(Bytes)
           /\ InLines' = InLines \o SubSeq(chunk, n + 1, Len(chunk))
           /\ ~(needed <=> needed') => InLines = <<>> /\ needed
<1>1. /\ mode.auto \in BOOLEAN /\ fed \in Seq(Bytes) /\ Len(fed) \in Nat
      /\ Len(chunk) \in Nat /\ Len(chunk) > 0
      /\ detect <=> mode.auto /\ fed = <<>>
      /\ ~detect => skip = IF Lost <= Len(fed) THEN 0 ELSE Lost - Len(fed)
      /\ needed <=> ~(mode.auto /\ fed # <<>> /\ fed[1] = "N")
  BY DEF LineInv, LineMode, Skipping
<1>2. /\ fed' \in Seq(Bytes) /\ fed' # <<>> /\ Len(fed') = Len(fed) + Len(chunk)
      /\ fed # <<>> => fed'[1] = fed[1]
      /\ fed = <<>> => fed'[1] = chunk[1]
  <2>1. fed \o chunk \in Seq(Bytes) /\ Len(fed \o chunk) = Len(fed) + Len(chunk)
    BY <1>1
  <2>2. ASSUME fed # <<>> PROVE (fed \o chunk)[1] = fed[1]
    BY <1>1, <2>2
  <2>3. ASSUME fed = <<>> PROVE (fed \o chunk)[1] = chunk[1]
    BY <1>1, <2>3
  <2>4. fed \o chunk # <<>>
    BY <1>1, <2>1
  <2> QED
    BY <2>1, <2>2, <2>3, <2>4
<1>3. Lost \in Nat /\ Lost' = (IF mode.auto THEN (IF fed'[1] = "N" THEN 1 ELSE 2) ELSE 0)
  BY <1>2 DEF Lost
<1> PICK d : d = Skips(chunk)
  OBVIOUS
<1> PICK l : l = Lost'
  OBVIOUS
<1>4. l \in Nat /\ d \in Nat /\ d = IF l <= Len(fed) THEN 0 ELSE l - Len(fed)
  <2>1. CASE detect
    BY <1>1, <1>2, <1>3, <2>1 DEF Skips
  <2>2. CASE ~detect
    <3>1. l = Lost
      BY <1>1, <1>2, <1>3, <2>2 DEF Lost
    <3> QED
      BY <1>1, <1>3, <2>2, <3>1 DEF Skips
  <2> QED
    BY <2>1, <2>2
<1>5. n = IF Len(chunk) < d THEN Len(chunk) ELSE d
  BY DEF Smaller
<1>6. SubSeq(chunk, n + 1, Len(chunk)) = SubSeq(chunk, d + 1, Len(chunk))
  <2>1. CASE Len(chunk) < d
    <3>1. n + 1 \in Int /\ d + 1 \in Int /\ Len(chunk) < n + 1 /\ Len(chunk) < d + 1
      BY <1>1, <1>4, <1>5, <2>1
    <3> QED
      BY <1>1, <3>1, SubSeqEmpty
  <2>2. CASE ~(Len(chunk) < d)
    BY <1>5, <2>2
  <2> QED
    BY <2>1, <2>2
<1>7. SubSeq(fed, l + 1, Len(fed)) = InLines
  <2>1. CASE detect
    <3>1. fed = <<>> /\ l \in Nat /\ Lost \in Nat
      BY <1>1, <1>3, <1>4, <2>1
    <3> QED
      <4>1. SubSeq(<<>>, l + 1, 0) = <<>> /\ SubSeq(<<>>, Lost + 1, 0) = <<>>
        BY <3>1, SubSeqEmpty
      <4>2. Len(fed) = 0
        BY <3>1
      <4> QED
        BY <3>1, <4>1, <4>2 DEF InLines
  <2>2. CASE ~detect
    <3>1. l = Lost
      BY <1>1, <1>2, <1>3, <2>2 DEF Lost
    <3> QED
      BY <3>1 DEF InLines
  <2> QED
    BY <2>1, <2>2
<1>8. InLines' = InLines \o SubSeq(chunk, n + 1, Len(chunk))
  <2>1. SubSeq(fed \o chunk, l + 1, Len(fed \o chunk))
          = SubSeq(fed, l + 1, Len(fed)) \o SubSeq(chunk, d + 1, Len(chunk))
    <3>1. PICK f : f = fed
      OBVIOUS
    <3>2. f \in Seq(Bytes) /\ d = IF l <= Len(f) THEN 0 ELSE l - Len(f)
      BY <1>1, <1>4, <3>1
    <3>3. SubSeq(f \o chunk, l + 1, Len(f \o chunk))
            = SubSeq(f, l + 1, Len(f)) \o SubSeq(chunk, d + 1, Len(chunk))
      BY ONLY <3>2, <1>4, chunk \in Seq(Bytes), RestJoined, ZenonT(40)
    <3> QED
      BY <3>1, <3>3
  <2>2. InLines' = SubSeq(fed \o chunk, l + 1, Len(fed \o chunk))
    BY DEF InLines
  <2> QED
    BY <1>6, <1>7, <2>1, <2>2
<1>9. SubSeq(chunk, n + 1, Len(chunk)) \in Seq(Bytes)
  BY <1>4, <1>6, Suffix
<1>10. LineMode'
  BY <1>1, <1>2 DEF LineMode
<1>11. Skipping'
  <2>1. skip' = IF l <= Len(fed') THEN 0 ELSE l - Len(fed')
    <3>1. skip' = d - n
      OBVIOUS
    <3>2. Len(fed') = Len(fed) + Len(chunk)
      BY <1>2
    <3> QED
      BY <3>1, <3>2, <1>1, <1>4, <1>5
  <2>2. needed' <=> ~(mode.auto /\ fed' # <<>> /\ fed'[1] = "N")
    BY <1>1, <1>2 DEF Needed
  <2> QED
    BY <1>2, <2>1, <2>2 DEF Skipping, IsLine
<1>12. ASSUME ~(needed <=> needed') PROVE InLines = <<>> /\ needed
  <2>1. needed /\ detect
    BY <1>1, <1>12 DEF Needed
  <2>2. fed = <<>> /\ Lost \in Nat
    BY <1>1, <1>3, <2>1
  <2> QED
    BY <2>1, <2>2 DEF InLines
<1> QED
  BY <1>8, <1>9, <1>10, <1>11, <1>12

\* A chunk preserves LineInv.
LEMMA LineStep ==
    ASSUME LineInv, IsLine, NEW chunk \in Seq(Bytes), chunk # <<>>, ~flushed,
           fed' = fed \o chunk, mode' = mode, flushed' = flushed, LineChunk(chunk)
    PROVE  LineInv'
<1>1. PICK n : n = Smaller(Len(chunk), Skips(chunk))
  OBVIOUS
<1>2. PICK rest : rest = SubSeq(chunk, n + 1, Len(chunk))
  OBVIOUS
<1>3. /\ detect' = FALSE /\ needed' = Needed(chunk) /\ skip' = Skips(chunk) - n
      /\ IF rest = <<>> THEN UNCHANGED <<kept, output>>
         ELSE IF ~needed' THEN output' = output \o rest /\ UNCHANGED kept
         ELSE /\ output' = output \o Resumed(rest) \o At(rest, Passed(rest))
              /\ kept' = Saved(rest)
  BY <1>1, <1>2 DEF LineChunk
<1>4. /\ LineMode' /\ Skipping' /\ rest \in Seq(Bytes) /\ InLines' = InLines \o rest
      /\ ~(needed <=> needed') => InLines = <<>> /\ needed
  BY <1>1, <1>2, <1>3, Feeds
<1>5. /\ InLines \in Seq(Bytes) /\ At(InLines, Passed(InLines)) \in Seq(Bytes)
      /\ InLines = <<>> => At(InLines, Passed(InLines)) = <<>>
  BY LinesType DEF LineInv
<1> PICK w : w = InLines
  OBVIOUS
<1>6. /\ kept = IF ~needed \/ w = <<>> THEN <<>> ELSE Saved(w)
      /\ output = IF needed THEN At(w, Passed(w)) ELSE w
  <2>1. output = (IF needed THEN At(w, Passed(w)) ELSE w) \o <<>>
    BY DEF LineInv, Passing
  <2>2. (IF needed THEN At(w, Passed(w)) ELSE w) \in Seq(Bytes)
    BY <1>5
  <2>3. output = IF needed THEN At(w, Passed(w)) ELSE w
    BY <2>1, <2>2, ConcatEmptySeq
  <2> QED
    BY <2>3 DEF LineInv, Passing
<1> PICK v : v = w \o rest
  OBVIOUS
<1>7. /\ kept' = IF ~needed' \/ v = <<>> THEN <<>> ELSE Saved(v)
      /\ output' = IF needed' THEN At(v, Passed(v)) ELSE v
  <2>1. CASE rest = <<>>
    <3>1. v = w
      BY <1>4, <1>5, <2>1, ConcatEmptySeq
    <3> QED
      BY <1>3, <1>4, <1>5, <1>6, <2>1, <3>1
  <2>2. CASE rest # <<>> /\ ~needed'
    <3>1. output = w /\ kept = <<>>
      BY <1>4, <1>5, <1>6, <2>2
    <3> QED
      BY <1>3, <2>2, <3>1
  <2>3. CASE rest # <<>> /\ needed' /\ w = <<>>
    <3>1. needed /\ kept = <<>> /\ output = <<>> /\ Resumed(rest) = <<>>
      BY <1>4, <1>5, <1>6, <2>3 DEF Resumed
    <3>2. v = rest
      BY <1>4, <2>3, ConcatEmptySeq
    <3>3. At(rest, Passed(rest)) \in Seq(Bytes)
      BY <1>4, AtType DEF Passed
    <3>4. (<<>> \o <<>>) \o At(rest, Passed(rest)) = At(rest, Passed(rest))
      BY <3>3, ConcatEmptySeq
    <3> QED
      BY <1>3, <2>3, <3>1, <3>2, <3>4
  <2>4. CASE rest # <<>> /\ needed' /\ w # <<>>
    <3>1. needed /\ kept = Saved(w) /\ output = At(w, Passed(w))
      BY <1>4, <1>6, <2>4
    <3>2. Resumed(rest) = IF Saved(w) # <<>> /\ rest[1] # "N" THEN Saved(w) ELSE <<>>
      BY <3>1 DEF Resumed
    <3>3. At(v, Passed(v)) = At(w, Passed(w)) \o Resumed(rest) \o At(rest, Passed(rest))
      BY <1>4, <1>5, <2>4, <3>2, PassesJoined
    <3>4. Saved(v) = Saved(rest) /\ v # <<>>
      <4>1. Len(v) = Len(w) + Len(rest) /\ Len(w) \in Nat /\ Len(rest) \in Nat /\ Len(rest) > 0
        BY <1>4, <1>5, <2>4
      <4>2. v[Len(v)] = rest[Len(rest)] /\ v # <<>>
        BY <1>4, <1>5, <2>4, <4>1
      <4> QED
        BY <4>2 DEF Saved, Last
    <3> QED
      BY <1>3, <2>4, <3>1, <3>3, <3>4
  <2> QED
    BY <2>1, <2>2, <2>3, <2>4
<1>8. Passing'
  <2>1. v = InLines'
    BY <1>4
  <2>2. (IF needed' THEN At(v, Passed(v)) ELSE v) \in Seq(Bytes)
    <3>1. v \in Seq(Bytes)
      BY <1>4, <1>5
    <3>2. At(v, Passed(v)) \in Seq(Bytes)
      BY <3>1, AtType DEF Passed
    <3> QED
      BY <3>1, <3>2
  <2>3. output' = (IF needed' THEN At(v, Passed(v)) ELSE v) \o <<>>
    BY <1>7, <2>2, ConcatEmptySeq
  <2>4. kept' = IF ~needed' \/ InLines' = <<>> THEN <<>> ELSE Saved(InLines')
    BY <1>7, <2>1
  <2>5. output' = (IF needed' THEN At(InLines', Passed(InLines')) ELSE InLines') \o <<>>
    BY <2>1, <2>3
  <2> QED
    BY <2>4, <2>5 DEF Passing, Saved, Passed
<1> QED
  BY <1>4, <1>8 DEF LineInv

\* Every step preserves LineInv.
LEMMA StepLine == LineInv /\ [TransformNext]_transform => LineInv'
<1> SUFFICES ASSUME LineInv, [TransformNext]_transform PROVE LineInv'
  OBVIOUS
<1>1. mode' = mode /\ (IsLine' <=> IsLine)
  BY DEF TransformNext, Transforms, Flushes, transform, IsLine
<1>2. CASE ~IsLine
  BY <1>1, <1>2 DEF LineInv, LineMode, Skipping, Passing
<1>3. CASE IsLine /\ Transforms
  <2>1. fed \in Seq(Bytes)
    BY <1>3 DEF LineInv, LineMode
  <2>2. PICK n \in 1 .. MaxInput - Len(fed) : \E chunk \in Inputs(n) :
          fed' = fed \o chunk /\ LineChunk(chunk)
    BY <1>3 DEF Transforms
  <2>3. PICK chunk \in Inputs(n) : fed' = fed \o chunk /\ LineChunk(chunk)
    BY <2>2
  <2>4. n \in Nat \ {0}
    BY <2>1, TransformsAssumption DEF TransformsAssumption
  <2>5. chunk \in [1 .. n -> Bytes]
    BY <1>3 DEF Inputs, Bytes
  <2>6. chunk \in Seq(Bytes) /\ chunk # <<>>
    BY <2>4, <2>5
  <2>7. ~flushed /\ flushed' = flushed
    BY <1>3 DEF Transforms
  <2> QED
    BY <1>1, <1>3, <2>3, <2>6, <2>7, LineStep
<1>4. CASE IsLine /\ (Flushes \/ UNCHANGED transform)
  <2>1. UNCHANGED <<mode, fed, kept, skip, detect, needed>>
    BY <1>4 DEF Flushes, transform
  <2>2. Lost' = Lost /\ InLines' = InLines
    BY <2>1 DEF Lost, InLines
  <2>3. LineMode' /\ Skipping'
    BY <1>1, <2>1, <2>2 DEF LineInv, LineMode, Skipping
  <2>4. Passing'
    <3>1. CASE UNCHANGED transform
      BY <1>1, <2>2, <3>1 DEF LineInv, Passing, transform, Passed, Saved
    <3>2. CASE Flushes
      <4>1. PICK whole : whole = IF needed THEN At(InLines, Passed(InLines)) ELSE InLines
        OBVIOUS
      <4>2. whole \in Seq(Bytes)
        BY <1>4, <4>1, LinesType DEF LineInv
      <4>3. output = whole \o <<>> /\ ~flushed /\ flushed' = TRUE
        BY <1>4, <3>2, <4>1 DEF LineInv, Passing, Flushes
      <4>4. output' = whole \o kept
        BY <1>4, <3>2, <4>2, <4>3, ConcatEmptySeq DEF Flushes
      <4>5. /\ kept' = IF ~needed' \/ InLines' = <<>> THEN <<>> ELSE Saved(InLines')
            /\ output' = (IF needed' THEN At(InLines', Passed(InLines')) ELSE InLines')
                           \o (IF flushed' THEN kept' ELSE <<>>)
        BY <1>4, <2>1, <2>2, <4>1, <4>3, <4>4 DEF LineInv, Passing
      <4> QED
        BY <4>5 DEF Passing, Saved, Passed
    <3> QED
      BY <1>4, <3>1, <3>2
  <2> QED
    BY <2>3, <2>4 DEF LineInv
<1> QED
  BY <1>2, <1>3, <1>4 DEF TransformNext

\* However the input is cut into chunks, the output is the input without the CR of
\* each CR LF, and with autoDetect what follows the first line end, left as it is
\* if that was a LF; only a last CR waits (LineTransform._transform, _flush).
THEOREM LinesComeOut == TransformSpec => []LinesWhole
BY LineWhole, InitLine, StepLine, PTL DEF TransformSpec

(***************************************************************************)
(* The statistics.                                                         *)
(***************************************************************************)
\* Compares: the lines kept are those of the last file.  Ignores: a CPU that has
\* a line there and none kept is ignored with that line.  Moved: a CPU whose
\* line is kept did not stand still from the file before to the last one.
StatType ==
    /\ seen \in Seq(Samples) /\ Len(seen) <= 3
    /\ stats = [c \in DOMAIN stats |-> stats[c]]
    /\ ignore = [c \in DOMAIN ignore |-> ignore[c]]
Compares == \A c \in DOMAIN stats : c \in DOMAIN Ago(0) /\ stats[c] = Ago(0)[c]
Ignores ==
    \A c \in DOMAIN Ago(0) \ DOMAIN stats : c \in DOMAIN ignore /\ ignore[c] = Ago(0)[c]
Moved == \A c \in DOMAIN stats \cap DOMAIN Ago(1) : Ago(1)[c] # Ago(0)[c]
StatInv == StatType /\ Compares /\ Ignores /\ Moved /\ LoadsTold

\* A file without a line.
LEMMA NoneIsEmpty == DOMAIN None = {} /\ None \in Samples
<1>1. DOMAIN None = {}
  BY DEF None
<1>2. None = [c \in {} |-> [col \in Columns |-> 0]]
  BY DEF None
<1>3. None \in [{} -> Lines]
  BY <1>2
<1>4. {} \in SUBSET Cpus
  OBVIOUS
<1> QED
  BY <1>1, <1>3, <1>4 DEF Samples

\* A line of a file, and its total.
LEMMA SampleLines ==
    ASSUME NEW f \in Samples, NEW c \in DOMAIN f
    PROVE  /\ f[c] \in Lines /\ f[c]["busy"] \in Nat /\ f[c]["idle"] \in Nat
           /\ Total(f[c]) = f[c]["busy"] + f[c]["idle"]
<1>1. PICK online \in SUBSET Cpus : f \in [online -> Lines]
  BY DEF Samples
<1>2. f[c] \in Lines
  BY <1>1
<1>3. f[c]["busy"] \in 0 .. MaxTicks /\ f[c]["idle"] \in 0 .. MaxTicks
  BY <1>2 DEF Lines, Columns
<1> QED
  BY <1>2, <1>3, ProcStatAssumption DEF Total, ProcStatAssumption

\* The file before, and the one before that.
LEMMA AgoType ==
    ASSUME StatType
    PROVE  Ago(0) \in Samples /\ Ago(1) \in Samples /\ Ago(0) = Previous
<1>1. seen \in Seq(Samples) /\ Len(seen) \in Nat
  BY DEF StatType
<1>2. Ago(0) \in Samples
  BY <1>1, NoneIsEmpty DEF Ago
<1>3. Ago(1) \in Samples
  BY <1>1, NoneIsEmpty DEF Ago
<1>4. Ago(0) = Previous
  BY <1>1 DEF Ago, Previous
<1> QED
  BY <1>2, <1>3, <1>4

\* One more file.
LEMMA Appends ==
    ASSUME NEW s \in Seq(Samples), NEW f \in Samples
    PROVE  /\ Append(s, f) \in Seq(Samples) /\ Len(Append(s, f)) = Len(s) + 1
           /\ Append(s, f)[Len(s) + 1] = f
           /\ \A i \in 1 .. Len(s) : Append(s, f)[i] = s[i]
OBVIOUS

\* A new file moves the ones before it back by one.
LEMMA AgoMoves ==
    ASSUME StatType, NEW file \in Samples,
           seen' = Append(IF Len(seen) < 3 THEN seen ELSE Tail(seen), file)
    PROVE  /\ seen' \in Seq(Samples) /\ Len(seen') <= 3
           /\ Ago(0)' = file /\ Ago(1)' = Ago(0) /\ Ago(2)' = Ago(1)
<1>0. seen \in Seq(Samples) /\ Len(seen) <= 3 /\ Len(seen) \in Nat
  BY DEF StatType
<1>1. seen \in Seq(Samples) /\ Len(seen) \in 0 .. 3
  <2>1. \A k \in Nat : k <= 3 => k \in 0 .. 3
    OBVIOUS
  <2> QED
    BY <1>0, <2>1, Zenon
<1>2. None' = None
  BY DEF None
<1>3. CASE Len(seen) < 3
  <2>1. seen' = Append(seen, file)
    BY <1>3
  <2>2. /\ seen' \in Seq(Samples) /\ Len(seen') = Len(seen) + 1
        /\ \A i \in 1 .. Len(seen) : seen'[i] = seen[i]
        /\ seen'[Len(seen) + 1] = file
    BY <1>1, <2>1
  <2>3. Ago(0)' = file
    BY <1>1, <2>2 DEF Ago
  <2>4. Ago(1)' = Ago(0)
    BY <1>1, <1>2, <2>2 DEF Ago
  <2>5. Ago(2)' = Ago(1)
    BY <1>1, <1>2, <2>2 DEF Ago
  <2> QED
    BY <1>1, <1>3, <2>2, <2>3, <2>4, <2>5
<1>4. CASE ~(Len(seen) < 3)
  <2> DEFINE t == Tail(seen)
  <2>1. seen' = Append(t, file) /\ Len(seen) = 3
    BY <1>1, <1>4
  <2>2. t \in Seq(Samples) /\ Len(t) = Len(seen) - 1 /\ \A i \in 1 .. Len(t) : t[i] = seen[i + 1]
    <3>1. seen # <<>>
      BY <2>1
    <3> QED
      BY <1>1, <3>1, HeadTailProperties
  <2> HIDE DEF t
  <2>3. Len(t) = 2
    BY <2>1, <2>2
  <2>4. t[1] = seen[2] /\ t[2] = seen[3]
    <3>1. 1 \in 1 .. Len(t) /\ 2 \in 1 .. Len(t) /\ 1 + 1 = 2 /\ 2 + 1 = 3
      BY <2>3
    <3> QED
      BY <2>2, <3>1, Zenon
  <2>5. /\ seen' \in Seq(Samples) /\ Len(seen') = Len(t) + 1 /\ seen'[Len(t) + 1] = file
        /\ \A i \in 1 .. Len(t) : seen'[i] = t[i]
    <3>1. /\ Append(t, file) \in Seq(Samples) /\ Len(Append(t, file)) = Len(t) + 1
          /\ Append(t, file)[Len(t) + 1] = file
          /\ \A i \in 1 .. Len(t) : Append(t, file)[i] = t[i]
      BY <2>2, Appends, Zenon
    <3> QED
      BY <2>1, <3>1, Zenon
  <2>6. Len(seen') = 3 /\ seen'[3] = file
    BY <2>3, <2>5
  <2>7. seen'[1] = seen[2] /\ seen'[2] = seen[3]
    <3>1. 1 \in 1 .. Len(t) /\ 2 \in 1 .. Len(t)
      BY <2>3
    <3> QED
      BY <2>4, <2>5, <3>1, Zenon
  <2>8. Ago(0)' = file
    BY <2>6 DEF Ago
  <2>9. Ago(1)' = Ago(0)
    BY <2>1, <2>6, <2>7, SMTT(30) DEF Ago
  <2>10. Ago(2)' = Ago(1)
    <3>1. Ago(2)' = seen'[3 - 2] /\ Ago(1) = seen[3 - 1]
      <4>1. Ago(1) = IF Len(seen) > 1 THEN seen[Len(seen) - 1] ELSE None
        BY Zenon DEF Ago
      <4>2. Ago(2)' = IF Len(seen') > 2 THEN seen'[Len(seen') - 2] ELSE None'
        BY Zenon DEF Ago
      <4>3. 3 > 1 /\ 3 > 2
        OBVIOUS
      <4> QED
        BY <2>1, <2>6, <4>1, <4>2, <4>3, Zenon
    <3>2. 3 - 2 = 1 /\ 3 - 1 = 2
      OBVIOUS
    <3> QED
      BY <2>7, <3>1, <3>2, Zenon
  <2> QED
    BY <2>5, <2>6, <2>8, <2>9, <2>10
<1> QED
  BY <1>3, <1>4

(***************************************************************************)
(* Percentages.                                                            *)
(***************************************************************************)
LEMMA Quotient ==
    ASSUME NEW n \in Nat, NEW D \in Nat, D > 0
    PROVE  /\ n \div D \in Int
           /\ D * (n \div D) <= n /\ n < D * (n \div D) + D
OBVIOUS

\* d of D ticks, in percent and rounded down.
LEMMA Percent ==
    ASSUME NEW d \in Nat, NEW D \in Nat, D > 0, d <= D
    PROVE  /\ (100 * d) \div D \in 0 .. 100
           /\ D * ((100 * d) \div D) <= 100 * d /\ 100 * d < D * ((100 * d) \div D) + D
<1> DEFINE q == (100 * d) \div D
<1>1. 100 * d \in Nat
  OBVIOUS
<1>2. q \in Int /\ D * q <= 100 * d /\ 100 * d < D * q + D
  BY <1>1, Quotient
<1> HIDE DEF q
<1>3. q >= 0
  <2> SUFFICES ASSUME q < 0 PROVE FALSE
    BY <1>2
  <2>1. q <= -1
    BY <1>2
  <2>2. \A D1 \in Nat, q1 \in Int : q1 <= -1 => D1 * q1 <= -D1
    OBVIOUS
  <2>3. D * q <= -D
    BY <1>2, <2>1, <2>2
  <2>4. D * q \in Int
    BY <1>2
  <2> QED
    BY <1>2, <2>3, <2>4
<1>4. q <= 100
  <2> SUFFICES ASSUME q > 100 PROVE FALSE
    BY <1>2
  <2>1. q >= 101
    BY <1>2
  <2>2. \A D1 \in Nat, q1 \in Int : q1 >= 101 => D1 * q1 >= 101 * D1
    OBVIOUS
  <2>3. D * q >= 101 * D
    BY <1>2, <2>1, <2>2
  <2>4. D * q \in Int
    BY <1>2
  <2> QED
    BY <1>2, <2>3, <2>4
<1>5. q \in 0 .. 100
  BY <1>2, <1>3, <1>4
<1> QED
  BY <1>2, <1>5 DEF q

\* Two shares, each rounded down, miss 100 by 2 at most.
LEMMA PercentSum ==
    ASSUME NEW d \in Nat, NEW e \in Nat, d + e > 0
    PROVE  (100 * d) \div (d + e) + (100 * e) \div (d + e) \in 98 .. 100
<1> DEFINE D == d + e
           p == (100 * d) \div D
           q == (100 * e) \div D
<1>1. D \in Nat /\ D > 0 /\ d <= D /\ e <= D
  OBVIOUS
<1> HIDE DEF D
<1>2. p \in 0 .. 100 /\ D * p <= 100 * d /\ 100 * d < D * p + D
  BY <1>1, Percent
<1>3. q \in 0 .. 100 /\ D * q <= 100 * e /\ 100 * e < D * q + D
  BY <1>1, Percent
<1> HIDE DEF p, q
<1>4. D * p \in Int /\ D * q \in Int /\ D * (p + q) = D * p + D * q
  BY <1>1, <1>2, <1>3
<1>5. D * (p + q) <= 100 * D /\ 100 * D < D * (p + q) + 2 * D
  BY <1>1, <1>2, <1>3, <1>4 DEF D
<1> DEFINE s == p + q
<1>6. s \in Nat /\ D * s <= 100 * D /\ 100 * D < D * s + 2 * D
  BY <1>2, <1>3, <1>5
<1> HIDE DEF s
<1>7. s <= 100
  <2> SUFFICES ASSUME s > 100 PROVE FALSE
    BY <1>6
  <2>1. s >= 101
    BY <1>6
  <2>2. \A D1 \in Nat, q1 \in Nat : q1 >= 101 => D1 * q1 >= 101 * D1
    OBVIOUS
  <2>3. D * s >= 101 * D /\ D * s \in Int
    BY <1>1, <1>6, <2>1, <2>2
  <2> QED
    BY <1>1, <1>6, <2>3
<1>8. s >= 98
  <2> SUFFICES ASSUME s < 98 PROVE FALSE
    BY <1>6
  <2>1. s <= 97
    BY <1>6
  <2>2. \A D1 \in Nat, q1 \in Nat : q1 <= 97 => D1 * q1 <= 97 * D1
    OBVIOUS
  <2>3. D * s <= 97 * D /\ D * s \in Int
    BY <1>1, <1>6, <2>1, <2>2
  <2> QED
    BY <1>1, <1>6, <2>3
<1>9. p + q \in 98 .. 100
  BY <1>6, <1>7, <1>8 DEF s
<1> QED
  BY <1>9 DEF p, q, D

(***************************************************************************)
(* The steps of the statistics.                                            *)
(***************************************************************************)
\* What is told compares the line kept with the new one.
LEMMA LoadsCompare ==
    ASSUME StatType, Compares, NEW file \in Files, NEW c \in DOMAIN Loads(file)
    PROVE  /\ c \in DOMAIN file /\ c \in DOMAIN Ago(0) /\ c \in DOMAIN stats
           /\ Loads(file)[c] = Share(Ago(0)[c], file[c])
           /\ Loads(file)[c]["busy"] \in 0 .. 100 /\ Loads(file)[c]["idle"] \in 0 .. 100
           /\ Loads(file)[c]["busy"] + Loads(file)[c]["idle"] \in 98 .. 100
<1>1. /\ c \in Parsed(file) /\ Counts(c, file)
      /\ Loads(file)[c] = Share(stats[c], file[c])
  BY DEF Loads
<1>2. c \in DOMAIN file /\ c \in DOMAIN stats /\ Total(file[c]) > Total(stats[c])
  BY <1>1 DEF Parsed, Counts
<1>3. c \in DOMAIN Ago(0) /\ stats[c] = Ago(0)[c]
  BY <1>2 DEF Compares
<1>4. Ago(0) \in Samples /\ Ago(0) = Previous
  BY AgoType
<1>5. file \in Samples /\ Follows(Previous[c], file[c])
  BY <1>2, <1>3, <1>4 DEF Files
<1> DEFINE ob == Ago(0)[c]["busy"]
           oi == Ago(0)[c]["idle"]
           nb == file[c]["busy"]
           ni == file[c]["idle"]
<1>6. ob \in Nat /\ oi \in Nat /\ Total(Ago(0)[c]) = ob + oi
  BY <1>3, <1>4, SampleLines
<1>7. nb \in Nat /\ ni \in Nat /\ Total(file[c]) = nb + ni
  BY <1>2, <1>5, SampleLines
<1>8. nb + ni > ob + oi
  BY <1>2, <1>3, <1>6, <1>7
<1>9. ob <= nb /\ oi <= ni
  <2>1. ~(Total(file[c]) <= Total(Ago(0)[c]))
    BY <1>6, <1>7, <1>8
  <2>2. \A col \in Columns : Ago(0)[c][col] <= file[c][col]
    BY <1>4, <1>5, <2>1, Zenon DEF Follows
  <2> QED
    BY <2>2 DEF Columns
<1>10. /\ Loads(file)[c]["busy"] = (100 * (nb - ob)) \div (Total(file[c]) - Total(Ago(0)[c]))
       /\ Loads(file)[c]["idle"] = (100 * (ni - oi)) \div (Total(file[c]) - Total(Ago(0)[c]))
  <2>1. Loads(file)[c] = [col \in Columns |->
           (100 * (file[c][col] - Ago(0)[c][col])) \div (Total(file[c]) - Total(Ago(0)[c]))]
    BY <1>1, <1>3, Zenon DEF Share
  <2>2. "busy" \in Columns /\ "idle" \in Columns
    BY DEF Columns
  <2> QED
    BY <2>1, <2>2, Zenon
<1> HIDE DEF ob, oi, nb, ni
<1> DEFINE d == nb - ob
           e == ni - oi
<1>11. d \in Nat /\ e \in Nat /\ d + e > 0 /\ d <= d + e /\ e <= d + e
       /\ Total(file[c]) - Total(Ago(0)[c]) = d + e
  BY <1>6, <1>7, <1>8, <1>9
<1>12. Loads(file)[c]["busy"] = (100 * d) \div (d + e)
       /\ Loads(file)[c]["idle"] = (100 * e) \div (d + e)
  BY <1>10, <1>11, Zenon
<1> HIDE DEF d, e
<1>13. (100 * d) \div (d + e) \in 0 .. 100 /\ (100 * e) \div (d + e) \in 0 .. 100
  <2>1. d + e \in Nat
    BY <1>11
  <2> QED
    BY <1>11, <2>1, Percent, Zenon
<1>14. (100 * d) \div (d + e) + (100 * e) \div (d + e) \in 98 .. 100
  BY <1>11, PercentSum, Zenon
<1> QED
  BY <1>1, <1>2, <1>3, <1>12, <1>13, <1>14, Zenon

\* An update preserves StatInv.
LEMMA UpdatesStep ==
    ASSUME StatInv, NEW file \in Files, Updates(file)
    PROVE  StatInv'
<1>1. /\ seen' = Append(IF Len(seen) < 3 THEN seen ELSE Tail(seen), file)
      /\ stats' = Compared(file) /\ ignore' = Ignored(file) /\ loads' = Loads(file)
  BY DEF Updates
<1>2. StatType /\ Compares /\ Ignores /\ Moved
  BY DEF StatInv
<1>3. file \in Samples
  BY DEF Files
<1>4. /\ seen' \in Seq(Samples) /\ Len(seen') <= 3
      /\ Ago(0)' = file /\ Ago(1)' = Ago(0) /\ Ago(2)' = Ago(1)
  BY <1>1, <1>2, <1>3, AgoMoves
<1>5. /\ stats' = [c \in Parsed(file) \ Stopped(file) |-> file[c]]
      /\ DOMAIN stats' = Parsed(file) \ Stopped(file)
      /\ \A c \in DOMAIN stats' : stats'[c] = file[c]
  BY <1>1 DEF Compared
<1>6. /\ ignore' = [c \in DOMAIN ignore \cup Stopped(file) |->
                       IF c \in Stopped(file) THEN file[c] ELSE ignore[c]]
      /\ DOMAIN ignore' = DOMAIN ignore \cup Stopped(file)
      /\ \A c \in DOMAIN ignore' :
            ignore'[c] = IF c \in Stopped(file) THEN file[c] ELSE ignore[c]
  BY <1>1 DEF Ignored
<1>7. StatType'
  BY <1>4, <1>5, <1>6 DEF StatType
<1>8. Compares'
  BY <1>4, <1>5 DEF Compares, Parsed
<1>9. Ignores'
  <2> SUFFICES ASSUME NEW c \in DOMAIN file, c \notin DOMAIN stats'
               PROVE  c \in DOMAIN ignore' /\ ignore'[c] = file[c]
    BY <1>4, Zenon DEF Ignores
  <2>1. CASE c \in Stopped(file)
    BY <1>6, <2>1
  <2>2. CASE c \notin Stopped(file)
    <3>1. Skipped(c, file)
      BY <1>5, <2>2 DEF Parsed
    <3> QED
      BY <1>6, <2>2, <3>1 DEF Skipped
  <2> QED
    BY <2>1, <2>2
<1>10. Moved'
  <2> SUFFICES ASSUME NEW c \in DOMAIN stats', c \in DOMAIN Ago(0), Ago(0)[c] = file[c]
               PROVE  FALSE
    BY <1>4, Zenon DEF Moved
  <2>1. c \in Parsed(file) /\ c \notin Stopped(file) /\ c \in DOMAIN file
    BY <1>5 DEF Parsed
  <2>2. CASE c \in DOMAIN stats
    <3>1. stats[c] = file[c]
      BY <1>2, <2>2 DEF Compares
    <3>2. Total(file[c]) \in Nat
      BY <1>3, <2>1, SampleLines
    <3>3. ~Counts(c, file)
      BY <3>1, <3>2 DEF Counts
    <3> QED
      BY <2>1, <2>2, <3>3 DEF Stopped
  <2>3. CASE c \notin DOMAIN stats
    <3>1. c \in DOMAIN ignore /\ ignore[c] = file[c]
      BY <1>2, <2>3, Zenon DEF Ignores
    <3> QED
      BY <2>1, <3>1 DEF Parsed, Skipped
  <2> QED
    BY <2>2, <2>3
<1>11. Percentages'
  <2> SUFFICES ASSUME NEW c \in DOMAIN Loads(file)
               PROVE  /\ c \in DOMAIN file \cap DOMAIN Ago(0)
                      /\ Loads(file)[c] = Share(Ago(0)[c], file[c])
                      /\ \A col \in Columns : Loads(file)[c][col] \in 0 .. 100
                      /\ Loads(file)[c]["busy"] + Loads(file)[c]["idle"]
                            \in 100 - Cardinality(Columns) .. 100
    BY <1>1, <1>4 DEF Percentages
  <2>1. /\ c \in DOMAIN file /\ c \in DOMAIN Ago(0) /\ c \in DOMAIN stats
        /\ Loads(file)[c] = Share(Ago(0)[c], file[c])
        /\ Loads(file)[c]["busy"] \in 0 .. 100 /\ Loads(file)[c]["idle"] \in 0 .. 100
        /\ Loads(file)[c]["busy"] + Loads(file)[c]["idle"] \in 98 .. 100
    BY <1>2, LoadsCompare
  <2>2. Cardinality(Columns) = 2
    <3>1. Cardinality({"busy", "idle"}) = 2
      <4>1. IsFiniteSet({"busy"}) /\ Cardinality({"busy"}) = 1
        BY FS_Singleton
      <4>2. "idle" \notin {"busy"} /\ {"busy"} \cup {"idle"} = {"busy", "idle"}
        OBVIOUS
      <4>3. Cardinality({"busy"} \cup {"idle"}) = Cardinality({"busy"}) + 1
        BY <4>1, <4>2, FS_AddElement
      <4> QED
        BY <4>1, <4>2, <4>3
    <3> QED
      BY <3>1 DEF Columns
  <2>3. 100 - Cardinality(Columns) = 98
    BY <2>2
  <2>4. \A col \in Columns : Loads(file)[c][col] \in 0 .. 100
    BY <2>1 DEF Columns
  <2> QED
    BY <2>1, <2>3, <2>4, Zenon
<1>12. StillHidden'
  <2> SUFFICES ASSUME NEW c \in DOMAIN Loads(file), c \in DOMAIN Ago(0) \cap DOMAIN Ago(1)
               PROVE  Ago(0)[c] # Ago(1)[c]
    BY <1>1, <1>4, Zenon DEF StillHidden
  <2>1. c \in DOMAIN stats
    BY <1>2, LoadsCompare
  <2> QED
    BY <1>2, <2>1 DEF Moved
<1> QED
  BY <1>7, <1>8, <1>9, <1>10, <1>11, <1>12 DEF StatInv, LoadsTold

\* A step that tells nothing preserves StatInv.
LEMMA StatSame ==
    ASSUME StatInv, UNCHANGED <<stats, ignore, seen>>, loads' = None
    PROVE  StatInv'
<1>1. \A n \in {0, 1, 2} : Ago(n)' = Ago(n)
  BY DEF Ago, None
<1>2. Ago(0)' = Ago(0) /\ Ago(1)' = Ago(1) /\ Ago(2)' = Ago(2)
  BY DEF Ago, None
<1>3. StatType' /\ Compares' /\ Ignores' /\ Moved'
  BY <1>2 DEF StatInv, StatType, Compares, Ignores, Moved
<1>4. DOMAIN loads' = {}
  BY NoneIsEmpty
<1>5. Percentages' /\ StillHidden'
  BY <1>4 DEF Percentages, StillHidden
<1> QED
  BY <1>3, <1>5 DEF StatInv, LoadsTold

\* The first state satisfies StatInv.
LEMMA InitStat == ProcStatInit => StatInv
<1> SUFFICES ASSUME ProcStatInit PROVE StatInv
  OBVIOUS
<1>1. stats = None /\ ignore = None /\ loads = None /\ seen = <<>>
  BY DEF ProcStatInit
<1>2. seen \in Seq(Samples) /\ Len(seen) = 0
  BY <1>1
<1>3. Ago(0) = None /\ Ago(1) = None
  BY <1>2 DEF Ago
<1>4. StatType
  BY <1>1, <1>2 DEF StatType, None
<1>5. Compares /\ Ignores /\ Moved
  BY <1>1, <1>3, NoneIsEmpty DEF Compares, Ignores, Moved
<1>6. Percentages /\ StillHidden
  BY <1>1, NoneIsEmpty DEF Percentages, StillHidden
<1> QED
  BY <1>4, <1>5, <1>6 DEF StatInv, LoadsTold

\* Every step preserves StatInv.
LEMMA StepStat == StatInv /\ [ProcStatNext]_procStat => StatInv'
<1> SUFFICES ASSUME StatInv, [ProcStatNext]_procStat PROVE StatInv'
  OBVIOUS
<1>1. CASE \E f \in Files : Updates(f)
  BY <1>1, UpdatesStep
<1>2. CASE UpdateFails \/ Ticks \/ EndsStat
  <2>1. UNCHANGED <<stats, ignore, seen>> /\ loads' = None
    BY <1>2 DEF UpdateFails, Ticks, EndsStat
  <2> QED
    BY <2>1, StatSame
<1>3. CASE UNCHANGED procStat
  <2>1. UNCHANGED <<stats, ignore, loads, seen>>
    BY <1>3 DEF procStat
  <2>2. Ago(0)' = Ago(0) /\ Ago(1)' = Ago(1) /\ Ago(2)' = Ago(2)
    BY <2>1 DEF Ago, None
  <2>3. StatType' /\ Compares' /\ Ignores' /\ Moved'
    BY <2>1, <2>2 DEF StatInv, StatType, Compares, Ignores, Moved
  <2>4. Percentages' /\ StillHidden'
    BY <2>1, <2>2 DEF StatInv, LoadsTold, Percentages, StillHidden
  <2> QED
    BY <2>3, <2>4 DEF StatInv, LoadsTold
<1> QED
  BY <1>1, <1>2, <1>3 DEF ProcStatNext

\* What 'load' tells are percentages of the ticks since the last file, which add
\* up, and never of a CPU that was offline before it, has gone back or stood still
\* (_parse, _set), for any CPUs and ticks.
THEOREM LoadsAreTold == ProcStatSpec => []LoadsTold
<1>1. StatInv => LoadsTold
  BY DEF StatInv
<1> QED
  BY <1>1, InitStat, StepStat, PTL DEF ProcStatSpec

(***************************************************************************)
(* The two side by side, as they are checked.                              *)
(***************************************************************************)
\* Neither touches the state of the other, so both keep what they promise.
THEOREM SideBySide == DataSpec => [](LinesWhole /\ PixelsWhole /\ LoadsTold)
<1>1. DataInit => TransformInit /\ ProcStatInit
  BY DEF DataInit
<1>2. [DataNext]_<<checked, transform, procStat>> =>
        [TransformNext]_transform /\ [ProcStatNext]_procStat
  BY DEF DataNext
<1>3. DataSpec => TransformSpec /\ ProcStatSpec
  BY <1>1, <1>2, PTL DEF DataSpec, TransformSpec, ProcStatSpec
<1> QED
  BY <1>3, LinesComeOut, PixelsComeOut, LoadsAreTold, PTL
=============================================================================
