---------------------------- MODULE SyncOpsProofs ----------------------------
(***************************************************************************)
(* Proofs about SyncOps, for any number of operations and entries, any     *)
(* length of a source and of the pieces it is sent in: how an operation    *)
(* settles follows from its own answer, and a PushTransfer keeps what its  *)
(* events promise.                                                         *)
(***************************************************************************)
EXTENDS SyncOps, SequenceTheorems, WellFoundedInduction, TLAPS

(***************************************************************************)
(* Types.                                                                  *)
(***************************************************************************)
SyncKinds == {"OKAY", "FAIL", "JUNK", "LEN", "ZERO", "STAT", "DENT", "DONE",
              "good", "gone", "bad", "noise", "dot"}
SyncToken == [kind : SyncKinds, of : Nat]
PushType ==
    [made : Nat, source : {"flows", "eof", "over", "failed"}, listens : BOOLEAN,
     writeDue : BOOLEAN, doneDue : BOOLEAN, given : Nat, put : Nat, done : BOOLEAN,
     stack : Seq(Nat), moved : Nat, errors : Nat, ended : BOOLEAN, dropped : BOOLEAN]

SyncTypeOK ==
    /\ asked \in Nat /\ answered \in 0 .. asked
    /\ sent \in Seq(SyncToken) /\ fin \in BOOLEAN
    /\ arrived \in 0 .. Len(sent) /\ taken \in 0 .. arrived
    /\ broken \in BOOLEAN /\ destroyed \in BOOLEAN /\ shut \in BOOLEAN
    /\ at \in SyncReads \cup {"drainEnd", "free"} /\ phase \in {"waiting", "gap"}
    /\ token \in [kind : SyncKinds \cup Lost, of : Nat] /\ ended \in BOOLEAN
    /\ op \in {"none", "stat", "readdir", "push"} /\ ops \in Nat
    /\ outcome \in {"none", "ok", "enoent", "error", "cancelled"}
    /\ files \in Seq(Names) /\ push \in PushType

(***************************************************************************)
(* The push.  WriterInv: what was read from the source is on the wire as   *)
(* long as the connection takes writes, and DONE is not due before all of  *)
(* it was.  Counted: the stack holds what lies between the progress told   *)
(* and the bytes read.  TransferInv: the transfer is over when its reader  *)
(* is, and without an error only after DONE.                               *)
(***************************************************************************)
WriterInv ==
    /\ push.given <= push.made
    /\ push.source = "over" => push.made = push.given /\ ~push.writeDue
    /\ push.writeDue /\ push.source \in {"flows", "eof"} => push.given < push.made
    /\ push.doneDue => push.source = "over" /\ ~push.done
    /\ OnWire => push.put = push.given
    /\ push.done => push.source = "over" /\ push.put = push.made /\ ~push.listens

Counted ==
    \E sum \in [0 .. Len(push.stack) -> Nat] :
        /\ sum[0] = push.moved /\ sum[Len(push.stack)] = push.given
        /\ \A i \in 1 .. Len(push.stack) : sum[i] = sum[i - 1] + push.stack[i]

TransferInv ==
    /\ op # "push" => push = NoPush
    /\ push.ended => ~push.listens /\ at = "free"
    /\ ~push.ended => push.errors = 0 /\ ~push.dropped
    /\ op = "push" /\ at = "free" => push.ended
    /\ push.ended /\ push.errors = 0 /\ ~push.dropped => push.done

(***************************************************************************)
(* The conversation.  Tagged, Fresh: the answer of the running operation   *)
(* is the end of what was sent, and empty before the device answers.       *)
(* Answered: it is an answer to this operation, cut off only by a close.   *)
(* JustRead, Closed: what a continuation is given.  Stands: the reader has *)
(* passed what leads to its next read.  Outcomes: how the operation has    *)
(* settled.                                                                *)
(***************************************************************************)
Live == op # "none" /\ ~push.dropped
Tagged ==
    /\ Begin \in 1 .. Len(sent) + 1
    /\ \A i \in 1 .. Len(sent) : sent[i].of = asked <=> i >= Begin
    /\ \A i \in 1 .. Len(sent) : sent[i].of \in 0 .. asked
Fresh == answered < asked => Begin = Len(sent) + 1
Behind == Live => Begin <= taken + 1

PrefixOf(said, a) == Len(said) <= Len(a) /\ \A i \in 1 .. Len(said) : said[i] = a[i]
Answered ==
    Live /\ answered = asked =>
        \E a \in SyncAnswers : PrefixOf(Said, a) /\ (~fin => Len(Said) = Len(a))

HasToken == phase = "gap" /\ token.kind \notin Lost
JustRead ==
    at # "free" =>
        /\ HasToken => Begin <= taken /\ token = sent[taken]
        /\ phase = "gap" /\ token.kind = "EOF" => ended
        /\ phase = "gap" /\ token.kind = "ERROR" => broken
Closed ==
    /\ ended => fin /\ taken = Len(sent)
    /\ fin => arrived = Len(sent)

\* The first n tokens of what was said are entries, and names are those they hold.
Keeping(said, names, n) ==
    \E pos \in [1 .. Len(names) -> 1 .. n] :
        /\ \A i, j \in 1 .. Len(names) : i < j => pos[i] < pos[j]
        /\ \A k \in 1 .. n :
              said[k] \in Names \ {"dot"} <=> \E i \in 1 .. Len(names) : pos[i] = k
        /\ \A i \in 1 .. Len(names) : names[i] = said[pos[i]]
Listed(said, names, n) ==
    /\ n \in Nat /\ (n % 3) = 0 /\ Keeping(said, names, n)
    /\ \A i \in 1 .. n : (i % 3) = 1 => said[i] = "DENT"

\* Where operation o stands when n tokens of its answer lie before the pending
\* read, and h of them were read.
Standing(read, o, said, names, n, h) ==
    /\ read = "syncReply" =>
          \/ o \in {"stat", "push"} /\ n = 0
          \/ o = "readdir" /\ Listed(said, names, n)
    /\ read = "stat" => o = "stat" /\ n = 1 /\ said[1] = "STAT"
    /\ read = "dent" => o = "readdir" /\ Listed(said, names, n - 1) /\ said[n] = "DENT"
    /\ read = "name" => o = "readdir" /\ Listed(said, names, n - 2) /\ said[n - 1] = "DENT"
    /\ read = "last" => \/ o = "readdir" /\ Listed(said, names, n - 1) /\ said[n] = "DONE"
                        \/ o = "push" /\ n = 1 /\ said[1] = "OKAY"
    /\ read = "syncLength" => n >= 1 /\ said[n] = "FAIL"
    /\ read = "syncText" => n >= 2 /\ said[n - 1] = "FAIL" /\ said[n] = "LEN"
    /\ read \in {"syncLength", "syncText", "drainEnd"} => \E i \in 1 .. h : said[i] = "FAIL"

SoFar == taken + 1 - Begin
Before == SoFar - (IF HasToken THEN 1 ELSE 0)
Stands == Standing(at, op, Said, files, Before, SoFar)

Outcomes ==
    /\ at # "free" => outcome = "none"
    /\ Live /\ at = "free" =>
          \/ outcome = "error" /\ broken
          \/ /\ taken = Len(sent) /\ (fin \/ answered = asked) /\ outcome = OpOutcome
             /\ op = "readdir" /\ outcome = "ok" => Found
    /\ op = "none" => at = "free" /\ asked = 0 /\ sent = <<>> /\ outcome = "none"

Conversed ==
    /\ Tagged /\ Fresh /\ Behind /\ Answered /\ JustRead /\ Closed
    /\ Live => Stands
    /\ Outcomes

SyncInv == SyncTypeOK /\ WriterInv /\ Counted /\ TransferInv /\ Conversed

------------------------------------------------------------------------------
\* Division, as far as pieces and entries need it.
LEMMA Remainder ==
    ASSUME NEW n \in Nat, NEW d \in Nat, d > 0
    PROVE  /\ n = d * (n \div d) + (n % d) /\ n \div d \in Nat
           /\ n % d \in 0 .. d - 1
OBVIOUS

\* The remainder, given the quotient.
LEMMA RemainderIs ==
    ASSUME NEW n \in Nat, NEW d \in Nat, d > 0, NEW k \in Nat, d * k <= n, n < d * k + d
    PROVE  n % d = n - d * k
<1>1. n \div d = k
  OBVIOUS
<1> QED
  BY <1>1, Remainder

\* Where an answer begins is determined by its tags.
LEMMA BeginIs ==
    ASSUME NEW s, Len(s) \in Nat, NEW n, NEW b \in 1 .. Len(s) + 1,
           \A i \in 1 .. Len(s) : s[i].of = n <=> i >= b
    PROVE  BeginOf(s, n) = b
<1> DEFINE P(c) == \A i \in 1 .. Len(s) : s[i].of = n <=> i >= c
<1>1. \A c \in 1 .. Len(s) + 1 : P(c) => c = b
  <2> SUFFICES ASSUME NEW c \in 1 .. Len(s) + 1, P(c), c # b
               PROVE  FALSE
    OBVIOUS
  <2>1. CASE c < b
    <3>1. c \in 1 .. Len(s)
      BY <2>1
    <3> QED
      BY <3>1, <2>1
  <2>2. CASE b < c
    <3>1. b \in 1 .. Len(s)
      BY <2>2
    <3> QED
      BY <3>1, <2>2
  <2> QED
    BY <2>1, <2>2
<1>2. P(b)
  OBVIOUS
<1>3. BeginOf(s, n) = CHOOSE c \in 1 .. Len(s) + 1 : P(c)
  BY DEF BeginOf
<1> HIDE DEF P
<1>4. (CHOOSE c \in 1 .. Len(s) + 1 : P(c)) \in {c \in 1 .. Len(s) + 1 : P(c)}
  BY <1>2
<1> QED
  BY <1>1, <1>3, <1>4

------------------------------------------------------------------------------
\* The pieces of n bytes are n bytes, counted from any start.
LEMMA PiecesType ==
    ASSUME NEW n \in Nat
    PROVE  /\ Pieces(n) \in Seq(Nat)
           /\ \A i \in 1 .. Len(Pieces(n)) :
                 /\ DataMax * i <= n => Pieces(n)[i] = DataMax
                 /\ DataMax * i > n => Pieces(n)[i] = n - DataMax * (i - 1)
                 /\ DataMax * (i - 1) < n
           /\ DataMax * Len(Pieces(n)) >= n
           /\ n = 0 => Pieces(n) = <<>>
<1>0. DataMax \in Nat /\ DataMax > 0
  BY SyncAssumption DEF SyncAssumption
<1> DEFINE k == (n + DataMax - 1) \div DataMax
<1>1. /\ k \in Nat /\ DataMax * k <= n + DataMax - 1 /\ n <= DataMax * k
      /\ n = 0 => k = 0
  <2>1. n + DataMax - 1 \in Nat
    BY <1>0
  <2>2. k \in Nat /\ n + DataMax - 1 = DataMax * k + ((n + DataMax - 1) % DataMax)
        /\ (n + DataMax - 1) % DataMax \in 0 .. DataMax - 1
    BY <1>0, <2>1, Remainder
  <2>3. DataMax * k \in Nat
    BY <1>0, <2>2
  <2>4. n = 0 => k = 0
    <3>1. n = 0 /\ k # 0 => DataMax * k >= DataMax
      BY <1>0, <2>2
    <3> QED
      BY <1>0, <2>2, <2>3, <3>1
  <2> HIDE DEF k
  <2> QED
    BY <1>0, <2>2, <2>3, <2>4
<1>2. Pieces(n) = [i \in 1 .. k |-> IF i * DataMax <= n THEN DataMax ELSE n % DataMax]
  BY DEF Pieces
<1> HIDE DEF k
<1>3. \A i \in 1 .. k : /\ DataMax * (i - 1) < n
                        /\ DataMax * i > n => n % DataMax = n - DataMax * (i - 1)
  <2> SUFFICES ASSUME NEW i \in 1 .. k
               PROVE  /\ DataMax * (i - 1) < n
                      /\ DataMax * i > n => n % DataMax = n - DataMax * (i - 1)
    OBVIOUS
  <2>1. DataMax * i <= DataMax * k /\ DataMax * (i - 1) = DataMax * i - DataMax
        /\ DataMax * i \in Nat /\ DataMax * k \in Nat /\ i - 1 \in Nat
    BY <1>0, <1>1
  <2>2. DataMax * (i - 1) < n
    BY <1>0, <1>1, <2>1
  <2>3. \A j \in Nat : DataMax * j <= n /\ n < DataMax * j + DataMax =>
                         n % DataMax = n - DataMax * j
    BY <1>0, RemainderIs
  <2>4. DataMax * i > n => n % DataMax = n - DataMax * (i - 1)
    <3>1. DataMax * i > n => n < DataMax * (i - 1) + DataMax
      BY <1>0, <2>1
    <3>2. i - 1 \in Nat /\ DataMax * (i - 1) <= n
      BY <1>0, <1>1, <2>1, <2>2
    <3> QED
      BY <2>3, <3>1, <3>2
  <2> QED
    BY <2>2, <2>4
<1>4. \A i \in 1 .. k : Pieces(n)[i] \in Nat
  BY <1>0, <1>2, Remainder
<1>5. Pieces(n) \in Seq(Nat) /\ Len(Pieces(n)) = k
  BY <1>1, <1>2, <1>4
<1>6. \A i \in 1 .. k : Pieces(n)[i] = IF DataMax * i <= n THEN DataMax
                                          ELSE n % DataMax
  <2>1. \A i \in 1 .. k : DataMax * i = i * DataMax
    BY <1>0, <1>1
  <2> QED
    BY <1>2, <2>1
<1>7. \A i \in 1 .. k : /\ DataMax * i <= n => Pieces(n)[i] = DataMax
                        /\ DataMax * i > n => Pieces(n)[i] = n - DataMax * (i - 1)
  BY <1>3, <1>6, <1>0, <1>1
<1>8. n = 0 => Pieces(n) = <<>>
  BY <1>1, <1>5
<1> QED
  BY <1>1, <1>3, <1>5, <1>7, <1>8

\* A sum of naturals is no less than what it starts from (by the least index at
\* which it is not above the total).
LEMMA TotalGrows ==
    ASSUME NEW n \in Nat, NEW sum \in [0 .. n -> Nat],
           \A i \in 1 .. n : sum[i - 1] <= sum[i]
    PROVE  sum[0] <= sum[n]
<1> DEFINE T == {i \in 0 .. n : sum[i] <= sum[n]}
<1>1. T \subseteq Nat /\ n \in T
  OBVIOUS
<1>2. PICK m \in T : \A k \in T : m <= k
  <2> DEFINE less == {ss \in Nat \X Nat : ss[1] < ss[2]}
  <2>1. IsWellFoundedOn(less, Nat)
    BY NatLessThanWellFounded DEF OpToRel
  <2> HIDE DEF T
  <2>2. PICK m \in T : \A k \in T : ~(<<k, m>> \in less)
    <3> HIDE DEF less
    <3> QED BY <1>1, <2>1, WFMin
  <2>3. \A k \in T : m <= k
    <3> SUFFICES ASSUME NEW k \in T PROVE m <= k
      OBVIOUS
    <3>1. k \in Nat /\ m \in Nat
      BY <1>1
    <3>2. ~(<<k, m>> \in less)
      BY <2>2
    <3> HIDE DEF T
    <3>3. ~(k < m)
      BY <3>1, <3>2
    <3> QED BY <3>1, <3>3
  <2> QED BY <2>2, <2>3
<1>3. m \in 0 .. n /\ sum[m] <= sum[n]
  OBVIOUS
<1>4. CASE m = 0
  BY <1>3, <1>4
<1>5. CASE m # 0
  <2>1. m \in 1 .. n /\ m - 1 \in 0 .. n
    BY <1>3, <1>5
  <2>2. sum[m - 1] <= sum[n]
    BY <1>3, <2>1
  <2> QED
    BY <1>2, <1>3, <2>1, <2>2
<1> QED BY <1>4, <1>5

------------------------------------------------------------------------------
\* The progress and the stack keep adding up.
SameCount == /\ push'.stack = push.stack /\ push'.moved = push.moved
             /\ push'.given = push.given

\* Counted is about stack, progress and bytes alone.
LEMMA CountedSame ==
    ASSUME Counted, SameCount
    PROVE  Counted'
BY DEF Counted, SameCount

\* A push that has read nothing counts right.
LEMMA CountedNone ==
    ASSUME push'.stack = <<>>, push'.moved = 0, push'.given = 0
    PROVE  Counted'
<1> DEFINE sum == [i \in 0 .. 0 |-> 0]
<1>1. sum \in [0 .. 0 -> Nat] /\ sum[0] = 0 /\ Len(<<>>) = 0
  OBVIOUS
<1>2. \A i \in 1 .. 0 : sum[i] = sum[i - 1] + push'.stack[i]
  OBVIOUS
<1> HIDE DEF sum
<1> QED
  BY <1>1, <1>2 DEF Counted

\* A write callback moves one piece from the stack to the progress.
LEMMA CountedFlush ==
    ASSUME SyncTypeOK, Counted, Flushed
    PROVE  Counted'
<1> DEFINE n == Len(push.stack)
<1>1. push.stack \in Seq(Nat) /\ push.moved \in Nat /\ push.stack # <<>>
  BY DEF SyncTypeOK, PushType, Flushed
<1>2. n \in Nat \ {0} /\ \A i \in 1 .. n : push.stack[i] \in Nat
  BY <1>1
<1>a. Len(push.stack) = n
  OBVIOUS
<1> HIDE DEF n
<1>3. push' = [push EXCEPT !.stack = SubSeq(push.stack, 1, n - 1),
                           !.moved = push.moved + push.stack[n]]
  BY <1>a DEF Flushed, Popped, Seqs!Last, Seqs!Front
<1>4. /\ push'.stack = SubSeq(push.stack, 1, n - 1) /\ push'.given = push.given
      /\ push'.moved = push.moved + push.stack[n]
  BY <1>3 DEF SyncTypeOK, PushType
<1>5. /\ Len(push'.stack) = n - 1
      /\ \A i \in 1 .. n - 1 : push'.stack[i] = push.stack[i]
  BY <1>1, <1>2, <1>4, SubSeqProperties
<1>6. PICK sum \in [0 .. n -> Nat] :
        /\ sum[0] = push.moved /\ sum[n] = push.given
        /\ \A i \in 1 .. n : sum[i] = sum[i - 1] + push.stack[i]
  BY <1>a DEF Counted
<1> DEFINE less == [i \in 0 .. n - 1 |-> sum[i] + push.stack[n]]
<1>b. \A i \in 0 .. n - 1 : sum[i] + push.stack[n] \in Nat
  BY <1>2, <1>6
<1>7. less \in [0 .. n - 1 -> Nat] /\ less[0] = push'.moved
  BY <1>2, <1>4, <1>6, <1>b
<1>8. less[n - 1] = push'.given
  BY <1>2, <1>4, <1>6
<1>c. \A i \in 0 .. n - 1 : less[i] = sum[i] + push.stack[n]
  OBVIOUS
<1> HIDE DEF less
<1>9. \A i \in 1 .. n - 1 : less[i] = less[i - 1] + push'.stack[i]
  <2> SUFFICES ASSUME NEW i \in 1 .. n - 1
               PROVE  less[i] = less[i - 1] + push'.stack[i]
    OBVIOUS
  <2>0. i \in 0 .. n - 1 /\ i - 1 \in 0 .. n - 1 /\ i \in 1 .. n /\ i - 1 \in 0 .. n
    BY <1>2
  <2>1. /\ less[i] = sum[i] + push.stack[n] /\ less[i - 1] = sum[i - 1] + push.stack[n]
        /\ sum[i] = sum[i - 1] + push.stack[i] /\ push'.stack[i] = push.stack[i]
        /\ sum[i - 1] \in Nat /\ push.stack[i] \in Nat /\ push.stack[n] \in Nat
    <3>1. less[i] = sum[i] + push.stack[n]
      BY <1>c, <2>0
    <3>2. less[i - 1] = sum[i - 1] + push.stack[n]
      BY <1>c, <2>0
    <3>3. sum[i] = sum[i - 1] + push.stack[i]
      BY <1>6, <2>0
    <3>4. push'.stack[i] = push.stack[i]
      BY <1>5
    <3>5. push.stack[i] \in Nat /\ push.stack[n] \in Nat
      BY <1>2, <2>0
    <3>6. sum[i - 1] \in Nat
      BY <2>0
    <3> QED
      BY <3>1, <3>2, <3>3, <3>4, <3>5, <3>6
  <2> QED
    BY <2>1
<1> QED
  BY <1>5, <1>7, <1>8, <1>9 DEF Counted

\* A chunk puts its pieces on the stack.
LEMMA CountedWrite ==
    ASSUME SyncTypeOK, Counted, NEW b \in Nat,
           push'.stack = push.stack \o Pieces(b), push'.moved = push.moved,
           push'.given = push.given + b
    PROVE  Counted'
<1> DEFINE n == Len(push.stack)
           k == Len(Pieces(b))
<1>0. DataMax \in Nat /\ DataMax > 0
  BY SyncAssumption DEF SyncAssumption
<1>1. push.stack \in Seq(Nat) /\ push.given \in Nat /\ n \in Nat
  BY DEF SyncTypeOK, PushType
<1>2. Pieces(b) \in Seq(Nat) /\ k \in Nat
  BY PiecesType
<1>3. /\ Len(push'.stack) = n + k
      /\ \A i \in 1 .. n + k :
            push'.stack[i] = IF i <= n THEN push.stack[i] ELSE Pieces(b)[i - n]
  BY <1>1, <1>2, ConcatProperties
<1>4. PICK sum \in [0 .. n -> Nat] :
        /\ sum[0] = push.moved /\ sum[n] = push.given
        /\ \A i \in 1 .. n : sum[i] = sum[i - 1] + push.stack[i]
  BY DEF Counted
<1>a. /\ DataMax * k >= b
      /\ \A i \in 1 .. k : /\ DataMax * (i - 1) < b
                           /\ DataMax * i <= b => Pieces(b)[i] = DataMax
                           /\ DataMax * i > b => Pieces(b)[i] = b - DataMax * (i - 1)
                           /\ Pieces(b)[i] \in Nat
  <2>1. /\ DataMax * Len(Pieces(b)) >= b
        /\ \A i \in 1 .. Len(Pieces(b)) :
              /\ DataMax * (i - 1) < b
              /\ DataMax * i <= b => Pieces(b)[i] = DataMax
              /\ DataMax * i > b => Pieces(b)[i] = b - DataMax * (i - 1)
    BY PiecesType, Zenon
  <2>2. \A i \in 1 .. Len(Pieces(b)) : Pieces(b)[i] \in Nat
    BY <1>2
  <2> QED
    BY <2>1, <2>2, Zenon
<1> HIDE DEF n, k
<1> DEFINE part(i) == IF DataMax * i <= b THEN DataMax * i ELSE b
           more == [i \in 0 .. n + k |->
                       IF i <= n THEN sum[i] ELSE push.given + part(i - n)]
<1>5. \A i \in Nat : DataMax * i \in Nat /\ part(i) \in Nat
  BY <1>0
<1>6. part(0) = 0 /\ part(k) = b
  <2>1. DataMax * 0 = 0 /\ DataMax * k >= b /\ DataMax * k \in Nat
    BY <1>0, <1>2, <1>a
  <2> QED
    BY <2>1
<1>7. \A i \in 1 .. k : part(i) = part(i - 1) + Pieces(b)[i]
  <2> SUFFICES ASSUME NEW i \in 1 .. k
               PROVE  part(i) = part(i - 1) + Pieces(b)[i]
    OBVIOUS
  <2>1. DataMax * i = DataMax * (i - 1) + DataMax /\ DataMax * (i - 1) \in Nat
    BY <1>0, <1>2
  <2>2. /\ DataMax * (i - 1) < b
        /\ DataMax * i <= b => Pieces(b)[i] = DataMax
        /\ DataMax * i > b => Pieces(b)[i] = b - DataMax * (i - 1)
    BY <1>a
  <2>3. part(i - 1) = DataMax * (i - 1)
    BY <2>1, <2>2
  <2> QED
    BY <1>0, <2>1, <2>2, <2>3
<1> HIDE DEF part
<1>8. more \in [0 .. n + k -> Nat]
  <2> SUFFICES ASSUME NEW i \in 0 .. n + k
               PROVE  (IF i <= n THEN sum[i] ELSE push.given + part(i - n)) \in Nat
    OBVIOUS
  <2>1. CASE i <= n
    <3>1. i \in 0 .. n
      BY <1>1, <1>2, <2>1
    <3> QED
      BY <1>4, <2>1, <3>1
  <2>2. CASE ~(i <= n)
    <3>1. i - n \in Nat
      BY <1>1, <1>2, <2>2
    <3>2. part(i - n) \in Nat
      BY <1>5, <3>1
    <3> QED
      BY <1>1, <2>2, <3>2
  <2> QED
    BY <2>1, <2>2
<1>m. \A i \in 0 .. n + k : more[i] = IF i <= n THEN sum[i] ELSE push.given + part(i - n)
  OBVIOUS
<1>9. more[0] = push'.moved
  BY <1>1, <1>2, <1>4
<1>10. more[n + k] = push'.given
  <2>1. CASE k = 0
    BY <1>1, <1>4, <1>6, <2>1
  <2>2. CASE k # 0
    BY <1>1, <1>2, <1>6, <2>2
  <2> QED
    BY <2>1, <2>2
<1> HIDE DEF more
<1>11. \A i \in 1 .. n + k : more[i] = more[i - 1] + push'.stack[i]
  <2> SUFFICES ASSUME NEW i \in 1 .. n + k
               PROVE  more[i] = more[i - 1] + push'.stack[i]
    OBVIOUS
  <2>0. i \in 0 .. n + k /\ i - 1 \in 0 .. n + k
    BY <1>1, <1>2
  <2>1. CASE i <= n
    BY <1>1, <1>2, <1>3, <1>4, <1>m, <2>0, <2>1, SMTT(30)
  <2>2. CASE i = n + 1
    <3>0. 1 \in 1 .. k /\ ~(i <= n) /\ i - 1 <= n /\ i - n = 1 /\ i - 1 = n
      BY <1>1, <1>2, <2>2
    <3>1. more[i] = push.given + part(1) /\ more[i - 1] = sum[n]
      BY <1>m, <2>0, <3>0
    <3>2. push'.stack[i] = Pieces(b)[1]
      BY <1>3, <3>0
    <3>3. part(1) = part(0) + Pieces(b)[1] /\ Pieces(b)[1] \in Nat
      BY <1>7, <1>a, <3>0
    <3> QED
      BY <3>1, <3>2, <3>3, <1>1, <1>4, <1>6
  <2>3. CASE i > n + 1
    <3>1. i - n \in 1 .. k /\ i - n - 1 \in Nat /\ (i - 1) - n = i - n - 1
      BY <1>1, <1>2, <2>3
    <3>2. /\ more[i] = push.given + part(i - n)
          /\ more[i - 1] = push.given + part(i - n - 1)
          /\ push'.stack[i] = Pieces(b)[i - n]
      BY <1>1, <1>2, <1>3, <1>m, <2>0, <2>3, <3>1, SMTT(20)
    <3>3. part(i - n) = part(i - n - 1) + Pieces(b)[i - n] /\ Pieces(b)[i - n] \in Nat
      BY <1>2, <1>a, <1>7, <3>1
    <3>4. part(i - n) \in Nat /\ part(i - n - 1) \in Nat
      BY <1>5, <3>1
    <3> QED
      <4> DEFINE x == part(i - n)
                 y == part(i - n - 1)
                 z == Pieces(b)[i - n]
      <4>1. x \in Nat /\ y \in Nat /\ z \in Nat /\ x = y + z
        BY <3>3, <3>4
      <4>2. more[i] = push.given + x /\ more[i - 1] = push.given + y /\ push'.stack[i] = z
        BY <3>2
      <4>3. push.given + x = push.given + y + z
        BY <1>1, <4>1, SMTT(30)
      <4> HIDE DEF x, y, z
      <4> QED
        BY <4>2, <4>3, Zenon
  <2>4. i <= n \/ i = n + 1 \/ i > n + 1
    BY <1>1, <1>2
  <2> QED
    BY <2>1, <2>2, <2>3, <2>4
<1> QED
  BY <1>3, <1>8, <1>9, <1>10, <1>11 DEF Counted

------------------------------------------------------------------------------
\* The answers.
LEMMA RefusalsAre ==
    ASSUME NEW a \in Broken
    PROVE  /\ a \in Seq(SyncKinds)
           /\ \/ Len(a) = 1 /\ a[1] = "JUNK"
              \/ Len(a) = 2 /\ a[1] = "FAIL" /\ a[2] = "ZERO"
              \/ Len(a) = 3 /\ a[1] = "FAIL" /\ a[2] = "LEN" /\ a[3] = "noise"
<1>1. a = <<"JUNK">> \/ a = <<"FAIL", "ZERO">> \/ a = <<"FAIL", "LEN", "noise">>
  BY DEF Broken, Refusals
<1>2. /\ <<"JUNK">> \in Seq(SyncKinds) /\ <<"FAIL", "ZERO">> \in Seq(SyncKinds)
      /\ <<"FAIL", "LEN", "noise">> \in Seq(SyncKinds)
  <2>1. {"JUNK", "FAIL", "ZERO", "LEN", "noise"} \subseteq SyncKinds
    BY DEF SyncKinds
  <2> QED
    BY <2>1
<1>3. CASE a = <<"JUNK">>
  BY <1>2, <1>3
<1>4. CASE a = <<"FAIL", "ZERO">>
  BY <1>2, <1>4
<1>5. CASE a = <<"FAIL", "LEN", "noise">>
  BY <1>2, <1>5
<1> QED
  BY <1>1, <1>3, <1>4, <1>5, Zenon

\* What a stat may be answered.
LEMMA StatAnswers ==
    ASSUME op = "stat", NEW a \in SyncAnswers
    PROVE  a \in Broken \/ a = <<"STAT", "good">> \/ a = <<"STAT", "gone">>
<1>1. SyncAnswers = Broken \cup {<<"STAT", "good">>, <<"STAT", "gone">>}
  BY DEF SyncAnswers
<1> QED
  BY <1>1, Zenon

\* What a push may be answered: OKAY only after DONE.
LEMMA PushAnswers ==
    ASSUME op = "push", NEW a \in SyncAnswers
    PROVE  a \in Broken \/ (push.done /\ a = <<"OKAY", "LEN">>)
<1>1. op # "stat" /\ op # "readdir"
  OBVIOUS
<1>2. SyncAnswers = Broken \cup (IF push.done THEN {<<"OKAY", "LEN">>} ELSE {})
  BY <1>1 DEF SyncAnswers
<1> QED
  BY <1>2, Zenon

\* A listing is three tokens per entry.
LEMMA ListingIs ==
    ASSUME NEW e \in Entries
    PROVE  /\ e \in Seq(Names) /\ Listing(e) \in Seq(SyncKinds)
           /\ Len(Listing(e)) = 3 * Len(e) /\ Len(e) \in Nat
           /\ \A i \in 1 .. 3 * Len(e) :
                 /\ i % 3 = 1 => Listing(e)[i] = "DENT"
                 /\ i % 3 = 2 => Listing(e)[i] = "LEN"
                 /\ i % 3 = 0 => Listing(e)[i] \in Names
<1>1. PICK n \in 0 .. MaxEntries : e \in [1 .. n -> Names]
  BY DEF Entries
<1>2. n \in Nat
  BY SyncAssumption DEF SyncAssumption
<1>3. e \in Seq(Names) /\ Len(e) = n
  BY <1>1, <1>2
<1>4. \A i \in 1 .. 3 * n :
         /\ i % 3 \in {0, 1, 2}
         /\ i % 3 = 0 => i \div 3 \in 1 .. n
  BY <1>2
<1>5. Listing(e) = [i \in 1 .. 3 * n |->
         CASE i % 3 = 1 -> "DENT" [] i % 3 = 2 -> "LEN" [] OTHER -> e[i \div 3]]
  BY <1>3 DEF Listing
<1>6. \A i \in 1 .. 3 * n : /\ i % 3 = 1 => Listing(e)[i] = "DENT"
                            /\ i % 3 = 2 => Listing(e)[i] = "LEN"
                            /\ i % 3 = 0 => Listing(e)[i] = e[i \div 3]
  BY <1>5
<1>7. \A i \in 1 .. 3 * n : i % 3 = 0 => Listing(e)[i] \in Names
  BY <1>1, <1>4, <1>6
<1>8. {"DENT", "LEN"} \cup Names \subseteq SyncKinds
  BY DEF SyncKinds, Names
<1>9. \A i \in 1 .. 3 * n : Listing(e)[i] \in SyncKinds
  BY <1>4, <1>6, <1>7, <1>8
<1>10. Listing(e) \in Seq(SyncKinds) /\ Len(Listing(e)) = 3 * n
  BY <1>2, <1>5, <1>9, SMTT(30)
<1> QED
  BY <1>2, <1>3, <1>6, <1>7, <1>10

\* The ends of an answer to readdir.
Tails == Broken \cup {<<"DONE", "LEN">>}

\* What a listing may end in.
LEMMA TailsAre ==
    ASSUME NEW l \in Tails
    PROVE  /\ l \in Seq(SyncKinds) /\ Len(l) \in 1 .. 3
           /\ l[1] \in {"FAIL", "JUNK", "DONE"}
           /\ l[1] = "JUNK" => Len(l) = 1
           /\ l[1] = "DONE" => Len(l) = 2 /\ l[2] = "LEN" /\ l = <<"DONE", "LEN">>
<1>1. CASE l \in Broken
  BY <1>1, RefusalsAre
<1>2. CASE l = <<"DONE", "LEN">>
  BY <1>2 DEF SyncKinds
<1> QED
  BY <1>1, <1>2 DEF Tails

\* A listing and its end, token by token.
LEMMA ListingThen ==
    ASSUME NEW e \in Entries, NEW l \in Tails
    PROVE  LET a == Listing(e) \o l
               n == 3 * Len(e)
           IN  /\ a \in Seq(SyncKinds) /\ Len(a) = n + Len(l)
               /\ \A i \in 1 .. n : a[i] = Listing(e)[i]
               /\ \A i \in 1 .. Len(l) : a[n + i] = l[i]
<1>1. Listing(e) \in Seq(SyncKinds) /\ Len(Listing(e)) = 3 * Len(e) /\ Len(e) \in Nat
  BY ListingIs
<1>2. l \in Seq(SyncKinds) /\ Len(l) \in 1 .. 3
  BY TailsAre
<1> DEFINE a == Listing(e) \o l
           n == 3 * Len(e)
<1>3. n \in Nat /\ Len(Listing(e)) = n
  BY <1>1
<1> HIDE DEF n
<1>4. /\ a \in Seq(SyncKinds) /\ Len(a) = n + Len(l)
      /\ \A i \in 1 .. n + Len(l) : a[i] = IF i <= n THEN Listing(e)[i] ELSE l[i - n]
  BY <1>1, <1>2, <1>3, ConcatProperties
<1> HIDE DEF a
<1>5. \A i \in 1 .. n : a[i] = Listing(e)[i]
  BY <1>2, <1>3, <1>4
<1>6. \A i \in 1 .. Len(l) : a[n + i] = l[i]
  <2> SUFFICES ASSUME NEW i \in 1 .. Len(l) PROVE a[n + i] = l[i]
    OBVIOUS
  <2>1. n + i \in 1 .. n + Len(l) /\ ~(n + i <= n) /\ (n + i) - n = i
    BY <1>2, <1>3
  <2> QED
    BY <1>4, <2>1
<1> QED
  BY <1>4, <1>5, <1>6 DEF a, n

\* What a readdir may be answered.
LEMMA DirAnswers ==
    ASSUME op = "readdir", NEW a \in SyncAnswers
    PROVE  \E e \in Entries, l \in Tails : a = Listing(e) \o l
<1>1. op # "stat"
  OBVIOUS
<1> DEFINE dirs == {Listing(e) \o l : e \in Entries, l \in Tails}
<1>2. SyncAnswers = Broken \cup dirs
  BY <1>1 DEF SyncAnswers, Tails
<1>3. CASE a \in Broken
  <2> DEFINE e == [i \in 1 .. 0 |-> "dot"]
  <2>1. e \in [1 .. 0 -> Names] /\ 0 \in 0 .. MaxEntries /\ Len(e) = 0
    BY SyncAssumption DEF SyncAssumption
  <2>2. e \in Entries
    BY <2>1 DEF Entries
  <2> HIDE DEF e
  <2>3. a \in Tails
    BY <1>3 DEF Tails
  <2>4. Listing(e) \in Seq(SyncKinds) /\ Len(Listing(e)) = 0
    BY <2>1, <2>2, ListingIs
  <2>5. Listing(e) = <<>>
    BY <2>4
  <2>6. a \in Seq(SyncKinds)
    BY <1>3, RefusalsAre
  <2>7. a = Listing(e) \o a
    BY <2>5, <2>6
  <2> QED
    BY <2>2, <2>3, <2>7
<1>4. CASE a \in dirs
  BY <1>4
<1> HIDE DEF dirs
<1> QED
  BY <1>2, <1>3, <1>4

\* An answer is a sequence of tokens.
LEMMA AnswerType ==
    ASSUME op \in {"stat", "readdir", "push"}, NEW a \in SyncAnswers
    PROVE  a \in Seq(SyncKinds) /\ Len(a) \in Nat
<1>0. /\ <<"STAT", "good">> \in Seq(SyncKinds) /\ <<"STAT", "gone">> \in Seq(SyncKinds)
      /\ <<"OKAY", "LEN">> \in Seq(SyncKinds)
  <2>1. {"STAT", "good", "gone", "OKAY", "LEN"} \subseteq SyncKinds
    BY DEF SyncKinds
  <2> QED
    BY <2>1
<1>r. a \in Broken => a \in Seq(SyncKinds)
  BY RefusalsAre
<1>1. CASE op = "stat"
  <2>1. a \in Broken \/ a = <<"STAT", "good">> \/ a = <<"STAT", "gone">>
    BY <1>1, StatAnswers
  <2>2. a \in Seq(SyncKinds)
    BY <1>0, <1>r, <2>1, Zenon
  <2> QED
    BY <2>2
<1>2. CASE op = "readdir"
  <2>1. PICK e \in Entries, l \in Tails : a = Listing(e) \o l
    BY <1>2, DirAnswers, Zenon
  <2> QED
    BY <2>1, ListingThen
<1>3. CASE op = "push"
  <2>1. a \in Broken \/ a = <<"OKAY", "LEN">>
    BY <1>3, PushAnswers
  <2>2. a \in Seq(SyncKinds)
    BY <1>0, <1>r, <2>1, Zenon
  <2> QED
    BY <2>2
<1> QED
  BY <1>1, <1>2, <1>3

\* An answer to readdir that starts with n tokens of entries goes on with
\* another entry, or with its end.
Opens(s, n) ==
    /\ n \in Nat /\ (n % 3) = 0 /\ n <= Len(s)
    /\ \A i \in 1 .. n : (i % 3) = 1 => s[i] = "DENT"
GoesOn(s, n, e, l) ==
    \/ /\ n + 3 <= 3 * Len(e)
       /\ n < Len(s) => s[n + 1] = "DENT"
       /\ n + 1 < Len(s) => s[n + 2] = "LEN"
       /\ n + 2 < Len(s) => s[n + 3] \in Names
    \/ /\ n = 3 * Len(e) /\ Len(s) <= n + Len(l)
       /\ \A i \in 1 .. Len(l) : n + i <= Len(s) => s[n + i] = l[i]

\* Where a readdir stands, the next token is the one it reads.
LEMMA DirPrefix ==
    ASSUME NEW e \in Entries, NEW l \in Tails, NEW s \in Seq(SyncKinds),
           PrefixOf(s, Listing(e) \o l), NEW n, Opens(s, n)
    PROVE  /\ \A i \in 1 .. n : /\ (i % 3) = 2 => s[i] = "LEN"
                                /\ (i % 3) = 0 => s[i] \in Names
           /\ GoesOn(s, n, e, l)
<1>0. /\ n \in Nat /\ (n % 3) = 0 /\ n <= Len(s)
      /\ \A i \in 1 .. n : (i % 3) = 1 => s[i] = "DENT"
  BY DEF Opens
<1> DEFINE a == Listing(e) \o l
           m == 3 * Len(e)
<1>1. /\ m \in Nat /\ (m % 3) = 0 /\ Len(l) \in 1 .. 3 /\ Len(s) \in Nat
      /\ l[1] \in {"FAIL", "JUNK", "DONE"}
  BY ListingIs, TailsAre
<1>2. /\ Len(a) = m + Len(l)
      /\ \A i \in 1 .. m : a[i] = Listing(e)[i]
      /\ \A i \in 1 .. Len(l) : a[m + i] = l[i]
  BY ListingThen
<1>3. \A i \in 1 .. m : /\ (i % 3) = 1 => a[i] = "DENT"
                        /\ (i % 3) = 2 => a[i] = "LEN"
                        /\ (i % 3) = 0 => a[i] \in Names
  BY <1>2, ListingIs
<1>4. Len(s) <= Len(a) /\ \A i \in 1 .. Len(s) : s[i] = a[i]
  BY DEF PrefixOf
<1> HIDE DEF a, m
<1>5. n <= m
  <2> SUFFICES ASSUME n > m PROVE FALSE
    BY <1>0, <1>1
  <2>1. m + 1 \in 1 .. n /\ ((m + 1) % 3) = 1 /\ m + 1 \in 1 .. Len(s)
    BY <1>0, <1>1
  <2>2. s[m + 1] = "DENT" /\ s[m + 1] = a[m + 1]
    BY <1>0, <1>4, <2>1
  <2>3. a[m + 1] = l[1]
    BY <1>1, <1>2
  <2> QED
    BY <1>1, <2>2, <2>3
<1>6. \A i \in 1 .. n : /\ (i % 3) = 2 => s[i] = "LEN"
                        /\ (i % 3) = 0 => s[i] \in Names
  BY <1>0, <1>1, <1>3, <1>4, <1>5
<1>7. CASE n < m
  <2>1. n + 3 <= m
    BY <1>0, <1>1, <1>7
  <2>2. /\ n + 1 \in 1 .. m /\ ((n + 1) % 3) = 1
        /\ n + 2 \in 1 .. m /\ ((n + 2) % 3) = 2
        /\ n + 3 \in 1 .. m /\ ((n + 3) % 3) = 0
    BY <1>0, <1>1, <2>1
  <2>3. a[n + 1] = "DENT" /\ a[n + 2] = "LEN" /\ a[n + 3] \in Names
    BY <1>3, <2>2
  <2>4. /\ n < Len(s) => s[n + 1] = a[n + 1]
        /\ n + 1 < Len(s) => s[n + 2] = a[n + 2]
        /\ n + 2 < Len(s) => s[n + 3] = a[n + 3]
    BY <1>0, <1>1, <1>4
  <2> QED
    BY <1>6, <2>1, <2>3, <2>4 DEF m, GoesOn
<1>8. CASE n = m
  <2>1. Len(s) <= n + Len(l)
    BY <1>0, <1>1, <1>2, <1>4, <1>8
  <2>2. \A i \in 1 .. Len(l) : n + i <= Len(s) => s[n + i] = l[i]
    BY <1>0, <1>1, <1>2, <1>4, <1>8
  <2> QED
    BY <1>6, <1>8, <2>1, <2>2 DEF m, GoesOn
<1> QED
  BY <1>0, <1>1, <1>5, <1>7, <1>8

\* A complete listing ends with DONE, and holds nothing but entries before it.
LEMMA ListingDone ==
    ASSUME NEW e \in Entries
    PROVE  LET s == Listing(e) \o <<"DONE", "LEN">>
           IN  /\ s \in Seq(SyncKinds) /\ PrefixOf(s, s) /\ Len(s) = 3 * Len(e) + 2
               /\ \A i \in 1 .. Len(s) : s[i] # "FAIL" /\ s[i] # "JUNK"
<1> DEFINE l == <<"DONE", "LEN">>
           s == Listing(e) \o l
<1>1. l \in Tails /\ Len(l) = 2 /\ l[1] = "DONE" /\ l[2] = "LEN"
  BY DEF Tails
<1> HIDE DEF l
<1>2. /\ s \in Seq(SyncKinds) /\ Len(s) = 3 * Len(e) + 2 /\ Len(e) \in Nat
      /\ \A i \in 1 .. 3 * Len(e) : s[i] = Listing(e)[i]
      /\ \A i \in 1 .. 2 : s[3 * Len(e) + i] = l[i]
  <2>1. /\ s \in Seq(SyncKinds) /\ Len(s) = 3 * Len(e) + Len(l)
        /\ \A i \in 1 .. 3 * Len(e) : s[i] = Listing(e)[i]
        /\ \A i \in 1 .. Len(l) : s[3 * Len(e) + i] = l[i]
    BY <1>1, ListingThen
  <2>2. Len(e) \in Nat
    BY ListingIs
  <2> HIDE DEF s
  <2> QED
    BY <1>1, <2>1, <2>2
<1> DEFINE m == 3 * Len(e)
<1>3. m \in Nat
  BY <1>2
<1>4. \A i \in 1 .. m : s[i] \in {"DENT", "LEN"} \cup Names
  <2>1. \A i \in 1 .. m : (i % 3) \in {0, 1, 2}
    BY <1>3
  <2> QED
    BY <1>2, <2>1, ListingIs
<1>5. \A i \in 1 .. m + 2 : i \in 1 .. m \/ i = m + 1 \/ i = m + 2
  BY <1>3
<1>6. s[m + 1] = "DONE" /\ s[m + 2] = "LEN"
  BY <1>1, <1>2
<1>7. Len(s) = m + 2
  BY <1>2
<1>8. PrefixOf(s, s)
  BY <1>3, <1>7 DEF PrefixOf
<1> HIDE DEF m, s
<1>9. \A i \in 1 .. Len(s) : s[i] # "FAIL" /\ s[i] # "JUNK"
  BY <1>4, <1>5, <1>6, <1>7 DEF Names
<1> QED
  BY <1>2, <1>8, <1>9 DEF s, l

------------------------------------------------------------------------------
\* What the device has said to the running operation.
LEMMA SaidIs ==
    ASSUME SyncTypeOK, Tagged
    PROVE  /\ Begin \in Nat /\ Begin >= 1 /\ Len(sent) \in Nat /\ Begin <= Len(sent) + 1
           /\ Said \in Seq(SyncKinds) /\ Len(Said) = Len(sent) + 1 - Begin
           /\ \A i \in 1 .. Len(Said) : /\ Begin + i - 1 \in 1 .. Len(sent)
                                        /\ Said[i] = sent[Begin + i - 1].kind
<1>1. sent \in Seq(SyncToken) /\ Begin \in 1 .. Len(sent) + 1 /\ Len(sent) \in Nat
  BY DEF SyncTypeOK, Tagged
<1> DEFINE b == Begin
           m == Len(sent) + 1 - b
<1>2. b \in Nat /\ b >= 1 /\ m \in Nat
  BY <1>1
<1>3. Said = [i \in 1 .. m |-> sent[b + i - 1].kind]
  BY DEF Said
<1>a. Len(sent) = m + b - 1 /\ b <= Len(sent) + 1
  BY <1>1
<1> HIDE DEF b, m
<1>4. \A i \in 1 .. m : b + i - 1 \in 1 .. Len(sent)
  BY <1>1, <1>2, <1>a
<1>5. \A i \in 1 .. m : sent[b + i - 1].kind \in SyncKinds
  <2>1. \A j \in 1 .. Len(sent) : sent[j].kind \in SyncKinds
    <3>1. \A j \in 1 .. Len(sent) : sent[j] \in SyncToken
      BY <1>1
    <3> QED
      BY <3>1 DEF SyncToken
  <2> QED
    BY <1>4, <2>1
<1>6. Said \in Seq(SyncKinds) /\ Len(Said) = m
  BY <1>2, <1>3, <1>5
<1>7. \A i \in 1 .. Len(Said) : Said[i] = sent[b + i - 1].kind
  BY <1>3, <1>6
<1> QED
  BY <1>1, <1>2, <1>4, <1>6, <1>7, <1>a DEF b, m

\* Answered, for the part of an answer that was read.
LEMMA AnswerIs ==
    ASSUME SyncTypeOK, Tagged, Answered, Fresh, Live, Begin <= Len(sent)
    PROVE  \E a \in SyncAnswers : PrefixOf(Said, a) /\ (~fin => Len(Said) = Len(a))
<1>1. answered = asked
  BY SaidIs DEF Fresh, SyncTypeOK
<1> QED
  BY <1>1 DEF Answered

\* A refusal or an unexpected reply makes the operation fail, whatever it is.
LEMMA RefusedMeansError ==
    ASSUME NEW i \in 1 .. Len(Said), Said[i] = "FAIL" \/ Said[i] = "JUNK"
    PROVE  OpOutcome = "error"
<1>1. /\ Said # <<"STAT", "good">> /\ Said # <<"STAT", "gone">> /\ Said # <<"OKAY", "LEN">>
  OBVIOUS
<1>2. \A e \in Entries : Said # Listing(e) \o <<"DONE", "LEN">>
  BY ListingDone
<1> QED
  BY <1>1, <1>2, Zenon DEF OpOutcome

\* How readdir goes on after n tokens of entries.
LEMMA DirGoesOn ==
    ASSUME SyncTypeOK, Tagged, Answered, Fresh, Live, Begin <= Len(sent),
           NEW n \in Nat, op = "readdir", Listed(Said, files, n),
           n <= Len(Said)
    PROVE  /\ \A i \in 1 .. n : /\ (i % 3) = 2 => Said[i] = "LEN"
                                /\ (i % 3) = 0 => Said[i] \in Names
           /\ n < Len(Said) => Said[n + 1] \in {"DENT", "DONE", "FAIL", "JUNK"}
           /\ n + 1 < Len(Said) /\ Said[n + 1] = "DENT" => Said[n + 2] = "LEN"
           /\ n + 2 < Len(Said) /\ Said[n + 1] = "DENT" => Said[n + 3] \in Names
           /\ n < Len(Said) /\ Said[n + 1] = "DONE" =>
                 /\ Len(Said) <= n + 2
                 /\ n + 1 < Len(Said) =>
                       Said[n + 2] = "LEN" /\ \E e \in Entries : Said = Listing(e) \o <<"DONE", "LEN">>
           /\ n < Len(Said) /\ Said[n + 1] = "JUNK" => Len(Said) = n + 1
<1>1. PICK a \in SyncAnswers : PrefixOf(Said, a)
  BY AnswerIs
<1>2. op = "readdir" /\ (n % 3) = 0 /\ \A i \in 1 .. n : (i % 3) = 1 => Said[i] = "DENT"
  BY DEF Listed
<1>3. PICK e \in Entries, l \in Tails : a = Listing(e) \o l
  BY <1>2, DirAnswers
<1>4. Said \in Seq(SyncKinds) /\ Len(Said) \in Nat
  BY SaidIs
<1>5. PrefixOf(Said, Listing(e) \o l)
  BY <1>1, <1>3
<1>a. Opens(Said, n)
  BY <1>2 DEF Opens
<1>6. /\ \A i \in 1 .. n : /\ (i % 3) = 2 => Said[i] = "LEN"
                           /\ (i % 3) = 0 => Said[i] \in Names
      /\ GoesOn(Said, n, e, l)
  BY <1>4, <1>5, <1>a, DirPrefix, Zenon
<1>7. CASE /\ n + 3 <= 3 * Len(e)
           /\ n < Len(Said) => Said[n + 1] = "DENT"
           /\ n + 1 < Len(Said) => Said[n + 2] = "LEN"
           /\ n + 2 < Len(Said) => Said[n + 3] \in Names
  <2>1. n < Len(Said) => Said[n + 1] # "DONE" /\ Said[n + 1] # "JUNK"
                         /\ Said[n + 1] \in {"DENT", "DONE", "FAIL", "JUNK"}
    BY <1>7
  <2> QED
    BY <1>6, <1>7, <2>1
<1>8. CASE /\ n = 3 * Len(e) /\ Len(Said) <= n + Len(l)
           /\ \A i \in 1 .. Len(l) : n + i <= Len(Said) => Said[n + i] = l[i]
  <2>1. /\ Len(l) \in 1 .. 3 /\ l[1] \in {"FAIL", "JUNK", "DONE"}
        /\ l[1] = "JUNK" => Len(l) = 1
        /\ l[1] = "DONE" => Len(l) = 2 /\ l[2] = "LEN" /\ l = <<"DONE", "LEN">>
    BY TailsAre
  <2>2. n < Len(Said) => Said[n + 1] = l[1]
    BY <1>4, <1>8, <2>1
  <2>3. n < Len(Said) /\ Said[n + 1] = "DONE" /\ n + 1 < Len(Said) =>
           Said[n + 2] = "LEN" /\ Said = Listing(e) \o <<"DONE", "LEN">>
    <3> SUFFICES ASSUME n < Len(Said), Said[n + 1] = "DONE", n + 1 < Len(Said)
                 PROVE  Said[n + 2] = "LEN" /\ Said = Listing(e) \o <<"DONE", "LEN">>
      OBVIOUS
    <3>1. Len(l) = 2 /\ l[2] = "LEN" /\ l = <<"DONE", "LEN">>
      BY <2>1, <2>2
    <3>2. Said[n + 2] = "LEN"
      BY <1>4, <1>8, <3>1
    <3>3. a \in Seq(SyncKinds) /\ Len(a) = n + Len(l)
      BY <1>3, <1>8, ListingThen
    <3>4. Len(Said) = Len(a)
      BY <1>4, <1>8, <3>1, <3>3
    <3>5. \A i \in 1 .. Len(Said) : Said[i] = a[i]
      BY <1>1 DEF PrefixOf
    <3>6. Said = a
      BY <1>4, <3>3, <3>4, <3>5
    <3> QED
      BY <1>3, <3>1, <3>2, <3>6
  <2>4. n < Len(Said) => /\ Said[n + 1] \in {"DENT", "DONE", "FAIL", "JUNK"}
                         /\ Said[n + 1] # "DENT"
    BY <2>1, <2>2
  <2>5. n < Len(Said) /\ Said[n + 1] = "DONE" => Len(Said) <= n + 2
    BY <1>4, <1>8, <2>1, <2>2
  <2>6. n < Len(Said) /\ Said[n + 1] = "JUNK" => Len(Said) = n + 1
    <3> SUFFICES ASSUME n < Len(Said), Said[n + 1] = "JUNK"
                 PROVE  Len(Said) = n + 1
      OBVIOUS
    <3>1. Len(l) = 1
      BY <2>1, <2>2
    <3>2. Len(Said) <= n + 1
      BY <1>8, <3>1
    <3> QED
      BY <1>4, <3>2
  <2>7. n + 1 < Len(Said) => n < Len(Said)
    BY <1>4
  <2>8. n + 2 < Len(Said) => n < Len(Said)
    BY <1>4
  <2> QED
    BY <1>6, <2>3, <2>4, <2>5, <2>6, <2>7, <2>8
<1> QED
  BY <1>6, <1>7, <1>8, Zenon DEF GoesOn

\* readdir fails when the answer stops within an entry, or before DONE.
LEMMA DirCutOff ==
    ASSUME SyncTypeOK, Tagged, NEW n \in Nat, op = "readdir", Listed(Said, files, n),
           \/ Len(Said) = n \/ Len(Said) = n + 1
           \/ Len(Said) = n + 2 /\ Said[n + 1] = "DENT"
    PROVE  OpOutcome = "error"
<1>1. op = "readdir" /\ (n % 3) = 0 /\ \A i \in 1 .. n : (i % 3) = 1 => Said[i] = "DENT"
  BY DEF Listed
<1>2. Said \in Seq(SyncKinds) /\ Len(Said) \in Nat /\ n <= Len(Said)
  BY SaidIs
<1>3. \A e \in Entries : Said # Listing(e) \o <<"DONE", "LEN">>
  <2> SUFFICES ASSUME NEW e \in Entries, Said = Listing(e) \o <<"DONE", "LEN">>
               PROVE  FALSE
    OBVIOUS
  <2> DEFINE l == <<"DONE", "LEN">>
  <2>1. l \in Tails /\ Len(l) = 2 /\ l[1] = "DONE"
    BY DEF Tails
  <2>2. PrefixOf(Said, Listing(e) \o l) /\ Len(Said) = 3 * Len(e) + 2 /\ Len(e) \in Nat
    BY ListingDone, ListingIs
  <2> HIDE DEF l
  <2>a. Opens(Said, n)
    BY <1>1, <1>2 DEF Opens
  <2>3. GoesOn(Said, n, e, l)
    BY <1>2, <2>1, <2>2, <2>a, DirPrefix, Zenon
  <2>4. CASE n + 3 <= 3 * Len(e)
    BY <1>2, <2>2, <2>4
  <2>5. CASE /\ n = 3 * Len(e) /\ Len(Said) <= n + Len(l)
             /\ \A i \in 1 .. Len(l) : n + i <= Len(Said) => Said[n + i] = l[i]
    <3>1. Len(Said) = n + 2 /\ Said[n + 1] = "DENT"
      BY <1>2, <2>2, <2>5
    <3>2. Said[n + 1] = l[1]
      BY <2>1, <2>5, <3>1
    <3> QED
      BY <2>1, <3>1, <3>2
  <2> QED
    BY <2>3, <2>4, <2>5, Zenon DEF GoesOn
<1> QED
  BY <1>1, <1>3, Zenon DEF OpOutcome

\* readdir succeeds with what it has kept, when DONE was read to its end.
LEMMA DirDone ==
    ASSUME SyncTypeOK, Tagged, NEW n \in Nat, op = "readdir", Listed(Said, files, n),
           Len(Said) = n + 2, Said[n + 1] = "DONE", Said[n + 2] = "LEN",
           \E e \in Entries : Said = Listing(e) \o <<"DONE", "LEN">>
    PROVE  OpOutcome = "ok" /\ Found
<1>2. OpOutcome = "ok"
  BY DEF OpOutcome
<1>3. files \in Seq(Names) /\ Len(files) \in Nat
  BY DEF SyncTypeOK
<1>4. PICK pos \in [1 .. Len(files) -> 1 .. n] :
        /\ \A i, j \in 1 .. Len(files) : i < j => pos[i] < pos[j]
        /\ \A k \in 1 .. n : Said[k] \in Names \ {"dot"} <=> \E i \in 1 .. Len(files) : pos[i] = k
        /\ \A i \in 1 .. Len(files) : files[i] = Said[pos[i]]
  BY DEF Listed, Keeping
<1>5. pos \in [1 .. Len(files) -> 1 .. Len(Said)]
  BY <1>4
<1>6. \A k \in 1 .. Len(Said) :
         Said[k] \in Names \ {"dot"} <=> \E i \in 1 .. Len(files) : pos[i] = k
  <2> SUFFICES ASSUME NEW k \in n + 1 .. n + 2
               PROVE  /\ Said[k] \notin Names
                      /\ ~ \E i \in 1 .. Len(files) : pos[i] = k
    BY <1>4
  <2>1. Said[k] \notin Names
    BY DEF Names
  <2>2. \A i \in 1 .. Len(files) : pos[i] # k
    BY <1>4
  <2> QED
    BY <2>1, <2>2
<1>7. Found
  BY <1>4, <1>5, <1>6 DEF Found
<1> QED
  BY <1>2, <1>7

------------------------------------------------------------------------------
\* Where an operation stands is kept when nothing it has read is said otherwise.
LEMMA ListedSame ==
    ASSUME NEW s, NEW s2, NEW f, NEW n, Listed(s, f, n), \A i \in 1 .. n : s2[i] = s[i]
    PROVE  Listed(s2, f, n)
<1>1. n \in Nat /\ (n % 3) = 0 /\ \A i \in 1 .. n : (i % 3) = 1 => s2[i] = "DENT"
  BY DEF Listed
<1>2. PICK pos \in [1 .. Len(f) -> 1 .. n] :
        /\ \A i, j \in 1 .. Len(f) : i < j => pos[i] < pos[j]
        /\ \A k \in 1 .. n : s[k] \in Names \ {"dot"} <=> \E i \in 1 .. Len(f) : pos[i] = k
        /\ \A i \in 1 .. Len(f) : f[i] = s[pos[i]]
  BY DEF Listed, Keeping
<1>3. \A k \in 1 .. n : s2[k] \in Names \ {"dot"} <=> \E i \in 1 .. Len(f) : pos[i] = k
  BY <1>2
<1>4. \A i \in 1 .. Len(f) : f[i] = s2[pos[i]]
  BY <1>2
<1>5. Keeping(s2, f, n)
  BY <1>2, <1>3, <1>4 DEF Keeping
<1> QED
  BY <1>1, <1>5 DEF Listed

\* Where the reads stand depends only on what was read.
LEMMA StandingSame ==
    ASSUME NEW r, NEW o, NEW s, NEW s2, NEW f, NEW n \in Int, NEW h \in Int, NEW h2 \in Int,
           Standing(r, o, s, f, n, h), n <= h, h <= h2, \A i \in 1 .. h : s2[i] = s[i]
    PROVE  Standing(r, o, s2, f, n, h2)
<1>1. \A m \in Nat : m <= n /\ Listed(s, f, m) => Listed(s2, f, m)
  BY ListedSame
<1>2. \A m \in Int : Listed(s, f, m) => m \in Nat
  BY DEF Listed
<1>3. r = "syncReply" =>
          \/ o \in {"stat", "push"} /\ n = 0
          \/ o = "readdir" /\ Listed(s2, f, n)
  BY <1>1, <1>2 DEF Standing
<1>4. r = "stat" => o = "stat" /\ n = 1 /\ s2[1] = "STAT"
  BY DEF Standing
<1>5. r = "dent" => o = "readdir" /\ Listed(s2, f, n - 1) /\ s2[n] = "DENT"
  BY <1>1, <1>2 DEF Standing
<1>6. r = "name" => o = "readdir" /\ Listed(s2, f, n - 2) /\ s2[n - 1] = "DENT"
  BY <1>1, <1>2 DEF Standing
<1>7. r = "last" => \/ o = "readdir" /\ Listed(s2, f, n - 1) /\ s2[n] = "DONE"
                    \/ o = "push" /\ n = 1 /\ s2[1] = "OKAY"
  BY <1>1, <1>2 DEF Standing
<1>8. r \in {"syncLength", "syncText", "drainEnd"} => \E i \in 1 .. h2 : s2[i] = "FAIL"
  BY DEF Standing
<1>9. /\ r = "syncLength" => n >= 1 /\ s2[n] = "FAIL"
      /\ r = "syncText" => n >= 2 /\ s2[n - 1] = "FAIL" /\ s2[n] = "LEN"
  BY DEF Standing
<1> QED
  BY <1>3, <1>4, <1>5, <1>6, <1>7, <1>8, <1>9 DEF Standing

\* So it stays when only other things change.
LEMMA StandsSame ==
    ASSUME SyncTypeOK, Tagged, Stands, op' = op, files' = files, at' = at,
           taken' \in Nat, taken' >= taken, Begin' = Begin, Before' = Before,
           \A i \in 1 .. SoFar : Said'[i] = Said[i]
    PROVE  Stands'
<1>1. Begin \in Nat /\ taken \in Nat
  BY SaidIs DEF SyncTypeOK
<1>2. SoFar' = taken' + 1 - Begin
  BY DEF SoFar
<1>3. Before \in Int /\ SoFar \in Int /\ Before <= SoFar /\ SoFar' \in Int /\ SoFar <= SoFar'
  BY <1>1, <1>2 DEF Before, SoFar
<1>4. Standing(at, op, Said', files, Before, SoFar')
  BY <1>3, StandingSame DEF Stands
<1> QED
  BY <1>4 DEF Stands

\* The answer is the same when nothing is asked, sent or closed.
AnswerSame ==
    /\ asked' = asked /\ answered' = answered /\ sent' = sent /\ fin' = fin /\ op' = op
    /\ push.done => push'.done
    /\ push.dropped => push'.dropped

\* More answers are possible once DONE is sent, and none less.
LEMMA AnswersSame ==
    ASSUME op \in {"stat", "readdir", "push"}, op' = op, push.done => push'.done
    PROVE  SyncAnswers \subseteq SyncAnswers'
<1>1. CASE op = "stat"
  BY <1>1 DEF SyncAnswers
<1>2. CASE op = "readdir"
  BY <1>2 DEF SyncAnswers
<1>3. CASE op = "push"
  <2>1. SyncAnswers = Broken \cup (IF push.done THEN {<<"OKAY", "LEN">>} ELSE {})
    BY <1>3 DEF SyncAnswers
  <2>2. SyncAnswers' = Broken \cup (IF push'.done THEN {<<"OKAY", "LEN">>} ELSE {})
    BY <1>3 DEF SyncAnswers
  <2> QED
    BY <2>1, <2>2, Zenon
<1> QED
  BY <1>1, <1>2, <1>3

\* A step that sends nothing to the operation leaves its answer.
LEMMA SameAnswer ==
    ASSUME SyncTypeOK, Tagged, Fresh, Answered, AnswerSame
    PROVE  /\ Begin' = Begin /\ Said' = Said /\ OpOutcome' = OpOutcome
           /\ Tagged' /\ Fresh' /\ Answered'
<1>1. Begin' = Begin
  BY DEF AnswerSame, Begin
<1>2. Said' = Said
  BY <1>1 DEF AnswerSame, Said
<1>3. OpOutcome' = OpOutcome
  BY <1>2 DEF AnswerSame, OpOutcome
<1>4. Tagged' /\ Fresh'
  BY <1>1 DEF AnswerSame, Tagged, Fresh
<1>5. Answered'
  <2> SUFFICES ASSUME Live', answered' = asked'
               PROVE  \E a \in SyncAnswers' : PrefixOf(Said', a) /\ (~fin' => Len(Said') = Len(a))
    BY DEF Answered
  <2>1. Live /\ answered = asked
    BY DEF Live, AnswerSame
  <2>2. PICK a \in SyncAnswers : PrefixOf(Said, a) /\ (~fin => Len(Said) = Len(a))
    BY <2>1 DEF Answered
  <2>3. op \in {"stat", "readdir", "push"}
    BY <2>1 DEF Live, SyncTypeOK
  <2>4. a \in SyncAnswers'
    BY <2>3, AnswersSame DEF AnswerSame
  <2> QED
    BY <1>2, <2>2, <2>4 DEF AnswerSame
<1> QED
  BY <1>1, <1>2, <1>3, <1>4, <1>5

\* A step that leaves the reads alone as well.
LEMMA ConversationSame ==
    ASSUME SyncTypeOK, Conversed, AnswerSame, push'.dropped = push.dropped,
           UNCHANGED <<arrived, broken, destroyed, taken, at, phase, token, ended>>,
           outcome' = outcome, files' = files
    PROVE  Conversed'
<1>0. Tagged /\ Fresh /\ Behind /\ Answered /\ JustRead /\ Closed /\ (Live => Stands) /\ Outcomes
  BY DEF Conversed
<1>1. /\ Begin' = Begin /\ Said' = Said /\ OpOutcome' = OpOutcome
      /\ Tagged' /\ Fresh' /\ Answered'
  BY <1>0, SameAnswer
<1>2. Live' = Live
  BY DEF Live, AnswerSame
<1>3. Behind'
  BY <1>0, <1>1, <1>2 DEF Behind
<1>4. JustRead' /\ Closed'
  BY <1>0, <1>1 DEF JustRead, Closed, HasToken, AnswerSame
<1>5. HasToken' = HasToken
  BY DEF HasToken
<1>6. Live' => Stands'
  <2>1. Before' = Before
    BY <1>1, <1>5 DEF Before, SoFar
  <2>2. taken' \in Nat /\ taken' >= taken
    BY DEF SyncTypeOK
  <2> QED
    BY <1>0, <1>1, <1>2, <2>1, <2>2, StandsSame DEF AnswerSame
<1>7. Found' = Found
  BY <1>1 DEF Found
<1>8. Outcomes'
  BY <1>0, <1>1, <1>2, <1>7 DEF Outcomes, AnswerSame
<1> QED
  BY <1>1, <1>3, <1>4, <1>6, <1>8 DEF Conversed

------------------------------------------------------------------------------
\* The steps of the source and of the writer.
LEMMA SourceStep ==
    ASSUME SyncInv, SourceGives \/ SourceReadable \/ SourceEnds \/ Flushed
    PROVE  SyncInv'
<1> USE DEF SyncInv
<1>0. push \in PushType
  BY DEF SyncTypeOK
<1>1. UNCHANGED <<vars, op, ops, outcome, files>>
  BY Zenon DEF SourceGives, SourceReadable, SourceEnds, Flushed
<1>2. /\ UNCHANGED <<asked, answered, sent, fin, arrived, broken, destroyed, shut,
                     taken, at, phase, token, ended, op, ops, outcome, files>>
  BY <1>1 DEF vars, server, socket, parser
<1>3. CASE SourceGives
  <2>1. PICK n \in Nat, s \in {"flows", "eof"} :
           /\ push' = [push EXCEPT !.made = n, !.source = s]
           /\ push.listens /\ push.source = "flows" /\ n >= push.made
    <3>1. CASE \E n \in (push.made + 1) .. MaxBytes : push' = [push EXCEPT !.made = n]
      <4>1. PICK n \in (push.made + 1) .. MaxBytes : push' = [push EXCEPT !.made = n]
        BY <3>1
      <4>2. n \in Nat /\ n >= push.made
        BY <1>0, SyncAssumption DEF PushType, SyncAssumption
      <4>3. push' = [push EXCEPT !.made = n, !.source = "flows"]
        BY <1>0, <1>3, <4>1 DEF SourceGives, PushType
      <4> QED
        BY <1>3, <4>2, <4>3 DEF SourceGives
    <3>2. CASE push' = [push EXCEPT !.source = "eof"]
      <4>1. push.made \in Nat /\ push' = [push EXCEPT !.made = push.made, !.source = "eof"]
        BY <1>0, <3>2 DEF PushType
      <4>2. push.listens /\ push.source = "flows" /\ push.made >= push.made
        BY <1>3, <4>1 DEF SourceGives
      <4>3. "eof" \in {"flows", "eof"}
        OBVIOUS
      <4> QED
        BY <4>1, <4>2, <4>3, Zenon
    <3> QED
      BY <1>3, <3>1, <3>2 DEF SourceGives
  <2>2. push' \in PushType
    BY <1>0, <2>1 DEF PushType
  <2>3. /\ push'.made = n /\ push'.source = s /\ push'.listens = push.listens
        /\ push'.writeDue = push.writeDue /\ push'.doneDue = push.doneDue
        /\ push'.given = push.given /\ push'.put = push.put /\ push'.done = push.done
        /\ push'.stack = push.stack /\ push'.moved = push.moved
        /\ push'.errors = push.errors /\ push'.ended = push.ended
        /\ push'.dropped = push.dropped
    BY <1>0, <2>1 DEF PushType
  <2>4. SyncTypeOK'
    BY <1>2, <2>2 DEF SyncTypeOK
  <2>5. WriterInv'
    BY <1>0, <1>2, <2>1, <2>3 DEF WriterInv, OnWire, PushType
  <2>6. Counted'
    BY <2>3, CountedSame DEF SameCount
  <2>7. TransferInv'
    BY <1>0, <1>2, <2>1, <2>3 DEF TransferInv, NoPush
  <2>8. Conversed'
    BY <1>2, <2>3, ConversationSame DEF AnswerSame
  <2> QED
    BY <2>4, <2>5, <2>6, <2>7, <2>8
<1>4. CASE SourceReadable \/ SourceEnds
  <2>1. \/ push' = [push EXCEPT !.writeDue = TRUE] /\ push.made > push.given
           /\ push.listens
        \/ push' = [push EXCEPT !.source = "over", !.doneDue = TRUE]
           /\ push.listens /\ push.source = "eof" /\ push.made = push.given
    BY <1>4 DEF SourceReadable, SourceEnds
  <2>2. push' \in PushType
    BY <1>0, <2>1 DEF PushType
  <2>3. /\ push'.made = push.made /\ push'.listens = push.listens
        /\ push'.given = push.given /\ push'.put = push.put /\ push'.done = push.done
        /\ push'.stack = push.stack /\ push'.moved = push.moved
        /\ push'.errors = push.errors /\ push'.ended = push.ended
        /\ push'.dropped = push.dropped
    BY <1>0, <2>1 DEF PushType
  <2>a. \/ push'.writeDue = TRUE /\ push'.source = push.source /\ push'.doneDue = push.doneDue
           /\ push.made > push.given
        \/ push'.source = "over" /\ push'.doneDue = TRUE /\ push'.writeDue = push.writeDue
           /\ push.source = "eof" /\ push.made = push.given
    BY <1>0, <2>1 DEF PushType
  <2>4. SyncTypeOK'
    BY <1>2, <2>2 DEF SyncTypeOK
  <2>5. WriterInv'
    BY <1>0, <1>2, <2>1, <2>3, <2>a DEF WriterInv, OnWire, PushType
  <2>6. Counted'
    BY <2>3, CountedSame DEF SameCount
  <2>7. TransferInv'
    BY <1>0, <1>2, <2>1, <2>3 DEF TransferInv, NoPush
  <2>8. Conversed'
    BY <1>2, <2>3, ConversationSame DEF AnswerSame
  <2> QED
    BY <2>4, <2>5, <2>6, <2>7, <2>8
<1>5. CASE Flushed
  <2>1. /\ push' = [push EXCEPT !.stack = SubSeq(push.stack, 1, Len(push.stack) - 1),
                               !.moved = push.moved + push.stack[Len(push.stack)]]
        /\ push.stack # <<>>
    BY <1>5 DEF Flushed, Popped, Seqs!Last, Seqs!Front
  <2>2. /\ SubSeq(push.stack, 1, Len(push.stack) - 1) \in Seq(Nat)
        /\ push.moved + push.stack[Len(push.stack)] \in Nat
    <3>1. push.stack \in Seq(Nat) /\ Len(push.stack) \in Nat \ {0}
      BY <1>0, <2>1 DEF PushType
    <3>2. push.stack[Len(push.stack)] \in Nat
      BY <3>1
    <3>3. \A i \in 1 .. Len(push.stack) - 1 : push.stack[i] \in Nat
      BY <3>1
    <3>4. SubSeq(push.stack, 1, Len(push.stack) - 1) \in Seq(Nat)
      BY <3>1, <3>3, SubSeqProperties
    <3> QED
      BY <1>0, <3>2, <3>4 DEF PushType
  <2>3. push' \in PushType
    BY <1>0, <2>1, <2>2 DEF PushType
  <2>4. /\ push'.made = push.made /\ push'.source = push.source /\ push'.listens = push.listens
        /\ push'.writeDue = push.writeDue /\ push'.doneDue = push.doneDue
        /\ push'.given = push.given /\ push'.put = push.put /\ push'.done = push.done
        /\ push'.errors = push.errors /\ push'.ended = push.ended
        /\ push'.dropped = push.dropped
    BY <1>0, <2>1 DEF PushType
  <2>5. SyncTypeOK'
    BY <1>2, <2>3 DEF SyncTypeOK
  <2>6. WriterInv'
    BY <1>0, <1>2, <2>4 DEF WriterInv, OnWire, PushType
  <2>7. Counted'
    BY <1>5, CountedFlush
  <2>8. TransferInv'
    BY <1>0, <1>2, <2>1, <2>4 DEF TransferInv, NoPush
  <2>9. Conversed'
    BY <1>2, <2>4, ConversationSame DEF AnswerSame
  <2> QED
    BY <2>5, <2>6, <2>7, <2>8, <2>9
<1> QED
  BY <1>3, <1>4, <1>5

\* What a write to the connection changes: it fails when the connection was
\* ended, and the read that waits fails with it.
LEMMA WritingConversed ==
    ASSUME SyncTypeOK, Conversed, Writing, push.done => push'.done,
           push'.dropped = push.dropped
    PROVE  /\ Conversed' /\ (push' \in PushType => SyncTypeOK') /\ (OnWire' <=> OnWire)
           /\ op' = op /\ at' = at
<1>0. /\ Tagged /\ Fresh /\ Behind /\ Answered /\ JustRead /\ Closed
      /\ (Live => Stands) /\ Outcomes
  BY DEF Conversed
<1>1. /\ UNCHANGED <<asked, answered, sent, fin, arrived, shut, taken, at, ended, op, ops,
                     outcome, files>>
      /\ destroyed' = (destroyed \/ shut)
      /\ broken' = (broken \/ (shut /\ ~destroyed))
  BY Zenon DEF Writing, server
<1>2. \/ phase' = phase /\ token' = token
      \/ phase = "waiting" /\ phase' = "gap" /\ token' = Failed /\ broken'
  BY <1>1, Zenon DEF Writing
<1>3. Failed = [kind |-> "ERROR", of |-> 0] /\ Failed.kind = "ERROR" /\ "ERROR" \in Lost
  BY DEF Failed, Tok, Lost
<1>4. /\ Begin' = Begin /\ Said' = Said /\ OpOutcome' = OpOutcome
      /\ Tagged' /\ Fresh' /\ Answered'
  <2>1. AnswerSame
    BY <1>1 DEF AnswerSame
  <2> QED
    BY <1>0, <2>1, SameAnswer
<1>5. Live' = Live
  BY <1>1 DEF Live
<1>6. HasToken' = HasToken
  BY <1>2, <1>3 DEF HasToken
<1>7. Behind'
  BY <1>0, <1>1, <1>4, <1>5 DEF Behind
<1>8. broken => broken'
  BY <1>1, Zenon
<1>9. JustRead'
  <2>1. CASE phase' = phase /\ token' = token
    BY <1>0, <1>1, <1>4, <1>8, <2>1 DEF JustRead, HasToken
  <2>2. CASE phase' = "gap" /\ token' = Failed /\ broken'
    <3>1. token'.kind = "ERROR" /\ ~HasToken'
      BY <1>3, <2>2 DEF HasToken
    <3> QED
      BY <2>2, <3>1 DEF JustRead
  <2> QED
    BY <1>2, <2>1, <2>2
<1>10. Closed'
  BY <1>0, <1>1 DEF Closed
<1>11. Live' => Stands'
  <2>1. Before' = Before
    BY <1>1, <1>4, <1>6 DEF Before, SoFar
  <2>2. taken' \in Nat /\ taken' >= taken
    BY <1>1 DEF SyncTypeOK
  <2> QED
    BY <1>0, <1>1, <1>4, <1>5, <2>1, <2>2, StandsSame
<1>12. Found' = Found
  BY <1>1, <1>4 DEF Found
<1>13. Outcomes'
  BY <1>0, <1>1, <1>4, <1>5, <1>8, <1>12 DEF Outcomes
<1>14. Conversed'
  BY <1>4, <1>7, <1>9, <1>10, <1>11, <1>13 DEF Conversed
<1>15. destroyed' \in BOOLEAN /\ broken' \in BOOLEAN
  BY <1>1
<1>16. phase' \in {"waiting", "gap"} /\ token' \in [kind : SyncKinds \cup Lost, of : Nat]
  BY <1>2, <1>3 DEF SyncTypeOK
<1>17. push' \in PushType => SyncTypeOK'
  BY <1>1, <1>15, <1>16 DEF SyncTypeOK
<1>18. OnWire' <=> OnWire
  BY <1>1, Zenon DEF OnWire
<1> QED
  BY <1>1, <1>14, <1>17, <1>18

\* The writer's continuations preserve SyncInv.
LEMMA WriteStep ==
    ASSUME SyncInv, WriteNext \/ WriteDone
    PROVE  SyncInv'
<1> USE DEF SyncInv
<1>0. push \in PushType /\ WriterInv
  BY DEF SyncTypeOK
<1>a. \/ Writing
      \/ UNCHANGED <<vars, op, ops, outcome, files>>
  BY Zenon DEF WriteNext, WriteDone
<1>1. ASSUME push' \in PushType, push.done => push'.done, push'.dropped = push.dropped
      PROVE  SyncTypeOK' /\ Conversed' /\ (OnWire' <=> OnWire) /\ op' = op /\ at' = at
  <2>1. CASE Writing
    BY <1>1, <2>1, WritingConversed
  <2>2. CASE UNCHANGED <<vars, op, ops, outcome, files>>
    <3>1. /\ UNCHANGED <<asked, answered, sent, fin, arrived, broken, destroyed, shut,
                         taken, at, phase, token, ended, op, ops, outcome, files>>
      BY <2>2 DEF vars, server, socket, parser
    <3>2. SyncTypeOK'
      BY <1>1, <3>1 DEF SyncTypeOK
    <3>3. Conversed'
      BY <1>1, <3>1, ConversationSame DEF AnswerSame
    <3> QED
      BY <3>1, <3>2, <3>3 DEF OnWire
  <2> QED
    BY <1>a, <2>1, <2>2
<1>2. CASE WriteNext
  <2> DEFINE n == Unread
             put == IF OnWire THEN push.put + n ELSE push.put
  <2>1. /\ push.writeDue
        /\ push' = [push EXCEPT !.writeDue = FALSE, !.given = push.given + n,
                                !.put = put, !.stack = push.stack \o Pieces(n)]
    BY <1>2 DEF WriteNext
  <2>2. /\ n \in Nat /\ push.given + n <= push.made
        /\ push.source # "failed" => push.given + n = push.made
    BY <1>0 DEF Unread, WriterInv, PushType
  <2>3. put \in Nat /\ (OnWire => put = push.put + n)
    BY <1>0, <2>2 DEF PushType
  <2>4. push.stack \o Pieces(n) \in Seq(Nat)
    BY <1>0, <2>2, PiecesType, ConcatProperties DEF PushType
  <2> HIDE DEF n, put
  <2>5. push' \in PushType
    <3> DEFINE given == push.given + n
               stack == push.stack \o Pieces(n)
    <3>1. given \in Nat /\ stack \in Seq(Nat)
      BY <1>0, <2>2, <2>4 DEF PushType
    <3>2. push' = [push EXCEPT !.writeDue = FALSE, !.given = given,
                               !.put = put, !.stack = stack]
      BY <2>1
    <3> HIDE DEF given, stack
    <3> QED
      BY <1>0, <2>3, <3>1, <3>2 DEF PushType
  <2>6. /\ push'.made = push.made /\ push'.source = push.source
        /\ push'.listens = push.listens /\ push'.writeDue = FALSE
        /\ push'.doneDue = push.doneDue /\ push'.given = push.given + n
        /\ push'.put = put /\ push'.done = push.done
        /\ push'.stack = push.stack \o Pieces(n) /\ push'.moved = push.moved
        /\ push'.errors = push.errors /\ push'.ended = push.ended
        /\ push'.dropped = push.dropped
    BY <1>0, <2>1 DEF PushType
  <2>7. SyncTypeOK' /\ Conversed' /\ (OnWire' <=> OnWire) /\ op' = op /\ at' = at
    BY <1>1, <2>5, <2>6
  <2>8. WriterInv'
    <3>1. push'.source = "over" => FALSE
      BY <1>0, <2>1, <2>6 DEF WriterInv
    <3>2. push.done => FALSE
      BY <1>0, <2>1 DEF WriterInv
    <3> QED
      BY <1>0, <2>1, <2>2, <2>3, <2>6, <2>7, <3>1, <3>2 DEF WriterInv, PushType
  <2>9. Counted'
    BY <2>2, <2>6, CountedWrite
  <2>10. TransferInv'
    BY <1>0, <2>1, <2>6, <2>7 DEF TransferInv, NoPush
  <2> QED
    BY <2>7, <2>8, <2>9, <2>10
<1>3. CASE WriteDone
  <2>1. /\ push.doneDue /\ ~push.writeDue
        /\ push' = [push EXCEPT !.doneDue = FALSE, !.done = OnWire, !.listens = FALSE]
    BY <1>3 DEF WriteDone
  <2>2. OnWire \in BOOLEAN
    BY DEF OnWire, SyncTypeOK
  <2>3. push' \in PushType
    BY <1>0, <2>1, <2>2 DEF PushType
  <2>4. /\ push'.made = push.made /\ push'.source = push.source
        /\ push'.listens = FALSE /\ push'.writeDue = push.writeDue
        /\ push'.doneDue = FALSE /\ push'.given = push.given
        /\ push'.put = push.put /\ push'.done = OnWire
        /\ push'.stack = push.stack /\ push'.moved = push.moved
        /\ push'.errors = push.errors /\ push'.ended = push.ended
        /\ push'.dropped = push.dropped
    BY <1>0, <2>1 DEF PushType
  <2>5. push.done => push'.done
    BY <1>0, <2>1 DEF WriterInv
  <2>7. SyncTypeOK' /\ Conversed' /\ (OnWire' <=> OnWire) /\ op' = op /\ at' = at
    BY <1>1, <2>3, <2>4, <2>5
  <2>8. WriterInv'
    BY <1>0, <2>1, <2>4, <2>7 DEF WriterInv, PushType
  <2>9. Counted'
    BY <2>4, CountedSame DEF SameCount
  <2>10. TransferInv'
    BY <1>0, <2>1, <2>4, <2>5, <2>7 DEF TransferInv, NoPush
  <2> QED
    BY <2>7, <2>8, <2>9, <2>10
<1> QED
  BY <1>2, <1>3

------------------------------------------------------------------------------
\* The requests.  An operation starts when all that was sent has been read.
LEMMA StartReadCases ==
    ASSUME NEW w, StartRead(w)
    PROVE  /\ at' = w
           /\ \/ arrived > taken /\ taken' = taken + 1 /\ token' = sent[taken + 1]
                 /\ phase' = "gap"
              \/ arrived = taken /\ taken' = taken /\ ended /\ token' = Eof /\ phase' = "gap"
              \/ arrived = taken /\ taken' = taken /\ ~ended /\ token' = token
                 /\ phase' = "waiting"
BY Zenon DEF StartRead

\* What a read that fails is settled with.
LEMMA EofIs ==
    /\ Eof = [kind |-> "EOF", of |-> 0] /\ Eof.kind = "EOF"
    /\ Failed = [kind |-> "ERROR", of |-> 0] /\ Failed.kind = "ERROR"
    /\ Eof.kind \in Lost /\ Failed.kind \in Lost
    /\ {Eof, Failed} \subseteq [kind : SyncKinds \cup Lost, of : Nat]
BY DEF Eof, Failed, Tok, Lost

\* An operation that starts preserves SyncInv.
LEMMA StartStep ==
    ASSUME SyncInv, StartOp
    PROVE  SyncInv'
<1> USE DEF SyncInv
<1>0. /\ Tagged /\ Fresh /\ Behind /\ Answered /\ JustRead /\ Closed
      /\ (Live => Stands) /\ Outcomes
  BY DEF Conversed
<1>1. /\ at = "free" /\ ~push.dropped /\ ~(outcome = "error" /\ (destroyed \/ broken))
      /\ op' \in (IF ops = 0 THEN FirstOps ELSE LaterOps) /\ ops' = ops + 1
      /\ outcome' = "none" /\ files' = <<>>
      /\ push' = [NoPush EXCEPT !.listens = (op' = "push")]
      /\ asked' = asked + 1 /\ destroyed' = (destroyed \/ shut)
      /\ StartRead("syncReply")
      /\ UNCHANGED <<answered, sent, fin, arrived, broken, shut, ended>>
  BY DEF StartOp, server
<1>2. op' \in {"stat", "readdir", "push"}
  <2>1. op' \in FirstOps \cup LaterOps
    BY <1>1
  <2> QED
    BY <2>1, SyncAssumption DEF SyncAssumption
<1>3. /\ sent \in Seq(SyncToken) /\ Len(sent) \in Nat /\ asked \in Nat /\ answered \in 0 .. asked
      /\ arrived \in 0 .. Len(sent) /\ taken \in 0 .. arrived
  BY DEF SyncTypeOK
<1>4. taken = Len(sent)
  <2>1. CASE op = "none"
    BY <1>0, <1>3, <2>1 DEF Outcomes
  <2>2. CASE op # "none"
    <3>1. Live
      BY <1>1, <2>2 DEF Live
    <3>2. ~(outcome = "error" /\ broken)
      BY <1>1
    <3> QED
      BY <1>0, <1>1, <3>1, <3>2 DEF Outcomes
  <2> QED
    BY <2>1, <2>2
<1>5. /\ at' = "syncReply" /\ taken' = taken /\ arrived = taken
      /\ \/ ended /\ token' = Eof /\ phase' = "gap"
         \/ ~ended /\ token' = token /\ phase' = "waiting"
  <2>1. ~(arrived > taken) /\ arrived = taken
    BY <1>3, <1>4
  <2> QED
    BY <1>1, <2>1, StartReadCases
<1>6. /\ push'.made = 0 /\ push'.source = "flows" /\ push'.listens = (op' = "push")
      /\ push'.writeDue = FALSE /\ push'.doneDue = FALSE /\ push'.given = 0
      /\ push'.put = 0 /\ push'.done = FALSE /\ push'.stack = <<>> /\ push'.moved = 0
      /\ push'.errors = 0 /\ push'.ended = FALSE /\ push'.dropped = FALSE
      /\ push' \in PushType /\ (op' # "push" => push' = NoPush)
  <2>1. (op' = "push") \in BOOLEAN
    OBVIOUS
  <2>2. push' \in PushType
    <3>1. <<>> \in Seq(Nat) /\ 0 \in Nat
      OBVIOUS
    <3>2. NoPush \in PushType
      BY <3>1 DEF NoPush, PushType
    <3> QED
      BY <1>1, <2>1, <3>2 DEF PushType
  <2>3. op' # "push" => push' = NoPush
    BY <1>1 DEF NoPush
  <2> QED
    BY <1>1, <2>2, <2>3 DEF NoPush
<1>7. SyncTypeOK'
  <2>1. token' \in [kind : SyncKinds \cup Lost, of : Nat] /\ phase' \in {"waiting", "gap"}
    BY <1>5, EofIs DEF SyncTypeOK
  <2>2. asked' \in Nat /\ answered' \in 0 .. asked' /\ ops' \in Nat
    BY <1>1, <1>3 DEF SyncTypeOK
  <2>3. at' \in SyncReads \cup {"drainEnd", "free"}
    BY <1>5 DEF SyncReads
  <2>4. destroyed' \in BOOLEAN
    BY <1>1
  <2>5. files' \in Seq(Names)
    BY <1>1
  <2> QED
    BY <1>1, <1>2, <1>3, <1>5, <1>6, <2>1, <2>2, <2>3, <2>4, <2>5 DEF SyncTypeOK
<1>8. WriterInv'
  BY <1>6 DEF WriterInv
<1>9. Counted'
  BY <1>6, CountedNone
<1>10. TransferInv'
  BY <1>5, <1>6 DEF TransferInv
<1>11. Begin' = Len(sent) + 1 /\ Tagged'
  <2>1. \A i \in 1 .. Len(sent) : sent[i].of \in 0 .. asked
    BY <1>0 DEF Tagged
  <2>2. \A i \in 1 .. Len(sent) : sent[i].of = asked + 1 <=> i >= Len(sent) + 1
    BY <1>3, <2>1
  <2>3. Begin' = Len(sent) + 1
    <3>1. BeginOf(sent, asked + 1) = Len(sent) + 1
      BY <1>3, <2>2, BeginIs
    <3> QED
      BY <1>1, <3>1 DEF Begin
  <2>4. \A i \in 1 .. Len(sent) : sent[i].of \in 0 .. (asked + 1)
    BY <1>3, <2>1
  <2> QED
    BY <1>1, <1>3, <2>2, <2>3, <2>4 DEF Tagged
<1>12. Fresh' /\ Behind' /\ Answered'
  BY <1>1, <1>3, <1>4, <1>5, <1>11 DEF Fresh, Behind, Answered
<1>13. JustRead' /\ ~HasToken'
  BY <1>1, <1>5, EofIs DEF JustRead, HasToken
<1>14. Closed'
  BY <1>0, <1>1, <1>5 DEF Closed
<1>15. Stands'
  <2>1. Before' = 0
    <3>1. Before' = taken' + 1 - Begin'
      BY <1>3, <1>5, <1>11, <1>13 DEF Before, SoFar
    <3> QED
      BY <1>3, <1>4, <1>5, <1>11, <3>1
  <2>2. Listed(Said', <<>>, 0)
    <3> DEFINE pos == [i \in 1 .. Len(<<>>) |-> 0]
    <3>1. pos \in [1 .. Len(<<>>) -> 1 .. 0] /\ 1 .. Len(<<>>) = {} /\ 1 .. 0 = {}
      OBVIOUS
    <3> HIDE DEF pos
    <3>2. Keeping(Said', <<>>, 0)
      BY <3>1, Zenon DEF Keeping
    <3>3. 0 \in Nat /\ (0 % 3) = 0
      OBVIOUS
    <3> QED
      BY <3>1, <3>2, <3>3, Zenon DEF Listed
  <2> QED
    BY <1>1, <1>2, <1>5, <2>1, <2>2 DEF Stands, Standing
<1>16. Outcomes'
  BY <1>1, <1>2, <1>5 DEF Outcomes
<1> QED
  BY <1>7, <1>8, <1>9, <1>10, <1>11, <1>12, <1>13, <1>14, <1>15, <1>16 DEF Conversed

\* The end of the stream preserves SyncInv.
LEMMA EndsStep ==
    ASSUME SyncInv, SyncEnds
    PROVE  SyncInv'
<1> USE DEF SyncInv
<1>1. /\ shut' = TRUE /\ ops' = MaxOps
      /\ UNCHANGED <<asked, answered, sent, fin, arrived, broken, destroyed, taken, at, phase,
                     token, ended, op, outcome, files, push>>
  BY DEF SyncEnds, server, parser
<1>2. SyncTypeOK'
  BY <1>1, SyncAssumption DEF SyncTypeOK, SyncAssumption
<1>3. WriterInv'
  BY <1>1 DEF WriterInv, OnWire
<1>4. Counted' /\ TransferInv'
  BY <1>1 DEF Counted, TransferInv
<1>5. Conversed'
  BY <1>1, ConversationSame DEF AnswerSame
<1> QED
  BY <1>2, <1>3, <1>4, <1>5

\* The device answers when the reply is awaited and nothing has come of it.
LEMMA DeviceStep ==
    ASSUME SyncInv, DeviceAnswers
    PROVE  SyncInv'
<1> USE DEF SyncInv
<1>0. /\ Tagged /\ Fresh /\ Behind /\ Answered /\ JustRead /\ Closed
      /\ (Live => Stands) /\ Outcomes
  BY DEF Conversed
<1>1. /\ op # "none" /\ ~push.dropped /\ ~fin /\ ~destroyed /\ answered < asked
      /\ answered' = asked
      /\ UNCHANGED <<asked, fin, arrived, broken, destroyed, shut, taken, at, phase, token,
                     ended, op, ops, outcome, files, push>>
  BY DEF DeviceAnswers, socket, parser, synced
<1>2. PICK a \in SyncAnswers : sent' = sent \o [i \in 1 .. Len(a) |-> Tok(a[i], asked)]
  BY DEF DeviceAnswers
<1>3. a \in Seq(SyncKinds) /\ Len(a) \in Nat
  BY <1>1, AnswerType DEF SyncTypeOK
<1>4. /\ sent \in Seq(SyncToken) /\ Len(sent) \in Nat /\ asked \in Nat
      /\ arrived \in 0 .. Len(sent) /\ taken \in 0 .. arrived
  BY DEF SyncTypeOK
<1> DEFINE b == [i \in 1 .. Len(a) |-> Tok(a[i], asked)]
<1>5. b \in Seq(SyncToken) /\ Len(b) = Len(a)
  <2>1. \A i \in 1 .. Len(a) : Tok(a[i], asked) \in SyncToken
    BY <1>3, <1>4 DEF Tok, SyncToken
  <2> QED
    BY <1>3, <2>1
<1>6. \A i \in 1 .. Len(a) : b[i].of = asked /\ b[i].kind = a[i]
  BY <1>3 DEF Tok
<1>7. sent' = sent \o b
  BY <1>2
<1> HIDE DEF b
<1>8. /\ sent' \in Seq(SyncToken) /\ Len(sent') = Len(sent) + Len(a)
      /\ \A i \in 1 .. Len(sent) + Len(a) :
            sent'[i] = IF i <= Len(sent) THEN sent[i] ELSE b[i - Len(sent)]
  <2>1. /\ sent' \in Seq(SyncToken) /\ Len(sent') = Len(sent) + Len(b)
        /\ \A i \in 1 .. Len(sent) + Len(b) :
              sent'[i] = IF i <= Len(sent) THEN sent[i] ELSE b[i - Len(sent)]
    BY <1>4, <1>5, <1>7, ConcatProperties, ZenonT(30)
  <2> QED
    BY <1>5, <2>1
<1>9. /\ Begin = Len(sent) + 1 /\ Live /\ taken = Len(sent)
  <2>1. Begin = Len(sent) + 1 /\ Live
    BY <1>0, <1>1 DEF Fresh, Live
  <2>2. Begin <= taken + 1
    BY <1>0, <2>1 DEF Behind
  <2> QED
    BY <1>4, <2>1, <2>2
<1>10. /\ SoFar = 0 /\ (at = "free" => outcome = "error" /\ broken)
       /\ at # "free" => ~HasToken /\ Before = 0
  <2>1. at = "free" => outcome = "error" /\ broken
    BY <1>0, <1>1, <1>4, <1>9 DEF Outcomes, SyncTypeOK
  <2>2. at # "free" => ~HasToken
    BY <1>0, <1>4, <1>9 DEF JustRead
  <2>3. SoFar = 0
    BY <1>4, <1>9 DEF SoFar
  <2>4. ~HasToken => Before = SoFar - 0
    <3>1. ~HasToken => (IF HasToken THEN 1 ELSE 0) = 0
      BY Zenon
    <3> QED
      BY <3>1, Zenon DEF Before
  <2> QED
    BY <2>1, <2>2, <2>3, <2>4
<1>11. \A i \in 1 .. Len(sent') : /\ i <= Len(sent) => sent'[i] = sent[i]
                                  /\ i > Len(sent) => /\ i - Len(sent) \in 1 .. Len(a)
                                                      /\ sent'[i] = b[i - Len(sent)]
  BY <1>3, <1>4, <1>8
<1>12. \A i \in 1 .. Len(sent') : sent'[i].of = asked <=> i >= Len(sent) + 1
  <2>1. \A i \in 1 .. Len(sent) : sent[i].of # asked
    BY <1>0, <1>4, <1>9 DEF Tagged
  <2> SUFFICES ASSUME NEW i \in 1 .. Len(sent')
               PROVE  sent'[i].of = asked <=> i >= Len(sent) + 1
    OBVIOUS
  <2>2. CASE i <= Len(sent)
    <3>1. i \in 1 .. Len(sent) /\ ~(i >= Len(sent) + 1)
      BY <1>3, <1>4, <1>8, <2>2
    <3> QED
      BY <1>11, <2>1, <2>2, <3>1
  <2>3. CASE i > Len(sent)
    <3>1. i >= Len(sent) + 1
      BY <1>3, <1>4, <1>8, <2>3
    <3>2. sent'[i].of = asked
      BY <1>6, <1>11, <2>3
    <3> QED
      BY <3>1, <3>2
  <2> QED
    BY <1>3, <1>4, <1>8, <2>2, <2>3
<1>13. Begin' = Len(sent) + 1
  <2>1. BeginOf(sent', asked) = Len(sent) + 1
    <3>1. Len(sent') \in Nat /\ Len(sent) + 1 \in 1 .. Len(sent') + 1
      BY <1>3, <1>4, <1>8
    <3> QED
      BY <1>12, <3>1, BeginIs, Zenon
  <2> QED
    BY <1>1, <2>1 DEF Begin
<1>14. Tagged'
  <2>1. \A i \in 1 .. Len(sent') : sent'[i].of \in 0 .. asked
    BY <1>0, <1>4, <1>6, <1>11 DEF Tagged
  <2>2. Begin' \in 1 .. Len(sent') + 1
    BY <1>3, <1>4, <1>8, <1>13
  <2> QED
    BY <1>1, <1>12, <1>13, <2>1, <2>2 DEF Tagged
<1>15. Len(Said') = Len(a) /\ PrefixOf(Said', a)
  <2>1. Said' = [i \in 1 .. Len(sent') + 1 - Begin' |-> sent'[Begin' + i - 1].kind]
    BY DEF Said
  <2>2. Len(sent') + 1 - Begin' = Len(a)
    BY <1>3, <1>4, <1>8, <1>13
  <2>3. \A i \in 1 .. Len(a) : sent'[Begin' + i - 1].kind = a[i]
    <3> SUFFICES ASSUME NEW i \in 1 .. Len(a) PROVE sent'[Begin' + i - 1].kind = a[i]
      OBVIOUS
    <3> DEFINE k == Begin' + i - 1
    <3>1. k \in 1 .. Len(sent') /\ k > Len(sent) /\ k - Len(sent) = i
      BY <1>3, <1>4, <1>8, <1>13
    <3> HIDE DEF k
    <3>2. sent'[k] = b[i]
      BY <1>11, <3>1
    <3>3. sent'[k].kind = a[i]
      BY <1>6, <3>2
    <3> QED
      BY <3>3 DEF k
  <2>4. Said' = [i \in 1 .. Len(a) |-> sent'[Begin' + i - 1].kind]
    BY <2>1, <2>2
  <2>5. Len(Said') = Len(a)
    BY <1>3, <2>4
  <2>6. \A i \in 1 .. Len(Said') : Said'[i] = a[i]
    BY <2>3, <2>4, <2>5
  <2> QED
    BY <1>3, <2>5, <2>6 DEF PrefixOf
<1>16. Answered'
  <2>1. SyncAnswers' = SyncAnswers
    BY <1>1 DEF SyncAnswers
  <2> QED
    BY <1>15, <2>1 DEF Answered
<1>17. Fresh' /\ Behind'
  BY <1>1, <1>4, <1>9, <1>13 DEF Fresh, Behind
<1>18. JustRead' /\ (at # "free" => ~HasToken')
  BY <1>0, <1>1, <1>10 DEF JustRead, HasToken
<1>19. Closed'
  BY <1>0, <1>1 DEF Closed
<1>20. Stands'
  <2>1. Begin' = Begin
    BY <1>9, <1>13
  <2>2. \A i \in 1 .. SoFar : Said'[i] = Said[i]
    BY <1>10
  <2>3. taken' \in Nat /\ taken' >= taken
    BY <1>1, <1>4
  <2>4. CASE at = "free"
    BY <1>1, <2>4 DEF Stands, Standing
  <2>5. CASE at # "free"
    <3>1. Before' = Before
      BY <1>1, <1>10, <1>18, <2>1, <2>5 DEF Before, SoFar
    <3> QED
      BY <1>0, <1>1, <1>9, <2>1, <2>2, <2>3, <3>1, StandsSame
  <2> QED
    BY <2>4, <2>5
<1>21. Outcomes'
  BY <1>0, <1>1, <1>10 DEF Outcomes
<1>22. SyncTypeOK'
  <2>1. arrived' \in 0 .. Len(sent') /\ taken' \in 0 .. arrived' /\ answered' \in 0 .. asked'
    BY <1>1, <1>3, <1>4, <1>8
  <2> QED
    BY <1>1, <1>8, <2>1 DEF SyncTypeOK
<1>23. WriterInv' /\ Counted' /\ TransferInv'
  BY <1>1 DEF WriterInv, OnWire, Counted, TransferInv
<1> QED
  BY <1>14, <1>16, <1>17, <1>18, <1>19, <1>20, <1>21, <1>22, <1>23 DEF Conversed

------------------------------------------------------------------------------
\* A push is given up: nobody reads its answer any more.
LEMMA CancelStep ==
    ASSUME SyncInv, SourceFails \/ UserCancels
    PROVE  SyncInv'
<1> USE DEF SyncInv
<1>0. /\ Tagged /\ Fresh /\ Behind /\ Answered /\ JustRead /\ Closed
      /\ (Live => Stands) /\ Outcomes /\ push \in PushType
  BY DEF Conversed, SyncTypeOK
<1>1. PICK gaveUp, r :
         /\ GiveUpPush(gaveUp, r) /\ (r = "error" \/ r = "cancelled")
         /\ \/ gaveUp = push /\ op = "push"
            \/ /\ gaveUp = [push EXCEPT !.source = "failed", !.errors = push.errors + 1]
               /\ push.listens /\ push.source \in {"flows", "eof"}
  <2>1. CASE UserCancels
    <3>1. GiveUpPush(push, "cancelled") /\ op = "push"
      BY <2>1 DEF UserCancels
    <3> QED
      BY <3>1, Zenon
  <2>2. CASE SourceFails
    <3>1. /\ GiveUpPush([push EXCEPT !.source = "failed", !.errors = push.errors + 1], "error")
          /\ push.listens /\ push.source \in {"flows", "eof"}
      BY <2>2, Zenon DEF SourceFails
    <3> QED
      BY <3>1, Zenon
  <2> QED
    BY <2>1, <2>2
<1>2. /\ at' = "free" /\ outcome' = r
      /\ push' = [gaveUp EXCEPT !.listens = FALSE, !.ended = TRUE, !.dropped = TRUE]
      /\ UNCHANGED <<asked, answered, sent, fin, arrived, broken, destroyed, shut, taken, phase,
                     token, ended, op, ops, files>>
  BY <1>1, Zenon DEF GiveUpPush, server, socket
<1>3. gaveUp \in PushType
  <2>1. push.errors + 1 \in Nat
    BY <1>0 DEF PushType
  <2> QED
    BY <1>0, <1>1, <2>1 DEF PushType
<1>4. /\ push' \in PushType
      /\ push'.made = push.made /\ push'.listens = FALSE
      /\ push'.writeDue = push.writeDue /\ push'.doneDue = push.doneDue
      /\ push'.given = push.given /\ push'.put = push.put /\ push'.done = push.done
      /\ push'.stack = push.stack /\ push'.moved = push.moved
      /\ push'.ended = TRUE /\ push'.dropped = TRUE
      /\ \/ push'.source = push.source
         \/ push'.source = "failed" /\ push.source \in {"flows", "eof"}
  BY <1>0, <1>1, <1>2, <1>3 DEF PushType
<1>5. op = "push"
  <2>1. NoPush.listens = FALSE
    BY DEF NoPush
  <2> QED
    BY <1>1, <2>1 DEF TransferInv
<1>6. SyncTypeOK'
  BY <1>1, <1>2, <1>4 DEF SyncTypeOK
<1>7. WriterInv'
  BY <1>0, <1>2, <1>4 DEF WriterInv, OnWire, PushType
<1>8. Counted'
  BY <1>4, CountedSame DEF SameCount
<1>9. TransferInv'
  BY <1>2, <1>4, <1>5 DEF TransferInv
<1>10. Tagged' /\ Fresh' /\ Answered'
  <2>1. AnswerSame
    BY <1>2, <1>4 DEF AnswerSame
  <2> QED
    BY <1>0, <2>1, SameAnswer
<1>11. ~Live'
  BY <1>4 DEF Live
<1>12. Behind' /\ JustRead' /\ Closed' /\ Outcomes'
  BY <1>0, <1>2, <1>5, <1>11 DEF Behind, JustRead, Closed, Outcomes
<1> QED
  BY <1>6, <1>7, <1>8, <1>9, <1>10, <1>11, <1>12 DEF Conversed

------------------------------------------------------------------------------
\* The continuations of the reader.  An operation that reads is the one whose
\* answer is awaited, and what it is given is the next token of that answer.
LEMMA Reading ==
    ASSUME SyncInv, at # "free"
    PROVE  op \in {"stat", "readdir", "push"} /\ Live /\ Stands /\ Tagged /\ Fresh /\ Answered
BY DEF SyncInv, Conversed, Outcomes, SyncTypeOK, TransferInv, Live

\* The token a continuation acts on is the last one read.
LEMMA JustReadIs ==
    ASSUME SyncInv, at # "free", HasToken
    PROVE  /\ Begin <= taken /\ taken <= Len(sent) /\ Begin <= Len(sent)
           /\ answered = asked
           /\ Before \in Nat /\ SoFar = Before + 1 /\ Before + 1 <= Len(Said)
           /\ token.kind = Said[Before + 1] /\ token.kind \in SyncKinds
           /\ Len(Said) - (Before + 1) = Len(sent) - taken
<1>1. Begin <= taken /\ token = sent[taken] /\ Tagged /\ Fresh
  BY DEF SyncInv, Conversed, JustRead
<1>2. /\ sent \in Seq(SyncToken) /\ Len(sent) \in Nat /\ asked \in Nat /\ answered \in 0 .. asked
      /\ arrived \in 0 .. Len(sent) /\ taken \in 0 .. arrived
  BY DEF SyncInv, SyncTypeOK
<1>3. /\ Begin \in Nat /\ Begin >= 1 /\ Said \in Seq(SyncKinds)
      /\ Len(Said) = Len(sent) + 1 - Begin
      /\ \A i \in 1 .. Len(Said) : Said[i] = sent[Begin + i - 1].kind
  BY <1>1, SaidIs DEF SyncInv
<1>4. taken <= Len(sent) /\ Begin <= Len(sent)
  BY <1>1, <1>2, <1>3
<1>5. answered = asked
  BY <1>1, <1>2, <1>3, <1>4 DEF Fresh
<1>6. Before = taken - Begin /\ SoFar = taken + 1 - Begin
  BY <1>2, <1>3 DEF Before, SoFar
<1>7. /\ Before \in Nat /\ SoFar = Before + 1 /\ Before + 1 <= Len(Said)
      /\ Len(Said) - (Before + 1) = Len(sent) - taken
  BY <1>1, <1>2, <1>3, <1>4, <1>6
<1> DEFINE k == Before + 1
<1>8. k \in 1 .. Len(Said) /\ Begin + k - 1 = taken
  BY <1>2, <1>3, <1>6, <1>7
<1> HIDE DEF k
<1>9. Said[k] = sent[taken].kind /\ Said[k] \in SyncKinds
  BY <1>3, <1>8
<1> QED
  BY <1>1, <1>4, <1>5, <1>7, <1>9 DEF k

\* An operation settles.
LEMMA SettleStep ==
    ASSUME SyncInv, at # "free", NEW r \in {"ok", "enoent", "error"}, OpSettles(r),
           destroyed' = destroyed \/ destroyed' = TRUE,
           op = "push" => r = "error" \/ push.done,
           \/ r = "error" /\ broken
           \/ /\ taken = Len(sent) /\ (fin \/ answered = asked) /\ r = OpOutcome
              /\ op = "readdir" /\ r = "ok" => Found
    PROVE  SyncInv'
<1> USE DEF SyncInv
<1>0. /\ Tagged /\ Fresh /\ Behind /\ Answered /\ JustRead /\ Closed
      /\ (Live => Stands) /\ Outcomes /\ push \in PushType
  BY DEF Conversed, SyncTypeOK
<1>1. /\ at' = "free" /\ outcome' = r /\ push' = Transferred(r)
      /\ UNCHANGED <<asked, answered, sent, fin, arrived, broken, shut, taken, phase,
                     token, ended, op, ops, files>>
  BY DEF OpSettles, server
<1>2. op \in {"stat", "readdir", "push"} /\ Live
  BY Reading
<1>3. /\ push' \in PushType
      /\ push'.made = push.made /\ push'.source = push.source
      /\ push'.writeDue = push.writeDue /\ push'.doneDue = push.doneDue
      /\ push'.given = push.given /\ push'.put = push.put /\ push'.done = push.done
      /\ push'.stack = push.stack /\ push'.moved = push.moved
      /\ push'.dropped = push.dropped /\ (push'.listens => push.listens)
      /\ op # "push" => push' = push
      /\ op = "push" => /\ push'.ended = TRUE
                        /\ r = "error" => push'.errors = push.errors + 1 /\ push'.listens = FALSE
                        /\ r # "error" => push'.errors = push.errors
  <2>1. CASE op # "push"
    BY <1>0, <1>1, <2>1 DEF Transferred
  <2>2. CASE op = "push" /\ r = "error"
    <3>1. push' = [push EXCEPT !.errors = push.errors + 1, !.listens = FALSE, !.ended = TRUE]
      BY <1>0, <1>1, <2>2 DEF Transferred, PushType
    <3>2. push.errors + 1 \in Nat
      BY <1>0 DEF PushType
    <3>3. push' \in PushType
      BY <1>0, <3>1, <3>2 DEF PushType
    <3>4. /\ push'.made = push.made /\ push'.source = push.source
          /\ push'.writeDue = push.writeDue /\ push'.doneDue = push.doneDue
          /\ push'.given = push.given /\ push'.put = push.put /\ push'.done = push.done
          /\ push'.stack = push.stack /\ push'.moved = push.moved
          /\ push'.dropped = push.dropped /\ push'.listens = FALSE
          /\ push'.ended = TRUE /\ push'.errors = push.errors + 1
      BY <1>0, <3>1 DEF PushType
    <3> QED
      BY <2>2, <3>3, <3>4
  <2>3. CASE op = "push" /\ r # "error"
    <3>1. push' = [push EXCEPT !.ended = TRUE]
      BY <1>0, <1>1, <2>3 DEF Transferred, PushType
    <3> QED
      BY <1>0, <2>3, <3>1 DEF PushType
  <2> QED
    BY <2>1, <2>2, <2>3
<1>4. SyncTypeOK'
  BY <1>1, <1>3, ZenonT(30) DEF SyncTypeOK
<1>5. WriterInv'
  BY <1>0, <1>1, <1>3 DEF WriterInv, OnWire, PushType
<1>6. Counted'
  BY <1>3, CountedSame DEF SameCount
<1>7. TransferInv'
  <2>1. op = "push" => ~push'.listens
    BY <1>0, <1>3 DEF WriterInv, PushType
  <2>2. op # "push" => push = NoPush
    BY DEF TransferInv
  <2>3. NoPush.ended = FALSE /\ NoPush.dropped = FALSE
    BY DEF NoPush
  <2>4. op = "push" /\ push'.errors = 0 => push'.done
    BY <1>0, <1>3 DEF PushType
  <2> QED
    BY <1>1, <1>3, <2>1, <2>2, <2>3, <2>4 DEF TransferInv
<1>8. /\ Begin' = Begin /\ Said' = Said /\ OpOutcome' = OpOutcome
      /\ Tagged' /\ Fresh' /\ Answered'
  <2>1. AnswerSame
    BY <1>1, <1>3 DEF AnswerSame
  <2> QED
    BY <1>0, <2>1, SameAnswer
<1>9. Behind' /\ JustRead'
  BY <1>0, <1>1, <1>2, <1>8 DEF Behind, JustRead
<1>10. Closed'
  BY <1>0, <1>1 DEF Closed
<1>11. Stands'
  BY <1>1 DEF Stands, Standing
<1>12. Outcomes'
  <2>1. Found' = Found
    BY <1>1, <1>8 DEF Found
  <2> QED
    BY <1>1, <1>2, <1>8, <2>1 DEF Outcomes
<1> QED
  BY <1>4, <1>5, <1>6, <1>7, <1>8, <1>9, <1>10, <1>11, <1>12 DEF Conversed

\* An operation reads on.
LEMMA ReadOnStep ==
    ASSUME SyncInv, at # "free", HasToken, NEW w \in SyncReads, ReadOn(w),
           UNCHANGED <<server, op, ops, outcome, push>>, files' \in Seq(Names),
           Standing(w, op, Said, files', Before + 1, SoFar)
    PROVE  SyncInv'
<1> USE DEF SyncInv
<1>0. /\ Tagged /\ Fresh /\ Behind /\ Answered /\ JustRead /\ Closed
      /\ (Live => Stands) /\ Outcomes /\ push \in PushType
  BY DEF Conversed, SyncTypeOK
<1>1. /\ StartRead(w)
      /\ UNCHANGED <<asked, answered, sent, fin, arrived, broken, destroyed, shut, ended,
                     op, ops, outcome, push>>
  BY DEF ReadOn, server, socket
<1>2. /\ sent \in Seq(SyncToken) /\ Len(sent) \in Nat
      /\ arrived \in 0 .. Len(sent) /\ taken \in 0 .. arrived
  BY DEF SyncTypeOK
<1>3. w # "free" /\ w \in SyncReads \cup {"drainEnd", "free"}
  BY DEF SyncReads
<1>4. at' = w
  BY <1>1, StartReadCases
<1>5. \/ /\ arrived > taken /\ taken' = taken + 1 /\ taken' \in 1 .. Len(sent)
         /\ token' = sent[taken'] /\ token' \in SyncToken /\ phase' = "gap"
      \/ taken' = taken /\ ended /\ token' = Eof /\ phase' = "gap"
      \/ taken' = taken /\ ~ended /\ token' = token /\ phase' = "waiting"
  <2>1. CASE arrived > taken /\ taken' = taken + 1 /\ token' = sent[taken + 1] /\ phase' = "gap"
    <3>1. taken' \in 1 .. Len(sent)
      BY <1>2, <2>1
    <3> QED
      BY <1>2, <2>1, <3>1
  <2> QED
    BY <1>1, <2>1, StartReadCases
<1>6. \A k \in SyncKinds : k \notin Lost
  BY DEF SyncKinds, Lost
<1>7. HasToken' <=> taken' = taken + 1
  <2>1. CASE arrived > taken /\ taken' = taken + 1 /\ token' \in SyncToken /\ phase' = "gap"
    BY <1>6, <2>1 DEF HasToken, SyncToken
  <2>2. CASE taken' = taken /\ ((token' = Eof /\ phase' = "gap") \/ phase' = "waiting")
    <3>1. ~HasToken'
      BY <2>2, EofIs DEF HasToken
    <3> QED
      BY <1>2, <2>2, <3>1
  <2> QED
    BY <1>5, <2>1, <2>2
<1>8. /\ Begin' = Begin /\ Said' = Said /\ OpOutcome' = OpOutcome
      /\ Tagged' /\ Fresh' /\ Answered'
  <2>1. AnswerSame
    BY <1>1 DEF AnswerSame
  <2> QED
    BY <1>0, <2>1, SameAnswer
<1>9. Begin \in Nat /\ Begin <= taken /\ Before \in Nat /\ SoFar = Before + 1
      /\ SoFar = taken + 1 - Begin
  BY <1>0, JustReadIs, SaidIs DEF SoFar
<1>10. SyncTypeOK'
  <2>1. taken' \in 0 .. arrived
    BY <1>2, <1>5
  <2>2. token' \in [kind : SyncKinds \cup Lost, of : Nat]
    BY <1>5, EofIs DEF SyncToken, SyncTypeOK
  <2> QED
    BY <1>1, <1>3, <1>4, <1>5, <2>1, <2>2 DEF SyncTypeOK
<1>11. WriterInv' /\ Counted' /\ TransferInv'
  BY <1>1, <1>3, <1>4 DEF WriterInv, OnWire, Counted, TransferInv
<1>12. Behind'
  BY <1>2, <1>5, <1>8, <1>9 DEF Behind
<1>13. JustRead'
  <2>1. CASE arrived > taken /\ taken' = taken + 1 /\ token' = sent[taken'] /\ token' \in SyncToken
    <3>1. token'.kind \notin {"EOF", "ERROR"}
      BY <1>6, <2>1 DEF SyncToken, Lost
    <3>2. Begin <= taken'
      BY <1>2, <1>9, <2>1
    <3> QED
      BY <1>1, <1>8, <2>1, <3>1, <3>2 DEF JustRead
  <2>2. CASE ended /\ token' = Eof /\ phase' = "gap"
    BY <1>1, <2>2, EofIs DEF JustRead, HasToken
  <2>3. CASE phase' = "waiting"
    BY <2>3 DEF JustRead, HasToken
  <2> QED
    BY <1>5, <2>1, <2>2, <2>3
<1>14. Closed'
  <2>1. ended => taken' = taken
    BY <1>0, <1>2, <1>5 DEF Closed
  <2> QED
    BY <1>0, <1>1, <2>1 DEF Closed
<1>15. Stands'
  <2>1. Before' = Before + 1
    <3>1. SoFar' = taken' + 1 - Begin
      BY <1>8 DEF SoFar
    <3>2. CASE taken' = taken + 1
      <4>1. Before' = SoFar' - 1
        BY <1>7, <3>2 DEF Before
      <4> QED
        BY <1>2, <1>9, <3>1, <3>2, <4>1
    <3>3. CASE taken' = taken
      <4>1. taken' # taken + 1
        BY <1>2, <3>3
      <4>2. Before' = SoFar' - 0
        BY <1>7, <4>1 DEF Before
      <4> QED
        BY <1>2, <1>9, <3>1, <3>3, <4>2
    <3> QED
      BY <1>5, <3>2, <3>3
  <2>2. SoFar' \in Int /\ SoFar' >= SoFar
    BY <1>2, <1>5, <1>8, <1>9 DEF SoFar
  <2>3. Standing(w, op, Said, files', Before + 1, SoFar')
    BY <1>9, <2>2, StandingSame
  <2> QED
    BY <1>1, <1>4, <1>8, <2>1, <2>3 DEF Stands
<1>16. Outcomes'
  BY <1>0, <1>1, <1>3, <1>4 DEF Outcomes
<1> QED
  BY <1>8, <1>10, <1>11, <1>12, <1>13, <1>14, <1>15, <1>16 DEF Conversed

\* What a reply can be.
LEMMA ReplyIs ==
    ASSUME SyncInv, at = "syncReply", HasToken
    PROVE  /\ token.kind \in {"FAIL", "JUNK"} \cup
                (CASE op = "stat" -> {"STAT"} [] op = "readdir" -> {"DENT", "DONE"}
                   [] op = "push" -> {"OKAY"})
           /\ token.kind = "JUNK" => taken = Len(sent)
           /\ op # "readdir" => Before = 0
           /\ op = "readdir" => Listed(Said, files, Before)
<1>1. /\ op \in {"stat", "readdir", "push"} /\ Live /\ Stands /\ Tagged /\ Fresh /\ Answered
      /\ SyncTypeOK
  BY Reading DEF SyncInv
<1>2. /\ Begin <= Len(sent) /\ taken <= Len(sent) /\ Before \in Nat /\ Before + 1 <= Len(Said)
      /\ token.kind = Said[Before + 1]
      /\ Len(Said) - (Before + 1) = Len(sent) - taken
      /\ taken \in Nat /\ Len(sent) \in Nat /\ Len(Said) \in Nat
  BY <1>1, JustReadIs, SaidIs DEF SyncTypeOK
<1>3. /\ op # "readdir" => Before = 0
      /\ op = "readdir" => Listed(Said, files, Before)
  BY <1>1 DEF Stands, Standing
<1>4. CASE op = "readdir"
  <2>1. /\ Said[Before + 1] \in {"DENT", "DONE", "FAIL", "JUNK"}
        /\ Said[Before + 1] = "JUNK" => Len(Said) = Before + 1
    BY <1>1, <1>2, <1>3, <1>4, DirGoesOn
  <2>2. token.kind = "JUNK" => taken = Len(sent)
    BY <1>2, <2>1
  <2> QED
    BY <1>2, <1>3, <1>4, <2>1, <2>2
<1>5. CASE op # "readdir"
  <2>1. PICK a \in SyncAnswers : PrefixOf(Said, a)
    BY <1>1, <1>2, AnswerIs
  <2>2. Len(Said) >= 1 /\ Said[1] = a[1] /\ Len(Said) <= Len(a) /\ token.kind = a[1]
    BY <1>2, <1>3, <1>5, <2>1 DEF PrefixOf
  <2>3. /\ a \in Broken => a[1] \in {"FAIL", "JUNK"} /\ (a[1] = "JUNK" => Len(a) = 1)
    BY RefusalsAre
  <2>4. a \in Broken \/ (op = "stat" /\ a[1] = "STAT") \/ (op = "push" /\ a[1] = "OKAY")
    <3>1. CASE op = "stat"
      BY <2>1, <3>1, StatAnswers
    <3>2. CASE op = "push"
      BY <2>1, <3>2, PushAnswers
    <3> QED
      BY <1>1, <1>5, <3>1, <3>2
  <2>5. token.kind = "JUNK" => taken = Len(sent)
    <3> SUFFICES ASSUME token.kind = "JUNK" PROVE taken = Len(sent)
      OBVIOUS
    <3>1. Len(a) = 1
      BY <2>2, <2>3, <2>4
    <3>a. Len(Said) <= 1 /\ Len(Said) >= 1
      BY <2>2, <3>1
    <3>b. Len(Said) \in Nat
      BY <1>2
    <3>2. Len(Said) = 1
      <4> DEFINE l == Len(Said)
      <4>1. l \in Nat /\ l <= 1 /\ l >= 1
        BY <3>a, <3>b
      <4> HIDE DEF l
      <4>2. l = 1
        BY <4>1
      <4> QED
        BY <4>2 DEF l
    <3> QED
      BY <1>2, <1>3, <1>5, <3>2
  <2> QED
    BY <1>1, <1>3, <1>5, <2>2, <2>3, <2>4, <2>5
<1> QED
  BY <1>4, <1>5

\* A continuation that expects a token has one.
LEMMA GotToken ==
    ASSUME NEW where, NEW kinds, Got(where, kinds), kinds \cap Lost = {}
    PROVE  HasToken /\ at \in where /\ token.kind \in kinds
BY DEF Got, HasToken

\* A reply preserves SyncInv.
LEMMA ReplyStep ==
    ASSUME SyncInv, ReadsReply
    PROVE  SyncInv'
<1>1. at = "syncReply" /\ HasToken /\ token.kind # "JUNK" /\ Awaits(token.kind) # "nothing"
  <2>1. Got({"syncReply"}, {"STAT", "DENT", "DONE", "OKAY", "FAIL"})
    BY DEF ReadsReply
  <2>2. {"STAT", "DENT", "DONE", "OKAY", "FAIL"} \cap Lost = {}
    BY DEF Lost
  <2>3. HasToken /\ at \in {"syncReply"} /\ token.kind \in {"STAT", "DENT", "DONE", "OKAY", "FAIL"}
    BY <2>1, <2>2, GotToken
  <2> QED
    BY <2>3 DEF ReadsReply
<1>2. ReadOn(Awaits(token.kind)) /\ UNCHANGED <<server, op, ops, outcome, push>> /\ files' = files
  BY DEF ReadsReply, synced
<1>3. op \in {"stat", "readdir", "push"} /\ files' \in Seq(Names)
  BY <1>1, <1>2, Reading DEF SyncInv, SyncTypeOK
<1>4. /\ Before \in Nat /\ SoFar = Before + 1 /\ token.kind = Said[Before + 1]
      /\ (Before + 1) - 1 = Before
  BY <1>1, JustReadIs
<1> DEFINE n == Before + 1
<1>5. n \in Nat /\ n >= 1 /\ n - 1 = Before /\ SoFar = n /\ Said[n] = token.kind
  BY <1>4
<1>6. /\ op # "readdir" => n = 1
      /\ op = "readdir" => Listed(Said, files, n - 1)
  BY <1>1, <1>4, ReplyIs
<1>7. token.kind \in {"FAIL", "JUNK"} \cup
                (CASE op = "stat" -> {"STAT"} [] op = "readdir" -> {"DENT", "DONE"}
                   [] op = "push" -> {"OKAY"})
  BY <1>1, ReplyIs
<1> HIDE DEF n
<1>8. \/ op = "stat" /\ token.kind = "STAT" /\ Awaits(token.kind) = "stat"
      \/ op = "readdir" /\ token.kind = "DENT" /\ Awaits(token.kind) = "dent"
      \/ op = "readdir" /\ token.kind = "DONE" /\ Awaits(token.kind) = "last"
      \/ op = "push" /\ token.kind = "OKAY" /\ Awaits(token.kind) = "last"
      \/ token.kind = "FAIL" /\ Awaits(token.kind) = "syncLength"
  BY <1>1, <1>3, <1>7 DEF Awaits
<1>9. Standing(Awaits(token.kind), op, Said, files', n, SoFar)
  <2>1. CASE op = "stat" /\ token.kind = "STAT" /\ Awaits(token.kind) = "stat"
    BY <1>5, <1>6, <2>1 DEF Standing
  <2>2. CASE op = "readdir" /\ token.kind = "DENT" /\ Awaits(token.kind) = "dent"
    BY <1>2, <1>5, <1>6, <2>2 DEF Standing
  <2>3. CASE op = "readdir" /\ token.kind = "DONE" /\ Awaits(token.kind) = "last"
    BY <1>2, <1>5, <1>6, <2>3 DEF Standing
  <2>4. CASE op = "push" /\ token.kind = "OKAY" /\ Awaits(token.kind) = "last"
    BY <1>5, <1>6, <2>4 DEF Standing
  <2>5. CASE token.kind = "FAIL" /\ Awaits(token.kind) = "syncLength"
    <3>1. \E i \in 1 .. SoFar : Said[i] = "FAIL"
      BY <1>5, <2>5
    <3> QED
      BY <1>5, <2>5, <3>1 DEF Standing
  <2> QED
    BY <1>8, <2>1, <2>2, <2>3, <2>4, <2>5
<1>10. Awaits(token.kind) \in SyncReads
  BY <1>8 DEF SyncReads
<1>11. at # "free"
  BY <1>1
<1> QED
  BY <1>1, <1>2, <1>3, <1>9, <1>10, <1>11, ReadOnStep DEF n

\* An unexpected reply preserves SyncInv.
LEMMA UnexpectedStep ==
    ASSUME SyncInv, ReadsUnexpected
    PROVE  SyncInv'
<1> DEFINE kinds == Texts \cup {"STAT", "DENT", "DONE", "OKAY", "JUNK"}
<1>1. /\ at = "syncReply" /\ HasToken /\ token.kind \in kinds
      /\ Awaits(token.kind) = "nothing" /\ GiveUp /\ OpSettles("error")
  <2>1. kinds \cap Lost = {}
    BY DEF Lost, Texts
  <2>2. Got({"syncReply"}, kinds) /\ Awaits(token.kind) = "nothing" /\ GiveUp /\ OpSettles("error")
    BY DEF ReadsUnexpected
  <2>3. HasToken /\ at \in {"syncReply"} /\ token.kind \in kinds
    BY ONLY <2>1, <2>2, GotToken
  <2> QED
    BY <2>2, <2>3
<1>2. op \in {"stat", "readdir", "push"} /\ SyncTypeOK /\ Tagged
  BY <1>1, Reading DEF SyncInv
<1>3. token.kind = "JUNK"
  <2>1. token.kind \in {"FAIL", "JUNK"} \cup
                (CASE op = "stat" -> {"STAT"} [] op = "readdir" -> {"DENT", "DONE"}
                   [] op = "push" -> {"OKAY"})
    BY <1>1, ReplyIs
  <2>2. token.kind # "FAIL"
    BY <1>1 DEF Texts
  <2> QED
    BY <1>1, <1>2, <2>1, <2>2 DEF Awaits
<1>4. taken = Len(sent)
  BY <1>1, <1>3, ReplyIs
<1>5. /\ Before \in Nat /\ Before + 1 <= Len(Said) /\ token.kind = Said[Before + 1]
      /\ answered = asked /\ Len(Said) \in Nat
  BY <1>1, <1>2, JustReadIs, SaidIs
<1>6. OpOutcome = "error"
  <2>1. Before + 1 \in 1 .. Len(Said) /\ Said[Before + 1] = "JUNK"
    BY <1>3, <1>5
  <2> QED
    BY <2>1, RefusedMeansError
<1>7. destroyed' = TRUE /\ at # "free" /\ "error" \in {"ok", "enoent", "error"}
  BY <1>1 DEF GiveUp
<1> QED
  BY <1>1, <1>4, <1>5, <1>6, <1>7, SettleStep

\* The answer to a stat preserves SyncInv.
LEMMA StatStep ==
    ASSUME SyncInv, HasStat
    PROVE  SyncInv'
<1> DEFINE r == IF token.kind = "gone" THEN "enoent" ELSE "ok"
<1>1. at = "stat" /\ HasToken /\ destroyed' = destroyed /\ OpSettles(r)
  <2>1. Texts \cap Lost = {}
    BY DEF Lost, Texts
  <2>2. Got({"stat"}, Texts) /\ OpSettles(r) /\ UNCHANGED destroyed
    BY DEF HasStat
  <2>3. HasToken /\ at \in {"stat"}
    BY ONLY <2>1, <2>2, GotToken
  <2> QED
    BY <2>2, <2>3
<1>2. /\ Live /\ Stands /\ Tagged /\ Fresh /\ Answered /\ SyncTypeOK
  BY <1>1, Reading DEF SyncInv
<1>3. op = "stat" /\ Before = 1 /\ Said[1] = "STAT"
  BY <1>1, <1>2 DEF Stands, Standing
<1>4. /\ Begin <= Len(sent) /\ taken <= Len(sent) /\ 2 <= Len(Said) /\ token.kind = Said[2]
      /\ Len(Said) - 2 = Len(sent) - taken /\ answered = asked
      /\ taken \in Nat /\ Len(sent) \in Nat /\ Said \in Seq(SyncKinds) /\ Len(Said) \in Nat
  BY <1>1, <1>2, <1>3, JustReadIs, SaidIs DEF SyncTypeOK
<1>5. PICK a \in SyncAnswers : PrefixOf(Said, a)
  BY <1>2, <1>4, AnswerIs
<1>6. a[1] = "STAT" /\ Len(Said) <= Len(a) /\ Said[1] = a[1] /\ Said[2] = a[2]
  BY <1>3, <1>4, <1>5 DEF PrefixOf
<1>7. a = <<"STAT", "good">> \/ a = <<"STAT", "gone">>
  BY <1>3, <1>5, <1>6, StatAnswers, RefusalsAre
<1>8. Len(Said) = 2 /\ taken = Len(sent)
  <2>1. Len(a) = 2
    BY <1>7
  <2>2. Len(Said) <= 2
    BY <1>6, <2>1
  <2>3. Len(Said) \in Nat /\ Len(Said) >= 2
    BY <1>4
  <2>4. Len(Said) = 2
    <3> DEFINE l == Len(Said)
    <3>1. l \in Nat /\ l <= 2 /\ l >= 2
      BY <2>2, <2>3
    <3> HIDE DEF l
    <3>2. l = 2
      BY <3>1
    <3> QED
      BY <3>2 DEF l
  <2> QED
    BY <1>4, <2>4
<1>9. \/ Said = <<"STAT", "good">> /\ token.kind = "good"
      \/ Said = <<"STAT", "gone">> /\ token.kind = "gone"
  BY <1>3, <1>4, <1>6, <1>7, <1>8
<1>10. OpOutcome = r
  BY <1>3, <1>9 DEF OpOutcome
<1>11. r \in {"ok", "enoent", "error"}
  OBVIOUS
<1> HIDE DEF r
<1> QED
  BY <1>1, <1>3, <1>4, <1>8, <1>10, <1>11, SettleStep

\* What was read when the last length comes, and what is known then.
LastRead ==
    /\ at = "last" /\ HasToken /\ destroyed' = destroyed /\ OpSettles("ok")
    /\ Live /\ Stands /\ Tagged /\ Fresh /\ Answered /\ SyncTypeOK
    /\ \/ op = "readdir" /\ Listed(Said, files, Before - 1) /\ Said[Before] = "DONE"
       \/ op = "push" /\ Before = 1 /\ Said[1] = "OKAY"
    /\ Begin <= Len(sent) /\ taken <= Len(sent) /\ Before \in Nat /\ Before + 1 <= Len(Said)
    /\ Len(Said) - (Before + 1) = Len(sent) - taken /\ answered = asked
    /\ taken \in Nat /\ Len(sent) \in Nat /\ Said \in Seq(SyncKinds) /\ Len(Said) \in Nat

\* The last length comes in its place.
LEMMA LastReads ==
    ASSUME SyncInv, HasLast
    PROVE  LastRead
<1>1. at = "last" /\ HasToken /\ destroyed' = destroyed /\ OpSettles("ok")
  <2>1. {"LEN"} \cap Lost = {}
    BY DEF Lost
  <2>2. Got({"last"}, {"LEN"}) /\ OpSettles("ok") /\ UNCHANGED destroyed
    BY DEF HasLast
  <2>3. HasToken /\ at \in {"last"}
    BY ONLY <2>1, <2>2, GotToken
  <2> QED
    BY <2>2, <2>3
<1>2. /\ Live /\ Stands /\ Tagged /\ Fresh /\ Answered /\ SyncTypeOK
  BY <1>1, Reading DEF SyncInv
<1>3. \/ op = "readdir" /\ Listed(Said, files, Before - 1) /\ Said[Before] = "DONE"
      \/ op = "push" /\ Before = 1 /\ Said[1] = "OKAY"
  BY <1>1, <1>2 DEF Stands, Standing
<1>4. /\ Begin <= Len(sent) /\ taken <= Len(sent) /\ Before \in Nat /\ Before + 1 <= Len(Said)
      /\ Len(Said) - (Before + 1) = Len(sent) - taken /\ answered = asked
      /\ taken \in Nat /\ Len(sent) \in Nat /\ Said \in Seq(SyncKinds) /\ Len(Said) \in Nat
  BY <1>1, <1>2, JustReadIs, SaidIs DEF SyncTypeOK
<1> QED
  BY <1>1, <1>2, <1>3, <1>4 DEF LastRead

\* The last length of a push comes after DONE, and the push is stored.
LEMMA LastOfPush ==
    ASSUME SyncInv, HasLast, op = "push"
    PROVE  push.done /\ taken = Len(sent) /\ answered = asked /\ OpOutcome = "ok"
<1>1. at = "last" /\ HasToken /\ destroyed' = destroyed /\ OpSettles("ok")
  BY LastReads DEF LastRead
<1>2. /\ Live /\ Stands /\ Tagged /\ Fresh /\ Answered /\ SyncTypeOK
  BY LastReads DEF LastRead
<1>3. \/ op = "readdir" /\ Listed(Said, files, Before - 1) /\ Said[Before] = "DONE"
      \/ op = "push" /\ Before = 1 /\ Said[1] = "OKAY"
  BY LastReads DEF LastRead
<1>4. /\ Begin <= Len(sent) /\ taken <= Len(sent) /\ Before \in Nat /\ Before + 1 <= Len(Said)
      /\ Len(Said) - (Before + 1) = Len(sent) - taken /\ answered = asked
      /\ taken \in Nat /\ Len(sent) \in Nat /\ Said \in Seq(SyncKinds) /\ Len(Said) \in Nat
  BY LastReads DEF LastRead
<1>5. op = "push"
  OBVIOUS
<1>6. Before = 1 /\ Said[1] = "OKAY" /\ 2 <= Len(Said)
  BY <1>3, <1>4, <1>5
<1>7. PICK a \in SyncAnswers : PrefixOf(Said, a)
  BY <1>2, <1>4, AnswerIs
<1>8. a[1] = "OKAY" /\ Len(Said) <= Len(a) /\ Said[1] = a[1] /\ Said[2] = a[2]
  BY <1>4, <1>6, <1>7 DEF PrefixOf
<1>9. push.done /\ a = <<"OKAY", "LEN">>
  BY <1>5, <1>7, <1>8, PushAnswers, RefusalsAre
<1>10. Len(Said) = 2 /\ taken = Len(sent)
  BY <1>4, <1>6, <1>8, <1>9
<1>11. Said = <<"OKAY", "LEN">>
  BY <1>4, <1>6, <1>8, <1>9, <1>10
<1>12. OpOutcome = "ok"
  BY <1>5, <1>11 DEF OpOutcome
<1> QED
  BY <1>4, <1>9, <1>10, <1>12

\* The last length, after which the operation settles, preserves SyncInv.
LEMMA LastStep ==
    ASSUME SyncInv, HasLast
    PROVE  SyncInv'
<1>1. at = "last" /\ HasToken /\ destroyed' = destroyed /\ OpSettles("ok")
  BY LastReads DEF LastRead
<1>2. /\ Live /\ Stands /\ Tagged /\ Fresh /\ Answered /\ SyncTypeOK
  BY LastReads DEF LastRead
<1>3. \/ op = "readdir" /\ Listed(Said, files, Before - 1) /\ Said[Before] = "DONE"
      \/ op = "push" /\ Before = 1 /\ Said[1] = "OKAY"
  BY LastReads DEF LastRead
<1>4. /\ Begin <= Len(sent) /\ taken <= Len(sent) /\ Before \in Nat /\ Before + 1 <= Len(Said)
      /\ Len(Said) - (Before + 1) = Len(sent) - taken /\ answered = asked
      /\ taken \in Nat /\ Len(sent) \in Nat /\ Said \in Seq(SyncKinds) /\ Len(Said) \in Nat
  BY LastReads DEF LastRead
<1>5. CASE op = "readdir"
  <2> DEFINE n == Before - 1
  <2>1. Listed(Said, files, n) /\ Said[n + 1] = "DONE" /\ n \in Nat
    <3>1. Listed(Said, files, n) /\ Said[Before] = "DONE"
      BY <1>3, <1>5
    <3>2. n \in Nat
      BY <3>1 DEF Listed
    <3> QED
      BY <1>4, <3>1, <3>2
  <2>2. n + 2 <= Len(Said) /\ n + 1 = Before
    BY <1>4
  <2> HIDE DEF n
  <2>3. n < Len(Said) /\ n + 1 < Len(Said) /\ n <= Len(Said)
    BY <1>4, <2>1, <2>2
  <2>4. /\ Len(Said) <= n + 2 /\ Said[n + 2] = "LEN"
        /\ \E e \in Entries : Said = Listing(e) \o <<"DONE", "LEN">>
    BY <1>2, <1>4, <1>5, <2>1, <2>3, DirGoesOn
  <2>5. Len(Said) = n + 2 /\ taken = Len(sent)
    BY <1>4, <2>1, <2>2, <2>4
  <2>6. OpOutcome = "ok" /\ Found
    BY <1>2, <1>5, <2>1, <2>4, <2>5, DirDone
  <2>7. "ok" \in {"ok", "enoent", "error"} /\ at # "free"
    BY <1>1
  <2> QED
    BY <1>1, <1>4, <1>5, <2>5, <2>6, <2>7, SettleStep
<1>6. CASE op = "push"
  <2>1. "ok" \in {"ok", "enoent", "error"} /\ at # "free"
    BY <1>1
  <2> QED
    BY <1>1, <1>6, <2>1, LastOfPush, SettleStep
<1> QED
  BY <1>3, <1>5, <1>6

\* One more name of a directory.
LEMMA KeepsName ==
    ASSUME NEW s, NEW f \in Seq(Names), NEW n, Listed(s, f, n),
           s[n + 1] = "DENT", s[n + 2] = "LEN", s[n + 3] \in Names,
           NEW f2, f2 = (IF s[n + 3] = "dot" THEN f ELSE Append(f, s[n + 3]))
    PROVE  Listed(s, f2, n + 3)
<1>0. n \in Nat /\ (n % 3) = 0 /\ Len(f) \in Nat
  BY DEF Listed
<1> DEFINE m == Len(f)
<1>1. PICK pos \in [1 .. m -> 1 .. n] :
        /\ \A i, j \in 1 .. m : i < j => pos[i] < pos[j]
        /\ \A k \in 1 .. n : s[k] \in Names \ {"dot"} <=> \E i \in 1 .. m : pos[i] = k
        /\ \A i \in 1 .. m : f[i] = s[pos[i]]
  BY DEF Listed, Keeping
<1>2. /\ n + 3 \in Nat /\ ((n + 3) % 3) = 0
      /\ ((n + 1) % 3) = 1 /\ ((n + 2) % 3) = 2
      /\ \A k \in 1 .. n + 3 : k \in 1 .. n \/ k = n + 1 \/ k = n + 2 \/ k = n + 3
  BY <1>0
<1>3. \A i \in 1 .. n + 3 : (i % 3) = 1 => s[i] = "DENT"
  BY <1>0, <1>2 DEF Listed
<1>4. s[n + 1] \notin Names /\ s[n + 2] \notin Names
  BY DEF Names
<1>5. CASE s[n + 3] = "dot"
  <2>1. pos \in [1 .. m -> 1 .. n + 3]
    BY <1>0, <1>1
  <2>2. \A k \in 1 .. n + 3 : s[k] \in Names \ {"dot"} <=> \E i \in 1 .. m : pos[i] = k
    <3> SUFFICES ASSUME NEW k \in 1 .. n + 3
                 PROVE  s[k] \in Names \ {"dot"} <=> \E i \in 1 .. m : pos[i] = k
      OBVIOUS
    <3>1. CASE k \in 1 .. n
      BY <1>1, <3>1
    <3>2. CASE k \notin 1 .. n
      <4>1. s[k] \notin Names \ {"dot"}
        BY <1>2, <1>4, <1>5, <3>2
      <4>2. \A i \in 1 .. m : pos[i] # k
        BY <1>1, <3>2
      <4> QED
        BY <4>1, <4>2
    <3> QED
      BY <3>1, <3>2
  <2>3. Keeping(s, f, n + 3)
    BY <1>1, <2>1, <2>2 DEF Keeping
  <2> QED
    BY <1>2, <1>3, <1>5, <2>3 DEF Listed
<1>6. CASE s[n + 3] # "dot"
  <2> DEFINE more == [i \in 1 .. m + 1 |-> IF i <= m THEN pos[i] ELSE n + 3]
  <2>1. f2 = Append(f, s[n + 3]) /\ Len(f2) = m + 1
        /\ (\A i \in 1 .. m : f2[i] = f[i]) /\ f2[m + 1] = s[n + 3]
    BY <1>0, <1>6
  <2>2. /\ \A i \in 1 .. m : more[i] = pos[i] /\ pos[i] \in 1 .. n
        /\ more[m + 1] = n + 3 /\ more \in [1 .. m + 1 -> 1 .. n + 3]
    <3>1. \A i \in 1 .. m : i \in 1 .. m + 1 /\ i <= m
      BY <1>0
    <3>2. m + 1 \in 1 .. m + 1 /\ ~(m + 1 <= m)
      BY <1>0
    <3>3. \A i \in 1 .. m : more[i] = pos[i]
      BY <3>1
    <3>4. more[m + 1] = n + 3
      BY <3>2
    <3>5. \A i \in 1 .. m : pos[i] \in 1 .. n
      BY <1>1
    <3>6. \A i \in 1 .. m + 1 : i <= m => i \in 1 .. m
      BY <1>0
    <3>7. \A i \in 1 .. n : i \in 1 .. n + 3
      BY <1>0
    <3>8. n + 3 \in 1 .. n + 3
      BY <1>0
    <3>9. more \in [1 .. m + 1 -> 1 .. n + 3]
      BY <3>5, <3>6, <3>7, <3>8
    <3> QED
      BY <3>3, <3>4, <3>5, <3>9
  <2>3. \A i \in 1 .. m + 1 : i \in 1 .. m \/ i = m + 1
    BY <1>0
  <2> HIDE DEF more, m
  <2>4. \A i, j \in 1 .. m + 1 : i < j => more[i] < more[j]
    <3> SUFFICES ASSUME NEW i \in 1 .. m + 1, NEW j \in 1 .. m + 1, i < j
                 PROVE  more[i] < more[j]
      OBVIOUS
    <3>0. m \in Nat
      BY <1>0 DEF m
    <3>1. i \in 1 .. m
      BY <2>3, <3>0
    <3>2. CASE j \in 1 .. m
      BY <1>1, <2>2, <3>1, <3>2
    <3>3. CASE j = m + 1
      <4>1. more[i] \in 1 .. n /\ more[j] = n + 3
        BY <2>2, <3>1, <3>3
      <4> QED
        BY <1>0, <4>1
    <3> QED
      BY <2>3, <3>2, <3>3
  <2>5. \A k \in 1 .. n + 3 : s[k] \in Names \ {"dot"} <=> \E i \in 1 .. m + 1 : more[i] = k
    <3> SUFFICES ASSUME NEW k \in 1 .. n + 3
                 PROVE  s[k] \in Names \ {"dot"} <=> \E i \in 1 .. m + 1 : more[i] = k
      OBVIOUS
    <3>0. m \in Nat /\ 1 .. m \subseteq 1 .. m + 1 /\ m + 1 \in 1 .. m + 1
      BY <1>0 DEF m
    <3>1. CASE k \in 1 .. n
      <4>1. k # n + 3
        BY <1>0, <3>1
      <4>2. (\E i \in 1 .. m + 1 : more[i] = k) <=> \E i \in 1 .. m : pos[i] = k
        BY <2>2, <2>3, <3>0, <4>1
      <4> QED
        BY <1>1, <3>1, <4>2
    <3>2. CASE k = n + 3
      BY <1>6, <2>2, <3>0, <3>2
    <3>3. CASE k = n + 1 \/ k = n + 2
      <4>1. s[k] \notin Names
        BY <1>4, <3>3
      <4>2. \A i \in 1 .. m + 1 : more[i] # k
        <5>1. \A i \in 1 .. m : more[i] \in 1 .. n
          BY <2>2
        <5>2. k \notin 1 .. n /\ k # n + 3
          BY <1>0, <3>3
        <5> QED
          BY <2>2, <2>3, <5>1, <5>2
      <4> QED
        BY <4>1, <4>2
    <3> QED
      BY <1>2, <3>1, <3>2, <3>3
  <2>6. \A i \in 1 .. m + 1 : f2[i] = s[more[i]]
    BY <1>1, <2>1, <2>2, <2>3
  <2>7. Keeping(s, f2, n + 3)
    BY <2>1, <2>2, <2>4, <2>5, <2>6 DEF Keeping
  <2> QED
    BY <1>2, <1>3, <2>7 DEF Listed
<1> QED
  BY <1>5, <1>6

\* An entry's length preserves SyncInv.
LEMMA EntryStep ==
    ASSUME SyncInv, HasEntry
    PROVE  SyncInv'
<1>1. at = "dent" /\ HasToken /\ ReadOn("name") /\ UNCHANGED <<server, synced>>
  <2>1. {"LEN"} \cap Lost = {}
    BY DEF Lost
  <2>2. Got({"dent"}, {"LEN"}) /\ ReadOn("name") /\ UNCHANGED <<server, synced>>
    BY DEF HasEntry
  <2>3. HasToken /\ at \in {"dent"}
    BY ONLY <2>1, <2>2, GotToken
  <2> QED
    BY <2>2, <2>3
<1>2. Stands /\ SyncTypeOK
  BY <1>1, Reading DEF SyncInv
<1>3. op = "readdir" /\ Listed(Said, files, Before - 1) /\ Said[Before] = "DENT"
  BY <1>1, <1>2 DEF Stands, Standing
<1>4. Before \in Nat /\ (Before + 1) - 2 = Before - 1 /\ (Before + 1) - 1 = Before
  BY <1>1, JustReadIs
<1>5. UNCHANGED <<server, op, ops, outcome, push>> /\ files' = files /\ files' \in Seq(Names)
  BY <1>1, <1>2 DEF synced, SyncTypeOK
<1>6. Standing("name", op, Said, files', Before + 1, SoFar)
  BY <1>3, <1>4, <1>5 DEF Standing
<1>7. "name" \in SyncReads /\ at # "free"
  BY <1>1 DEF SyncReads
<1> QED
  BY <1>1, <1>5, <1>6, <1>7, ReadOnStep

\* An entry's name preserves SyncInv.
LEMMA NameStep ==
    ASSUME SyncInv, HasName
    PROVE  SyncInv'
<1>1. /\ at = "name" /\ HasToken /\ token.kind \in Names /\ ReadOn("syncReply")
      /\ files' = Files /\ UNCHANGED <<server, op, ops, outcome, push>>
  <2>1. Names \cap Lost = {}
    BY DEF Lost, Names
  <2>2. /\ Got({"name"}, Names) /\ ReadOn("syncReply")
        /\ files' = Files /\ UNCHANGED <<server, op, ops, outcome, push>>
    BY DEF HasName
  <2>3. HasToken /\ at \in {"name"} /\ token.kind \in Names
    BY ONLY <2>1, <2>2, GotToken
  <2> QED
    BY <2>2, <2>3
<1>2. /\ Live /\ Stands /\ Tagged /\ Fresh /\ Answered /\ SyncTypeOK
  BY <1>1, Reading DEF SyncInv
<1>3. /\ op = "readdir" /\ Listed(Said, files, Before - 2) /\ Said[Before - 1] = "DENT"
  BY <1>1, <1>2 DEF Stands, Standing
<1>4. /\ Begin <= Len(sent) /\ Before \in Nat /\ Before + 1 <= Len(Said)
      /\ token.kind = Said[Before + 1] /\ Len(Said) \in Nat
  BY <1>1, <1>2, JustReadIs, SaidIs
<1> DEFINE n == Before - 2
<1>5. n \in Nat /\ n + 1 = Before - 1 /\ n + 3 = Before + 1 /\ n + 3 <= Len(Said)
  BY <1>3, <1>4 DEF Listed
<1>6. Said[n + 1] = "DENT" /\ Said[n + 3] = token.kind /\ Listed(Said, files, n)
  BY <1>3, <1>4, <1>5
<1> HIDE DEF n
<1>7. Said[n + 2] = "LEN"
  <2>1. n <= Len(Said) /\ n + 1 < Len(Said)
    BY <1>4, <1>5
  <2> QED
    BY <1>2, <1>3, <1>4, <1>5, <1>6, <2>1, DirGoesOn
<1>8. files' = (IF Said[n + 3] = "dot" THEN files ELSE Append(files, Said[n + 3]))
  BY <1>1, <1>6 DEF Files
<1>9. files \in Seq(Names) /\ Said[n + 3] \in Names
  BY <1>1, <1>2, <1>6 DEF SyncTypeOK
<1>10. Listed(Said, files', n + 3)
  BY <1>6, <1>7, <1>8, <1>9, KeepsName
<1>11. files' \in Seq(Names)
  BY <1>8, <1>9
<1>12. Standing("syncReply", op, Said, files', Before + 1, SoFar)
  BY <1>3, <1>5, <1>10 DEF Standing
<1>13. "syncReply" \in SyncReads /\ at # "free"
  BY <1>1 DEF SyncReads
<1> QED
  BY <1>1, <1>11, <1>12, <1>13, ReadOnStep

\* The length of a FAIL's message preserves SyncInv.
LEMMA ErrorLengthStep ==
    ASSUME SyncInv, HasErrorLength
    PROVE  SyncInv'
<1>1. /\ at = "syncLength" /\ HasToken /\ token.kind = "LEN" /\ ReadOn("syncText")
      /\ UNCHANGED <<server, synced>>
  <2>1. {"LEN"} \cap Lost = {}
    BY DEF Lost
  <2>2. Got({"syncLength"}, {"LEN"}) /\ ReadOn("syncText") /\ UNCHANGED <<server, synced>>
    BY DEF HasErrorLength
  <2>3. HasToken /\ at \in {"syncLength"} /\ token.kind \in {"LEN"}
    BY ONLY <2>1, <2>2, GotToken
  <2> QED
    BY <2>2, <2>3
<1>2. Stands /\ SyncTypeOK
  BY <1>1, Reading DEF SyncInv
<1>3. \E i \in 1 .. SoFar : Said[i] = "FAIL"
  BY <1>1, <1>2 DEF Stands, Standing
<1>4. UNCHANGED <<server, op, ops, outcome, push>> /\ files' = files /\ files' \in Seq(Names)
  BY <1>1, <1>2 DEF synced, SyncTypeOK
<1>a. Before >= 1 /\ Said[Before] = "FAIL"
  BY <1>1, <1>2 DEF Stands, Standing
<1>b. Before \in Nat /\ Said[Before + 1] = "LEN"
  BY <1>1, JustReadIs
<1>5. Standing("syncText", op, Said, files', Before + 1, SoFar)
  <2>1. Before + 1 >= 2 /\ Said[(Before + 1) - 1] = "FAIL"
    BY <1>a, <1>b
  <2> QED
    BY <1>3, <1>b, <2>1 DEF Standing
<1>6. "syncText" \in SyncReads /\ at # "free"
  BY <1>1 DEF SyncReads
<1> QED
  BY <1>1, <1>4, <1>5, <1>6, ReadOnStep

\* A FAIL's message preserves SyncInv.
LEMMA ErrorStep ==
    ASSUME SyncInv, HasError
    PROVE  SyncInv'
<1> USE DEF SyncInv
<1>0. /\ Tagged /\ Fresh /\ Behind /\ Answered /\ JustRead /\ Closed
      /\ (Live => Stands) /\ Outcomes
  BY DEF Conversed
<1>1. at \in {"syncLength", "syncText"}
  BY DEF HasError, Got
<1>2. /\ StartEnd
      /\ UNCHANGED <<asked, answered, sent, fin, arrived, broken, destroyed, ended,
                     op, ops, outcome, files, push>>
  BY DEF HasError, server, synced
<1>3. /\ at' = "drainEnd" /\ taken' = taken
      /\ \/ ended /\ phase' = "gap" /\ token' = Eof /\ shut' = shut
         \/ ~ended /\ phase' = "waiting" /\ token' = token /\ shut' = TRUE
  BY <1>2, Zenon DEF StartEnd, HalfClose
<1>4. Live /\ Stands
  BY <1>1, Reading
<1>5. /\ Begin' = Begin /\ Said' = Said /\ OpOutcome' = OpOutcome
      /\ Tagged' /\ Fresh' /\ Answered'
  <2>1. AnswerSame
    BY <1>2 DEF AnswerSame
  <2> QED
    BY <1>0, <2>1, SameAnswer
<1>6. SyncTypeOK'
  <2>1. token' \in [kind : SyncKinds \cup Lost, of : Nat] /\ phase' \in {"waiting", "gap"}
        /\ shut' \in BOOLEAN
    BY <1>3, EofIs DEF SyncTypeOK
  <2> QED
    BY <1>2, <1>3, <2>1 DEF SyncTypeOK
<1>7. WriterInv'
  <2>1. OnWire' => OnWire
    BY <1>2, <1>3 DEF OnWire
  <2> QED
    BY <1>2, <2>1 DEF WriterInv
<1>8. Counted'
  BY <1>2 DEF Counted
<1>9. TransferInv'
  BY <1>1, <1>2, <1>3 DEF TransferInv
<1>10. ~HasToken'
  BY <1>3, EofIs DEF HasToken
<1>11. Behind' /\ Closed'
  BY <1>0, <1>2, <1>3, <1>4, <1>5 DEF Behind, Closed, Live
<1>12. JustRead'
  BY <1>2, <1>3, <1>10, EofIs DEF JustRead
<1>13. Stands'
  <2>1. SoFar' = SoFar
    BY <1>3, <1>5 DEF SoFar
  <2>2. \E i \in 1 .. SoFar : Said[i] = "FAIL"
    BY <1>1, <1>4 DEF Stands, Standing
  <2> QED
    BY <1>2, <1>3, <1>5, <2>1, <2>2 DEF Stands, Standing
<1>14. Outcomes'
  BY <1>0, <1>1, <1>2, <1>3 DEF Outcomes
<1> QED
  BY <1>5, <1>6, <1>7, <1>8, <1>9, <1>11, <1>12, <1>13, <1>14 DEF Conversed

\* An answer that is cut off is an error to its operation.
LEMMA CutOffMeansError ==
    ASSUME SyncInv, at # "free", ~HasToken, taken = Len(sent)
    PROVE  OpOutcome = "error"
<1>1. /\ op \in {"stat", "readdir", "push"} /\ Live /\ Stands /\ Tagged /\ SyncTypeOK
  BY Reading DEF SyncInv
<1>2. /\ Said \in Seq(SyncKinds) /\ Len(Said) \in Nat /\ Len(Said) = SoFar /\ Before = SoFar
  BY <1>1, SaidIs DEF SoFar, Before
<1>3. at \in SyncReads \cup {"drainEnd"}
  BY <1>1 DEF SyncTypeOK
<1> DEFINE n == Before
<1>4. n \in Nat /\ Len(Said) = n /\ SoFar = n
  BY <1>2
<1>5. Standing(at, op, Said, files, n, n)
  BY <1>1, <1>2 DEF Stands
<1> HIDE DEF n
<1>6. CASE at = "syncReply" /\ op = "readdir"
  <2>1. Listed(Said, files, n)
    BY <1>5, <1>6 DEF Standing
  <2> QED
    BY <1>1, <1>4, <1>6, <2>1, DirCutOff
<1>7. CASE at = "syncReply" /\ op # "readdir"
  <2>1. Len(Said) = 0
    BY <1>4, <1>5, <1>7 DEF Standing
  <2>2. Said # <<"STAT", "good">> /\ Said # <<"STAT", "gone">> /\ Said # <<"OKAY", "LEN">>
    BY <2>1
  <2> QED
    BY <1>7, <2>2, Zenon DEF OpOutcome
<1>8. CASE at = "stat"
  <2>1. Len(Said) = 1 /\ op = "stat"
    BY <1>4, <1>5, <1>8 DEF Standing
  <2>2. Said # <<"STAT", "good">> /\ Said # <<"STAT", "gone">>
    BY <2>1
  <2> QED
    BY <2>1, <2>2 DEF OpOutcome
<1>9. CASE at = "dent" \/ (at = "last" /\ op = "readdir")
  <2>1. op = "readdir" /\ Listed(Said, files, n - 1)
    BY <1>5, <1>9 DEF Standing
  <2>2. n - 1 \in Nat /\ Len(Said) = (n - 1) + 1
    BY <1>4, <2>1 DEF Listed
  <2> QED
    BY <1>1, <2>1, <2>2, DirCutOff
<1>10. CASE at = "name"
  <2>1. op = "readdir" /\ Listed(Said, files, n - 2) /\ Said[n - 1] = "DENT"
    BY <1>5, <1>10 DEF Standing
  <2>2. n - 2 \in Nat /\ Len(Said) = (n - 2) + 2 /\ n - 1 = (n - 2) + 1
    BY <1>4, <2>1 DEF Listed
  <2>3. Said[(n - 2) + 1] = "DENT"
    BY <2>1, <2>2
  <2> QED
    BY <1>1, <2>1, <2>2, <2>3, DirCutOff
<1>11. CASE at = "last" /\ op # "readdir"
  <2>1. Len(Said) = 1 /\ op = "push"
    BY <1>4, <1>5, <1>11 DEF Standing
  <2>2. Said # <<"OKAY", "LEN">>
    BY <2>1
  <2> QED
    BY <2>1, <2>2 DEF OpOutcome
<1>12. CASE at \in {"syncLength", "syncText", "drainEnd"}
  <2>1. \E i \in 1 .. Len(Said) : Said[i] = "FAIL"
    BY <1>4, <1>5, <1>12 DEF Standing
  <2> QED
    BY <2>1, RefusedMeansError
<1> QED
  BY <1>3, <1>6, <1>7, <1>8, <1>9, <1>10, <1>11, <1>12 DEF SyncReads

\* A read that failed preserves SyncInv.
LEMMA FailStep ==
    ASSUME SyncInv, OpFails
    PROVE  SyncInv'
<1>1. /\ at # "free" /\ phase = "gap" /\ token.kind \in Lost
      /\ OpSettles("error") /\ destroyed' = destroyed
  BY DEF OpFails, Got
<1>2. ~HasToken
  BY <1>1 DEF HasToken
<1>3. JustRead /\ Closed
  BY DEF SyncInv, Conversed
<1>4. "error" \in {"ok", "enoent", "error"}
  OBVIOUS
<1>5. CASE token.kind = "EOF"
  <2>1. fin /\ taken = Len(sent)
    BY <1>1, <1>3, <1>5 DEF JustRead, Closed
  <2>2. OpOutcome = "error"
    BY <1>1, <1>2, <2>1, CutOffMeansError
  <2> QED
    BY <1>1, <1>4, <2>1, <2>2, SettleStep
<1>6. CASE token.kind = "ERROR"
  <2>1. broken
    BY <1>1, <1>3, <1>6 DEF JustRead
  <2> QED
    BY <1>1, <1>4, <2>1, SettleStep
<1> QED
  BY <1>1, <1>5, <1>6 DEF Lost

\* Every continuation preserves SyncInv.
LEMMA ContinueStep ==
    ASSUME SyncInv, SyncContinues
    PROVE  SyncInv'
BY ReplyStep, UnexpectedStep, StatStep, LastStep, EntryStep, NameStep, ErrorLengthStep,
   ErrorStep, FailStep, Zenon DEF SyncContinues

------------------------------------------------------------------------------
\* The server and the network.
LEMMA CloseStep ==
    ASSUME SyncInv, ServerCloses, UNCHANGED synced
    PROVE  SyncInv'
<1> USE DEF SyncInv
<1>0. /\ Tagged /\ Fresh /\ Behind /\ Answered /\ JustRead /\ Closed
      /\ (Live => Stands) /\ Outcomes
  BY DEF Conversed
<1>1. /\ ~fin /\ fin' = TRUE /\ sent' = SubSeq(sent, 1, arrived)
      /\ UNCHANGED <<asked, answered, arrived, broken, destroyed, shut, taken, at, phase, token,
                     ended, op, ops, outcome, files, push>>
  BY DEF ServerCloses, socket, parser, synced
<1>2. /\ sent \in Seq(SyncToken) /\ Len(sent) \in Nat /\ asked \in Nat /\ answered \in 0 .. asked
      /\ arrived \in 0 .. Len(sent) /\ taken \in 0 .. arrived
      /\ Begin \in Nat /\ Begin >= 1 /\ Begin <= Len(sent) + 1
  BY <1>0, SaidIs DEF SyncTypeOK
<1>3. /\ sent' \in Seq(SyncToken) /\ Len(sent') = arrived
      /\ \A i \in 1 .. arrived : sent'[i] = sent[i]
  <2>1. \A i \in 1 .. arrived : sent[i] \in SyncToken
    BY <1>2
  <2> QED
    BY <1>1, <1>2, <2>1, SubSeqProperties
<1> DEFINE b == IF Begin <= arrived THEN Begin ELSE arrived + 1
<1>4. b \in 1 .. Len(sent') + 1 /\ \A i \in 1 .. arrived : i >= Begin <=> i >= b
  BY <1>2, <1>3
<1>5. \A i \in 1 .. Len(sent') : sent'[i].of = asked <=> i >= b
  <2>1. \A i \in 1 .. Len(sent) : sent[i].of = asked <=> i >= Begin
    BY <1>0 DEF Tagged
  <2> QED
    BY <1>2, <1>3, <1>4, <2>1
<1> HIDE DEF b
<1>6. Begin' = b
  <2>1. BeginOf(sent', asked) = b
    <3>1. Len(sent') \in Nat
      BY <1>2, <1>3
    <3> QED
      BY <1>4, <1>5, <3>1, BeginIs, Zenon
  <2> QED
    BY <1>1, <2>1 DEF Begin
<1>7. Tagged'
  <2>1. \A i \in 1 .. Len(sent') : sent'[i].of \in 0 .. asked
    BY <1>0, <1>2, <1>3 DEF Tagged
  <2> QED
    BY <1>1, <1>4, <1>5, <1>6, <2>1 DEF Tagged
<1>8. Fresh'
  <2>1. answered < asked => b = arrived + 1
    BY <1>0, <1>2 DEF Fresh, b
  <2> QED
    BY <1>1, <1>3, <1>6, <2>1 DEF Fresh
<1>9. Live' = Live /\ (Live => b = Begin)
  <2>1. Live => Begin <= taken + 1
    BY <1>0 DEF Behind
  <2> QED
    BY <1>1, <1>2, <2>1 DEF Live, b
<1>10. Behind'
  BY <1>0, <1>1, <1>6, <1>9 DEF Behind
<1>11. Live => /\ Len(Said') = arrived + 1 - Begin /\ Len(Said') <= Len(Said)
               /\ \A i \in 1 .. Len(Said') : Said'[i] = Said[i]
  <2> SUFFICES ASSUME Live PROVE /\ Len(Said') = arrived + 1 - Begin /\ Len(Said') <= Len(Said)
               /\ \A i \in 1 .. Len(Said') : Said'[i] = Said[i]
    OBVIOUS
  <2>1. Said' = [i \in 1 .. Len(sent') + 1 - Begin' |-> sent'[Begin' + i - 1].kind]
    BY DEF Said
  <2> DEFINE m == arrived + 1 - Begin
  <2>2. m \in Nat /\ m <= Len(sent) + 1 - Begin /\ Begin' = Begin /\ Len(sent') + 1 - Begin = m
    BY <1>0, <1>2, <1>3, <1>6, <1>9 DEF Behind
  <2>3. Said' = [i \in 1 .. m |-> sent'[Begin + i - 1].kind]
    BY <2>1, <2>2
  <2>4. /\ Said \in Seq(SyncKinds) /\ Len(Said) = Len(sent) + 1 - Begin
        /\ \A i \in 1 .. Len(Said) : Said[i] = sent[Begin + i - 1].kind
    BY <1>0, SaidIs
  <2>5. \A i \in 1 .. m : /\ Begin + i - 1 \in 1 .. arrived
                          /\ i \in 1 .. Len(Said)
    BY <1>2, <2>2, <2>4
  <2> HIDE DEF m
  <2>6. Len(Said') = m
    BY <2>2, <2>3
  <2>7. \A i \in 1 .. m : Said'[i] = Said[i]
    <3> SUFFICES ASSUME NEW i \in 1 .. m PROVE Said'[i] = Said[i]
      OBVIOUS
    <3> DEFINE k == Begin + i - 1
    <3>1. Said'[i] = sent'[k].kind
      BY <2>3
    <3>2. Said[i] = sent[k].kind /\ k \in 1 .. arrived
      BY <2>4, <2>5
    <3> HIDE DEF k
    <3>3. sent'[k] = sent[k]
      BY <1>3, <3>2
    <3> QED
      BY <3>1, <3>2, <3>3
  <2> QED
    BY <2>2, <2>4, <2>6, <2>7 DEF m
<1>12. Answered'
  <2>a. SyncAnswers' = SyncAnswers
    BY <1>1 DEF SyncAnswers
  <2> SUFFICES ASSUME Live, answered = asked
               PROVE  \E a \in SyncAnswers : PrefixOf(Said', a)
    BY <1>1, <1>9, <2>a DEF Answered
  <2>1. PICK a \in SyncAnswers : PrefixOf(Said, a)
    BY <1>0 DEF Answered
  <2>2. a \in Seq(SyncKinds) /\ Len(a) \in Nat /\ Len(Said) \in Nat
    BY <1>0, AnswerType, SaidIs DEF Live, SyncTypeOK
  <2>3. Len(Said') \in Nat
    BY <1>0, <1>2, <1>11 DEF Behind
  <2>4. PrefixOf(Said', a)
    BY <1>11, <2>1, <2>2, <2>3 DEF PrefixOf
  <2> QED
    BY <2>4
<1>13. JustRead'
  <2>1. Begin <= taken => b = Begin
    BY <1>2 DEF b
  <2>2. Begin <= taken => sent'[taken] = sent[taken]
    BY <1>2, <1>3
  <2> QED
    BY <1>0, <1>1, <1>6, <2>1, <2>2 DEF JustRead, HasToken
<1>14. Closed'
  <2>1. ~ended
    BY <1>0, <1>1 DEF Closed
  <2> QED
    BY <1>0, <1>1, <1>3, <2>1 DEF Closed
<1>15. Live' => Stands'
  <2> SUFFICES ASSUME Live PROVE Stands'
    BY <1>9
  <2>1. Begin' = Begin /\ HasToken' = HasToken
    BY <1>1, <1>6, <1>9 DEF HasToken
  <2>2. Before' = Before
    BY <1>1, <2>1 DEF Before, SoFar
  <2>3. \A i \in 1 .. SoFar : Said'[i] = Said[i]
    BY <1>0, <1>2, <1>11 DEF SoFar, Behind
  <2> QED
    BY <1>0, <1>1, <1>2, <2>1, <2>2, <2>3, StandsSame
<1>16. Outcomes'
  <2>1. taken = Len(sent) => sent' = sent
    <3> SUFFICES ASSUME taken = Len(sent) PROVE sent' = sent
      OBVIOUS
    <3>1. arrived = Len(sent)
      BY <1>2
    <3> QED
      BY <1>2, <1>3, <3>1
  <2>2. CASE sent' = sent
    <3>1. Said' = Said
      BY <1>1, <2>2 DEF Said, Begin
    <3>2. Found' = Found /\ OpOutcome' = OpOutcome
      BY <1>1, <3>1 DEF Found, OpOutcome
    <3> QED
      BY <1>0, <1>1, <1>9, <2>2, <3>2 DEF Outcomes
  <2>3. CASE taken # Len(sent)
    <3>1. op # "none"
      BY <1>0, <1>2, <2>3 DEF Outcomes
    <3> QED
      BY <1>0, <1>1, <1>9, <2>3, <3>1 DEF Outcomes
  <2> QED
    BY <2>1, <2>2, <2>3
<1>17. SyncTypeOK'
  BY <1>1, <1>2, <1>3 DEF SyncTypeOK
<1>18. WriterInv' /\ Counted' /\ TransferInv'
  BY <1>1 DEF WriterInv, OnWire, Counted, TransferInv
<1> QED
  BY <1>7, <1>8, <1>10, <1>12, <1>13, <1>14, <1>15, <1>16, <1>17, <1>18 DEF Conversed

\* A step in which the operation reads on, or the socket does, as far as what was
\* said and what has settled go.
LEMMA OutOfReach ==
    ASSUME SyncInv, UNCHANGED <<asked, answered, sent, fin, op, push, files, outcome>>,
           UNCHANGED ops, shut' = shut \/ shut' = TRUE,
           destroyed' = destroyed \/ destroyed' = TRUE
    PROVE  /\ Begin' = Begin /\ Said' = Said /\ OpOutcome' = OpOutcome /\ Live' = Live
           /\ Found' = Found
           /\ Tagged' /\ Fresh' /\ Answered' /\ WriterInv' /\ Counted'
           /\ Begin \in Nat /\ Begin >= 1
<1>1. Tagged /\ Fresh /\ Answered /\ SyncTypeOK /\ WriterInv /\ Counted
  BY DEF SyncInv, Conversed
<1>2. AnswerSame
  BY DEF AnswerSame
<1>3. Begin' = Begin /\ Said' = Said /\ OpOutcome' = OpOutcome /\ Tagged' /\ Fresh' /\ Answered'
  BY <1>1, <1>2, SameAnswer
<1>4. Live' = Live /\ Found' = Found
  BY <1>3 DEF Live, Found
<1>5. WriterInv'
  <2>1. OnWire' => OnWire
    BY <1>1 DEF OnWire, SyncTypeOK
  <2> QED
    BY <1>1, <2>1 DEF WriterInv
<1>6. Counted'
  BY <1>1 DEF Counted
<1>7. Begin \in Nat /\ Begin >= 1
  BY <1>1, SaidIs
<1> QED
  BY <1>3, <1>4, <1>5, <1>6, <1>7

\* Bytes that arrive preserve SyncInv.
LEMMA ArriveStep ==
    ASSUME SyncInv, Arrive, UNCHANGED synced
    PROVE  SyncInv'
<1> USE DEF SyncInv
<1>0. /\ Tagged /\ Fresh /\ Behind /\ Answered /\ JustRead /\ Closed
      /\ (Live => Stands) /\ Outcomes
  BY DEF Conversed
<1>1. /\ arrived' \in (arrived + 1) .. Len(sent)
      /\ UNCHANGED <<asked, answered, sent, fin, broken, destroyed, shut, taken, at, phase,
                     token, ended, op, ops, outcome, files, push>>
  BY DEF Arrive, server, parser, synced
<1>2. /\ Len(sent) \in Nat /\ arrived \in 0 .. Len(sent) /\ taken \in 0 .. arrived
  BY DEF SyncTypeOK
<1>3. /\ Begin' = Begin /\ Said' = Said /\ OpOutcome' = OpOutcome /\ Live' = Live
      /\ Found' = Found
      /\ Tagged' /\ Fresh' /\ Answered' /\ WriterInv' /\ Counted'
  BY <1>1, OutOfReach
<1>4. HasToken' = HasToken
  BY <1>1 DEF HasToken
<1>5. SyncTypeOK'
  <2>1. arrived' \in 0 .. Len(sent') /\ taken' \in 0 .. arrived'
    BY <1>1, <1>2
  <2> QED
    BY <1>1, <2>1 DEF SyncTypeOK
<1>6. TransferInv'
  BY <1>1 DEF TransferInv
<1>7. Behind' /\ JustRead'
  BY <1>0, <1>1, <1>3, <1>4 DEF Behind, JustRead
<1>8. Closed'
  <2>1. ~fin
    BY <1>0, <1>1, <1>2 DEF Closed
  <2> QED
    BY <1>0, <1>1, <2>1 DEF Closed
<1>9. Live' => Stands'
  <2>1. Before' = Before
    BY <1>1, <1>3, <1>4 DEF Before, SoFar
  <2>2. taken' \in Nat /\ taken' >= taken
    BY <1>1, <1>2
  <2> QED
    BY <1>0, <1>1, <1>3, <2>1, <2>2, StandsSame
<1>10. Outcomes'
  BY <1>0, <1>1, <1>3 DEF Outcomes
<1> QED
  BY <1>3, <1>5, <1>6, <1>7, <1>8, <1>9, <1>10 DEF Conversed

\* A pending read is given the next token, or what has become of the stream.
LEMMA PendingStep ==
    ASSUME SyncInv, at # "free", HasToken => HasToken', at' = at,
           UNCHANGED <<asked, answered, sent, fin, arrived, op, ops, push, files, outcome>>,
           shut' = shut \/ shut' = TRUE, destroyed' = destroyed \/ destroyed' = TRUE,
           broken' = broken \/ broken' = TRUE,
           token' \in [kind : SyncKinds \cup Lost, of : Nat], phase' \in {"waiting", "gap"},
           ended' \in BOOLEAN, ended' => fin /\ taken' = Len(sent),
           taken' \in taken .. arrived,
           HasToken' => taken' > 0 /\ token' = sent[taken'],
           phase' = "gap" /\ token'.kind = "EOF" => ended',
           phase' = "gap" /\ token'.kind = "ERROR" => broken',
           \/ at = "drainEnd" /\ ~HasToken'
           \/ taken' = taken /\ HasToken' = HasToken
           \/ taken' = taken + 1 /\ HasToken' /\ ~HasToken
    PROVE  SyncInv'
<1> USE DEF SyncInv
<1>0. /\ Tagged /\ Fresh /\ Behind /\ Answered /\ JustRead /\ Closed
      /\ (Live => Stands) /\ Outcomes
  BY DEF Conversed
<1>1. Live
  BY Reading
<1>2. /\ Len(sent) \in Nat /\ arrived \in 0 .. Len(sent) /\ taken \in 0 .. arrived
      /\ taken' \in taken .. arrived
  BY DEF SyncTypeOK
<1>3. /\ Begin' = Begin /\ Said' = Said /\ OpOutcome' = OpOutcome /\ Live' = Live
      /\ Found' = Found /\ Begin \in Nat /\ Begin >= 1
      /\ Tagged' /\ Fresh' /\ Answered' /\ WriterInv' /\ Counted'
  BY OutOfReach
<1>4. SyncTypeOK'
  <2>1. arrived' \in 0 .. Len(sent') /\ taken' \in 0 .. arrived'
    BY <1>2
  <2>2. destroyed' \in BOOLEAN /\ broken' \in BOOLEAN /\ shut' \in BOOLEAN
    BY DEF SyncTypeOK
  <2> QED
    BY <2>1, <2>2 DEF SyncTypeOK
<1>5. TransferInv'
  <2>1. UNCHANGED <<op, push, at>>
    OBVIOUS
  <2> QED
    BY <2>1 DEF TransferInv
<1>6. Behind'
  <2>1. Begin <= taken + 1
    BY <1>0, <1>1 DEF Behind
  <2>2. taken \in Nat /\ taken' \in Nat /\ taken <= taken' /\ Begin \in Nat
    BY <1>2, <1>3
  <2>3. Begin <= taken' + 1
    <3>1. PICK b, t, u : b = Begin /\ t = taken /\ u = taken'
      OBVIOUS
    <3>2. b \in Nat /\ t \in Nat /\ u \in Nat /\ b <= t + 1 /\ t <= u
      BY <2>1, <2>2, <3>1
    <3>3. b <= u + 1
      BY ONLY <3>2
    <3> QED
      BY <3>1, <3>3
  <2> QED
    BY <1>3, <2>3 DEF Behind
<1>7. JustRead'
  <2>1. HasToken' => Begin' <= taken'
    <3>1. HasToken => Begin <= taken
      BY <1>0 DEF JustRead
    <3>2. Begin <= taken + 1
      BY <1>0, <1>1 DEF Behind
    <3> QED
      BY <1>2, <1>3, <3>1, <3>2
  <2> QED
    BY <2>1 DEF JustRead
<1>8. Closed'
  BY <1>0 DEF Closed
<1>9. Stands'
  <2>1. CASE at = "drainEnd"
    <3>1. \E i \in 1 .. SoFar : Said[i] = "FAIL"
      BY <1>0, <1>1, <2>1 DEF Stands, Standing
    <3>2. SoFar' = taken' + 1 - Begin /\ SoFar = taken + 1 - Begin
      BY <1>3 DEF SoFar
    <3>3. \E i \in 1 .. SoFar' : Said'[i] = "FAIL"
      <4>1. PICK i \in 1 .. SoFar : Said[i] = "FAIL"
        BY <3>1
      <4>2. Begin \in Nat /\ taken \in Nat /\ taken' \in Nat /\ taken <= taken'
        BY <1>2, <1>3
      <4>3. SoFar \in Int /\ SoFar' \in Int /\ SoFar <= SoFar'
        BY <3>2, <4>2
      <4>4. i \in 1 .. SoFar'
        BY <4>3
      <4> QED
        BY <1>3, <4>1, <4>4
    <3> QED
      BY <2>1, <3>3 DEF Stands, Standing
  <2>2. CASE at # "drainEnd"
    <3>1. Before' = Before
      <4>1. CASE taken' = taken /\ HasToken' = HasToken
        BY <1>3, <4>1 DEF Before, SoFar
      <4>2. CASE taken' = taken + 1 /\ HasToken' /\ ~HasToken
        <5>1. Before' = SoFar' - 1 /\ Before = SoFar - 0
          <6>1. (IF HasToken' THEN 1 ELSE 0) = 1 /\ (IF HasToken THEN 1 ELSE 0) = 0
            BY <4>2, Zenon
          <6>2. /\ Before' = SoFar' - (IF HasToken' THEN 1 ELSE 0)
                /\ Before = SoFar - (IF HasToken THEN 1 ELSE 0)
            BY Zenon DEF Before
          <6> QED
            BY <6>1, <6>2, Zenon
        <5>2. Begin \in Nat /\ taken \in Nat
          BY <1>2, <1>3
        <5>3. SoFar' = taken' + 1 - Begin' /\ SoFar = taken + 1 - Begin
          BY DEF SoFar
        <5> QED
          BY <1>3, <4>2, <5>1, <5>2, <5>3
      <4> QED
        BY <2>2, <4>1, <4>2
    <3>2. taken' \in Nat /\ taken' >= taken
      BY <1>2
    <3> QED
      BY <1>0, <1>1, <1>3, <3>1, <3>2, StandsSame
  <2> QED
    BY <2>1, <2>2
<1>10. Outcomes'
  BY <1>0, <1>1 DEF Outcomes, Live
<1> QED
  BY <1>3, <1>4, <1>5, <1>6, <1>7, <1>8, <1>9, <1>10 DEF Conversed

\* What the stream does while an operation reads.
LEMMA StreamStep ==
    ASSUME SyncInv, Running, UNCHANGED synced,
           Readable \/ StreamEnds \/ StreamBreaks \/ SocketTimesOut
    PROVE  SyncInv'
<1>0. SyncTypeOK /\ Closed /\ JustRead
  BY DEF SyncInv, Conversed
<1>1. /\ at # "free" /\ at \in SyncReads \cup {"drainEnd"}
      /\ UNCHANGED <<asked, answered, sent, fin, arrived, op, ops, push, files, outcome>>
      /\ shut' = shut \/ shut' = TRUE
  BY DEF Running, Readable, StreamEnds, StreamBreaks, SocketTimesOut, server, socket, synced,
         SyncReads
<1>2. /\ sent \in Seq(SyncToken) /\ Len(sent) \in Nat
      /\ arrived \in 0 .. Len(sent) /\ taken \in 0 .. arrived
      /\ token \in [kind : SyncKinds \cup Lost, of : Nat]
      /\ phase \in {"waiting", "gap"} /\ ended \in BOOLEAN
  BY <1>0 DEF SyncTypeOK
<1>3. phase = "waiting" => ~HasToken
  BY DEF HasToken
<1>4. CASE Readable
  <2>1. /\ phase = "waiting" /\ arrived > taken /\ ~HasToken
        /\ UNCHANGED <<broken, destroyed, ended>>
    BY <1>3, <1>4 DEF Readable, socket
  <2>2. ~ended
    BY <1>0, <1>2, <2>1 DEF Closed
  <2>3. CASE at = "drainEnd"
    <3>1. taken' = arrived /\ phase' = phase /\ token' = token /\ at' = at
      BY <1>4, <2>3 DEF Readable, Drains, ReadMore, ReadOut
    <3>2. ~HasToken' /\ taken' \in taken .. arrived
      BY <1>2, <2>1, <3>1 DEF HasToken
    <3> QED
      BY <1>1, <1>2, <2>1, <2>2, <2>3, <3>1, <3>2, PendingStep
  <2>4. CASE at # "drainEnd"
    <3>1. at \notin Drains
      BY <1>1, <2>4 DEF Drains, SyncReads
    <3>2. StartRead(at)
      BY <1>4, <3>1 DEF Readable
    <3>3. at' = at /\ taken' = taken + 1 /\ token' = sent[taken + 1] /\ phase' = "gap"
      BY <1>2, <2>1, <3>2, StartReadCases
    <3>4. taken + 1 \in 1 .. Len(sent) /\ taken + 1 <= arrived
      BY <1>2, <2>1
    <3>5. token' \in SyncToken
      BY <1>2, <3>3, <3>4
    <3>6. token'.kind \notin Lost /\ token' \in [kind : SyncKinds \cup Lost, of : Nat]
      BY <3>5 DEF SyncToken, SyncKinds, Lost
    <3>7. HasToken'
      BY <3>3, <3>6 DEF HasToken
    <3>8. taken' > 0 /\ taken' \in taken .. arrived /\ token' = sent[taken']
      BY <1>2, <3>3, <3>4
    <3>9. token'.kind # "EOF" /\ token'.kind # "ERROR" /\ phase' \in {"waiting", "gap"}
      BY <3>3, <3>6 DEF Lost
    <3> QED
      BY <1>1, <1>2, <2>1, <2>2, <3>3, <3>6, <3>7, <3>8, <3>9, PendingStep
  <2> QED
    BY <2>3, <2>4
<1>5. CASE StreamEnds \/ StreamBreaks \/ SocketTimesOut
  <2>1. /\ \/ /\ fin /\ arrived = taken /\ ended' = TRUE
              /\ UNCHANGED <<broken, destroyed>>
              /\ \/ phase = "waiting" /\ phase' = "gap" /\ token' = Eof
                 \/ phase # "waiting" /\ phase' = phase /\ token' = token
           \/ /\ broken' = TRUE /\ destroyed' \in {destroyed, TRUE} /\ ended' = ended
              /\ \/ phase = "waiting" /\ phase' = "gap" /\ token' = Failed
                 \/ phase # "waiting" /\ phase' = phase /\ token' = token
        /\ taken' = taken /\ at' = at
    BY <1>5 DEF StreamEnds, StreamBreaks, SocketTimesOut, socket, server
  <2>2. HasToken' = HasToken
    BY <1>2, <1>3, <2>1, EofIs DEF HasToken
  <2>3. HasToken => Begin <= taken /\ token = sent[taken]
    BY <1>0, <1>1 DEF JustRead
  <2>4. Begin \in Nat /\ Begin >= 1
    BY <1>1, Reading, SaidIs, <1>0
  <2>5. HasToken' => taken' > 0 /\ token' = sent[taken']
    <3>1. HasToken' => token' = token
      BY <1>3, <2>1, <2>2
    <3> QED
      BY <1>2, <2>1, <2>2, <2>3, <2>4, <3>1
  <2>6. /\ token' \in [kind : SyncKinds \cup Lost, of : Nat] /\ phase' \in {"waiting", "gap"}
        /\ ended' \in BOOLEAN /\ taken' \in taken .. arrived
    <3>1. token' \in [kind : SyncKinds \cup Lost, of : Nat]
      BY <1>2, <2>1, EofIs
    <3>2. phase' \in {"waiting", "gap"} /\ ended' \in BOOLEAN
      BY <1>2, <2>1
    <3>3. taken' \in taken .. arrived
      BY <1>2, <2>1
    <3> QED
      BY <3>1, <3>2, <3>3
  <2>7. ended' => fin /\ taken' = Len(sent)
    BY <1>0, <2>1 DEF Closed
  <2>8. /\ phase' = "gap" /\ token'.kind = "EOF" => ended'
        /\ phase' = "gap" /\ token'.kind = "ERROR" => broken'
    BY <1>0, <1>1, <1>2, <2>1, EofIs DEF JustRead
  <2>9. (destroyed' = destroyed \/ destroyed' = TRUE) /\ (broken' = broken \/ broken' = TRUE)
    BY <2>1
  <2> QED
    BY <1>1, <2>1, <2>2, <2>5, <2>6, <2>7, <2>8, <2>9, PendingStep
<1> QED
  BY <1>4, <1>5

------------------------------------------------------------------------------
\* Every behaviour keeps the invariant.
LEMMA InitSync == SyncInit => SyncInv
<1> SUFFICES ASSUME SyncInit PROVE SyncInv
  OBVIOUS
<1>1. /\ asked = 0 /\ answered = 0 /\ sent = <<>> /\ fin = FALSE
      /\ arrived = 0 /\ broken = FALSE /\ destroyed = FALSE /\ shut = FALSE
      /\ taken = 0 /\ at = "free" /\ phase = "gap" /\ token = Eof
      /\ ended = FALSE /\ op = "none" /\ ops = 0 /\ outcome = "none" /\ files = <<>>
      /\ push = NoPush
  BY DEF SyncInit
<1>2. push \in PushType
  BY <1>1 DEF PushType, NoPush
<1>3. SyncTypeOK
  <2>1. sent \in Seq(SyncToken) /\ files \in Seq(Names) /\ Len(sent) = 0
    BY <1>1
  <2>2. token \in [kind : SyncKinds \cup Lost, of : Nat]
    BY <1>1, EofIs
  <2>3. /\ asked \in Nat /\ answered \in 0 .. asked /\ arrived \in 0 .. Len(sent)
        /\ taken \in 0 .. arrived /\ ops \in Nat
    BY <1>1, <2>1
  <2>4. /\ fin \in BOOLEAN /\ broken \in BOOLEAN /\ destroyed \in BOOLEAN /\ shut \in BOOLEAN
        /\ ended \in BOOLEAN /\ at \in SyncReads \cup {"drainEnd", "free"}
        /\ phase \in {"waiting", "gap"} /\ op \in {"none", "stat", "readdir", "push"}
        /\ outcome \in {"none", "ok", "enoent", "error", "cancelled"}
    BY <1>1
  <2> QED
    BY <1>2, <2>1, <2>2, <2>3, <2>4 DEF SyncTypeOK
<1>4. WriterInv /\ TransferInv
  BY <1>1 DEF WriterInv, TransferInv, NoPush
<1>5. Counted
  <2> DEFINE sum == [i \in 0 .. 0 |-> 0]
  <2>1. push.stack = <<>> /\ push.moved = 0 /\ push.given = 0
    BY <1>1 DEF NoPush
  <2>2. sum \in [0 .. 0 -> Nat] /\ sum[0] = 0 /\ Len(<<>>) = 0
    OBVIOUS
  <2>3. \A i \in 1 .. 0 : sum[i] = sum[i - 1] + push.stack[i]
    OBVIOUS
  <2> HIDE DEF sum
  <2> QED
    BY <2>1, <2>2, <2>3 DEF Counted
<1>6. Begin = 1
  <2>1. Len(sent) \in Nat /\ 1 \in 1 .. Len(sent) + 1
        /\ \A i \in 1 .. Len(sent) : sent[i].of = asked <=> i >= 1
    BY <1>1
  <2> QED
    BY <2>1, BeginIs DEF Begin
<1>7. Tagged /\ Fresh /\ Behind /\ Closed /\ JustRead /\ Outcomes /\ ~Live
  BY <1>1, <1>6 DEF Tagged, Fresh, Behind, Closed, JustRead, Outcomes, Live
<1> QED
  BY <1>3, <1>4, <1>5, <1>7 DEF SyncInv, Conversed, Answered

\* Every step preserves SyncInv.
LEMMA StepSync == SyncInv /\ [SyncNext]_<<vars, synced>> => SyncInv'
<1> SUFFICES ASSUME SyncInv, [SyncNext]_<<vars, synced>> PROVE SyncInv'
  OBVIOUS
<1>1. CASE UNCHANGED <<vars, synced>>
  <2>1. UNCHANGED <<asked, answered, sent, fin, arrived, broken, destroyed, shut, taken, at,
                    phase, token, ended, op, ops, outcome, files, push>>
    BY <1>1 DEF vars, server, socket, parser, synced
  <2>a. SyncTypeOK' /\ WriterInv'
    BY <2>1 DEF SyncInv, SyncTypeOK, WriterInv, OnWire
  <2>b. Counted'
    BY <2>1, CountedSame DEF SyncInv, SameCount
  <2>c. TransferInv'
    BY <2>1 DEF SyncInv, TransferInv
  <2>2. SyncTypeOK' /\ WriterInv' /\ Counted' /\ TransferInv'
    BY <2>a, <2>b, <2>c
  <2>3. Conversed'
    BY <2>1, ConversationSame DEF AnswerSame, SyncInv
  <2> QED
    BY <2>2, <2>3 DEF SyncInv
<1>2. CASE StartOp
  BY <1>2, StartStep
<1>3. CASE SyncEnds
  BY <1>3, EndsStep
<1>4. CASE DeviceAnswers
  BY <1>4, DeviceStep
<1>5. CASE SyncContinues
  BY <1>5, ContinueStep
<1>6. CASE SourceFails \/ UserCancels
  BY <1>6, CancelStep
<1>7. CASE SourceGives \/ WriterSteps
  BY <1>7, SourceStep, WriteStep DEF WriterSteps
<1>8. CASE InConversation(ServerCloses \/ Arrive)
  BY <1>8, CloseStep, ArriveStep DEF InConversation
<1>9. CASE InConversation(Running /\ (Readable \/ StreamEnds \/ StreamBreaks \/ SocketTimesOut))
  BY <1>9, StreamStep DEF InConversation
<1> QED
  BY <1>1, <1>2, <1>3, <1>4, <1>5, <1>6, <1>7, <1>8, <1>9 DEF SyncNext

\* SyncInv is an invariant.
LEMMA AlwaysSync == SyncSpec => []SyncInv
BY InitSync, StepSync, PTL DEF SyncSpec

------------------------------------------------------------------------------
(***************************************************************************)
(* What reads wait for.  A read waits only while the stream has not ended, *)
(* and _readError's .finally() only on a connection it has half-closed.    *)
(***************************************************************************)
Waiting == at # "free" /\ phase = "waiting" => ~ended /\ (at = "drainEnd" => shut)

\* Waiting is inductive.
LEMMA WaitingNext == SyncInv /\ Waiting /\ [SyncNext]_<<vars, synced>> => Waiting'
<1> SUFFICES ASSUME SyncInv, Waiting, [SyncNext]_<<vars, synced>> PROVE Waiting'
  OBVIOUS
<1>1. ASSUME UNCHANGED <<at, ended, shut>>, phase' = "gap" \/ phase' = phase
      PROVE  Waiting'
  BY <1>1 DEF Waiting
<1>2. ASSUME NEW w \in SyncReads, StartRead(w), UNCHANGED ended
      PROVE  Waiting'
  <2>1. at' = w /\ (phase' = "waiting" => ~ended)
    BY <1>2, StartReadCases
  <2>2. w # "drainEnd"
    BY DEF SyncReads
  <2> QED
    BY <1>2, <2>1, <2>2 DEF Waiting
<1>3. ASSUME at' = "free" PROVE Waiting'
  BY <1>3 DEF Waiting
<1>4. CASE UNCHANGED <<vars, synced>> \/ DeviceAnswers \/ SourceGives \/ WriterSteps
  <2>1. CASE WriteNext \/ WriteDone
    BY <1>1, <2>1 DEF WriteNext, WriteDone, Writing, vars, socket, parser
  <2>2. CASE ~(WriteNext \/ WriteDone)
    BY <1>1, <1>4, <2>2 DEF DeviceAnswers, SourceGives, WriterSteps, SourceReadable, SourceEnds,
                            Flushed, vars, socket, parser
  <2> QED
    BY <2>1, <2>2
<1>5. CASE StartOp
  <2>1. StartRead("syncReply") /\ UNCHANGED ended /\ "syncReply" \in SyncReads
    BY <1>5 DEF StartOp, SyncReads
  <2> QED
    BY <1>2, <2>1
<1>6. CASE SyncEnds \/ SourceFails \/ UserCancels
  BY <1>3, <1>6 DEF SyncEnds, SourceFails, UserCancels, GiveUpPush, parser
<1>7. CASE SyncContinues
  <2>1. CASE ReadsReply \/ HasEntry \/ HasName \/ HasErrorLength
    <3>1. PICK w \in SyncReads : ReadOn(w)
      <4>1. CASE ReadsReply
        <5>1. Awaits(token.kind) \in SyncReads
          BY <4>1 DEF ReadsReply, Awaits, SyncReads
        <5> QED
          BY <4>1, <5>1 DEF ReadsReply
      <4>2. CASE HasEntry \/ HasName \/ HasErrorLength
        BY <4>2 DEF HasEntry, HasName, HasErrorLength, SyncReads
      <4> QED
        BY <2>1, <4>1, <4>2
    <3> QED
      BY <1>2, <3>1 DEF ReadOn
  <2>2. CASE HasError
    BY <2>2 DEF HasError, StartEnd, HalfClose, Waiting
  <2>3. CASE ReadsUnexpected \/ HasStat \/ HasLast \/ OpFails
    BY <1>3, <2>3 DEF ReadsUnexpected, HasStat, HasLast, OpFails, OpSettles
  <2> QED
    BY <1>7, <2>1, <2>2, <2>3 DEF SyncContinues
<1>8. CASE InConversation(ServerCloses \/ Arrive)
  BY <1>1, <1>8 DEF InConversation, ServerCloses, Arrive, socket, parser
<1>9. CASE InConversation(Running /\ (Readable \/ StreamEnds \/ StreamBreaks \/ SocketTimesOut))
  <2>1. CASE StreamEnds
    BY <2>1 DEF StreamEnds, Waiting, socket
  <2>2. CASE StreamBreaks
    BY <1>1, <2>2 DEF StreamBreaks
  <2>3. CASE Running /\ Readable
    <3>1. UNCHANGED <<ended, shut>>
      BY <2>3 DEF Readable, socket
    <3>2. CASE at \in Drains
      BY <1>1, <2>3, <3>1, <3>2 DEF Readable, ReadMore
    <3>3. CASE at \notin Drains
      <4>1. StartRead(at) /\ at \in SyncReads
        BY <2>3, <3>3 DEF Readable, Running, Drains
      <4> QED
        BY <1>2, <3>1, <4>1
    <3> QED
      BY <3>2, <3>3
  <2>4. CASE SocketTimesOut
    BY <2>4 DEF SocketTimesOut, Waiting
  <2> QED
    BY <1>9, <2>1, <2>2, <2>3, <2>4 DEF InConversation
<1> QED
  BY <1>4, <1>5, <1>6, <1>7, <1>8, <1>9 DEF SyncNext

\* What an answer ends with.
Ends(a) ==
    LET n == Len(a)
    IN  /\ n >= 1 /\ a[n] \in {"JUNK", "ZERO", "noise", "LEN", "good", "gone"}
        /\ a[n] = "LEN" => n >= 2 /\ a[n - 1] \in {"DONE", "OKAY"}
        /\ a[n] \in {"good", "gone"} => op = "stat"

\* Every whole answer ends so.
LEMMA AnswerEnds ==
    ASSUME op \in {"stat", "readdir", "push"}, NEW a \in SyncAnswers
    PROVE  Ends(a)
<1>1. ASSUME NEW l \in Tails
      PROVE  LET n == Len(l)
             IN  /\ n \in 1 .. 3 /\ l[n] \in {"JUNK", "ZERO", "noise", "LEN"}
                 /\ l[n] = "LEN" => n >= 2 /\ l[n - 1] = "DONE"
  <2>1. CASE l \in Broken
    BY <2>1, RefusalsAre
  <2>2. CASE l = <<"DONE", "LEN">>
    BY <2>2
  <2> QED
    BY <2>1, <2>2 DEF Tails
<1>2. CASE a \in Broken
  <2>1. a \in Tails
    BY <1>2 DEF Tails
  <2> QED
    BY <1>1, <2>1 DEF Ends
<1>3. CASE op = "stat"
  <2>1. ~(a \in Broken) => a = <<"STAT", "good">> \/ a = <<"STAT", "gone">>
    BY <1>3, StatAnswers
  <2> QED
    BY <1>2, <1>3, <2>1 DEF Ends
<1>4. CASE op = "push"
  <2>1. ~(a \in Broken) => a = <<"OKAY", "LEN">>
    BY <1>4, PushAnswers
  <2> QED
    BY <1>2, <2>1 DEF Ends
<1>5. CASE op = "readdir"
  <2>1. PICK e \in Entries, l \in Tails : a = Listing(e) \o l
    BY <1>5, DirAnswers
  <2>2. PICK n : n = 3 * Len(e)
    OBVIOUS
  <2>3. PICK k : k = Len(l)
    OBVIOUS
  <2>4. n \in Nat /\ k \in 1 .. 3 /\ l[k] \in {"JUNK", "ZERO", "noise", "LEN"}
        /\ (l[k] = "LEN" => k >= 2 /\ l[k - 1] = "DONE")
    <3>1. n \in Nat
      BY <2>2, ListingIs
    <3> QED
      BY ONLY <1>1, <2>3, <3>1, l \in Tails
  <2>5. Len(a) = n + k /\ \A i \in 1 .. k : a[n + i] = l[i]
    BY <2>1, <2>2, <2>3, ListingThen
  <2>6. a[n + k] = l[k]
    BY <2>4, <2>5
  <2>7. a[n + k] = "LEN" => n + k >= 2 /\ a[(n + k) - 1] = "DONE"
    <3> SUFFICES ASSUME a[n + k] = "LEN" PROVE n + k >= 2 /\ a[(n + k) - 1] = "DONE"
      OBVIOUS
    <3>1. k >= 2 /\ l[k - 1] = "DONE"
      BY <2>4, <2>6
    <3>2. k - 1 \in 1 .. k /\ n + (k - 1) = (n + k) - 1
      BY <2>4, <3>1
    <3>3. a[(n + k) - 1] = l[k - 1]
      BY <2>5, <3>2
    <3> QED
      BY <2>4, <3>1, <3>3
  <2> QED
    BY <2>4, <2>5, <2>6, <2>7 DEF Ends
<1> QED
  BY <1>3, <1>4, <1>5

\* A read of an operation finds something to read in a whole answer.
LEMMA WholeIsEnough ==
    ASSUME SyncInv, Running, ~HasToken, ~fin, answered = asked, taken = Len(sent)
    PROVE  at = "drainEnd"
<1> SUFFICES ASSUME at # "drainEnd" PROVE FALSE
  OBVIOUS
<1>0. at # "free" /\ at \in SyncReads
  BY DEF Running, SyncReads
<1>1. /\ op \in {"stat", "readdir", "push"} /\ Live /\ Stands /\ Tagged /\ Fresh /\ Answered
      /\ SyncTypeOK
  BY <1>0, Reading DEF SyncInv
<1>2. /\ Said \in Seq(SyncKinds) /\ Len(Said) \in Nat /\ Len(Said) = SoFar /\ Before = SoFar
  BY <1>1, SaidIs DEF SoFar, Before
<1>3. PICK n : n = Before
  OBVIOUS
<1>4. n \in Nat /\ Len(Said) = n
  BY <1>2, <1>3
<1>5. Standing(at, op, Said, files, n, n)
  BY <1>1, <1>2, <1>3 DEF Stands
<1>6. PICK a \in SyncAnswers : PrefixOf(Said, a) /\ Len(Said) = Len(a)
  BY <1>1 DEF Answered
<1>7. Ends(a)
  BY <1>1, AnswerEnds
<1>8. /\ n >= 1 /\ Said[n] \in {"JUNK", "ZERO", "noise", "LEN", "good", "gone"}
      /\ Said[n] = "LEN" => n >= 2 /\ Said[n - 1] \in {"DONE", "OKAY"}
      /\ Said[n] \in {"good", "gone"} => op = "stat"
  <2>1. n >= 1 /\ Len(a) = n
    BY <1>4, <1>6, <1>7 DEF Ends
  <2>2. Said[n] = a[n] /\ (n >= 2 => Said[n - 1] = a[n - 1])
    BY <1>4, <1>6, <2>1 DEF PrefixOf
  <2> QED
    BY <1>7, <2>1, <2>2 DEF Ends
<1>9. Begin <= Len(sent)
  <2>1. SoFar >= 1 /\ SoFar = taken + 1 - Begin /\ Begin \in Nat /\ taken \in Nat
    BY <1>1, <1>2, <1>3, <1>8, SaidIs DEF SoFar, SyncTypeOK
  <2> QED
    BY <2>1
<1>10. CASE at = "syncReply"
  <2>1. op = "readdir" /\ Listed(Said, files, n)
    BY <1>5, <1>8, <1>10 DEF Standing
  <2>2. n % 3 = 0
    BY <2>1 DEF Listed
  <2>3. Said[n] \in Names
    <3>1. \A i \in 1 .. n : i % 3 = 0 => Said[i] \in Names
      BY <1>1, <1>4, <1>9, <2>1, DirGoesOn
    <3> QED
      BY <1>4, <1>8, <2>2, <3>1
  <2> QED
    BY <1>8, <2>1, <2>3 DEF Names
<1>11. CASE at = "name"
  <2>1. op = "readdir" /\ Listed(Said, files, n - 2) /\ Said[n - 1] = "DENT"
    BY <1>5, <1>11 DEF Standing
  <2>2. n - 2 \in Nat /\ n - 2 <= Len(Said) /\ (n - 2) + 1 < Len(Said)
        /\ (n - 2) + 1 = n - 1 /\ (n - 2) + 2 = n
    BY <1>4, <2>1 DEF Listed
  <2>3. Said[n] = "LEN"
    <3>1. (n - 2) + 1 < Len(Said) /\ Said[(n - 2) + 1] = "DENT" => Said[(n - 2) + 2] = "LEN"
      BY <1>1, <1>9, <2>1, <2>2, DirGoesOn
    <3> QED
      BY <2>1, <2>2, <3>1
  <2> QED
    BY <1>8, <2>1, <2>3
<1>12. CASE at \in {"stat", "dent", "last", "syncLength"}
  <2>1. Said[n] \in {"STAT", "DENT", "DONE", "OKAY", "FAIL"}
    BY <1>5, <1>12 DEF Standing
  <2> QED
    BY <1>8, <2>1
<1>13. CASE at = "syncText"
  <2>1. Said[n - 1] = "FAIL" /\ Said[n] = "LEN"
    BY <1>5, <1>13 DEF Standing
  <2> QED
    BY <1>8, <2>1
<1> QED
  BY <1>0, <1>10, <1>11, <1>12, <1>13 DEF SyncReads

\* What an operation waits for is still to come.
LEMMA WaitsForMore ==
    ASSUME SyncInv, Waiting, Running, phase = "waiting"
    PROVE  ToCome
<1>1. ~ended /\ (at = "drainEnd" => shut) /\ ~HasToken
  BY DEF Waiting, Running, SyncReads, HasToken
<1>2. asked \in Nat /\ answered \in 0 .. asked /\ Len(sent) \in Nat
      /\ arrived \in 0 .. Len(sent) /\ taken \in 0 .. arrived
  BY DEF SyncInv, SyncTypeOK
<1>3. (answered < asked \/ answered = asked) /\ (taken < Len(sent) \/ taken = Len(sent))
  BY <1>2
<1>4. CASE ~fin /\ answered = asked /\ taken = Len(sent)
  BY <1>1, <1>4, WholeIsEnough DEF ToCome
<1> QED
  BY <1>1, <1>3, <1>4 DEF ToCome

------------------------------------------------------------------------------
\* Type correctness of the operations of a sync connection (Sync, PushTransfer).
THEOREM SyncTyping == SyncSpec => []SyncTypeOK
<1>1. SyncInv => SyncTypeOK
  BY DEF SyncInv
<1> QED
  BY <1>1, AlwaysSync, PTL

\* However long the source, and whatever the device, the network, the user and the
\* source do: a push that ends without an error and was not cancelled has put the
\* whole source on the device, and DONE behind it (Sync._writeData).
THEOREM Stored == SyncSpec => []EndMeansStored
<1>1. SyncInv => EndMeansStored
  BY DEF SyncInv, EndMeansStored, WriterInv, TransferInv
<1> QED
  BY <1>1, AlwaysSync, PTL

\* For every length of the source and of the pieces it is sent in, and whenever
\* writes are flushed: the progress told adds up to what was read from the source
\* (PushTransfer.push, PushTransfer.pop).
THEOREM AddsUp == SyncSpec => []ProgressAddsUp
<1>1. SyncInv => ProgressAddsUp
  BY DEF SyncInv, Counted, ProgressAddsUp
<1> QED
  BY <1>1, AlwaysSync, PTL

\* For any number of operations and of entries: how an operation settles follows
\* from what the device answered to it, unless the connection failed or the operation
\* timed out; the files of readdir are the names of the
\* entries but "." and "..", in their order, and a read that waits is one for which
\* there is something to come (Sync.stat, readdir, _writeData, _readError).
THEOREM FollowsAnswer == SyncSpec => []OpFollowsAnswer
<1>1. SyncInv /\ Waiting => OpFollowsAnswer
  <2>1. ASSUME SyncInv, op # "none", outcome # "none", ~push.dropped
        PROVE  /\ outcome = OpOutcome \/ (broken /\ outcome = "error")
               /\ op = "readdir" /\ outcome = "ok" => Found
    <3>1. Live /\ at = "free"
      BY <2>1 DEF SyncInv, Conversed, Outcomes, Live
    <3> QED
      BY <2>1, <3>1 DEF SyncInv, Conversed, Outcomes
  <2> QED
    BY <2>1, WaitsForMore DEF OpFollowsAnswer
<1>2. SyncInit => Waiting
  BY DEF SyncInit, Waiting
<1> QED
  BY <1>1, <1>2, AlwaysSync, WaitingNext, PTL DEF SyncSpec

------------------------------------------------------------------------------
(***************************************************************************)
(* The refinement.  Every step is one of the transfer's, or none.          *)
(***************************************************************************)
\* Not more is told than was read from the source.
Within == push.moved <= push.given

\* Within follows from what is counted.
LEMMA ToldWithin == SyncInv => Within
<1> SUFFICES ASSUME SyncInv PROVE Within
  OBVIOUS
<1>1. PICK n : n = Len(push.stack)
  OBVIOUS
<1>2. n \in Nat /\ \A i \in 1 .. n : push.stack[i] \in Nat
  BY <1>1, SMTT(30) DEF SyncInv, SyncTypeOK, PushType
<1>3. PICK sum \in [0 .. n -> Nat] :
        /\ sum[0] = push.moved /\ sum[n] = push.given
        /\ \A i \in 1 .. n : sum[i] = sum[i - 1] + push.stack[i]
  BY <1>1 DEF SyncInv, Counted
<1>4. \A i \in 1 .. n : sum[i - 1] <= sum[i]
  <2> SUFFICES ASSUME NEW i \in 1 .. n PROVE sum[i - 1] <= sum[i]
    OBVIOUS
  <2>1. i - 1 \in 0 .. n
    BY <1>2
  <2>2. sum[i - 1] \in Nat /\ push.stack[i] \in Nat
    BY <1>2, <2>1
  <2>3. sum[i] = sum[i - 1] + push.stack[i]
    BY <1>3
  <2> QED
    BY ONLY <2>2, <2>3
<1>5. sum[0] <= sum[n]
  BY <1>2, <1>4, TotalGrows
<1> QED
  BY <1>3, <1>5 DEF Within

\* What the transfer is about has not changed.
PushSame ==
    /\ push'.made = push.made /\ push'.put = push.put /\ push'.done = push.done
    /\ push'.moved = push.moved /\ push'.errors = push.errors
    /\ push'.ended = push.ended /\ push'.dropped = push.dropped
Moves == Promise!Next \/ PushSame

\* A new operation finds the transfer of a push ended, or there was none.
LEMMA StartMaps ==
    ASSUME SyncInv, StartOp
    PROVE  Moves
<1>1. push \in PushType /\ at = "free" /\ ~push.dropped
  BY DEF SyncInv, SyncTypeOK, StartOp
<1>2. push' = [NoPush EXCEPT !.listens = (op' = "push")]
  BY DEF StartOp
<1>3. /\ push'.made = 0 /\ push'.put = 0 /\ push'.done = FALSE /\ push'.moved = 0
      /\ push'.errors = 0 /\ push'.ended = FALSE /\ push'.dropped = FALSE
  BY <1>2 DEF NoPush
<1>4. CASE op = "push"
  <2>1. push.ended
    BY <1>1, <1>4 DEF SyncInv, TransferInv
  <2> QED
    BY <1>1, <1>3, <2>1 DEF Moves, Promise!Next, Promise!Renew, Promise!Over, Promise!Init
<1>5. CASE op # "push"
  <2>1. push = NoPush
    BY <1>5 DEF SyncInv, TransferInv
  <2> QED
    BY <1>3, <2>1 DEF Moves, PushSame, NoPush
<1> QED
  BY <1>4, <1>5

\* An operation that settles ends the transfer of a push.
LEMMA SettleMaps ==
    ASSUME SyncInv, at # "free", NEW r, OpSettles(r), op = "push" => r = "error" \/ push.done
    PROVE  Moves
<1>1. push \in PushType /\ push' = Transferred(r)
  BY DEF SyncInv, SyncTypeOK, OpSettles
<1>2. CASE op # "push"
  BY <1>1, <1>2 DEF Transferred, Moves, PushSame
<1>3. CASE op = "push"
  <2>1. /\ push'.made = push.made /\ push'.put = push.put /\ push'.done = push.done
        /\ push'.moved = push.moved /\ push'.dropped = push.dropped /\ push'.ended = TRUE
        /\ push'.errors = IF r = "error" THEN push.errors + 1 ELSE push.errors
    BY <1>1, <1>3 DEF Transferred, PushType
  <2>2. /\ ~push.ended /\ ~push.dropped /\ push.errors = 0 /\ ~Promise!Over
        /\ push.done => push.put = push.made
    <3>1. ~push.ended /\ (push.done => push.put = push.made)
      BY DEF SyncInv, TransferInv, WriterInv
    <3>2. ~push.dropped /\ push.errors = 0
      BY <3>1 DEF SyncInv, TransferInv
    <3> QED
      BY <3>1, <3>2, SMT DEF Promise!Over
  <2>3. CASE r = "error"
    <3>1. push'.errors = 1 /\ push'.ended \in BOOLEAN /\ push'.dropped \in BOOLEAN
      <4>1. push'.errors = push.errors + 1 /\ push.errors = 0
        BY <2>1, <2>2, <2>3
      <4>2. push'.ended = TRUE /\ push'.dropped = push.dropped /\ push.dropped \in BOOLEAN
        BY <1>1, <2>1 DEF PushType
      <4>3. push'.errors = 1
        BY ONLY <4>1
      <4>4. push'.ended \in BOOLEAN /\ push'.dropped \in BOOLEAN
        BY ONLY <4>2, Zenon
      <4> QED
        BY <4>3, <4>4
    <3> QED
      BY <2>1, <2>2, <3>1 DEF Moves, Promise!Next, Promise!Fail
  <2>4. CASE r # "error"
    BY <1>3, <2>1, <2>2, <2>4 DEF Moves, Promise!Next, Promise!Finish
  <2> QED
    BY <2>3, <2>4
<1> QED
  BY <1>2, <1>3

\* The continuations of the reader.
LEMMA ReaderMaps ==
    ASSUME SyncInv, SyncContinues
    PROVE  Moves
<1>1. CASE ReadsReply \/ HasEntry \/ HasName \/ HasErrorLength \/ HasError
  BY <1>1 DEF ReadsReply, HasEntry, HasName, HasErrorLength, HasError, synced, Moves, PushSame
<1>2. CASE ReadsUnexpected \/ OpFails
  <2>1. at # "free" /\ OpSettles("error")
    BY <1>2 DEF ReadsUnexpected, OpFails, Got
  <2> QED
    BY <2>1, SettleMaps
<1>3. CASE HasStat
  <2>1. PICK r : OpSettles(r)
    BY <1>3 DEF HasStat
  <2>2. at = "stat"
    BY <1>3 DEF HasStat, Got
  <2>3. op = "stat"
    BY <2>2, Reading DEF Stands, Standing
  <2> QED
    BY <2>1, <2>2, <2>3, SettleMaps
<1>4. CASE HasLast
  <2>1. at # "free" /\ OpSettles("ok")
    BY <1>4 DEF HasLast, Got
  <2>2. op = "push" => push.done
    BY <1>4, LastOfPush
  <2> QED
    BY <2>1, <2>2, SettleMaps
<1> QED
  BY <1>1, <1>2, <1>3, <1>4 DEF SyncContinues

\* The source, and what the writer does with it.
LEMMA WriterMaps ==
    ASSUME SyncInv, Within', SyncTypeOK', SourceGives \/ WriterSteps
    PROVE  Moves
<1>0. /\ push \in PushType /\ WriterInv /\ (push.ended => ~push.listens)
      /\ ~push.ended => push.errors = 0 /\ ~push.dropped
  BY DEF SyncInv, SyncTypeOK, TransferInv
<1> USE DEF Moves, Promise!Next
<1>1. CASE SourceGives
  <2>1. ~push.ended /\ ~push.done /\ push.listens /\ ~Promise!Over
    BY <1>0, <1>1 DEF SourceGives, WriterInv, Promise!Over
  <2>2. CASE \E n \in (push.made + 1) .. MaxBytes : push' = [push EXCEPT !.made = n]
    <3>1. PICK n \in (push.made + 1) .. MaxBytes : push' = [push EXCEPT !.made = n]
      BY <2>2
    <3>2. n > push.made
      BY <1>0, <3>1, SyncAssumption DEF SyncAssumption, PushType
    <3>3. /\ push'.made = n /\ push'.put = push.put /\ push'.done = push.done
          /\ push'.moved = push.moved /\ push'.errors = push.errors
          /\ push'.ended = push.ended /\ push'.dropped = push.dropped
      BY <1>0, <3>1 DEF PushType
    <3> QED
      BY <2>1, <3>2, <3>3 DEF Promise!Produce, Promise!Open
  <2>3. CASE push' = [push EXCEPT !.source = "eof"]
    BY <1>0, <2>3 DEF PushSame, PushType
  <2> QED
    BY <1>1, <2>2, <2>3 DEF SourceGives
<1>2. CASE SourceReadable \/ SourceEnds
  BY <1>0, <1>2 DEF SourceReadable, SourceEnds, PushSame, PushType
<1>3. CASE WriteNext
  <2>1. PICK n : n = Unread
    OBVIOUS
  <2>2. push' = [push EXCEPT !.writeDue = FALSE, !.given = push.given + n,
                             !.put = IF OnWire THEN push.put + n ELSE push.put,
                             !.stack = push.stack \o Pieces(n)]
    BY <1>3, <2>1 DEF WriteNext
  <2>3. /\ push'.made = push.made /\ push'.done = push.done /\ push'.moved = push.moved
        /\ push'.put = (IF OnWire THEN push.put + n ELSE push.put)
        /\ push'.errors = push.errors /\ push'.ended = push.ended
        /\ push'.dropped = push.dropped
    BY <1>0, <2>2 DEF PushType
  <2>4. n \in Nat /\ push.given + n <= push.made /\ push.put \in Nat
    BY <1>0, <2>1 DEF Unread, WriterInv, PushType
  <2>5. CASE n = 0 \/ ~OnWire
    BY <2>3, <2>4, <2>5 DEF PushSame
  <2>6. CASE n > 0 /\ OnWire
    <3>1. push.put = push.given /\ push.given \in Nat /\ push.made \in Nat
      BY <1>0, <2>6 DEF WriterInv, PushType
    <3>2. ~push.done
      BY <1>0, <2>4, <2>6, <3>1 DEF WriterInv
    <3>3. push.put + n > push.put /\ push.put + n <= push.made
      BY <2>4, <2>6, <3>1
    <3> QED
      BY <2>3, <2>6, <3>2, <3>3 DEF Promise!Store
  <2> QED
    BY <2>4, <2>5, <2>6
<1>4. CASE WriteDone
  <2>1. /\ push'.made = push.made /\ push'.put = push.put /\ push'.moved = push.moved
        /\ push'.errors = push.errors /\ push'.ended = push.ended
        /\ push'.dropped = push.dropped /\ push'.done = OnWire
    BY <1>0, <1>4 DEF WriteDone, PushType
  <2>2. ~push.done /\ push.made = push.given /\ (OnWire => push.put = push.given)
    BY <1>0, <1>4 DEF WriteDone, WriterInv
  <2>3. CASE OnWire
    BY <2>1, <2>2, <2>3 DEF Promise!Complete
  <2>4. CASE ~OnWire
    <3>1. push'.done = FALSE /\ push.done = FALSE
      BY <1>0, <2>1, <2>2, <2>4 DEF PushType, OnWire
    <3> QED
      BY <2>1, <3>1 DEF PushSame
  <2> QED
    BY <2>3, <2>4
<1>5. CASE Flushed
  <2>1. push.stack \in Seq(Nat) /\ push.stack # <<>>
    BY <1>0, <1>5 DEF Flushed, PushType
  <2>2. Popped \in Nat
    BY <2>1 DEF Popped, Seqs!Last
  <2>3. /\ push'.made = push.made /\ push'.put = push.put /\ push'.done = push.done
        /\ push'.moved = push.moved + Popped /\ push'.given = push.given
        /\ push'.errors = push.errors /\ push'.ended = push.ended
        /\ push'.dropped = push.dropped
    BY <1>0, <1>5 DEF Flushed, PushType
  <2>4. /\ push.moved \in Nat /\ push.given \in Nat /\ push.made \in Nat
        /\ push.given <= push.made /\ push'.moved <= push'.given
    BY <1>0 DEF PushType, WriterInv, Within
  <2>5. CASE Popped = 0
    BY <2>3, <2>4, <2>5 DEF PushSame
  <2>6. CASE Popped # 0
    <3>1. push'.moved > push.moved /\ push'.moved <= push'.made
      BY <2>2, <2>3, <2>4, <2>6
    <3> QED
      BY <2>3, <3>1 DEF Promise!Progress
  <2> QED
    BY <2>5, <2>6
<1> QED
  BY <1>1, <1>2, <1>3, <1>4, <1>5 DEF WriterSteps

\* A source that fails and a user who cancels end the transfer where it is.
LEMMA CancelMaps ==
    ASSUME SyncInv, SourceFails \/ UserCancels
    PROVE  Moves
<1>0. /\ push \in PushType /\ (push.ended => ~push.listens /\ at = "free")
      /\ ~push.ended => push.errors = 0 /\ ~push.dropped
  BY DEF SyncInv, SyncTypeOK, TransferInv
<1> USE DEF Moves, Promise!Next
<1>1. CASE SourceFails
  <2>1. /\ push'.made = push.made /\ push'.put = push.put /\ push'.done = push.done
        /\ push'.moved = push.moved /\ push'.errors = push.errors + 1
        /\ push'.ended = TRUE /\ push'.dropped = TRUE /\ ~push.ended
    BY <1>0, <1>1 DEF SourceFails, GiveUpPush, PushType
  <2>2. ~push.dropped /\ push.errors = 0 /\ ~push.ended
    BY <1>0, <2>1
  <2>3. ~Promise!Over /\ push'.errors = 1
    BY <2>1, <2>2 DEF Promise!Over
  <2> QED
    BY <2>1, <2>3 DEF Promise!Fail
<1>2. CASE UserCancels
  <2>1. at # "free"
    BY <1>2 DEF UserCancels, Running, SyncReads
  <2>2. /\ push'.made = push.made /\ push'.put = push.put /\ push'.done = push.done
        /\ push'.moved = push.moved /\ push'.errors = push.errors
        /\ push'.ended = TRUE /\ push'.dropped = TRUE /\ ~push.ended
    BY <1>0, <1>2, <2>1 DEF UserCancels, GiveUpPush, PushType
  <2>3. ~push.dropped /\ push.errors = 0 /\ ~push.ended
    BY <1>0, <2>2
  <2>4. ~Promise!Over
    BY <2>3 DEF Promise!Over
  <2> QED
    BY <2>2, <2>4 DEF Promise!Cancel
<1> QED
  BY <1>1, <1>2

\* Every step is one of the transfer's, or none.
LEMMA PushMaps ==
    SyncInv /\ SyncInv' /\ Within' /\ [SyncNext]_<<vars, synced>>
        => [Promise!Next]_Promise!vars
<1> SUFFICES ASSUME SyncInv, SyncInv', Within', [SyncNext]_<<vars, synced>>
             PROVE  Moves
  BY DEF Moves, PushSame, Promise!vars
<1>0. SyncTypeOK'
  BY DEF SyncInv
<1>1. CASE UNCHANGED <<vars, synced>>
  BY <1>1 DEF synced, Moves, PushSame
<1>2. CASE StartOp
  BY <1>2, StartMaps
<1>3. CASE SyncEnds \/ DeviceAnswers
  BY <1>3 DEF SyncEnds, DeviceAnswers, synced, Moves, PushSame
<1>4. CASE SyncContinues
  BY <1>4, ReaderMaps
<1>5. CASE SourceGives \/ WriterSteps
  BY <1>0, <1>5, WriterMaps
<1>6. CASE SourceFails \/ UserCancels
  BY <1>6, CancelMaps
<1>7. CASE push' = push
  BY <1>7 DEF Moves, PushSame
<1> QED
  BY <1>1, <1>2, <1>3, <1>4, <1>5, <1>6, <1>7 DEF SyncNext, InConversation, synced

\* What the user of a PushTransfer is told is what PushTransfer promises, for every
\* source, however it is cut into pieces, and whichever of reader, writer, source and
\* user comes first: it is over once, with one 'error' at most, never more progress
\* than bytes, an 'end' alone only when the device has the whole file, and no further
\* operation in the middle of one (Sync._writeData, PushTransfer).
THEOREM KeepsPromise == SyncSpec => ImplementsPushTransfer
<1>1. SyncInit => Promise!Init
  BY DEF SyncInit, NoPush, Promise!Init
<1> QED
  BY <1>1, AlwaysSync, ToldWithin, PushMaps, PTL
     DEF SyncSpec, ImplementsPushTransfer, Promise!Spec
=============================================================================
