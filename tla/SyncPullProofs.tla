---------------------------- MODULE SyncPullProofs ----------------------------
(***************************************************************************)
(* Proofs about SyncPull, for every number and length of chunks: whatever  *)
(* the network, the socket and the user do, the transfer holds a prefix of *)
(* the file, and the whole of it when it ends after DONE.                  *)
(***************************************************************************)
EXTENDS SyncPull, SequenceTheorems, TLAPS

(***************************************************************************)
(* The inductive invariant.  BytesIntact speaks of what was written, the   *)
(* code of replies and lengths it counts down.  Grammar says how replies   *)
(* follow each other in what the device sent, also when it broke off;      *)
(* OpenEnd, that it broke off nowhere as long as it can go on; Position,   *)
(* that the reader stands where the grammar expects its next read, with as *)
(* many bytes written as lie before that place.                            *)
(***************************************************************************)
Finals == {"DONE", "FAIL", "JUNK"}

Open == ~fin /\ verdict = "none"

\* If a token comes at i, it is a reply, and v bytes of the file come before it.
HeadAt(i, v) ==
    /\ i \in DOMAIN sent => /\ sent[i].kind \in {"DATA"} \cup Finals
                            /\ sent[i].val = v
    /\ Open /\ i = Len(sent) + 1 => v = size

IsChunk(i) == i \in DOMAIN sent /\ sent[i].kind = "DATA" /\ i + 1 \in DOMAIN sent
ChunkLen(i) == sent[i + 1].val

ChunkAt(i) ==
    /\ \A j \in 1 .. ChunkLen(i) :
          i + 1 + j \in DOMAIN sent => sent[i + 1 + j].val = sent[i].val + j
    /\ HeadAt(i + 2 + ChunkLen(i), sent[i].val + ChunkLen(i))

FinalAt(i) ==
    /\ verdict = sent[i].kind
    /\ verdict = "DONE" => sent[i].val = size /\ Len(sent) <= i + 1

Grammar ==
    /\ HeadAt(1, 0)
    /\ \A i \in DOMAIN sent : IsChunk(i) => ChunkAt(i)
    /\ \A i \in DOMAIN sent : sent[i].kind \in Finals => FinalAt(i)

OpenEnd ==
    Open => \A i \in DOMAIN sent : sent[i].kind = "DATA" =>
               IsChunk(i) /\ i + 1 + ChunkLen(i) <= Len(sent)

\* The token a read at where has just returned, or the one before its place.
Previous == IF phase = "gap" THEN taken - 1 ELSE taken
JustRead == phase = "gap" => taken \in DOMAIN sent /\ token = sent[taken]

AtReply == HeadAt(Previous + 1, Len(got)) /\ JustRead
AtLength == /\ Previous \in DOMAIN sent /\ sent[Previous].kind = "DATA"
            /\ sent[Previous].val = Len(got) /\ JustRead
AtMtime == /\ Previous \in DOMAIN sent /\ sent[Previous].kind = "DONE"
           /\ sent[Previous].val = Len(got) /\ JustRead
AtFlow ==
    \E i \in DOMAIN sent :
        /\ IsChunk(i) /\ left <= ChunkLen(i)
        /\ taken = i + 1 + ChunkLen(i) - left
        /\ Len(got) = sent[i].val + ChunkLen(i) - left
        /\ phase = "gap" => left = 0

Position ==
    /\ at = "reply" => AtReply
    /\ at = "length" => AtLength
    /\ at = "flow" => AtFlow
    /\ at = "mtime" => AtMtime
    /\ at \in {"failLength", "failText", "drain"} => verdict = "FAIL"
    /\ ended => verdict \in Finals /\ (verdict = "DONE" => at = "over")

Over == errors > 0 => at = "over"

IInv == TypeOK /\ Over /\ Grammar /\ OpenEnd /\ Position /\ BytesIntact

------------------------------------------------------------------------------
\* What the device appends.
LEMMA ChunkTokens ==
    ASSUME NEW from \in Nat, NEW n \in Nat
    PROVE  /\ Chunk(from, n) \in Seq(Token)
           /\ Len(Chunk(from, n)) = n + 2
           /\ Chunk(from, n)[1] = Tok("DATA", from)
           /\ Chunk(from, n)[2] = Tok("INT", n)
           /\ \A j \in 1 .. n : Chunk(from, n)[j + 2] = Tok("BYTE", from + j)
<1> DEFINE head == <<Tok("DATA", from), Tok("INT", n)>>
           body == [i \in 1 .. n |-> Tok("BYTE", from + i)]
<1>1. head \in Seq(Token) /\ Len(head) = 2
  <2>1. Tok("DATA", from) \in Token /\ Tok("INT", n) \in Token
    BY DEF Tok, Token, Kinds
  <2> QED
    BY <2>1
<1>2. body \in Seq(Token) /\ Len(body) = n
  <2>1. \A i \in 1 .. n : Tok("BYTE", from + i) \in Token
    BY DEF Tok, Token, Kinds
  <2> QED
    BY <2>1
<1>3. Chunk(from, n) = head \o body
  BY DEF Chunk
<1>4. /\ head \o body \in Seq(Token)
      /\ Len(head \o body) = 2 + n
      /\ \A i \in 1 .. 2 + n :
            (head \o body)[i] = IF i <= 2 THEN head[i] ELSE body[i - 2]
  BY <1>1, <1>2, ConcatProperties
<1>5. \A j \in 1 .. n : (head \o body)[j + 2] = Tok("BYTE", from + j)
  <2> SUFFICES ASSUME NEW j \in 1 .. n PROVE (head \o body)[j + 2] = Tok("BYTE", from + j)
    OBVIOUS
  <2>1. j + 2 \in 1 .. 2 + n /\ ~(j + 2 <= 2) /\ (j + 2) - 2 = j
    OBVIOUS
  <2>2. (head \o body)[j + 2] = body[j]
    BY <1>4, <2>1
  <2> QED
    BY <2>2
<1>6. (head \o body)[1] = head[1] /\ (head \o body)[2] = head[2]
  BY <1>4
<1> QED
  BY <1>3, <1>4, <1>5, <1>6

\* The tokens of a last reply.
LEMMA AnswerTokens ==
    ASSUME NEW from \in Nat, NEW v \in Finals
    PROVE  /\ Answer(v, from) \in Seq(Token)
           /\ Len(Answer(v, from)) \in 1 .. 3
           /\ Answer(v, from)[1] = Tok(v, from)
           /\ \A i \in 2 .. Len(Answer(v, from)) :
                 Answer(v, from)[i].kind \in {"INT", "TEXT"}
           /\ v = "DONE" => Len(Answer(v, from)) = 2
<1>0. /\ \A k \in Kinds, n \in Nat : Tok(k, n) \in Token /\ Tok(k, n).kind = k
      /\ {"DONE", "FAIL", "JUNK", "INT", "TEXT"} \subseteq Kinds
  BY DEF Tok, Token, Kinds
<1>1. CASE v = "DONE"
  <2>1. Answer(v, from) = <<Tok("DONE", from), Tok("INT", 0)>>
    BY <1>1 DEF Answer
  <2>2. <<Tok("DONE", from), Tok("INT", 0)>> \in Seq(Token)
    BY <1>0
  <2>3. Len(<<Tok("DONE", from), Tok("INT", 0)>>) = 2
    OBVIOUS
  <2>4. <<Tok("DONE", from), Tok("INT", 0)>>[1] = Tok("DONE", from)
    OBVIOUS
  <2>5. \A i \in 2 .. 2 : <<Tok("DONE", from), Tok("INT", 0)>>[i].kind \in {"INT", "TEXT"}
    <3>1. \A i \in 2 .. 2 : i = 2
      OBVIOUS
    <3>2. <<Tok("DONE", from), Tok("INT", 0)>>[2] = Tok("INT", 0)
      OBVIOUS
    <3> QED
      BY <3>1, <3>2, <1>0
  <2>6. Len(Answer(v, from)) = 2
    BY <2>1, <2>3
  <2>7. Answer(v, from) \in Seq(Token) /\ Answer(v, from)[1] = Tok(v, from)
    BY <1>1, <2>1, <2>2, <2>4
  <2>8. \A i \in 2 .. 2 : Answer(v, from)[i].kind \in {"INT", "TEXT"}
    BY <2>1, <2>5
  <2> QED
    BY <1>1, <2>6, <2>7, <2>8
<1>2. CASE v = "FAIL"
  <2>1. Answer(v, from) = <<Tok("FAIL", from), Tok("INT", 1), Tok("TEXT", 0)>>
    BY <1>2 DEF Answer
  <2>2. <<Tok("FAIL", from), Tok("INT", 1), Tok("TEXT", 0)>> \in Seq(Token)
    BY <1>0
  <2>3. Len(<<Tok("FAIL", from), Tok("INT", 1), Tok("TEXT", 0)>>) = 3
    OBVIOUS
  <2>4. <<Tok("FAIL", from), Tok("INT", 1), Tok("TEXT", 0)>>[1] = Tok("FAIL", from)
    OBVIOUS
  <2>5. \A i \in 2 .. 3 : <<Tok("FAIL", from), Tok("INT", 1), Tok("TEXT", 0)>>[i].kind \in {"INT", "TEXT"}
    <3>1. \A i \in 2 .. 3 : i = 2 \/ i = 3
      OBVIOUS
    <3>2. /\ <<Tok("FAIL", from), Tok("INT", 1), Tok("TEXT", 0)>>[2] = Tok("INT", 1)
          /\ <<Tok("FAIL", from), Tok("INT", 1), Tok("TEXT", 0)>>[3] = Tok("TEXT", 0)
      OBVIOUS
    <3> QED
      BY <3>1, <3>2, <1>0
  <2>6. Len(Answer(v, from)) = 3
    BY <2>1, <2>3
  <2>7. Answer(v, from) \in Seq(Token) /\ Answer(v, from)[1] = Tok(v, from)
    BY <1>2, <2>1, <2>2, <2>4
  <2>8. \A i \in 2 .. 3 : Answer(v, from)[i].kind \in {"INT", "TEXT"}
    BY <2>1, <2>5
  <2> QED
    BY <1>2, <2>6, <2>7, <2>8
<1>3. CASE v = "JUNK"
  <2>1. Answer(v, from) = <<Tok("JUNK", from)>>
    BY <1>3 DEF Answer
  <2>2. <<Tok("JUNK", from)>> \in Seq(Token)
    BY <1>0
  <2>3. Len(<<Tok("JUNK", from)>>) = 1
    OBVIOUS
  <2>4. <<Tok("JUNK", from)>>[1] = Tok("JUNK", from)
    OBVIOUS
  <2>5. 2 .. 1 = {}
    OBVIOUS
  <2>6. Len(Answer(v, from)) = 1
    BY <2>1, <2>3
  <2>7. Answer(v, from) \in Seq(Token) /\ Answer(v, from)[1] = Tok(v, from)
    BY <1>3, <2>1, <2>2, <2>4
  <2>8. \A i \in 2 .. 1 : Answer(v, from)[i].kind \in {"INT", "TEXT"}
    BY <2>1, <2>5
  <2> QED
    BY <1>3, <2>6, <2>7, <2>8
<1> QED
  BY <1>1, <1>2, <1>3 DEF Finals

\* What is sent extends what was sent.
LEMMA Extends ==
    ASSUME TypeOK, NEW s \in Seq(Token), sent' = sent \o s
    PROVE  /\ sent' \in Seq(Token) /\ Len(sent') = Len(sent) + Len(s)
           /\ DOMAIN sent = 1 .. Len(sent) /\ DOMAIN sent' = 1 .. (Len(sent) + Len(s))
           /\ \A i \in DOMAIN sent : sent'[i] = sent[i]
           /\ \A i \in 1 .. Len(s) : sent'[Len(sent) + i] = s[i]
           /\ Len(sent) \in Nat /\ Len(s) \in Nat
<1>1. sent \in Seq(Token)
  BY DEF TypeOK
<1>2. Len(sent) \in Nat /\ Len(s) \in Nat
  BY <1>1
<1>3. /\ sent \o s \in Seq(Token)
      /\ Len(sent \o s) = Len(sent) + Len(s)
      /\ \A i \in 1 .. Len(sent) + Len(s) :
            (sent \o s)[i] = IF i <= Len(sent) THEN sent[i] ELSE s[i - Len(sent)]
  BY <1>1, ConcatProperties
<1>4. DOMAIN sent = 1 .. Len(sent) /\ DOMAIN sent' = 1 .. (Len(sent) + Len(s))
  BY <1>1, <1>3, LenProperties
<1>5. \A i \in 1 .. Len(s) : sent'[Len(sent) + i] = s[i]
  <2> SUFFICES ASSUME NEW i \in 1 .. Len(s) PROVE sent'[Len(sent) + i] = s[i]
    OBVIOUS
  <2>1. /\ Len(sent) + i \in 1 .. Len(sent) + Len(s) /\ ~(Len(sent) + i <= Len(sent))
        /\ (Len(sent) + i) - Len(sent) = i
    BY <1>2
  <2> QED
    BY <1>3, <2>1
<1>6. \A i \in 1 .. Len(sent) : sent'[i] = sent[i]
  BY <1>2, <1>3
<1> QED
  BY <1>2, <1>3, <1>4, <1>5, <1>6

------------------------------------------------------------------------------
\* Every token sent is one.
LEMMA TokenTypes ==
    ASSUME TypeOK
    PROVE  \A i \in DOMAIN sent : sent[i] \in Token /\ sent[i].val \in Nat
<1>1. \A i \in DOMAIN sent : sent[i] \in Token
  BY DEF TypeOK
<1> QED
  BY <1>1 DEF Token

\* A step of the device changes nothing that has arrived and may only put a
\* reply where the grammar expects one; then the reader's place stays right.
LEMMA DeviceSteps ==
    ASSUME IInv, sent' \in Seq(Token), arrived <= Len(sent'),
           \A i \in 1 .. arrived : sent'[i] = sent[i],
           \A i \in 1 .. Len(sent) + 1, v \in Nat : HeadAt(i, v) => HeadAt(i, v)',
           verdict # "none" => verdict' = verdict,
           UNCHANGED <<socket, read, attached, transfer, cancelled>>
    PROVE  Position'
<1> USE DEF IInv
<1>0. /\ arrived' = arrived /\ taken' = taken /\ at' = at /\ phase' = phase
      /\ token' = token /\ left' = left /\ got' = got /\ ended' = ended
      /\ Previous' = Previous
  BY DEF socket, read, transfer, Previous
<1>1. /\ taken \in Nat /\ arrived \in Nat /\ taken <= arrived /\ arrived <= Len(sent)
      /\ Len(sent) \in Nat /\ Len(sent') \in Nat /\ Len(got) \in Nat
      /\ DOMAIN sent = 1 .. Len(sent) /\ DOMAIN sent' = 1 .. Len(sent')
  BY LenProperties DEF TypeOK
<1>2. JustRead => JustRead'
  BY <1>0, <1>1 DEF JustRead
<1>3. at = "reply" => AtReply'
  <2> SUFFICES ASSUME at = "reply" PROVE AtReply'
    OBVIOUS
  <2>1. HeadAt(Previous + 1, Len(got)) /\ JustRead
    BY DEF Position, AtReply
  <2>2. Previous + 1 \in 1 .. Len(sent) + 1
    BY <1>1, <2>1 DEF Previous, JustRead
  <2>3. HeadAt(Previous + 1, Len(got))'
    BY <1>0, <1>1, <2>1, <2>2 DEF HeadAt
  <2> QED
    BY <1>2, <2>1, <2>3 DEF AtReply
<1>4. at = "length" => AtLength'
  BY <1>0, <1>1, <1>2 DEF Position, AtLength, Previous
<1>5. at = "mtime" => AtMtime'
  BY <1>0, <1>1, <1>2 DEF Position, AtMtime, Previous
<1>6. at = "flow" => AtFlow'
  <2> SUFFICES ASSUME at = "flow" PROVE AtFlow'
    OBVIOUS
  <2>1. PICK i \in DOMAIN sent :
          /\ IsChunk(i) /\ left <= ChunkLen(i)
          /\ taken = i + 1 + ChunkLen(i) - left
          /\ Len(got) = sent[i].val + ChunkLen(i) - left
          /\ phase = "gap" => left = 0
    BY DEF Position, AtFlow
  <2>2. i \in Nat /\ left \in Nat /\ ChunkLen(i) \in Nat
    BY <1>1, <2>1, TokenTypes DEF TypeOK, IsChunk, ChunkLen
  <2>3. i \in 1 .. arrived /\ i + 1 \in 1 .. arrived
    BY <1>1, <2>1, <2>2
  <2>4. sent'[i] = sent[i] /\ sent'[i + 1] = sent[i + 1]
    BY <2>3
  <2>5. i \in DOMAIN sent' /\ IsChunk(i)' /\ ChunkLen(i)' = ChunkLen(i)
    BY <1>1, <2>1, <2>3, <2>4 DEF IsChunk, ChunkLen
  <2> QED
    BY <1>0, <2>1, <2>4, <2>5 DEF AtFlow
<1>7. /\ at \in {"failLength", "failText", "drain"} => verdict' = "FAIL"
      /\ ended => verdict' \in Finals /\ (verdict' = "DONE" => at = "over")
  BY DEF Position, Finals
<1> QED
  BY <1>0, <1>3, <1>4, <1>5, <1>6, <1>7 DEF Position

\* A chunk that was sent whole stays one when more is sent.
LEMMA OldChunks ==
    ASSUME IInv, Open, sent' \in Seq(Token), Len(sent) <= Len(sent'),
           \A i \in DOMAIN sent : sent'[i] = sent[i],
           \A i \in 1 .. Len(sent) + 1, v \in Nat : HeadAt(i, v) => HeadAt(i, v)',
           NEW i \in DOMAIN sent, sent[i].kind = "DATA"
    PROVE  IsChunk(i)' /\ ChunkAt(i)' /\ i + 1 + ChunkLen(i)' <= Len(sent')
<1> USE DEF IInv
<1> DEFINE L == Len(sent)
<1>0. /\ DOMAIN sent = 1 .. L /\ DOMAIN sent' = 1 .. Len(sent')
      /\ L \in Nat /\ Len(sent') \in Nat
  BY LenProperties DEF TypeOK
<1>1. /\ IsChunk(i) /\ ChunkAt(i) /\ i + 1 + ChunkLen(i) <= L
      /\ i \in 1 .. L /\ i + 1 \in 1 .. L
  BY <1>0 DEF OpenEnd, Grammar, IsChunk
<1>2. ChunkLen(i) \in Nat /\ sent[i].val \in Nat
  BY <1>1, TokenTypes DEF ChunkLen, IsChunk
<1>3. sent'[i] = sent[i] /\ sent'[i + 1] = sent[i + 1] /\ ChunkLen(i)' = ChunkLen(i)
  BY <1>0, <1>1 DEF ChunkLen
<1>4. IsChunk(i)'
  BY <1>0, <1>1, <1>3 DEF IsChunk
<1>5. \A j \in 1 .. ChunkLen(i) : sent'[i + 1 + j].val = sent'[i].val + j
  <2> SUFFICES ASSUME NEW j \in 1 .. ChunkLen(i)
               PROVE  sent'[i + 1 + j].val = sent'[i].val + j
    OBVIOUS
  <2>1. i + 1 + j \in DOMAIN sent
    BY <1>0, <1>1, <1>2
  <2> QED
    BY <1>1, <1>3, <2>1 DEF ChunkAt
<1>6. HeadAt(i + 2 + ChunkLen(i), sent[i].val + ChunkLen(i))'
  <2> DEFINE k == i + 2 + ChunkLen(i)
             v == sent[i].val + ChunkLen(i)
  <2>1. k \in 1 .. L + 1 /\ v \in Nat
    BY <1>0, <1>1, <1>2, SMTT(30)
  <2>2. HeadAt(k, v)
    BY <1>1 DEF ChunkAt
  <2>3. HeadAt(k, v) => /\ k \in DOMAIN sent' => /\ sent'[k].kind \in {"DATA"} \cup Finals
                                                 /\ sent'[k].val = v
                        /\ Open' /\ k = Len(sent') + 1 => v = size'
    <3> HIDE DEF k, v
    <3> QED
      BY <2>1 DEF HeadAt
  <2> QED
    BY <1>3, <2>2, <2>3 DEF HeadAt
<1>7. ChunkAt(i)'
  BY <1>3, <1>5, <1>6 DEF ChunkAt
<1> QED
  BY <1>0, <1>1, <1>2, <1>3, <1>4, <1>7

\* A chunk that is sent preserves IInv.
LEMMA SendsKeeps == IInv /\ DeviceSends => IInv'
<1> SUFFICES ASSUME IInv, DeviceSends PROVE IInv'
  OBVIOUS
<1> USE DEF IInv
<1>1. PICK n \in 0 .. MaxLen : sent' = sent \o Chunk(size, n) /\ size' = size + n
  BY DEF DeviceSends
<1>2. n \in Nat /\ size \in Nat
  BY PullAssumption DEF PullAssumption, TypeOK
<1> DEFINE s == Chunk(size, n)
           L == Len(sent)
<1>3. /\ s \in Seq(Token) /\ Len(s) = n + 2
      /\ s[1] = Tok("DATA", size) /\ s[2] = Tok("INT", n)
      /\ \A j \in 1 .. n : s[j + 2] = Tok("BYTE", size + j)
  BY <1>2, ChunkTokens
<1>4. /\ sent' \in Seq(Token) /\ Len(sent') = L + Len(s)
      /\ DOMAIN sent = 1 .. L /\ DOMAIN sent' = 1 .. (L + Len(s))
      /\ \A i \in DOMAIN sent : sent'[i] = sent[i]
      /\ \A i \in 1 .. Len(s) : sent'[L + i] = s[i]
      /\ L \in Nat
  BY <1>1, <1>3, Extends
<1> HIDE DEF s
<1>5. /\ sent'[L + 1] = Tok("DATA", size) /\ sent'[L + 2] = Tok("INT", n)
      /\ \A j \in 1 .. n : sent'[L + 2 + j] = Tok("BYTE", size + j)
  <2>1. 1 \in 1 .. Len(s) /\ 2 \in 1 .. Len(s)
    BY <1>2, <1>3
  <2>2. \A j \in 1 .. n : sent'[L + 2 + j] = Tok("BYTE", size + j)
    <3> SUFFICES ASSUME NEW j \in 1 .. n PROVE sent'[L + 2 + j] = Tok("BYTE", size + j)
      OBVIOUS
    <3>1. j + 2 \in 1 .. Len(s) /\ L + (j + 2) = L + 2 + j
      BY <1>2, <1>3, <1>4
    <3>2. sent'[L + (j + 2)] = s[j + 2]
      BY <1>4, <3>1
    <3> QED
      BY <1>3, <3>1, <3>2
  <2> QED
    BY <1>3, <1>4, <2>1, <2>2
<1>6. Open /\ Open' /\ verdict' = verdict /\ fin' = fin /\ size' = size + n
  BY <1>1 DEF DeviceSends, Open
<1>7. \A i \in DOMAIN sent' : \/ i \in DOMAIN sent \/ i = L + 1 \/ i = L + 2
                              \/ \E j \in 1 .. n : i = L + 2 + j
  <2> SUFFICES ASSUME NEW i \in DOMAIN sent', i \notin DOMAIN sent, i # L + 1, i # L + 2
               PROVE  \E j \in 1 .. n : i = L + 2 + j
    OBVIOUS
  <2>0. i \in 1 .. L + (n + 2) /\ i \notin 1 .. L /\ i # L + 1 /\ i # L + 2
        /\ L \in Nat /\ n \in Nat
    BY <1>2, <1>3, <1>4
  <2> HIDE DEF L
  <2>1. i - L - 2 \in 1 .. n /\ i = L + 2 + (i - L - 2)
    BY ONLY <2>0
  <2> QED
    BY <2>1
<1>8. \A i \in 1 .. L + 1, v \in Nat : HeadAt(i, v) => HeadAt(i, v)'
  <2> SUFFICES ASSUME NEW i \in 1 .. L + 1, NEW v \in Nat, HeadAt(i, v) PROVE HeadAt(i, v)'
    OBVIOUS
  <2>1. i # Len(sent') + 1
    BY <1>2, <1>3, <1>4
  <2>2. CASE i \in DOMAIN sent
    BY <1>4, <2>1, <2>2 DEF HeadAt
  <2>3. CASE i = L + 1
    <3>1. v = size
      BY <1>6, <2>3 DEF HeadAt
    <3>2. sent'[i].kind = "DATA" /\ sent'[i].val = size
      BY <1>5, <2>3 DEF Tok
    <3> QED
      BY <2>1, <3>1, <3>2 DEF HeadAt
  <2> QED
    BY <1>4, <2>2, <2>3
<1>9. HeadAt(1, 0)'
  BY <1>4, <1>8 DEF Grammar
<1>10. \A i \in DOMAIN sent' : sent'[i].kind = "DATA" =>
          IsChunk(i)' /\ ChunkAt(i)' /\ i + 1 + ChunkLen(i)' <= Len(sent')
  <2> SUFFICES ASSUME NEW i \in DOMAIN sent', sent'[i].kind = "DATA"
               PROVE  IsChunk(i)' /\ ChunkAt(i)' /\ i + 1 + ChunkLen(i)' <= Len(sent')
    OBVIOUS
  <2>1. CASE i \in DOMAIN sent
    BY <1>2, <1>3, <1>4, <1>6, <1>8, <2>1, OldChunks
  <2>2. CASE i = L + 1
    <3>1. sent'[i].val = size /\ sent'[i + 1] = Tok("INT", n) /\ ChunkLen(i)' = n
      BY <1>4, <1>5, <2>2 DEF Tok, ChunkLen
    <3>2. IsChunk(i)' /\ i + 1 + n <= Len(sent')
      BY <1>2, <1>3, <1>4, <2>2 DEF IsChunk
    <3>3. \A j \in 1 .. n : sent'[i + 1 + j].val = size + j
      <4> SUFFICES ASSUME NEW j \in 1 .. n PROVE sent'[i + 1 + j].val = size + j
        OBVIOUS
      <4>1. i + 1 + j = L + 2 + j
        BY <1>4, <2>2
      <4>2. sent'[L + 2 + j] = Tok("BYTE", size + j)
        BY <1>5
      <4> QED
        BY <4>1, <4>2 DEF Tok
    <3>4. i + 2 + n = Len(sent') + 1 /\ i + 2 + n \notin DOMAIN sent'
      BY <1>2, <1>3, <1>4, <2>2
    <3>5. ChunkAt(i)'
      BY <1>6, <3>1, <3>3, <3>4 DEF ChunkAt, HeadAt
    <3> QED
      BY <3>1, <3>2, <3>5
  <2>3. CASE i = L + 2
    BY <1>5, <2>3 DEF Tok
  <2>4. CASE \E j \in 1 .. n : i = L + 2 + j
    <3>1. PICK j \in 1 .. n : i = L + 2 + j
      BY <2>4
    <3>2. sent'[L + 2 + j] = Tok("BYTE", size + j)
      BY <1>5
    <3> QED
      BY <3>1, <3>2 DEF Tok
  <2> QED
    BY <1>7, <2>1, <2>2, <2>3, <2>4
<1>11. \A i \in DOMAIN sent' : sent'[i].kind \notin Finals
  <2> SUFFICES ASSUME NEW i \in DOMAIN sent' PROVE sent'[i].kind \notin Finals
    OBVIOUS
  <2>1. CASE i \in DOMAIN sent
    BY <1>4, <1>6, <2>1 DEF Grammar, FinalAt, Open, Finals
  <2>2. CASE i = L + 1 \/ i = L + 2
    BY <1>5, <2>2 DEF Tok, Finals
  <2>3. CASE \E j \in 1 .. n : i = L + 2 + j
    <3>1. PICK j \in 1 .. n : i = L + 2 + j
      BY <2>3
    <3>2. sent'[L + 2 + j] = Tok("BYTE", size + j)
      BY <1>5
    <3> QED
      BY <3>1, <3>2 DEF Tok, Finals
  <2> QED
    BY <1>7, <2>1, <2>2, <2>3
<1>12. Grammar' /\ OpenEnd'
  <2>1. \A i \in DOMAIN sent' : IsChunk(i)' => ChunkAt(i)'
    BY <1>10 DEF IsChunk
  <2>2. \A i \in DOMAIN sent' : sent'[i].kind \in Finals => FinalAt(i)'
    BY <1>11
  <2>3. OpenEnd'
    BY <1>10 DEF OpenEnd
  <2> QED
    BY <1>9, <2>1, <2>2, <2>3 DEF Grammar, Finals
<1>13. arrived <= Len(sent') /\ arrived \in 0 .. Len(sent')
       /\ \A i \in 1 .. arrived : sent'[i] = sent[i]
  <2>1. arrived \in 0 .. L
    BY DEF TypeOK
  <2>2. L <= L + Len(s) /\ L + Len(s) \in Nat
    BY <1>2, <1>3, <1>4
  <2>3. arrived <= Len(sent') /\ arrived \in 0 .. Len(sent')
    BY ONLY <1>4, <2>1, <2>2
  <2>4. \A i \in 1 .. arrived : i \in DOMAIN sent
    BY ONLY <1>4, <2>1
  <2> QED
    BY <1>4, <2>3, <2>4
<1>14. TypeOK' /\ Over' /\ BytesIntact'
  <2>1. chunks' \in 0 .. MaxChunks
    BY PullAssumption DEF DeviceSends, TypeOK, PullAssumption
  <2>2. verdict # "DONE" /\ verdict' = verdict
    BY <1>6 DEF Open
  <2>3. TypeOK'
    BY <1>2, <1>4, <1>6, <1>13, <2>1 DEF TypeOK, DeviceSends, socket, read, transfer
  <2>4. Over'
    BY DEF Over, DeviceSends, transfer, read
  <2>5. BytesIntact'
    BY <2>2 DEF BytesIntact, Whole, DeviceSends, transfer
  <2> QED
    BY <2>3, <2>4, <2>5
<1>15. Position'
  BY <1>4, <1>6, <1>8, <1>13, DeviceSteps DEF DeviceSends
<1> QED
  BY <1>12, <1>14, <1>15

\* A last reply that is sent preserves IInv.
LEMMA AnswersKeeps == IInv /\ DeviceAnswers => IInv'
<1> SUFFICES ASSUME IInv, DeviceAnswers PROVE IInv'
  OBVIOUS
<1> USE DEF IInv
<1>1. PICK v \in Finals : verdict' = v /\ sent' = sent \o Answer(v, size)
  BY DEF DeviceAnswers, Finals
<1>2. size \in Nat
  BY DEF TypeOK
<1> DEFINE s == Answer(v, size)
           L == Len(sent)
<1>3. /\ s \in Seq(Token) /\ Len(s) \in 1 .. 3 /\ s[1] = Tok(v, size)
      /\ \A i \in 2 .. Len(s) : s[i].kind \in {"INT", "TEXT"}
      /\ v = "DONE" => Len(s) = 2
  BY <1>2, AnswerTokens
<1>4. /\ sent' \in Seq(Token) /\ Len(sent') = L + Len(s)
      /\ DOMAIN sent = 1 .. L /\ DOMAIN sent' = 1 .. (L + Len(s))
      /\ \A i \in DOMAIN sent : sent'[i] = sent[i]
      /\ \A i \in 1 .. Len(s) : sent'[L + i] = s[i]
      /\ L \in Nat
  BY <1>1, <1>3, Extends
<1> HIDE DEF s
<1>5. sent'[L + 1].kind = v /\ sent'[L + 1].val = size
  <2>1. sent'[L + 1] = Tok(v, size)
    BY <1>3, <1>4
  <2> QED
    BY <2>1 DEF Tok
<1>6. Open /\ ~Open' /\ verdict' = v /\ size' = size
  BY <1>1 DEF DeviceAnswers, Open, Finals
<1>7. \A i \in DOMAIN sent' : \/ i \in DOMAIN sent \/ i = L + 1
                              \/ sent'[i].kind \in {"INT", "TEXT"}
  <2> SUFFICES ASSUME NEW i \in DOMAIN sent', i \notin DOMAIN sent, i # L + 1
               PROVE  sent'[i].kind \in {"INT", "TEXT"}
    OBVIOUS
  <2>1. i - L \in 2 .. Len(s) /\ L + (i - L) = i
    BY <1>3, <1>4
  <2>2. sent'[L + (i - L)] = s[i - L]
    BY <1>3, <1>4, <2>1
  <2> QED
    BY <1>3, <2>1, <2>2
<1>8. \A i \in 1 .. L + 1, w \in Nat : HeadAt(i, w) => HeadAt(i, w)'
  <2> SUFFICES ASSUME NEW i \in 1 .. L + 1, NEW w \in Nat, HeadAt(i, w) PROVE HeadAt(i, w)'
    OBVIOUS
  <2>1. CASE i \in DOMAIN sent
    BY <1>4, <1>6, <2>1 DEF HeadAt
  <2>2. CASE i = L + 1
    BY <1>5, <1>6, <2>2 DEF HeadAt
  <2> QED
    BY <1>4, <2>1, <2>2
<1>9. HeadAt(1, 0)'
  BY <1>4, <1>8 DEF Grammar
<1>10. \A i \in DOMAIN sent' : IsChunk(i)' => ChunkAt(i)'
  <2> SUFFICES ASSUME NEW i \in DOMAIN sent', sent'[i].kind = "DATA" PROVE ChunkAt(i)'
    BY DEF IsChunk
  <2>1. i \in DOMAIN sent
    BY <1>5, <1>7 DEF Finals
  <2>2. Len(sent) <= Len(sent')
    BY <1>3, <1>4
  <2> QED
    BY <1>4, <1>6, <1>8, <2>1, <2>2, OldChunks
<1>11. \A i \in DOMAIN sent' : sent'[i].kind \in Finals => FinalAt(i)'
  <2> SUFFICES ASSUME NEW i \in DOMAIN sent', sent'[i].kind \in Finals PROVE FinalAt(i)'
    OBVIOUS
  <2>1. i \notin DOMAIN sent
    BY <1>4, <1>6 DEF Grammar, FinalAt, Open, Finals
  <2>2. i = L + 1
    BY <1>7, <2>1 DEF Finals
  <2>3. v = "DONE" => Len(sent') <= i + 1
    <3> SUFFICES ASSUME v = "DONE" PROVE Len(sent') <= i + 1
      OBVIOUS
    <3>1. Len(s) = 2 /\ L \in Nat /\ Len(sent') = L + Len(s)
      BY <1>3, <1>4
    <3>2. L + 2 <= L + 1 + 1
      BY <3>1
    <3> QED
      BY ONLY <2>2, <3>1, <3>2
  <2> QED
    BY <1>5, <1>6, <2>2, <2>3 DEF FinalAt
<1>12. Grammar' /\ OpenEnd'
  BY <1>6, <1>9, <1>10, <1>11 DEF Grammar, OpenEnd
<1>13. arrived <= Len(sent') /\ arrived \in 0 .. Len(sent')
       /\ \A i \in 1 .. arrived : sent'[i] = sent[i]
  <2>1. arrived \in 0 .. L
    BY DEF TypeOK
  <2>2. L <= L + Len(s) /\ L + Len(s) \in Nat
    BY <1>3, <1>4
  <2>3. arrived <= Len(sent') /\ arrived \in 0 .. Len(sent')
    BY ONLY <1>4, <2>1, <2>2
  <2>4. \A i \in 1 .. arrived : i \in DOMAIN sent
    BY ONLY <1>4, <2>1
  <2> QED
    BY <1>4, <2>3, <2>4
<1>14. TypeOK' /\ Over' /\ BytesIntact'
  <2>1. verdict' \in {"none", "DONE", "FAIL", "JUNK"}
    BY <1>6 DEF Finals
  <2>2. TypeOK'
    BY <1>2, <1>4, <1>6, <1>13, <2>1 DEF TypeOK, DeviceAnswers, socket, read, transfer
  <2>3. Over'
    BY DEF Over, DeviceAnswers, transfer, read
  <2>4. ~ended
    BY <1>6 DEF Position, Open, Finals
  <2>5. BytesIntact'
    BY <2>4 DEF BytesIntact, Whole, DeviceAnswers, transfer
  <2> QED
    BY <2>2, <2>3, <2>5
<1>15. Position'
  BY <1>4, <1>6, <1>8, <1>13, DeviceSteps DEF DeviceAnswers, Open
<1> QED
  BY <1>12, <1>14, <1>15

\* A conversation that is cut off still follows the grammar.
LEMMA ClosesKeeps == IInv /\ DeviceCloses => IInv'
<1> SUFFICES ASSUME IInv, DeviceCloses PROVE IInv'
  OBVIOUS
<1> USE DEF IInv
<1>1. /\ sent \in Seq(Token) /\ Len(sent) \in Nat /\ DOMAIN sent = 1 .. Len(sent)
      /\ arrived \in 0 .. Len(sent)
  BY LenProperties DEF TypeOK
<1>2. /\ sent' \in Seq(Token) /\ Len(sent') = arrived
      /\ \A i \in 1 .. arrived : sent'[i] = sent[i]
  <2>1. \A i \in 1 .. arrived : sent[i] \in Token
    BY <1>1
  <2>2. /\ SubSeq(sent, 1, arrived) \in Seq(Token)
        /\ Len(SubSeq(sent, 1, arrived)) = IF 1 <= arrived THEN arrived - 1 + 1 ELSE 0
        /\ \A i \in 1 .. arrived - 1 + 1 : SubSeq(sent, 1, arrived)[i] = sent[1 + i - 1]
    BY <1>1, <2>1, SubSeqProperties
  <2> QED
    BY <1>1, <2>2 DEF DeviceCloses
<1>3. DOMAIN sent' = 1 .. arrived /\ ~Open' /\ verdict' = verdict /\ size' = size
  BY <1>2, LenProperties DEF DeviceCloses, Open
<1>4. \A i \in Nat, v \in Nat : HeadAt(i, v) => HeadAt(i, v)'
  BY <1>1, <1>2, <1>3 DEF HeadAt
<1>5. \A i \in DOMAIN sent' : IsChunk(i)' => ChunkAt(i)'
  <2> SUFFICES ASSUME NEW i \in DOMAIN sent', IsChunk(i)' PROVE ChunkAt(i)'
    OBVIOUS
  <2>1. /\ i \in DOMAIN sent /\ i + 1 \in DOMAIN sent
        /\ sent'[i] = sent[i] /\ sent'[i + 1] = sent[i + 1] /\ ChunkLen(i)' = ChunkLen(i)
    BY <1>1, <1>2, <1>3 DEF IsChunk, ChunkLen
  <2>2. ChunkAt(i)
    BY <2>1 DEF IsChunk, Grammar
  <2>3. \A j \in 1 .. ChunkLen(i) :
           i + 1 + j \in DOMAIN sent' => sent'[i + 1 + j].val = sent'[i].val + j
    BY <1>1, <1>2, <1>3, <2>1, <2>2 DEF ChunkAt
  <2>4. ChunkLen(i) \in Nat /\ sent[i].val \in Nat /\ i \in Nat
    BY <1>1, <2>1, TokenTypes DEF ChunkLen
  <2> DEFINE k == i + 2 + ChunkLen(i)
             v == sent[i].val + ChunkLen(i)
  <2>5. k \in Nat /\ v \in Nat /\ HeadAt(k, v)
    BY <2>2, <2>4 DEF ChunkAt
  <2>6. /\ k \in DOMAIN sent' => /\ sent'[k].kind \in {"DATA"} \cup Finals
                                 /\ sent'[k].val = v
        /\ Open' /\ k = Len(sent') + 1 => v = size'
    <3> HIDE DEF k, v
    <3> QED
      BY <1>4, <2>5 DEF HeadAt
  <2> QED
    BY <2>1, <2>3, <2>6 DEF ChunkAt, HeadAt
<1>6. \A i \in DOMAIN sent' : sent'[i].kind \in Finals => FinalAt(i)'
  BY <1>1, <1>2, <1>3 DEF Grammar, FinalAt
<1>7. HeadAt(1, 0)'
  BY <1>4 DEF Grammar
<1>8. Grammar' /\ OpenEnd'
  BY <1>3, <1>5, <1>6, <1>7 DEF Grammar, OpenEnd
<1>9. TypeOK' /\ Over'
  <2>1. TypeOK'
    BY <1>1, <1>2, <1>3 DEF TypeOK, DeviceCloses, socket, read, transfer
  <2> QED
    BY <2>1 DEF Over, DeviceCloses, transfer, read
<1>10. BytesIntact'
  <2>1. taken \in 0 .. arrived
    BY DEF TypeOK
  <2> QED
    BY <1>1, <1>2, <1>3, <2>1 DEF BytesIntact, Whole, DeviceCloses, transfer, read
<1>11. Position'
  BY <1>1, <1>2, <1>3, <1>4, DeviceSteps DEF DeviceCloses
<1> QED
  BY <1>8, <1>9, <1>10, <1>11

------------------------------------------------------------------------------
\* What the steps of the client leave alone.
LEMMA ClientFrame ==
    ASSUME IInv, UNCHANGED device
    PROVE  /\ Grammar' /\ OpenEnd'
           /\ \A i \in Int, v \in Int : HeadAt(i, v) => HeadAt(i, v)'
           /\ \A i \in Int : IsChunk(i)' = IsChunk(i) /\ ChunkLen(i)' = ChunkLen(i)
<1>1. /\ sent' = sent /\ verdict' = verdict /\ fin' = fin /\ size' = size
      /\ Open' = Open
  BY DEF device, Open
<1>2. \A i, v : HeadAt(i, v)' = HeadAt(i, v)
  BY <1>1 DEF HeadAt
<1>3. \A i : IsChunk(i)' = IsChunk(i) /\ ChunkLen(i)' = ChunkLen(i)
  BY <1>1 DEF IsChunk, ChunkLen
<1>4. Grammar'
  BY <1>1 DEF IInv, Grammar, HeadAt, ChunkAt, IsChunk, ChunkLen, FinalAt, Open
<1>5. OpenEnd'
  BY <1>1, <1>3 DEF IInv, OpenEnd
<1> QED
  BY <1>2, <1>3, <1>4, <1>5

\* A step that writes nothing and does not end the transfer.
LEMMA IntactFrame ==
    ASSUME IInv, UNCHANGED <<device, got, ended>>, at # "over" \/ taken' = taken
    PROVE  BytesIntact'
<1>1. sent' = sent /\ verdict' = verdict /\ size' = size /\ got' = got /\ ended' = ended
  BY DEF device
<1>2. Whole => at = "over"
  BY DEF IInv, Position, Whole
<1> QED
  BY <1>1, <1>2 DEF IInv, BytesIntact, Whole

\* A read that starts leaves its place behind what was read before.
LEMMA Started ==
    ASSUME TypeOK, NEW where, StartRead(where), sent' = sent
    PROVE  /\ at' = where /\ phase' \in {"waiting", "gap"}
           /\ taken' \in 0 .. arrived /\ token' \in Token
           /\ Previous' = taken /\ JustRead'
<1>1. /\ sent \in Seq(Token) /\ Len(sent) \in Nat /\ DOMAIN sent = 1 .. Len(sent)
      /\ arrived \in 0 .. Len(sent) /\ taken \in 0 .. arrived
  BY LenProperties DEF TypeOK
<1>2. CASE arrived > taken
  <2>1. taken' = taken + 1 /\ token' = sent[taken + 1] /\ phase' = "gap" /\ at' = where
    BY <1>2 DEF StartRead
  <2>2. taken + 1 \in DOMAIN sent /\ taken + 1 \in 0 .. arrived /\ taken + 1 - 1 = taken
    BY <1>1, <1>2
  <2>3. token' \in Token /\ taken' \in 0 .. arrived
    BY <2>1, <2>2, TokenTypes
  <2>4. JustRead'
    BY <2>1, <2>2 DEF JustRead
  <2>5. Previous' = taken' - 1
    BY <2>1 DEF Previous
  <2> QED
    <3>1. Previous' = taken
      BY ONLY <1>1, <2>1, <2>2, <2>5
    <3> QED
      BY ONLY <2>1, <2>3, <2>4, <3>1
<1>3. CASE ~(arrived > taken)
  BY <1>1, <1>3 DEF StartRead, Previous, JustRead, TypeOK
<1> QED
  BY <1>2, <1>3

\* The arithmetic of Position: counting down is moving on.
LEMMA CountDown ==
    ASSUME NEW t \in Int, NEW g \in Int, NEW i \in Int, NEW c \in Int, NEW v \in Int,
           NEW n \in Int, NEW k \in Int,
           t = i + 1 + c - n, g = v + c - n
    PROVE  /\ t + k = i + 1 + c - (n - k) /\ g + k = v + c - (n - k)
           /\ i + 1 + (c - n + k) = t + k /\ v + (c - n + k) = g + k
OBVIOUS

\* What readByteFlow writes is the next piece of the file.
LEMMA Flowed ==
    ASSUME IInv, UNCHANGED device, NEW n \in Nat, Flow(n), NEW i \in DOMAIN sent,
           IsChunk(i), n <= ChunkLen(i),
           taken = i + 1 + ChunkLen(i) - n,
           Len(got) = sent[i].val + ChunkLen(i) - n
    PROVE  /\ AtFlow' /\ left' \in Nat /\ taken' \in 0 .. arrived
           /\ phase' \in {"waiting", "gap"} /\ got' \in Seq(Nat)
           /\ got' = [j \in 1 .. Len(got') |-> j] /\ Len(got) <= Len(got')
<1> USE DEF IInv
<1> DEFINE k == FlowTake(n)
           more == [j \in 1 .. k |-> sent[taken + j].val]
<1>1. /\ sent \in Seq(Token) /\ Len(sent) \in Nat /\ DOMAIN sent = 1 .. Len(sent)
      /\ arrived \in 0 .. Len(sent) /\ taken \in 0 .. arrived
      /\ got \in Seq(Nat) /\ Len(got) \in Nat /\ DOMAIN got = 1 .. Len(got)
  BY LenProperties DEF TypeOK
<1>2. ChunkLen(i) \in Nat /\ sent[i].val \in Nat /\ i \in Nat
  BY <1>1, TokenTypes DEF ChunkLen, IsChunk
<1>3. k \in 0 .. n /\ taken + k <= arrived
  BY <1>1 DEF FlowTake
<1>3a. k \in Nat /\ taken \in Nat /\ arrived \in Nat
  BY <1>1, <1>3
<1> DEFINE c == ChunkLen(i)
           v == sent[i].val
<1>3b. /\ c \in Nat /\ v \in Nat /\ i \in Nat /\ n <= c
       /\ taken = i + 1 + c - n /\ Len(got) = v + c - n
  BY <1>2
<1>4. got' = got \o more /\ taken' = taken + k /\ left' = n - k
      /\ phase' = IF FlowOver(n - k) THEN "gap" ELSE "waiting"
  BY DEF Flow
<1>5. \A j \in 1 .. k : sent[taken + j].val = Len(got) + j
  <2> SUFFICES ASSUME NEW j \in 1 .. k PROVE sent[taken + j].val = Len(got) + j
    OBVIOUS
  <2>1. /\ c - n + j \in 1 .. c /\ i + 1 + (c - n + j) = taken + j
        /\ v + (c - n + j) = Len(got) + j /\ taken + j \in 1 .. Len(sent)
    <3> HIDE DEF k, c, v
    <3>1. j \in Nat /\ 1 <= j /\ j <= n /\ taken + j <= arrived /\ arrived <= Len(sent)
      BY ONLY <1>1, <1>3, <1>3a, n \in Nat, j \in 1 .. k
    <3>2. c - n + j \in 1 .. c
      BY ONLY <1>3b, <3>1, n \in Nat
    <3>3. taken + j \in 1 .. Len(sent)
      BY ONLY <1>1, <1>3a, <3>1
    <3> QED
      BY ONLY <1>1, <1>3a, <1>3b, <3>1, <3>2, <3>3, n \in Nat, CountDown, SMTT(30)
  <2>2. ChunkAt(i)
    BY DEF Grammar
  <2>3. \A m \in 1 .. c : i + 1 + m \in DOMAIN sent => sent[i + 1 + m].val = v + m
    BY <2>2 DEF ChunkAt
  <2>4. sent[i + 1 + (c - n + j)].val = v + (c - n + j)
    <3> HIDE DEF c, v
    <3> QED
      BY <1>1, <2>1, <2>3
  <2> QED
    BY <2>1, <2>4
<1>6. more \in Seq(Nat) /\ Len(more) = k
  <2>1. \A j \in 1 .. k : sent[taken + j].val \in Nat
    BY <1>1, <1>3, <1>5, SMTT(30)
  <2>2. k \in Nat
    BY <1>3
  <2> HIDE DEF k
  <2> QED
    BY <2>1, <2>2
<1> HIDE DEF k, c, v, more
<1>7. /\ got' \in Seq(Nat) /\ Len(got') = Len(got) + k
      /\ \A j \in 1 .. Len(got) + k :
            got'[j] = IF j <= Len(got) THEN got[j] ELSE more[j - Len(got)]
  <2>1. /\ got \o more \in Seq(Nat) /\ Len(got \o more) = Len(got) + Len(more)
        /\ \A j \in 1 .. Len(got) + Len(more) :
              (got \o more)[j] = IF j <= Len(got) THEN got[j] ELSE more[j - Len(got)]
    BY ONLY <1>1, <1>6, ConcatProperties
  <2> QED
    BY ONLY <1>4, <1>6, <2>1
<1>8. got' = [j \in 1 .. Len(got') |-> j]
  <2>1. \A j \in 1 .. Len(got) : got[j] = j
    <3>1. got = [j \in 1 .. Len(got) |-> j]
      BY DEF BytesIntact
    <3> QED
      BY <3>1
  <2>2. \A j \in 1 .. Len(got') : got'[j] = j
    <3> SUFFICES ASSUME NEW j \in 1 .. Len(got') PROVE got'[j] = j
      OBVIOUS
    <3>0. j \in 1 .. Len(got) + k /\ Len(got) \in Nat /\ k \in Nat
      BY ONLY <1>1, <1>3a, <1>7, j \in 1 .. Len(got')
    <3>1. CASE j <= Len(got)
      <4>1. j \in 1 .. Len(got) /\ got'[j] = got[j]
        BY ONLY <1>7, <3>0, <3>1
      <4> QED
        BY ONLY <2>1, <4>1
    <3>2. CASE ~(j <= Len(got))
      <4>1. j - Len(got) \in 1 .. k
        BY ONLY <3>0, <3>2
      <4>2. got'[j] = more[j - Len(got)]
        BY ONLY <1>7, <3>0, <3>2
      <4>3. more[j - Len(got)] = Len(got) + (j - Len(got))
        BY <1>5, <4>1 DEF more
      <4>4. Len(got) + (j - Len(got)) = j
        BY ONLY <3>0
      <4> QED
        BY ONLY <4>2, <4>3, <4>4
    <3> QED
      BY <3>1, <3>2
  <2>3. DOMAIN got' = 1 .. Len(got') /\ got' = [j \in DOMAIN got' |-> got'[j]]
    BY <1>7, LenProperties
  <2> QED
    BY <2>2, <2>3
<1>9. AtFlow'
  <2>1. sent' = sent
    BY DEF device
  <2>2. IsChunk(i)' /\ ChunkLen(i)' = ChunkLen(i)
    BY <1>2, ClientFrame
  <2>3. taken + k = i + 1 + c - (n - k) /\ n - k <= c /\ Len(got) + k = v + c - (n - k)
    <3>1. n - k <= c
      BY ONLY <1>3, <1>3a, <1>3b, n \in Nat
    <3> QED
      BY ONLY <1>1, <1>3a, <1>3b, <3>1, n \in Nat, CountDown, SMTT(30)
  <2>4. phase' = "gap" => left' = 0
    BY <1>4 DEF FlowOver
  <2> QED
    BY <1>4, <1>7, <2>1, <2>2, <2>3, <2>4 DEF AtFlow, c, v
<1>10. left' \in Nat /\ taken' \in 0 .. arrived
  BY <1>1, <1>3, <1>4
<1>11. Len(got) <= Len(got')
  BY ONLY <1>1, <1>3a, <1>7
<1> QED
  BY <1>4, <1>7, <1>8, <1>9, <1>10, <1>11

------------------------------------------------------------------------------
\* The place a settled read was at, and the token it returned.
LEMMA Settled ==
    ASSUME IInv, phase = "gap", at \in {"reply", "length", "mtime"}
    PROVE  /\ taken \in DOMAIN sent /\ token = sent[taken] /\ Previous = taken - 1
           /\ taken \in Nat /\ Len(got) \in Nat
           /\ at = "reply" => /\ token.kind \in {"DATA"} \cup Finals
                             /\ token.val = Len(got)
           /\ at = "length" => /\ taken - 1 \in DOMAIN sent
                              /\ sent[taken - 1].kind = "DATA"
                              /\ sent[taken - 1].val = Len(got)
           /\ at = "mtime" => /\ taken - 1 \in DOMAIN sent
                             /\ sent[taken - 1].kind = "DONE"
                             /\ sent[taken - 1].val = Len(got)
<1>1. JustRead /\ Previous = taken - 1
  BY DEF IInv, Position, AtReply, AtLength, AtMtime, Previous
<1>2. taken \in DOMAIN sent /\ token = sent[taken]
  BY <1>1 DEF JustRead
<1>3. taken \in Nat /\ Len(got) \in Nat
  BY LenProperties DEF IInv, TypeOK
<1>4. taken - 1 + 1 = taken
  BY <1>3
<1>5. at = "reply" => HeadAt(taken, Len(got))
  BY <1>1, <1>4 DEF IInv, Position, AtReply
<1>6. at = "reply" => token.kind \in {"DATA"} \cup Finals /\ token.val = Len(got)
  BY <1>2, <1>5 DEF HeadAt
<1> QED
  BY <1>1, <1>2, <1>3, <1>6 DEF IInv, Position, AtLength, AtMtime

\* Bytes that arrive preserve IInv.
LEMMA ArriveKeeps == IInv /\ Arrive => IInv'
<1> SUFFICES ASSUME IInv, Arrive PROVE IInv'
  OBVIOUS
<1>1. /\ UNCHANGED <<device, read, transfer, attached, cancelled>>
      /\ UNCHANGED <<broken, destroyed, shut>>
      /\ arrived' \in (arrived + 1) .. Len(sent)
  BY DEF Arrive
<1>2. TypeOK'
  BY <1>1 DEF IInv, TypeOK, device, read, transfer
<1>3. Over' /\ BytesIntact'
  BY <1>1, IntactFrame DEF IInv, Over, read, transfer
<1>4. Position'
  BY <1>1 DEF IInv, Position, AtReply, AtLength, AtMtime, AtFlow, JustRead, Previous,
              HeadAt, IsChunk, ChunkLen, Open, device, read, transfer
<1> QED
  BY <1>1, <1>2, <1>3, <1>4, ClientFrame DEF IInv

\* A read that takes what is there preserves IInv.
LEMMA ReadableKeeps == IInv /\ Readable => IInv'
<1> SUFFICES ASSUME IInv, Readable PROVE IInv'
  OBVIOUS
<1>1. /\ UNCHANGED <<device, socket, attached, ended, errors, cancelled>>
      /\ phase = "waiting" /\ sent' = sent /\ arrived' = arrived /\ ended' = ended
      /\ verdict' = verdict
  BY DEF Readable, device, socket
<1>2. Grammar' /\ OpenEnd' /\ \A i \in Int, v \in Int : HeadAt(i, v) => HeadAt(i, v)'
  BY <1>1, ClientFrame
<1>3. CASE at = "flow" /\ Flow(left) /\ UNCHANGED <<at, token>>
  <2>1. PICK i \in DOMAIN sent :
          /\ IsChunk(i) /\ left <= ChunkLen(i)
          /\ taken = i + 1 + ChunkLen(i) - left
          /\ Len(got) = sent[i].val + ChunkLen(i) - left
    BY <1>3 DEF IInv, Position, AtFlow
  <2>2. left \in Nat
    BY DEF IInv, TypeOK
  <2>3. /\ AtFlow' /\ left' \in Nat /\ taken' \in 0 .. arrived
        /\ phase' \in {"waiting", "gap"} /\ got' \in Seq(Nat)
        /\ got' = [j \in 1 .. Len(got') |-> j]
    BY <1>1, <1>3, <2>1, <2>2, Flowed
  <2>4. TypeOK' /\ Over'
    BY <1>1, <1>3, <2>3 DEF IInv, TypeOK, Over, device, socket
  <2>5. Position'
    BY <1>1, <1>3, <2>3 DEF IInv, Position
  <2>6. BytesIntact'
    BY <1>1, <1>3, <2>3 DEF IInv, Position, BytesIntact, Whole
  <2> QED
    BY <1>2, <2>4, <2>5, <2>6 DEF IInv
<1>4. CASE at = "drain" /\ taken' = arrived /\ UNCHANGED <<at, phase, token, left, got>>
  <2>1. TypeOK' /\ Over'
    BY <1>1, <1>4 DEF IInv, TypeOK, Over, device, socket
  <2>2. Position'
    BY <1>1, <1>4 DEF IInv, Position
  <2>3. BytesIntact'
    BY <1>1, <1>4, IntactFrame
  <2> QED
    BY <1>2, <2>1, <2>2, <2>3 DEF IInv
<1>5. CASE at \notin {"flow", "drain", "over"} /\ StartRead(at) /\ UNCHANGED <<left, got>>
  <2>1. /\ at' = at /\ phase' \in {"waiting", "gap"}
        /\ taken' \in 0 .. arrived /\ token' \in Token
        /\ Previous' = taken /\ JustRead'
    BY <1>1, <1>5, Started DEF IInv
  <2>2. TypeOK' /\ Over'
    BY <1>1, <1>5, <2>1 DEF IInv, TypeOK, Over, device, socket
  <2>3. Previous = taken /\ taken + 1 \in Int /\ Len(got) \in Int
    BY <1>1, LenProperties DEF Previous, IInv, TypeOK
  <2>4. at = "reply" => AtReply'
    <3> SUFFICES ASSUME at = "reply" PROVE AtReply'
      OBVIOUS
    <3>1. HeadAt(taken + 1, Len(got))
      BY <2>3 DEF IInv, Position, AtReply
    <3>2. /\ sent' = sent /\ size' = size /\ Open' = Open /\ got' = got
          /\ Previous' + 1 = taken + 1
      BY <1>1, <1>5, <2>1 DEF device, Open
    <3>3. HeadAt(Previous + 1, Len(got))'
      BY <3>1, <3>2 DEF HeadAt
    <3> QED
      BY <2>1, <3>3 DEF AtReply
  <2>5. at = "length" => AtLength'
    BY <1>1, <1>5, <2>1, <2>3 DEF IInv, Position, AtLength
  <2>6. at = "mtime" => AtMtime'
    BY <1>1, <1>5, <2>1, <2>3 DEF IInv, Position, AtMtime
  <2>7. Position'
    BY <1>1, <1>5, <2>1, <2>4, <2>5, <2>6 DEF IInv, Position
  <2>8. BytesIntact'
    BY <1>1, <1>5, IntactFrame
  <2> QED
    BY <1>2, <2>2, <2>7, <2>8 DEF IInv
<1> QED
  BY <1>3, <1>4, <1>5 DEF Readable

\* The end of the stream preserves IInv.
LEMMA StreamEndsKeeps == IInv /\ StreamEnds => IInv'
<1> SUFFICES ASSUME IInv, StreamEnds PROVE IInv'
  OBVIOUS
<1>1. /\ UNCHANGED <<device, socket, taken, phase, token, left, attached, got, ended, cancelled>>
      /\ at # "over" /\ at' = "over" /\ errors' = IF attached THEN errors + 1 ELSE errors
      /\ verdict' = verdict /\ ended' = ended
  BY DEF StreamEnds, Reject, device
<1>2. errors = 0
  BY <1>1 DEF IInv, Over, TypeOK
<1>3. TypeOK' /\ Over'
  BY <1>1, <1>2 DEF IInv, TypeOK, Over, device, socket
<1>4. Position'
  BY <1>1 DEF IInv, Position
<1> QED
  BY <1>1, <1>3, <1>4, ClientFrame, IntactFrame DEF IInv

\* An error of the stream and its timeout preserve IInv.
LEMMA StreamBreaksKeeps == IInv /\ (StreamBreaks \/ SocketTimesOut) => IInv'
<1> SUFFICES ASSUME IInv, StreamBreaks \/ SocketTimesOut PROVE IInv'
  OBVIOUS
<1>1. /\ UNCHANGED <<device, arrived, taken, token, left, attached, got, ended, cancelled>>
      /\ at # "over" /\ broken' = TRUE /\ destroyed' \in {TRUE, destroyed}
      /\ verdict' = verdict /\ ended' = ended
  BY DEF StreamBreaks, SocketTimesOut, device
<1>2. errors = 0
  BY <1>1 DEF IInv, Over, TypeOK
<1>3. Grammar' /\ OpenEnd' /\ BytesIntact'
  BY <1>1, ClientFrame, IntactFrame
<1>4. CASE phase = "gap" /\ UNCHANGED <<shut, at, phase, errors>>
  <2>1. TypeOK' /\ Over'
    BY <1>1, <1>2, <1>4 DEF IInv, TypeOK, Over, device
  <2>2. Position'
    BY <1>1, <1>4 DEF IInv, Position, AtReply, AtLength, AtMtime, AtFlow, JustRead, Previous,
                      HeadAt, IsChunk, ChunkLen, Open, device
  <2> QED
    BY <1>3, <2>1, <2>2 DEF IInv
<1>5. CASE phase = "waiting" /\ at \in FailReads /\ Drain
  <2>1. at' = "drain" /\ phase' = "waiting" /\ shut' = TRUE /\ errors' = errors
    BY <1>5 DEF Drain
  <2>2. TypeOK' /\ Over'
    BY <1>1, <1>2, <2>1 DEF IInv, TypeOK, Over, device, Reads
  <2>3. Position'
    BY <1>1, <1>5, <2>1 DEF IInv, Position, FailReads
  <2> QED
    BY <1>3, <2>2, <2>3 DEF IInv
<1>6. CASE phase = "waiting" /\ at \notin FailReads
           /\ at' = "over" /\ Reject /\ shut' \in {shut, TRUE} /\ UNCHANGED phase
  <2>1. TypeOK' /\ Over'
    <3>1. shut' \in BOOLEAN
      BY <1>6 DEF IInv, TypeOK
    <3>2. errors' \in 0 .. 1 /\ ended' = ended
      BY <1>1, <1>2, <1>6 DEF Reject
    <3> QED
      BY <1>1, <1>2, <1>6, <3>1, <3>2 DEF IInv, TypeOK, Over, device
  <2>2. Position'
    BY <1>1, <1>6 DEF IInv, Position
  <2> QED
    BY <1>3, <2>1, <2>2 DEF IInv
<1> QED
  BY <1>4, <1>5, <1>6 DEF StreamBreaks, SocketTimesOut

\* Cancelling preserves IInv.
LEMMA CancelKeeps == IInv /\ Cancel => IInv'
<1> SUFFICES ASSUME IInv, Cancel PROVE IInv'
  OBVIOUS
<1>1. /\ UNCHANGED <<device, socket, taken, phase, token, left, attached, transfer>>
      /\ cancelled' = TRUE /\ at' = "over" /\ verdict' = verdict /\ ended' = ended
      /\ got' = got /\ errors' = errors
  BY DEF Cancel, Stop, device, transfer
<1>2. TypeOK' /\ Over'
  BY <1>1 DEF IInv, TypeOK, Over, device, socket
<1>3. Position'
  BY <1>1 DEF IInv, Position
<1> QED
  BY <1>1, <1>2, <1>3, ClientFrame, IntactFrame DEF IInv

\* Every continuation preserves IInv.
LEMMA ContinueKeeps == IInv /\ Continue => IInv'
<1> SUFFICES ASSUME IInv, Continue PROVE IInv'
  OBVIOUS
<1>1. /\ UNCHANGED device /\ sent' = sent /\ verdict' = verdict /\ size' = size
      /\ arrived' = arrived /\ phase = "gap" /\ at # "over"
  BY DEF Continue, Continues, ReadLength, ReadChunk, ReadNext, ReadMtime, ReadEnd, ReadFail,
         ReadFailText, ReadFailDrain, Unexpected, device, socket
<1>2. Grammar' /\ OpenEnd'
  BY <1>1, ClientFrame
<1>3. errors = 0 /\ Len(got) \in Nat /\ DOMAIN sent = 1 .. Len(sent) /\ Len(sent) \in Nat
  BY <1>1, LenProperties DEF IInv, Over, TypeOK
<1>4. \A i \in DOMAIN sent : sent[i].kind \in Finals => FinalAt(i)
  BY DEF IInv, Grammar
<1>5. ASSUME NEW where \in Reads, StartRead(where), UNCHANGED <<left, got, errors, cancelled>>,
             UNCHANGED <<broken, destroyed, shut>>, attached' \in BOOLEAN, ended' \in BOOLEAN
      PROVE  TypeOK' /\ Over' /\ Previous' = taken /\ JustRead' /\ at' = where
  <2>1. /\ at' = where /\ phase' \in {"waiting", "gap"}
        /\ taken' \in 0 .. arrived /\ token' \in Token
        /\ Previous' = taken /\ JustRead'
    BY <1>1, <1>5, Started DEF IInv
  <2>2. TypeOK'
    BY <1>1, <1>5, <2>1 DEF IInv, TypeOK, device
  <2>3. Over'
    BY <1>3, <1>5 DEF Over
  <2> QED
    BY <2>1, <2>2, <2>3
<1>6. CASE ReadLength
  <2>1. /\ StartRead("length") /\ UNCHANGED <<left, got, errors, cancelled, ended, attached>>
        /\ UNCHANGED <<broken, destroyed, shut>> /\ at = "reply" /\ token.kind = "DATA"
    BY <1>6 DEF ReadLength, Continues, socket, transfer
  <2>2. TypeOK' /\ Over' /\ Previous' = taken /\ JustRead' /\ at' = "length"
    BY <1>5, <2>1 DEF Reads, IInv, TypeOK
  <2>3. /\ taken \in DOMAIN sent /\ sent[taken].kind = "DATA" /\ sent[taken].val = Len(got)
    BY <1>1, <2>1, Settled
  <2>4. AtLength'
    BY <1>1, <2>1, <2>2, <2>3 DEF AtLength
  <2>5. Position' /\ BytesIntact'
    BY <1>1, <2>1, <2>2, <2>4, IntactFrame DEF IInv, Position
  <2> QED
    BY <1>2, <2>2, <2>5 DEF IInv
<1>7. CASE ReadChunk
  <2>1. /\ Flow(token.val) /\ at' = "flow" /\ at = "length"
        /\ UNCHANGED <<token, attached, ended, errors, cancelled, broken, destroyed, shut>>
    BY <1>7 DEF ReadChunk, Continues, socket
  <2> DEFINE i == taken - 1
  <2>2. /\ taken \in DOMAIN sent /\ token = sent[taken] /\ taken \in Nat
        /\ i \in DOMAIN sent /\ sent[i].kind = "DATA" /\ sent[i].val = Len(got)
    BY <1>1, <2>1, Settled
  <2>3. i + 1 = taken
    BY <2>2
  <2>4. IsChunk(i) /\ ChunkLen(i) = token.val /\ token.val \in Nat
    BY <2>2, <2>3, TokenTypes DEF IsChunk, ChunkLen, IInv
  <2>5. taken = i + 1 + ChunkLen(i) - token.val
        /\ Len(got) = sent[i].val + ChunkLen(i) - token.val /\ token.val <= ChunkLen(i)
    BY <1>3, <2>2, <2>3, <2>4
  <2>6. /\ AtFlow' /\ left' \in Nat /\ taken' \in 0 .. arrived
        /\ phase' \in {"waiting", "gap"} /\ got' \in Seq(Nat)
        /\ got' = [j \in 1 .. Len(got') |-> j]
    <3> HIDE DEF i
    <3> QED
      BY <1>1, <2>1, <2>2, <2>4, <2>5, Flowed
  <2>7. TypeOK' /\ Over'
    BY <1>1, <1>3, <2>1, <2>6 DEF IInv, TypeOK, Over, device, Reads
  <2>8. Position'
    BY <1>1, <2>1, <2>6 DEF IInv, Position
  <2>9. BytesIntact'
    BY <1>1, <2>1, <2>6 DEF IInv, Position, BytesIntact, Whole
  <2> QED
    BY <1>2, <2>7, <2>8, <2>9 DEF IInv
<1>8. CASE ReadNext
  <2>1. /\ StartRead("reply") /\ UNCHANGED <<left, got, errors, cancelled, ended>>
        /\ attached' = FALSE /\ UNCHANGED <<broken, destroyed, shut>> /\ at = "flow"
    BY <1>8 DEF ReadNext, Continues, socket, transfer
  <2>2. TypeOK' /\ Over' /\ Previous' = taken /\ JustRead' /\ at' = "reply"
    BY <1>5, <2>1 DEF Reads, IInv, TypeOK
  <2>3. PICK i \in DOMAIN sent :
          /\ IsChunk(i) /\ taken = i + 1 + ChunkLen(i) - left
          /\ Len(got) = sent[i].val + ChunkLen(i) - left /\ left = 0
    BY <1>1, <2>1 DEF IInv, Position, AtFlow
  <2>4. ChunkLen(i) \in Nat /\ sent[i].val \in Nat /\ i \in Nat
    BY <1>3, <2>3, TokenTypes DEF ChunkLen, IsChunk, IInv
  <2>5. taken + 1 = i + 2 + ChunkLen(i) /\ Len(got) = sent[i].val + ChunkLen(i)
    BY <2>3, <2>4
  <2>6. HeadAt(taken + 1, Len(got))
    BY <2>3, <2>5 DEF IInv, Grammar, ChunkAt
  <2>7. Open' = Open /\ Previous' + 1 = taken + 1 /\ got' = got
    BY <1>1, <2>1, <2>2 DEF Open, device
  <2>8. AtReply'
    BY <1>1, <2>2, <2>6, <2>7 DEF AtReply, HeadAt
  <2>9. Position' /\ BytesIntact'
    BY <1>1, <2>1, <2>2, <2>8, IntactFrame DEF IInv, Position
  <2> QED
    BY <1>2, <2>2, <2>9 DEF IInv
<1>9. CASE ReadMtime
  <2>1. /\ StartRead("mtime") /\ UNCHANGED <<left, got, errors, cancelled, ended, attached>>
        /\ UNCHANGED <<broken, destroyed, shut>> /\ at = "reply" /\ token.kind = "DONE"
    BY <1>9 DEF ReadMtime, Continues, socket, transfer
  <2>2. TypeOK' /\ Over' /\ Previous' = taken /\ JustRead' /\ at' = "mtime"
    BY <1>5, <2>1 DEF Reads, IInv, TypeOK
  <2>3. /\ taken \in DOMAIN sent /\ sent[taken].kind = "DONE" /\ sent[taken].val = Len(got)
    BY <1>1, <2>1, Settled
  <2>4. AtMtime'
    BY <1>1, <2>1, <2>2, <2>3 DEF AtMtime
  <2>5. Position' /\ BytesIntact'
    BY <1>1, <2>1, <2>2, <2>4, IntactFrame DEF IInv, Position
  <2> QED
    BY <1>2, <2>2, <2>5 DEF IInv
<1>10. CASE ReadEnd
  <2>1. /\ UNCHANGED <<socket, taken, phase, token, left, attached, got, errors, cancelled>>
        /\ at = "mtime" /\ at' = "over" /\ ended' = TRUE
    BY <1>10 DEF ReadEnd, Continues
  <2>2. /\ taken \in DOMAIN sent /\ taken \in Nat /\ taken - 1 \in DOMAIN sent
        /\ sent[taken - 1].kind = "DONE" /\ sent[taken - 1].val = Len(got)
    BY <1>1, <2>1, Settled
  <2>3. /\ verdict = "DONE" /\ size = Len(got) /\ Len(sent) <= taken - 1 + 1
    BY <1>4, <2>2 DEF FinalAt, Finals
  <2>4. taken = Len(sent)
    BY <1>3, <2>2, <2>3
  <2>5. TypeOK' /\ Over'
    BY <1>1, <2>1 DEF IInv, TypeOK, Over, device, socket
  <2>6. Position'
    BY <1>1, <2>1, <2>3 DEF Position, Finals
  <2>7. BytesIntact'
    BY <1>1, <2>1, <2>3, <2>4 DEF IInv, BytesIntact
  <2> QED
    BY <1>2, <2>5, <2>6, <2>7 DEF IInv
<1>11. CASE ReadFail
  <2>1. /\ StartRead("failLength") /\ UNCHANGED <<left, got, errors, cancelled, attached>>
        /\ UNCHANGED <<broken, destroyed, shut>> /\ at = "reply" /\ token.kind = "FAIL"
        /\ ended' = TRUE
    BY <1>11 DEF ReadFail, ReadError, Continues, socket
  <2>2. TypeOK' /\ Over' /\ at' = "failLength"
    BY <1>5, <2>1 DEF Reads, IInv, TypeOK
  <2>3. verdict = "FAIL"
    BY <1>1, <1>4, <2>1, Settled DEF FinalAt, Finals
  <2>4. Position'
    BY <1>1, <2>1, <2>2, <2>3 DEF Position, Finals
  <2>5. BytesIntact'
    BY <1>1, <2>1, <2>3 DEF IInv, BytesIntact, Whole
  <2> QED
    BY <1>2, <2>2, <2>4, <2>5 DEF IInv
<1>12. CASE ReadFailText
  <2>1. /\ StartRead("failText") /\ UNCHANGED <<left, got, errors, cancelled, attached, ended>>
        /\ UNCHANGED <<broken, destroyed, shut>> /\ at = "failLength"
    BY <1>12 DEF ReadFailText, Continues, socket, transfer
  <2>2. TypeOK' /\ Over' /\ at' = "failText"
    BY <1>5, <2>1 DEF Reads, IInv, TypeOK
  <2>3. Position' /\ BytesIntact'
    BY <1>1, <2>1, <2>2, IntactFrame DEF IInv, Position
  <2> QED
    BY <1>2, <2>2, <2>3 DEF IInv
<1>13. CASE ReadFailDrain
  <2>1. /\ at = "failText" /\ at' = "drain" /\ phase' = "waiting" /\ shut' = TRUE
        /\ UNCHANGED <<broken, destroyed, taken, token, left, attached, got, ended, cancelled, errors>>
    BY <1>13 DEF ReadFailDrain, Drain, Continues
  <2>2. TypeOK' /\ Over'
    BY <1>1, <1>3, <2>1 DEF IInv, TypeOK, Over, device, Reads
  <2>3. Position' /\ BytesIntact'
    BY <1>1, <2>1, IntactFrame DEF IInv, Position
  <2> QED
    BY <1>2, <2>2, <2>3 DEF IInv
<1>14. CASE Unexpected
  <2>1. /\ at = "reply" /\ token.kind \notin {"DATA", "DONE", "FAIL"}
        /\ ended' = TRUE /\ destroyed' = TRUE /\ at' = "over"
        /\ errors' = IF attached THEN errors + 1 ELSE errors
        /\ UNCHANGED <<broken, shut, taken, phase, token, left, attached, got, cancelled>>
    BY <1>14 DEF Unexpected, Reject, Continues
  <2>2. token.kind = "JUNK" /\ taken \in DOMAIN sent /\ token = sent[taken]
    BY <1>1, <2>1, Settled DEF Finals
  <2>3. verdict = "JUNK"
    BY <1>4, <2>2 DEF FinalAt, Finals
  <2>4. TypeOK' /\ Over'
    BY <1>1, <1>3, <2>1 DEF IInv, TypeOK, Over, device
  <2>5. Position'
    BY <1>1, <2>1, <2>3 DEF Position, Finals
  <2>6. BytesIntact'
    BY <1>1, <2>1, <2>3 DEF IInv, BytesIntact, Whole
  <2> QED
    BY <1>2, <2>4, <2>5, <2>6 DEF IInv
<1> QED
  BY <1>6, <1>7, <1>8, <1>9, <1>10, <1>11, <1>12, <1>13, <1>14 DEF Continue

------------------------------------------------------------------------------
\* The first state satisfies IInv.
LEMMA IInvInit == Init => IInv
<1> SUFFICES ASSUME Init PROVE IInv
  OBVIOUS
<1>1. /\ sent = <<>> /\ Len(sent) = 0 /\ DOMAIN sent = {} /\ sent \in Seq(Token)
      /\ got = <<>> /\ Len(got) = 0 /\ got \in Seq(Nat)
  BY DEF Init
<1>2. TypeOK
  <2>1. token \in Token
    BY DEF Init, Tok, Token, Kinds
  <2>2. chunks \in 0 .. MaxChunks /\ size \in Nat
    BY PullAssumption DEF Init, PullAssumption
  <2>3. arrived \in 0 .. Len(sent) /\ taken \in 0 .. arrived /\ left \in Nat /\ errors \in 0 .. 1
    BY <1>1 DEF Init
  <2> QED
    BY <1>1, <2>1, <2>2, <2>3 DEF Init, TypeOK, Reads
<1>3. \A i \in Nat : HeadAt(i, 0)
  BY <1>1 DEF Init, HeadAt
<1>4. Grammar /\ OpenEnd /\ Over
  BY <1>1, <1>3 DEF Init, Grammar, OpenEnd, Over, IsChunk
<1>5. Position
  BY <1>1, <1>3 DEF Init, Position, AtReply, Previous, JustRead
<1>6. BytesIntact
  <2>1. got = [i \in 1 .. Len(got) |-> i]
    BY <1>1
  <2> QED
    BY <2>1 DEF Init, BytesIntact, Whole
<1> QED
  BY <1>2, <1>4, <1>5, <1>6 DEF IInv

\* Every step preserves IInv.
LEMMA IInvNext == IInv /\ [Next]_vars => IInv'
<1> SUFFICES ASSUME IInv, [Next]_vars PROVE IInv'
  OBVIOUS
<1>1. CASE Next
  BY <1>1, SendsKeeps, AnswersKeeps, ClosesKeeps, ArriveKeeps, ReadableKeeps,
     StreamEndsKeeps, StreamBreaksKeeps, ContinueKeeps, CancelKeeps DEF Next
<1>2. CASE UNCHANGED vars
  <2>1. /\ UNCHANGED <<device, socket, read, transfer, attached, cancelled>>
    BY <1>2 DEF vars
  <2>2. TypeOK' /\ Over'
    BY <2>1 DEF IInv, TypeOK, Over, device, socket, read, transfer
  <2>3. Position'
    BY <2>1 DEF IInv, Position, AtReply, AtLength, AtMtime, AtFlow, JustRead, Previous,
                HeadAt, IsChunk, ChunkLen, Open, device, read, transfer
  <2>4. BytesIntact'
    BY <2>1, IntactFrame DEF read, transfer
  <2> QED
    BY <2>1, <2>2, <2>3, <2>4, ClientFrame DEF IInv
<1> QED
  BY <1>1, <1>2

\* Every variable of a pull keeps its type; 'error' comes at most once.
THEOREM Typing == Spec => []TypeOK
<1>1. IInv => TypeOK
  BY DEF IInv
<1> QED
  BY <1>1, IInvInit, IInvNext, PTL DEF Spec

\* However the answer is split, wherever it breaks off and whatever happens to
\* the socket, the transfer holds a prefix of the file, and all of it when it
\* ended after DONE (_readData, readByteFlow).
THEOREM Intact == Spec => []BytesIntact
<1>1. IInv => BytesIntact
  BY DEF IInv
<1> QED
  BY <1>1, IInvInit, IInvNext, PTL DEF Spec

------------------------------------------------------------------------------
\* Once it is ended the transfer waits for the end of a failure at most, and
\* once it is cancelled for nothing.
Settling ==
    /\ ended => at \in FailReads \cup {"drain", "over"}
    /\ cancelled => at = "over"

\* Every step preserves Settling.
LEMMA SettlingNext == Settling /\ [Next]_vars => Settling'
<1> SUFFICES ASSUME Settling, [Next]_vars PROVE Settling'
  OBVIOUS
<1> USE DEF Settling, FailReads
<1>1. CASE DeviceSends \/ DeviceAnswers \/ DeviceCloses \/ Arrive \/ UNCHANGED vars
  BY <1>1 DEF DeviceSends, DeviceAnswers, DeviceCloses, Arrive, vars, read, transfer
<1>2. CASE Readable
  BY <1>2 DEF Readable, StartRead
<1>3. CASE StreamEnds
  BY <1>3 DEF StreamEnds
<1>4. CASE StreamBreaks \/ SocketTimesOut
  BY <1>4 DEF StreamBreaks, SocketTimesOut, Drain
<1>5. CASE Cancel
  BY <1>5 DEF Cancel, Stop, transfer
<1>6. CASE Continue
  BY <1>6 DEF Continue, Continues, ReadLength, ReadChunk, ReadNext, ReadMtime, ReadEnd,
     ReadFail, ReadError, ReadFailText, ReadFailDrain, Unexpected, StartRead, Drain, transfer
<1> QED
  BY <1>1, <1>2, <1>3, <1>4, <1>5, <1>6 DEF Next

\* Every chunk sent is counted in the size of the file, also when it broke off.
Counted == \A i \in DOMAIN sent : IsChunk(i) => sent[i].val + ChunkLen(i) <= size

\* Every step preserves Counted.
LEMMA CountedNext == IInv /\ IInv' /\ Counted /\ [Next]_vars => Counted'
<1> SUFFICES ASSUME IInv, IInv', Counted, [Next]_vars PROVE Counted'
  OBVIOUS
<1> DEFINE L == Len(sent)
<1>0. /\ sent \in Seq(Token) /\ sent' \in Seq(Token) /\ L \in Nat /\ Len(sent') \in Nat
      /\ DOMAIN sent = 1 .. L /\ DOMAIN sent' = 1 .. Len(sent') /\ size \in Nat
      /\ arrived \in 0 .. L
  BY LenProperties DEF IInv, TypeOK
\* Of the chunks that were there before.
<1>1. ASSUME NEW i \in DOMAIN sent', IsChunk(i)', i \in DOMAIN sent, i + 1 \in DOMAIN sent,
             sent'[i] = sent[i], sent'[i + 1] = sent[i + 1], size <= size', size' \in Nat
      PROVE  sent'[i].val + ChunkLen(i)' <= size'
  <2>1. IsChunk(i) /\ ChunkLen(i)' = ChunkLen(i) /\ sent'[i].val = sent[i].val
    BY <1>1 DEF IsChunk, ChunkLen
  <2>2. sent[i].val + ChunkLen(i) <= size
    BY <1>1, <2>1 DEF Counted
  <2>3. ChunkLen(i) \in Nat /\ sent[i].val \in Nat
    BY <1>1, TokenTypes DEF ChunkLen, IInv
  <2> QED
    BY <1>0, <1>1, <2>1, <2>2, <2>3
\* An open answer ends with a whole chunk.
<1>2. ASSUME Open, NEW s \in Seq(Token), sent' = sent \o s,
             NEW i \in DOMAIN sent, IsChunk(i)'
      PROVE  i + 1 \in DOMAIN sent /\ sent'[i] = sent[i] /\ sent'[i + 1] = sent[i + 1]
  <2>1. sent'[i] = sent[i] /\ \A k \in DOMAIN sent : sent'[k] = sent[k]
    BY <1>2, Extends DEF IInv
  <2>2. sent[i].kind = "DATA"
    BY <1>2, <2>1 DEF IsChunk
  <2>3. IsChunk(i)
    BY <1>2, <2>2 DEF IInv, OpenEnd
  <2> QED
    BY <2>1, <2>3 DEF IsChunk
<1>3. CASE DeviceSends
  <2>1. PICK n \in 0 .. MaxLen : sent' = sent \o Chunk(size, n) /\ size' = size + n
    BY <1>3 DEF DeviceSends
  <2>2. n \in Nat /\ Open
    BY <1>3, PullAssumption DEF PullAssumption, DeviceSends, Open
  <2>3. PICK s : s = Chunk(size, n)
    OBVIOUS
  <2>4. /\ s \in Seq(Token) /\ Len(s) = n + 2
        /\ s[1] = Tok("DATA", size) /\ s[2] = Tok("INT", n)
        /\ \A j \in 1 .. n : s[j + 2] = Tok("BYTE", size + j)
    BY <1>0, <2>2, <2>3, ChunkTokens
  <2>5. sent' = sent \o s
    BY <2>1, <2>3
  <2> HIDE <2>3
  <2>6. /\ Len(sent') = L + Len(s)
        /\ \A k \in 1 .. Len(s) : sent'[L + k] = s[k]
    BY <2>4, <2>5, Extends DEF IInv
  <2> SUFFICES ASSUME NEW i \in DOMAIN sent', IsChunk(i)'
               PROVE  sent'[i].val + ChunkLen(i)' <= size'
    BY DEF Counted
  <2>7. CASE i \in DOMAIN sent
    <3>1. i + 1 \in DOMAIN sent /\ sent'[i] = sent[i] /\ sent'[i + 1] = sent[i + 1]
      BY <1>2, <2>2, <2>4, <2>5, <2>7
    <3>2. size <= size' /\ size' \in Nat
      BY <1>0, <2>1, <2>2
    <3> QED
      BY <1>1, <2>7, <3>1, <3>2
  <2>8. CASE i = L + 1
    <3>1. sent'[i] = Tok("DATA", size)
      BY <2>2, <2>4, <2>6, <2>8
    <3>2. 2 \in 1 .. Len(s) /\ L + 2 = i + 1
      BY <1>0, <2>2, <2>4, <2>8
    <3>3. sent'[i + 1] = Tok("INT", n)
      BY <2>4, <2>6, <3>2
    <3>4. sent'[i].val = size /\ ChunkLen(i)' = n
      BY <3>1, <3>3 DEF Tok, ChunkLen
    <3> QED
      BY <1>0, <2>1, <2>2, <3>4
  <2>9. CASE i \notin DOMAIN sent /\ i # L + 1
    <3>1. PICK k : k = i - L
      OBVIOUS
    <3>2. k \in 2 .. Len(s) /\ i = L + k /\ (k # 2 => k - 2 \in 1 .. n)
      <4>1. i \in 1 .. L + (n + 2) /\ i \notin 1 .. L /\ i # L + 1
            /\ L \in Nat /\ n \in Nat
        BY <1>0, <2>2, <2>4, <2>6, <2>9
      <4>2. k \in 2 .. n + 2 /\ i = L + k /\ (k # 2 => k - 2 \in 1 .. n)
        <5> HIDE DEF L
        <5> QED
          BY ONLY <3>1, <4>1
      <4> QED
        BY <2>4, <4>2
    <3>3. sent'[i] = s[k] /\ (k - 2) + 2 = k
      BY <2>2, <2>4, <2>6, <3>2
    <3>4. s[k].kind # "DATA"
      <4>1. CASE k = 2
        BY <2>4, <4>1 DEF Tok
      <4>2. CASE k # 2
        <5>1. s[(k - 2) + 2] = Tok("BYTE", size + (k - 2))
          BY <2>4, <3>2, <4>2
        <5>2. s[k] = Tok("BYTE", size + (k - 2))
          BY <3>3, <5>1
        <5> QED
          BY <5>2 DEF Tok
      <4> QED
        BY <4>1, <4>2
    <3> QED
      BY <3>3, <3>4 DEF IsChunk
  <2> QED
    BY <2>7, <2>8, <2>9
<1>4. CASE DeviceAnswers
  <2>1. PICK v \in Finals : sent' = sent \o Answer(v, size)
    BY <1>4 DEF DeviceAnswers, Finals
  <2>2. Open /\ size' = size
    BY <1>4 DEF DeviceAnswers, Open
  <2>3. PICK s : s = Answer(v, size)
    OBVIOUS
  <2>4. /\ s \in Seq(Token) /\ Len(s) \in 1 .. 3 /\ s[1] = Tok(v, size)
        /\ \A k \in 2 .. Len(s) : s[k].kind \in {"INT", "TEXT"}
    BY <1>0, <2>3, AnswerTokens
  <2>5. sent' = sent \o s
    BY <2>1, <2>3
  <2> HIDE <2>3
  <2>6. /\ Len(sent') = L + Len(s)
        /\ \A k \in 1 .. Len(s) : sent'[L + k] = s[k]
    BY <2>4, <2>5, Extends DEF IInv
  <2> SUFFICES ASSUME NEW i \in DOMAIN sent', IsChunk(i)'
               PROVE  sent'[i].val + ChunkLen(i)' <= size'
    BY DEF Counted
  <2>7. CASE i \in DOMAIN sent
    <3>1. i + 1 \in DOMAIN sent /\ sent'[i] = sent[i] /\ sent'[i + 1] = sent[i + 1]
      BY <1>2, <2>2, <2>4, <2>5, <2>7
    <3> QED
      BY <1>0, <1>1, <2>2, <2>7, <3>1
  <2>8. CASE i \notin DOMAIN sent
    <3>1. PICK k : k = i - L
      OBVIOUS
    <3>2. k \in 1 .. Len(s) /\ i = L + k
      BY <1>0, <2>4, <2>6, <2>8, <3>1
    <3>3. sent'[i] = s[k]
      BY <2>6, <3>2
    <3>4. s[k].kind # "DATA"
      <4>1. CASE k = 1
        BY <2>4, <4>1 DEF Tok, Finals
      <4>2. CASE k # 1
        <5>1. k \in 2 .. Len(s)
          BY <2>4, <3>2, <4>2
        <5> QED
          BY <2>4, <5>1
      <4> QED
        BY <4>1, <4>2
    <3> QED
      BY <3>3, <3>4 DEF IsChunk
  <2> QED
    BY <2>7, <2>8
<1>5. CASE DeviceCloses
  <2>1. sent' = SubSeq(sent, 1, arrived) /\ size' = size
    BY <1>5 DEF DeviceCloses
  <2>2. Len(sent') = arrived /\ \A k \in 1 .. arrived : sent'[k] = sent[k]
    BY <1>0, <2>1
  <2>3. ASSUME NEW i \in DOMAIN sent', IsChunk(i)'
        PROVE  sent'[i].val + ChunkLen(i)' <= size'
    <3>1. i \in 1 .. arrived /\ i + 1 \in 1 .. arrived
      BY <1>0, <2>2, <2>3 DEF IsChunk
    <3>2. i \in DOMAIN sent /\ i + 1 \in DOMAIN sent
      BY <1>0, <3>1
    <3> QED
      BY <1>0, <1>1, <2>1, <2>2, <2>3, <3>1, <3>2
  <2> QED
    BY <2>3 DEF Counted
<1>6. CASE UNCHANGED device
  BY <1>6 DEF device, Counted, IsChunk, ChunkLen
<1> QED
  BY <1>3, <1>4, <1>5, <1>6 DEF Next, Arrive, Readable, StreamEnds, StreamBreaks, SocketTimesOut,
     Continue, ReadLength, ReadChunk, ReadNext, ReadMtime, ReadEnd, ReadFail, ReadFailText,
     ReadFailDrain, Unexpected, Cancel, vars

\* The bytes written are counted in the size of the file.
LEMMA FlowWithin ==
    ASSUME IInv, UNCHANGED device, IInv', Counted', at' = "flow"
    PROVE  Len(got') \in Nat /\ size \in Nat /\ Len(got') <= size
<1>1. PICK i \in DOMAIN sent' :
        IsChunk(i)' /\ left' <= ChunkLen(i)' /\ Len(got') = sent'[i].val + ChunkLen(i)' - left'
  BY DEF IInv, Position, AtFlow
<1>2. /\ sent' = sent /\ size' = size /\ IsChunk(i) /\ ChunkLen(i)' = ChunkLen(i)
      /\ i \in DOMAIN sent
  BY <1>1 DEF device, IsChunk, ChunkLen
<1>3. /\ ChunkLen(i) \in Nat /\ sent[i].val \in Nat /\ left' \in Nat /\ size \in Nat
      /\ Len(got') \in Nat
  BY <1>2, TokenTypes, LenProperties DEF ChunkLen, IsChunk, IInv, TypeOK
<1>4. sent[i].val + ChunkLen(i) <= size
  BY <1>1, <1>2 DEF Counted
<1>5. left' <= ChunkLen(i) /\ Len(got') = sent[i].val + ChunkLen(i) - left'
  BY <1>1, <1>2
<1> QED
  BY ONLY <1>3, <1>4, <1>5

\* What readByteFlow writes is delivered.
LEMMA Delivers ==
    ASSUME IInv, IInv', Settling, Counted', UNCHANGED device,
           at = "flow" \/ at = "length", at' = "flow",
           Len(got) <= Len(got'), UNCHANGED <<attached, ended, errors, cancelled>>
    PROVE  Promise!Deliver \/ UNCHANGED Promise!vars
<1>1. Len(got') <= size /\ size \in Nat /\ Len(got') \in Nat /\ Len(got) \in Nat
  BY FlowWithin, LenProperties DEF IInv, TypeOK
<1>2. size' = size /\ verdict' = verdict /\ ~ended /\ at # "over" /\ at' # "over"
  BY DEF device, Settling, FailReads
<1>3. CASE Len(got') = Len(got)
  BY <1>2, <1>3 DEF Promise!vars, Promise!told
<1>4. CASE Len(got') # Len(got)
  BY <1>1, <1>2, <1>4 DEF Promise!Deliver, Promise!Live
<1> QED
  BY <1>3, <1>4

\* A read that takes what is there tells the user bytes at most.
LEMMA ReadableMaps ==
    ASSUME IInv, IInv', Settling, Counted', Readable
    PROVE  Promise!Deliver \/ UNCHANGED Promise!vars
<1>1. /\ UNCHANGED <<device, attached, ended, errors, cancelled>> /\ at' = at
      /\ size' = size /\ verdict' = verdict
  BY DEF Readable, StartRead, device
<1>2. CASE at = "flow" /\ Flow(left)
  <2>1. PICK i \in DOMAIN sent :
          /\ IsChunk(i) /\ left <= ChunkLen(i)
          /\ taken = i + 1 + ChunkLen(i) - left
          /\ Len(got) = sent[i].val + ChunkLen(i) - left
    BY <1>2 DEF IInv, Position, AtFlow
  <2>2. left \in Nat
    BY DEF IInv, TypeOK
  <2>3. Len(got) <= Len(got')
    BY <1>1, <1>2, <2>1, <2>2, Flowed
  <2> QED
    BY <1>1, <1>2, <2>3, Delivers
<1>3. CASE got' = got
  BY <1>1, <1>3 DEF Promise!vars, Promise!told
<1> QED
  BY <1>2, <1>3 DEF Readable

\* A continuation is one of the steps of the transfer, or none.
LEMMA ContinueMaps ==
    ASSUME IInv, IInv', Settling, Counted', Continue
    PROVE  Promise!Next \/ UNCHANGED Promise!vars
<1>0. /\ phase = "gap" /\ at # "over" /\ UNCHANGED device /\ UNCHANGED cancelled
      /\ size' = size /\ verdict' = verdict
  BY DEF Continue, Continues, ReadLength, ReadChunk, ReadNext, ReadMtime, ReadEnd, ReadFail,
         ReadFailText, ReadFailDrain, Unexpected, device
<1>1. /\ at \in {"reply", "length", "flow", "mtime"} => ~ended
      /\ \A i \in DOMAIN sent : sent[i].kind \in Finals => FinalAt(i)
  BY DEF Settling, FailReads, IInv, Grammar
<1>2. CASE ReadLength \/ ReadMtime \/ ReadFailText \/ ReadFailDrain
  <2>1. UNCHANGED <<attached, got, ended, errors>> /\ at' # "over"
    BY <1>2 DEF ReadLength, ReadMtime, ReadFailText, ReadFailDrain, Drain, StartRead, transfer
  <2> QED
    BY <1>0, <2>1 DEF Promise!vars, Promise!told
<1>3. CASE ReadChunk
  <2>1. /\ Flow(token.val) /\ at' = "flow" /\ at = "length"
        /\ UNCHANGED <<attached, ended, errors>>
    BY <1>3 DEF ReadChunk, Continues
  <2> DEFINE i == taken - 1
  <2>2. /\ taken \in DOMAIN sent /\ token = sent[taken] /\ taken \in Nat /\ Len(got) \in Nat
        /\ i \in DOMAIN sent /\ sent[i].kind = "DATA" /\ sent[i].val = Len(got)
    BY <1>0, <2>1, Settled
  <2>3. i + 1 = taken
    BY <2>2
  <2>4. IsChunk(i) /\ ChunkLen(i) = token.val /\ token.val \in Nat
    BY <2>2, <2>3, TokenTypes DEF IsChunk, ChunkLen, IInv
  <2>5. taken = i + 1 + ChunkLen(i) - token.val
        /\ Len(got) = sent[i].val + ChunkLen(i) - token.val /\ token.val <= ChunkLen(i)
    BY <2>2, <2>3, <2>4
  <2>6. Len(got) <= Len(got')
    <3> HIDE DEF i
    <3> QED
      BY <1>0, <2>1, <2>2, <2>4, <2>5, Flowed
  <2> QED
    BY <1>0, <2>1, <2>6, Delivers DEF Promise!Next
<1>4. CASE ReadNext
  <2>1. /\ at = "flow" /\ at' = "reply" /\ attached' = FALSE
        /\ UNCHANGED <<got, ended, errors>>
    BY <1>4 DEF ReadNext, Continues, StartRead, transfer
  <2> QED
    BY <1>0, <1>1, <2>1 DEF Promise!Next, Promise!ChunkComplete, Promise!Live
<1>5. CASE ReadEnd
  <2>1. /\ at = "mtime" /\ at' = "over" /\ ended' = TRUE /\ UNCHANGED <<attached, got, errors>>
    BY <1>5 DEF ReadEnd, Continues
  <2>2. taken - 1 \in DOMAIN sent /\ sent[taken - 1].kind = "DONE" /\ sent[taken - 1].val = Len(got)
    BY <1>0, <2>1, Settled
  <2>3. verdict = "DONE" /\ Len(got) = size
    BY <1>1, <2>2 DEF FinalAt, Finals
  <2> QED
    BY <1>0, <1>1, <2>1, <2>3 DEF Promise!Next, Promise!Finish, Promise!Live
<1>6. CASE ReadFail
  <2>1. /\ at = "reply" /\ token.kind = "FAIL" /\ at' = "failLength" /\ ended' = TRUE
        /\ UNCHANGED <<attached, got, errors>>
    BY <1>6 DEF ReadFail, ReadError, Continues, StartRead
  <2>2. verdict = "FAIL"
    BY <1>0, <1>1, <2>1, Settled DEF FinalAt, Finals
  <2> QED
    BY <1>0, <1>1, <2>1, <2>2 DEF Promise!Next, Promise!Refused, Promise!Live
<1>7. CASE Unexpected
  <2>1. /\ at = "reply" /\ token.kind \notin {"DATA", "DONE", "FAIL"} /\ at' = "over"
        /\ ended' = TRUE /\ errors' = (IF attached THEN errors + 1 ELSE errors)
        /\ UNCHANGED <<attached, got>>
    BY <1>7 DEF Unexpected, Reject, Continues
  <2>2. token.kind = "JUNK" /\ taken \in DOMAIN sent /\ token = sent[taken]
    BY <1>0, <2>1, Settled DEF Finals
  <2>3. verdict = "JUNK"
    BY <1>1, <2>2 DEF FinalAt, Finals
  <2> QED
    BY <1>0, <2>1, <2>3 DEF Promise!Next, Promise!Fail
<1> QED
  BY <1>2, <1>3, <1>4, <1>5, <1>6, <1>7 DEF Continue

\* Every step is one of the transfer's, or none.
LEMMA Maps ==
    IInv /\ IInv' /\ Settling /\ Counted' /\ [Next]_vars => [Promise!Next]_Promise!vars
<1> SUFFICES ASSUME IInv, IInv', Settling, Counted', [Next]_vars
             PROVE  Promise!Next \/ UNCHANGED Promise!vars
  OBVIOUS
<1> USE DEF Promise!Next
<1>1. CASE DeviceSends
  <2>1. PICK n \in 0 .. MaxLen : size' = size + n
    BY <1>1 DEF DeviceSends
  <2>2. n \in Nat /\ size \in Nat
    BY PullAssumption DEF PullAssumption, IInv, TypeOK
  <2>3. /\ UNCHANGED <<attached, got, ended, errors, cancelled>> /\ at' = at
        /\ verdict = "none" /\ verdict' = verdict
    BY <1>1 DEF DeviceSends, read, transfer
  <2>4. CASE n = 0
    BY <2>1, <2>2, <2>3, <2>4 DEF Promise!vars, Promise!told
  <2>5. CASE n # 0
    BY <2>1, <2>2, <2>3, <2>5 DEF Promise!Send, Promise!told
  <2> QED
    BY <2>4, <2>5
<1>2. CASE DeviceAnswers
  BY <1>2 DEF DeviceAnswers, Promise!Answer, Promise!told, read, transfer
<1>3. CASE DeviceCloses \/ Arrive \/ UNCHANGED vars
  BY <1>3 DEF DeviceCloses, Arrive, vars, device, read, transfer, Promise!vars, Promise!told
<1>4. CASE Readable
  BY <1>4, ReadableMaps
<1>5. CASE StreamEnds
  BY <1>5 DEF StreamEnds, Reject, device, Promise!Fail
<1>6. CASE StreamBreaks \/ SocketTimesOut
  <2>1. /\ at # "over" /\ UNCHANGED <<size, verdict, attached, got, ended, cancelled>>
    BY <1>6 DEF StreamBreaks, SocketTimesOut, device
  <2>2. \/ at' # "over" /\ errors' = errors
        \/ at' = "over" /\ errors' = (IF attached THEN errors + 1 ELSE errors)
    BY <1>6, <2>1 DEF StreamBreaks, SocketTimesOut, Drain, Reject
  <2> QED
    BY <2>1, <2>2 DEF Promise!Fail, Promise!vars, Promise!told
<1>7. CASE Continue
  BY <1>7, ContinueMaps
<1>8. CASE Cancel
  BY <1>8 DEF Cancel, Stop, device, transfer, Promise!Cancel, Promise!Live
<1> QED
  BY <1>1, <1>2, <1>3, <1>4, <1>5, <1>6, <1>7, <1>8 DEF Next

\* What the user of a PullTransfer is told is what PullTransfer promises, for
\* every file, wherever the answer breaks off and whenever the user cancels: no
\* byte comes that the device has not sent, nothing after the end, a failure or
\* a cancel, 'end' after DONE only with the whole file (_readData, readEnd).
THEOREM KeepsPromise == Spec => ImplementsPullTransfer
<1>1. Init => Promise!Init
  <2> SUFFICES ASSUME Init PROVE Promise!Init
    OBVIOUS
  <2>1. Len(got) = 0
    BY DEF Init
  <2> QED
    BY <2>1 DEF Init, Promise!Init
<1>2. Init => Settling /\ Counted
  BY DEF Init, Settling, Counted
<1> QED
  BY <1>1, <1>2, IInvInit, IInvNext, SettlingNext, CountedNext, Maps, PTL
     DEF Spec, ImplementsPullTransfer, Promise!Spec
=============================================================================
