-------------------------- MODULE PacketReaderProofs --------------------------
(***************************************************************************)
(* Proofs about PacketReader, for every length of header and bodies and    *)
(* every number of packets.                                                *)
(***************************************************************************)
EXTENDS PacketReader, TLAPS

(***************************************************************************)
(* The inductive invariant.  The packets lie end to end in the stream; as  *)
(* long as the socket lives the reader stands at the header or the body of *)
(* the first packet not handled, and outside its inner loop its buffer     *)
(* holds less than it waits for.                                           *)
(***************************************************************************)
StartOf(n) == IF n <= Len(sent) THEN sent[n].start ELSE total
Current == Len(handled) + 1

EndToEnd ==
    /\ StartOf(1) = 0
    /\ \A i \in DOMAIN sent : EndOf(sent[i]) = StartOf(i + 1)
    /\ \A i \in DOMAIN sent : EndOf(sent[i]) <= total
    /\ \A i, j \in DOMAIN sent : i < j => EndOf(sent[i]) <= sent[j].start

AtHeader == at = StartOf(Current)
AtBody ==
    /\ Current <= Len(sent) /\ packet = HeaderOf(Current)
    /\ sent[Current].magic /\ sent[Current].len > 0
    /\ at = sent[Current].start + HeaderLen

Aligned == ~ended => IF inBody THEN AtBody ELSE AtHeader
Waiting == ~ended /\ mode # "inner" => Stuck

IInv == TypeOK /\ EndToEnd /\ PacketsIntact /\ Aligned /\ Waiting

------------------------------------------------------------------------------
\* A header read at the start of a packet is that packet's.
LEMMA HeaderFound ==
    ASSUME TypeOK, EndToEnd, NEW n \in DOMAIN sent, at = sent[n].start
    PROVE  HeadersHere = {HeaderOf(n)}
<1> USE ReaderAssumption DEF ReaderAssumption
<1>1. \A i \in DOMAIN sent : sent[i] \in Packet
  BY DEF TypeOK
<1>2. \A i \in DOMAIN sent : i # n => sent[i].start # sent[n].start
  <2> SUFFICES ASSUME NEW i \in DOMAIN sent, i # n PROVE sent[i].start # sent[n].start
    OBVIOUS
  <2>1. i \in Int /\ n \in Int
    BY DEF TypeOK
  <2>2. /\ sent[i].start \in Nat /\ sent[n].start \in Nat
        /\ sent[i].len \in Nat /\ sent[n].len \in Nat
    BY <1>1 DEF Packet
  <2>3. CASE i < n
    BY <2>2, <2>3 DEF EndToEnd, EndOf
  <2>4. CASE n < i
    BY <2>2, <2>4 DEF EndToEnd, EndOf
  <2> QED
    BY <2>1, <2>3, <2>4
<1>3. Starting = {n}
  BY <1>2 DEF Starting
<1> QED
  BY <1>3 DEF HeadersHere

\* As long as the socket lives, the only header the reader can complete is the
\* one of the packet to be handled next.
LEMMA HeaderNext ==
    ASSUME IInv, ~ended, ~inBody, ~Stuck
    PROVE  /\ Current \in DOMAIN sent
           /\ at = sent[Current].start
           /\ HeadersHere = {HeaderOf(Current)}
<1> USE ReaderAssumption DEF ReaderAssumption
<1>1. at = StartOf(Current)
  BY DEF IInv, Aligned, AtHeader
<1>2. at + HeaderLen <= total /\ at \in Nat /\ total \in Nat
  BY DEF IInv, TypeOK, Stuck, HasHeader, Buffered
<1>3. Len(sent) \in Nat /\ Len(handled) \in Nat /\ DOMAIN sent = 1 .. Len(sent)
  BY DEF IInv, TypeOK
<1>4. Current <= Len(sent)
  BY <1>1, <1>2, <1>3 DEF StartOf, Current
<1>5. Current \in DOMAIN sent /\ at = sent[Current].start
  BY <1>1, <1>3, <1>4 DEF StartOf, Current
<1> QED
  BY <1>5, HeaderFound DEF IInv

\* A buffer that holds the rest of a packet is not too short for it.
LEMMA LongEnough ==
    ASSUME NEW have \in Nat, NEW from \in Nat, NEW need \in Nat,
           need > 0, from + need <= have
    PROVE  have - from # 0 /\ have - from >= need
<1> QED
  OBVIOUS

\* What is read as a header is one.
LEMMA HeaderType ==
    ASSUME TypeOK, NEW h \in HeadersHere
    PROVE  h \in Header
<1>1. CASE Starting = {}
  BY <1>1 DEF HeadersHere, Garbage, Header
<1>2. CASE Starting # {}
  <2>1. PICK i \in DOMAIN sent : h = HeaderOf(i)
    BY <1>2 DEF HeadersHere, Starting
  <2>2. sent[i] \in Packet /\ i \in Nat
    BY DEF TypeOK
  <2> QED
    BY <2>1, <2>2 DEF HeaderOf, Packet, Header
<1> QED
  BY <1>1, <1>2

\* The first state satisfies IInv.
LEMMA InitInv == Init => IInv
<1> SUFFICES ASSUME Init PROVE IInv
  OBVIOUS
<1> USE ReaderAssumption DEF ReaderAssumption, Init
<1>1. TypeOK
  <2>1. 0 \in Nat /\ 0 \in 0 .. MaxBody
    OBVIOUS
  <2>2. Nothing \in Header
    BY ONLY <2>1 DEF Nothing, Header
  <2>3. sent \in Seq(Packet) /\ handled \in Seq(Nat)
    OBVIOUS
  <2>4. arrived \in 0 .. total /\ taken \in 0 .. arrived /\ at \in 0 .. taken /\ total \in Nat
    OBVIOUS
  <2> QED
    BY <2>2, <2>3, <2>4, Zenon DEF TypeOK
<1>2. EndToEnd
  BY DEF EndToEnd, StartOf
<1>3. PacketsIntact
  BY DEF PacketsIntact
<1>4. Aligned
  BY DEF Aligned, AtHeader, StartOf, Current
<1>5. Waiting
  BY DEF Waiting, Stuck, Buffered
<1> QED
  BY <1>1, <1>2, <1>3, <1>4, <1>5 DEF IInv

------------------------------------------------------------------------------
\* One more packet at the end of the stream.
LEMMA RemoteSendsInv == IInv /\ RemoteSends => IInv'
<1> SUFFICES ASSUME IInv, RemoteSends PROVE IInv'
  OBVIOUS
<1> USE ReaderAssumption DEF ReaderAssumption
<1>1. PICK p \in Packet : p.start = total /\ sent' = Append(sent, p) /\ total' = EndOf(p)
  BY DEF RemoteSends, Packet, IInv, TypeOK
<1>2. UNCHANGED <<fin, arrived, reader, socket>>
  BY DEF RemoteSends
<1>3. /\ sent \in Seq(Packet) /\ total \in Nat
      /\ p.start \in Nat /\ p.len \in Nat
      /\ sent' \in Seq(Packet) /\ Len(sent') = Len(sent) + 1
      /\ \A i \in DOMAIN sent : sent'[i] = sent[i]
      /\ sent'[Len(sent) + 1] = p
      /\ Len(sent) \in Nat
      /\ DOMAIN sent = 1 .. Len(sent) /\ DOMAIN sent' = 1 .. (Len(sent) + 1)
  BY <1>1 DEF IInv, TypeOK, Packet
<1>4. total' \in Nat /\ total <= total'
  BY <1>1, <1>3 DEF EndOf
<1>5. TypeOK'
  BY <1>2, <1>3, <1>4 DEF IInv, TypeOK, reader, socket
<1>6. \A i \in DOMAIN sent : sent[i].start \in Nat /\ sent[i].len \in Nat /\ EndOf(sent[i]) \in Nat
  <2> SUFFICES ASSUME NEW i \in DOMAIN sent
               PROVE  sent[i].start \in Nat /\ sent[i].len \in Nat /\ EndOf(sent[i]) \in Nat
    OBVIOUS
  <2>1. sent[i] \in Packet
    BY <1>3
  <2>2. sent[i].start \in Nat /\ sent[i].len \in Nat
    BY <2>1 DEF Packet
  <2> QED
    BY <2>2 DEF EndOf
<1>7. \A n \in 1 .. (Len(sent) + 1) : StartOf(n)' = StartOf(n)
  BY <1>1, <1>3 DEF StartOf
<1>8. EndToEnd'
  <2>1. StartOf(1)' = 0
    BY <1>3, <1>7 DEF IInv, EndToEnd
  <2>2. \A i \in DOMAIN sent' : (EndOf(sent[i]) = StartOf(i + 1))'
    BY <1>1, <1>3, <1>7 DEF IInv, EndToEnd, StartOf, EndOf
  <2>3. \A i \in DOMAIN sent' : EndOf(sent'[i]) <= total'
    BY <1>1, <1>3, <1>4, <1>6 DEF IInv, EndToEnd, EndOf
  <2>4. \A i, j \in DOMAIN sent' : i < j => EndOf(sent'[i]) <= sent'[j].start
    BY <1>1, <1>3, <1>6 DEF IInv, EndToEnd
  <2> QED
    BY <2>1, <2>2, <2>3, <2>4 DEF EndToEnd
<1>9. Len(handled) \in Nat /\ Len(handled) <= Len(sent) /\ handled' = handled
      /\ DOMAIN handled = 1 .. Len(handled)
  BY <1>2 DEF IInv, TypeOK, PacketsIntact, socket
<1>10. PacketsIntact'
  BY <1>3, <1>9 DEF IInv, PacketsIntact
<1>11. Aligned'
  <2> SUFFICES ASSUME ~ended PROVE (IF inBody THEN AtBody ELSE AtHeader)'
    BY <1>2 DEF Aligned, socket
  <2>1. at' = at /\ packet' = packet /\ inBody' = inBody /\ Current' = Current
    BY <1>2 DEF reader, socket, Current
  <2>2. Current \in 1 .. (Len(sent) + 1)
    BY <1>3, <1>9 DEF Current
  <2>3. CASE inBody
    <3>1. AtBody /\ Current \in DOMAIN sent
      BY <1>3, <2>2, <2>3 DEF IInv, Aligned, AtBody
    <3>2. sent'[Current] = sent[Current]
      BY <1>3, <3>1
    <3>3. HeaderOf(Current)' = HeaderOf(Current)
      BY <2>1, <3>2 DEF HeaderOf
    <3>4. AtBody'
      BY <1>3, <2>1, <3>1, <3>2, <3>3 DEF AtBody
    <3> QED
      BY <2>1, <2>3, <3>4
  <2>4. CASE ~inBody
    BY <1>7, <2>1, <2>2, <2>4 DEF IInv, Aligned, AtHeader, StartOf
  <2> QED
    BY <2>3, <2>4
<1>12. Waiting'
  BY <1>2 DEF IInv, Waiting, Stuck, Buffered, HasBody, HasHeader, reader, socket
<1> QED
  BY <1>5, <1>8, <1>10, <1>11, <1>12 DEF IInv

\* Steps that leave the packets, the position and the socket alone, or only
\* end the socket.
LEMMA QuietStep ==
    ASSUME IInv, TypeOK', UNCHANGED <<sent, total, at, inBody, packet, handled>>,
           ended => ended', Waiting'
    PROVE  IInv'
<1>1. EndToEnd' /\ PacketsIntact'
  BY DEF IInv, EndToEnd, StartOf, PacketsIntact
<1>2. Aligned'
  BY DEF IInv, Aligned, AtHeader, AtBody, StartOf, Current, HeaderOf
<1> QED
  BY <1>1, <1>2 DEF IInv

\* The remote, the stream and the socket's end preserve IInv.
LEMMA StreamInv ==
    IInv /\ (RemoteEnds \/ Arrive \/ StreamEnds \/ SocketEnds) => IInv'
<1> SUFFICES ASSUME IInv, RemoteEnds \/ Arrive \/ StreamEnds \/ SocketEnds PROVE IInv'
  OBVIOUS
<1>1. CASE RemoteEnds
  BY <1>1, QuietStep DEF RemoteEnds, IInv, TypeOK, Waiting, Stuck, Buffered, HasBody,
                         HasHeader, reader, socket
<1>2. CASE Arrive
  BY <1>2, QuietStep DEF Arrive, IInv, TypeOK, Waiting, Stuck, Buffered, HasBody,
                         HasHeader, remote, reader, socket
<1>3. CASE StreamEnds \/ SocketEnds
  BY <1>3, QuietStep DEF StreamEnds, SocketEnds, IInv, TypeOK, Waiting, remote, reader
<1> QED
  BY <1>1, <1>2, <1>3

\* The loop around the reads preserves IInv.
LEMMA LoopInv == IInv /\ (Readable \/ Immediate \/ AppendChunk \/ InnerEnds) => IInv'
<1> SUFFICES ASSUME IInv, Readable \/ Immediate \/ AppendChunk \/ InnerEnds PROVE IInv'
  OBVIOUS
<1>1. CASE Readable
  BY <1>1, QuietStep DEF Readable, IInv, TypeOK, Waiting, Stuck, Buffered, HasBody,
                         HasHeader, remote, socket
<1>2. CASE Immediate
  BY <1>2, QuietStep DEF Immediate, IInv, TypeOK, Waiting, Stuck, Buffered, HasBody,
                         HasHeader, remote, socket
<1>3. CASE AppendChunk
  BY <1>3, QuietStep DEF AppendChunk, IInv, TypeOK, Waiting, Stuck, Buffered, HasBody,
                         HasHeader, remote, socket
<1>4. CASE InnerEnds
  BY <1>4, QuietStep DEF InnerEnds, IInv, TypeOK, Waiting, Stuck, Buffered, HasBody,
                         HasHeader, remote, socket
<1> QED
  BY <1>1, <1>2, <1>3, <1>4

\* Once the socket has ended only the types matter.
LEMMA DeadStep ==
    ASSUME IInv, TypeOK', UNCHANGED <<sent, total, handled>>, ended'
    PROVE  IInv'
<1>1. EndToEnd' /\ PacketsIntact'
  BY DEF IInv, EndToEnd, StartOf, PacketsIntact
<1> QED
  BY <1>1 DEF IInv, Aligned, Waiting

\* The packet at Current is handled and the reader moves to its end.
LEMMA HandleStep ==
    ASSUME IInv, ~ended, TypeOK', UNCHANGED <<sent, total, mode, ended>>,
           Current \in DOMAIN sent, Sound(sent[Current]),
           handled' = Append(handled, Current),
           at' = EndOf(sent[Current]), ~inBody', mode = "inner"
    PROVE  IInv'
<1>1. handled \in Seq(Nat) /\ Len(handled) \in Nat /\ Current \in Nat
      /\ DOMAIN sent = 1 .. Len(sent) /\ Len(sent) \in Nat
  BY DEF IInv, TypeOK, Current
<1>2. Len(handled') = Current /\ handled'[Current] = Current
      /\ DOMAIN handled' = 1 .. Current
      /\ \A i \in DOMAIN handled : handled'[i] = handled[i]
      /\ DOMAIN handled = 1 .. Len(handled)
  BY <1>1 DEF Current
<1>3. EndToEnd'
  BY DEF IInv, EndToEnd, StartOf
<1>4. PacketsIntact'
  <2>1. Len(handled') <= Len(sent')
    BY <1>1, <1>2
  <2>2. ASSUME NEW i \in DOMAIN handled'
        PROVE  handled'[i] = i /\ Sound(sent'[i])
    <3>1. CASE i = Current
      BY <1>2, <3>1
    <3>2. CASE i # Current
      <4>1. i \in DOMAIN handled
        BY <1>1, <1>2, <3>2 DEF Current
      <4> QED
        BY <1>2, <4>1 DEF IInv, PacketsIntact
    <3> QED
      BY <3>1, <3>2
  <2> QED
    BY <2>1, <2>2 DEF PacketsIntact
<1>5. Aligned'
  <2>1. Current' = Current + 1
    BY <1>2 DEF Current
  <2>2. StartOf(Current + 1) = EndOf(sent[Current])
    BY DEF IInv, EndToEnd
  <2> QED
    BY <2>1, <2>2 DEF Aligned, AtHeader, StartOf
<1>6. Waiting'
  BY DEF Waiting
<1> QED
  BY <1>3, <1>4, <1>5, <1>6 DEF IInv

\* Reading a header preserves IInv.
LEMMA ReadHeaderInv == IInv /\ ReadHeader => IInv'
<1> SUFFICES ASSUME IInv, ReadHeader PROVE IInv'
  OBVIOUS
<1> USE ReaderAssumption DEF ReaderAssumption
<1>1. mode = "inner" /\ ~inBody /\ ~Stuck /\ at' = at + HeaderLen
      /\ UNCHANGED <<sent, total, fin, arrived, taken, immediate>>
  BY DEF ReadHeader, remote
<1>2. PICK h \in HeadersHere :
        /\ packet' = h
        /\ \/ ~GoodMagic(h) /\ EmitError /\ UNCHANGED inBody
           \/ GoodMagic(h) /\ HasNoBody(h) /\ Handle(h) /\ UNCHANGED <<inBody, mode, ended>>
           \/ GoodMagic(h) /\ ~HasNoBody(h) /\ inBody' = TRUE
              /\ UNCHANGED <<mode, ended, handled>>
  BY DEF ReadHeader
<1>3. h \in Header
  BY HeaderType DEF IInv
<1>4. at' \in 0 .. taken
  BY <1>1 DEF IInv, TypeOK, Stuck, HasHeader, Buffered
<1>5. handled' \in Seq(Nat)
  <2>1. h.index \in Nat /\ handled \in Seq(Nat)
    BY <1>3 DEF IInv, TypeOK, Header
  <2>2. Append(handled, h.index) \in Seq(Nat)
    BY <2>1
  <2> QED
    BY <1>2, <2>1, <2>2 DEF EmitError, Handle
<1>6. TypeOK'
  <2>1. mode' \in {"idle", "outer", "inner"} /\ ended' \in BOOLEAN /\ inBody' \in BOOLEAN
    BY <1>2 DEF IInv, TypeOK, EmitError
  <2> QED
    BY <1>1, <1>2, <1>3, <1>4, <1>5, <2>1 DEF IInv, TypeOK
<1>7. CASE ended
  BY <1>1, <1>2, <1>6, <1>7, DeadStep DEF EmitError, Handle
<1>8. CASE ~ended
  <2>1. Current \in DOMAIN sent /\ at = sent[Current].start /\ h = HeaderOf(Current)
    BY <1>1, <1>2, <1>8, HeaderNext
  <2>2. sent[Current] \in Packet
    BY <2>1 DEF IInv, TypeOK
  <2>3. CASE ~GoodMagic(h) /\ EmitError /\ UNCHANGED inBody
    BY <1>1, <1>6, <2>3, DeadStep DEF EmitError
  <2>4. CASE GoodMagic(h) /\ HasNoBody(h) /\ Handle(h) /\ UNCHANGED <<inBody, mode, ended>>
    <3>1. Sound(sent[Current]) /\ at' = EndOf(sent[Current])
      BY <1>1, <2>1, <2>2, <2>4 DEF GoodMagic, HasNoBody, HeaderOf, Sound, EndOf, Packet
    <3>2. handled' = Append(handled, Current)
      BY <1>8, <2>1, <2>4 DEF Handle, HeaderOf
    <3> QED
      BY <1>1, <1>6, <1>8, <2>1, <2>4, <3>1, <3>2, HandleStep
  <2>5. CASE GoodMagic(h) /\ ~HasNoBody(h) /\ inBody' = TRUE /\ UNCHANGED <<mode, ended, handled>>
    <3>1. EndToEnd' /\ PacketsIntact'
      BY <1>1, <2>5 DEF IInv, EndToEnd, StartOf, PacketsIntact
    <3>2. Current' = Current /\ Current <= Len(sent)
      BY <2>1, <2>5 DEF Current, IInv, TypeOK
    <3>3. AtBody'
      BY <1>1, <1>2, <2>1, <2>2, <2>5, <3>2
         DEF AtBody, HeaderOf, GoodMagic, HasNoBody, Packet
    <3>4. Aligned' /\ Waiting'
      BY <1>1, <2>5, <3>3 DEF Aligned, Waiting
    <3> QED
      BY <1>6, <3>1, <3>4 DEF IInv
  <2> QED
    BY <1>2, <2>3, <2>4, <2>5
<1> QED
  BY <1>7, <1>8

\* Reading a body preserves IInv.
LEMMA ReadBodyInv == IInv /\ ReadBody => IInv'
<1> SUFFICES ASSUME IInv, ReadBody PROVE IInv'
  OBVIOUS
<1> USE ReaderAssumption DEF ReaderAssumption
<1>1. mode = "inner" /\ inBody /\ ~Stuck /\ at' = at + packet.len
      /\ UNCHANGED <<sent, total, fin, arrived, taken, immediate>>
  BY DEF ReadBody, remote, Consumed
<1>2. \/ ~packet.sum /\ EmitError /\ UNCHANGED inBody
      \/ packet.sum /\ Handle(packet) /\ inBody' = FALSE /\ UNCHANGED <<mode, ended, packet>>
  BY DEF ReadBody
<1>3. packet \in Header /\ packet.len \in Nat /\ packet.index \in Nat
  BY DEF IInv, TypeOK, Header
<1>4. packet' \in Header
  <2>1. CASE ~packet.sum
    <3>1. PICK fits \in BOOLEAN : packet' = [packet EXCEPT !.index = 0, !.sum = fits]
      BY <2>1 DEF ReadBody
    <3> QED
      BY ONLY <1>3, <3>1 DEF Header
  <2> QED
    BY <1>2, <1>3, <2>1
<1>5. at' \in 0 .. taken
  BY <1>1, <1>3 DEF IInv, TypeOK, Stuck, HasBody, Buffered
<1>6. handled' \in Seq(Nat)
  BY <1>2, <1>3 DEF IInv, TypeOK, EmitError, Handle
<1>7. TypeOK'
  <2>1. mode' \in {"idle", "outer", "inner"} /\ ended' \in BOOLEAN /\ inBody' \in BOOLEAN
    BY <1>2 DEF IInv, TypeOK, EmitError
  <2> QED
    BY <1>1, <1>5, <1>6, <1>4, <2>1 DEF IInv, TypeOK
<1>8. CASE ended \/ ~packet.sum
  <2>1. ended' /\ handled' = handled
    BY <1>2, <1>8 DEF EmitError, Handle
  <2> QED
    BY <1>1, <1>7, <2>1, DeadStep
<1>9. CASE ~ended /\ packet.sum
  <2>1. AtBody
    BY <1>1, <1>9 DEF IInv, Aligned
  <2>2. Current \in DOMAIN sent /\ sent[Current] \in Packet
    BY <2>1 DEF IInv, TypeOK, AtBody, Current
  <2>3. Sound(sent[Current]) /\ at' = EndOf(sent[Current])
    BY <1>1, <1>9, <2>1, <2>2 DEF AtBody, HeaderOf, Sound, EndOf, Packet
  <2>4. handled' = Append(handled, Current)
    BY <1>2, <1>9, <2>1 DEF Handle, HeaderOf, AtBody
  <2> QED
    BY <1>1, <1>2, <1>7, <1>9, <2>2, <2>3, <2>4, HandleStep
<1> QED
  BY <1>8, <1>9

\* Every step preserves IInv.
LEMMA NextInv == IInv /\ [Next]_vars => IInv'
<1> SUFFICES ASSUME IInv, [Next]_vars PROVE IInv'
  OBVIOUS
<1>1. CASE Next
  BY <1>1, RemoteSendsInv, StreamInv, LoopInv, ReadHeaderInv, ReadBodyInv
     DEF Next, TryRead
<1>2. CASE UNCHANGED vars
  BY <1>2, QuietStep DEF vars, remote, reader, socket, IInv, TypeOK, Waiting, Stuck,
                         Buffered, HasBody, HasHeader
<1> QED
  BY <1>1, <1>2

\* IInv is an invariant.
LEMMA Invariance == Spec => []IInv
<1> QED
  BY InitInv, NextInv, PTL DEF Spec

------------------------------------------------------------------------------
(***************************************************************************)
(* Whatever the chunks, the socket handles the first packets of the stream *)
(* in order and none from the first damaged one on.                        *)
(***************************************************************************)
THEOREM HandledIntact == Spec => []PacketsIntact
<1>1. IInv => PacketsIntact
  BY DEF IInv
<1> QED
  BY <1>1, Invariance, PTL

(***************************************************************************)
(* _tryRead never returns with a complete packet in its buffer.            *)
(***************************************************************************)
THEOREM NoneHeldBack == Spec => []NothingHeldBack
<1>1. IInv => NothingHeldBack
  <2> SUFFICES ASSUME IInv, mode = "idle", ~ended, NEW i \in DOMAIN sent,
                      EndOf(sent[i]) <= taken, i > Len(handled)
               PROVE  FALSE
    BY DEF NothingHeldBack, IInv, TypeOK
  <2> USE ReaderAssumption DEF ReaderAssumption
  <2>1. Stuck
    BY DEF IInv, Waiting
  <2>2. /\ i \in Nat /\ Len(sent) \in Nat /\ i <= Len(sent) /\ Len(handled) \in Nat
        /\ taken \in Nat /\ at \in Nat
    BY DEF IInv, TypeOK
  <2>3. Current \in DOMAIN sent /\ Current <= i
    BY <2>2 DEF IInv, TypeOK, Current
  <2>4. sent[Current] \in Packet /\ sent[i] \in Packet
    BY <2>3 DEF IInv, TypeOK
  <2>5. EndOf(sent[Current]) <= EndOf(sent[i])
    <3>1. CASE Current = i
      BY <2>4, <3>1 DEF EndOf, Packet
    <3>2. CASE Current < i
      <4>1. EndOf(sent[Current]) <= sent[i].start
        BY <2>3, <3>2 DEF IInv, EndToEnd
      <4> QED
        BY <2>4, <4>1 DEF EndOf, Packet
    <3> QED
      BY <2>2, <2>3, <3>1, <3>2 DEF Current
  <2>6. /\ sent[Current].start \in Nat /\ sent[Current].len \in Nat
        /\ sent[Current].start + HeaderLen + sent[Current].len <= taken
    BY <2>2, <2>4, <2>5 DEF EndOf, Packet
  <2>7. CASE inBody
    <3>1. AtBody
      BY <2>7 DEF IInv, Aligned
    <3>2. packet.len = sent[Current].len
      BY <3>1 DEF AtBody, HeaderOf
    <3>3. /\ at = sent[Current].start + HeaderLen /\ sent[Current].len > 0
          /\ taken - at = 0 \/ ~(taken - at >= sent[Current].len)
      BY <2>1, <2>7, <3>1, <3>2 DEF AtBody, Stuck, HasBody, Buffered
    <3> QED
      BY <2>2, <2>6, <3>3, LongEnough
  <2>8. CASE ~inBody
    <3>1. at = sent[Current].start
      BY <2>2, <2>3, <2>8 DEF IInv, Aligned, AtHeader, StartOf
    <3>2. taken - at = 0 \/ ~(taken - at >= HeaderLen)
      BY <2>1, <2>8 DEF Stuck, HasHeader, Buffered
    <3> QED
      <4>1. HeaderLen \in Nat /\ HeaderLen > 0
        BY ReaderAssumption DEF ReaderAssumption
      <4>2. at + HeaderLen <= taken
        BY <2>2, <2>6, <3>1, <4>1
      <4> QED
        BY ONLY <2>2, <3>2, <4>1, <4>2, LongEnough
  <2> QED
    BY <2>7, <2>8
<1> QED
  BY <1>1, Invariance, PTL

------------------------------------------------------------------------------
\* What PacketChannel sees of the packets sent.
Intact == [i \in DOMAIN sent |-> Sound(sent[i])]

\* A packet the remote sends is one that the channel sends.
LEMMA SendMaps == IInv /\ RemoteSends => Channel!Send
<1> SUFFICES ASSUME IInv, RemoteSends PROVE Channel!Send
  OBVIOUS
<1>1. PICK p \in Packet : sent' = Append(sent, p)
  BY DEF RemoteSends, Packet, IInv, TypeOK
<1>2. /\ sent \in Seq(Packet) /\ Len(sent) \in Nat /\ DOMAIN sent = 1 .. Len(sent)
      /\ DOMAIN sent' = 1 .. (Len(sent) + 1)
      /\ \A i \in 1 .. Len(sent) : sent'[i] = sent[i]
      /\ sent'[Len(sent) + 1] = p
  BY <1>1 DEF IInv, TypeOK
<1>3. DEFINE intact == p.magic /\ (p.sum \/ p.len = 0)
<1>4. intact \in BOOLEAN
  BY DEF Packet
<1>5. /\ Intact \in Seq(BOOLEAN) /\ Len(Intact) = Len(sent)
      /\ \A i \in 1 .. Len(sent) : Intact[i] = Sound(sent[i])
  <2>1. \A i \in 1 .. Len(sent) : Sound(sent[i]) \in BOOLEAN
    BY <1>2 DEF Packet, Sound
  <2>2. Intact \in [1 .. Len(sent) -> BOOLEAN]
    BY <1>2, <2>1 DEF Intact
  <2> QED
    BY <1>2, <2>2 DEF Intact
<1>6. Intact' = Append(Intact, intact)
  <2>1. Intact' = [i \in 1 .. (Len(sent) + 1) |-> Sound(sent'[i])]
    BY <1>2 DEF Intact
  <2>2. \A i \in 1 .. (Len(sent) + 1) :
           Sound(sent'[i]) = (IF i = Len(sent) + 1 THEN intact ELSE Intact[i])
    BY <1>2, <1>5 DEF Sound
  <2>3. Append(Intact, intact)
          = [i \in 1 .. (Len(sent) + 1) |-> IF i = Len(sent) + 1 THEN intact ELSE Intact[i]]
    BY <1>2, <1>5
  <2> QED
    BY <2>1, <2>2, <2>3
<1>7. UNCHANGED <<handled, ended>>
  BY DEF RemoteSends, socket
<1> QED
  BY <1>4, <1>6, <1>7 DEF Channel!Send, Intact

\* A round of the inner loop handles the next packet, ends the socket, or
\* shows nothing to it.
LEMMA ReadOutcome ==
    ASSUME IInv, ReadHeader \/ ReadBody
    PROVE  \/ UNCHANGED <<ended, handled>>
           \/ ~ended /\ ended' = TRUE /\ UNCHANGED handled
           \/ /\ ~ended /\ UNCHANGED ended
              /\ Current \in DOMAIN sent /\ Sound(sent[Current])
              /\ handled' = Append(handled, Current)
<1>1. CASE ReadHeader
  <2>1. PICK h \in HeadersHere :
           \/ ~GoodMagic(h) /\ EmitError
           \/ GoodMagic(h) /\ HasNoBody(h) /\ Handle(h) /\ UNCHANGED ended
           \/ UNCHANGED <<ended, handled>>
    BY <1>1 DEF ReadHeader
  <2>2. CASE ended
    BY <2>1, <2>2 DEF EmitError, Handle, IInv, TypeOK
  <2>3. CASE ~ended
    <3>1. ~inBody /\ ~Stuck
      BY <1>1 DEF ReadHeader
    <3>2. Current \in DOMAIN sent /\ h = HeaderOf(Current)
      BY <2>1, <2>3, <3>1, HeaderNext
    <3>3. GoodMagic(h) /\ HasNoBody(h) => Sound(sent[Current])
      BY <3>2 DEF GoodMagic, HasNoBody, HeaderOf, Sound
    <3>4. Handle(h) => handled' = Append(handled, Current)
      BY <2>3, <3>2 DEF Handle, HeaderOf
    <3> QED
      BY <2>1, <2>3, <3>2, <3>3, <3>4 DEF EmitError
  <2> QED
    BY <2>2, <2>3
<1>2. CASE ReadBody
  <2>1. \/ ~packet.sum /\ EmitError
        \/ packet.sum /\ Handle(packet) /\ UNCHANGED ended
    BY <1>2 DEF ReadBody
  <2>2. CASE ended
    BY <2>1, <2>2 DEF EmitError, Handle, IInv, TypeOK
  <2>3. CASE ~ended
    <3>1. AtBody
      BY <1>2, <2>3 DEF ReadBody, IInv, Aligned
    <3>2. Current \in DOMAIN sent
      BY <3>1 DEF IInv, TypeOK, AtBody, Current
    <3>3. packet.sum => Sound(sent[Current])
      BY <3>1 DEF AtBody, HeaderOf, Sound
    <3>4. Handle(packet) => handled' = Append(handled, Current)
      BY <2>3, <3>1 DEF Handle, HeaderOf, AtBody
    <3> QED
      BY <2>1, <2>3, <3>2, <3>3, <3>4 DEF EmitError
  <2> QED
    BY <2>2, <2>3
<1> QED
  BY <1>1, <1>2

\* A read handles a packet, breaks the channel, or is not seen in it.
LEMMA ReadMaps ==
    ASSUME IInv, ReadHeader \/ ReadBody
    PROVE  Channel!Handle \/ Channel!Break \/ UNCHANGED <<sent, handled, ended>>
<1>1. UNCHANGED sent
  BY DEF ReadHeader, ReadBody, remote
<1>2. Intact' = Intact
  BY <1>1 DEF Intact
<1>3. CASE UNCHANGED <<ended, handled>>
  BY <1>1, <1>3
<1>4. CASE ~ended /\ ended' = TRUE /\ UNCHANGED handled
  BY <1>2, <1>4 DEF Channel!Break, Intact
<1>5. CASE /\ ~ended /\ UNCHANGED ended
           /\ Current \in DOMAIN sent /\ Sound(sent[Current])
           /\ handled' = Append(handled, Current)
  <2>1. Intact[Len(handled) + 1]
    BY <1>5 DEF Intact, Current
  <2>2. DOMAIN Intact = 1 .. Len(sent) /\ Len(sent) \in Nat /\ Len(handled) \in Nat
    BY DEF Intact, IInv, TypeOK
  <2>3. Len(Intact) = Len(sent)
    BY <2>2
  <2>4. Len(handled) < Len(Intact)
    BY <1>5, <2>2, <2>3 DEF Current, IInv, TypeOK
  <2> QED
    BY <1>2, <1>5, <2>1, <2>4 DEF Channel!Handle, Intact, Current
<1> QED
  BY <1>3, <1>4, <1>5, ReadOutcome

(***************************************************************************)
(* Reader and socket implement PacketChannel: the packets are handled in   *)
(* order, each once, up to the first damaged one, whatever the chunks.     *)
(***************************************************************************)
THEOREM Refinement == Spec => ImplementsPacketChannel
<1>1. Init => Channel!Init
  <2> SUFFICES ASSUME Init PROVE Channel!Init
    OBVIOUS
  <2>1. DOMAIN Intact = {} /\ Intact = [i \in {} |-> Sound(sent[i])]
    BY DEF Init, Intact
  <2>2. Intact = <<>>
    BY <2>1
  <2> QED
    BY <2>2 DEF Init, Channel!Init, Intact
<1>2. IInv /\ [Next]_vars => [Channel!Next]_Channel!vars
  <2> SUFFICES ASSUME IInv, [Next]_vars PROVE [Channel!Next]_Channel!vars
    OBVIOUS
  <2>1. UNCHANGED <<sent, handled, ended>> => UNCHANGED Channel!vars
    BY DEF Channel!vars
  <2>2. CASE RemoteSends
    BY <2>2, SendMaps DEF Channel!Next
  <2>3. CASE ReadHeader \/ ReadBody
    BY <2>1, <2>3, ReadMaps DEF Channel!Next
  <2>4. CASE StreamEnds \/ SocketEnds
    <3>1. UNCHANGED <<sent, handled>> /\ ended' = TRUE /\ ended \in BOOLEAN
      BY <2>4 DEF StreamEnds, SocketEnds, remote, IInv, TypeOK
    <3> QED
      BY <2>1, <3>1 DEF Channel!Next, Channel!Break
  <2>5. CASE \/ RemoteEnds \/ Arrive \/ Readable \/ Immediate
             \/ AppendChunk \/ InnerEnds \/ UNCHANGED vars
    BY <2>1, <2>5 DEF RemoteEnds, Arrive, Readable, Immediate, AppendChunk,
                      InnerEnds, vars, remote, socket
  <2> QED
    BY <2>2, <2>3, <2>4, <2>5 DEF Next, TryRead
<1> QED
  BY <1>1, <1>2, Invariance, PTL DEF Spec, ImplementsPacketChannel, Channel!Spec
==============================================================================
