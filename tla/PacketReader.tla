---------------------------- MODULE PacketReader ----------------------------
(***************************************************************************)
(* PacketReader (src/adb/tcpusb/packetreader.ts) between the byte stream   *)
(* of a remote adb host and the Socket that handles its packets.           *)
(*                                                                         *)
(* The stream may split and join what the remote wrote at any byte.  A     *)
(* byte is known by its position in the stream: the reader has taken the   *)
(* bytes up to taken from the stream and consumed them up to at, so its    *)
(* buffer holds taken - at of them.  A header is HeaderLen bytes; read at  *)
(* the start of a packet it is that packet's, anywhere else it is garbage  *)
(* that may say anything.                                                  *)
(*                                                                         *)
(* _tryRead is two nested loops in one callback.  An action is one round   *)
(* of the inner loop, or one test of the outer one, and while the callback *)
(* runs (mode is not "idle") the stream delivers nothing.                  *)
(*                                                                         *)
(* An operator named Faulty... is a mistake the definition after it could  *)
(* have contained; no action uses it.                                      *)
(***************************************************************************)
EXTENDS Integers, Sequences

CONSTANTS
    HeaderLen,   \* 24 in the code
    MaxBody,     \* bound: longest body
    MaxPackets   \* bound: packets the remote sends

ASSUME ReaderAssumption ==
    HeaderLen \in Nat \ {0} /\ MaxBody \in Nat /\ MaxPackets \in Nat

VARIABLES
    sent,       \* the packets the remote sent
    total,      \* the bytes it sent
    fin,        \* it has half-closed the connection
    arrived,    \* bytes that have reached the stream's buffer
    taken,      \* bytes stream.read() has returned
    at,         \* bytes _consume has cut off
    inBody,     \* PacketReader.inBody
    packet,     \* PacketReader.packet
    mode,       \* no callback, _tryRead's outer loop, its inner loop
    immediate,  \* the _tryRead of setImmediate is due
    ended,      \* Socket.ended
    handled     \* the packets Socket._handle acted on

remote == <<sent, total, fin>>
reader == <<taken, at, inBody, packet, mode, immediate>>
socket == <<ended, handled>>
vars == <<remote, arrived, reader, socket>>

\* start: the position of its header.  magic, sum: it passes verifyMagic and
\* verifyChecksum.
Packet == [start : Nat, len : 0 .. MaxBody, magic : BOOLEAN, sum : BOOLEAN]
EndOf(p) == p.start + HeaderLen + p.len

\* A packet without a body is emitted without a look at its checksum.
Sound(p) == p.magic /\ (p.sum \/ p.len = 0)

\* What the reader makes of a header: index is the packet it belongs to, 0 if
\* it is garbage.
Header == [index : Nat, len : 0 .. MaxBody, magic : BOOLEAN, sum : BOOLEAN]
Garbage == [index : {0}, len : 0 .. MaxBody, magic : BOOLEAN, sum : BOOLEAN]
Nothing == [index |-> 0, len |-> 0, magic |-> FALSE, sum |-> FALSE]

HeaderOf(i) == [index |-> i, len |-> sent[i].len,
                magic |-> sent[i].magic, sum |-> sent[i].sum]
Starting == {i \in DOMAIN sent : sent[i].start = at}
HeadersHere == IF Starting = {} THEN Garbage ELSE {HeaderOf(i) : i \in Starting}

Init ==
    /\ sent = <<>> /\ total = 0 /\ fin = FALSE
    /\ arrived = 0 /\ taken = 0 /\ at = 0
    /\ inBody = FALSE /\ packet = Nothing
    /\ mode = "idle" /\ immediate = TRUE
    /\ ended = FALSE /\ handled = <<>>

(***************************************************************************)
(* The remote and the stream.                                              *)
(***************************************************************************)
RemoteSends ==
    /\ ~fin /\ Len(sent) < MaxPackets
    /\ \E p \in [start : {total}, len : 0 .. MaxBody, magic : BOOLEAN, sum : BOOLEAN] :
          sent' = Append(sent, p) /\ total' = EndOf(p)
    /\ UNCHANGED <<fin, arrived, reader, socket>>

RemoteEnds ==
    /\ ~fin /\ fin' = TRUE
    /\ UNCHANGED <<sent, total, arrived, reader, socket>>

Arrive ==
    /\ mode = "idle"
    /\ \E n \in (arrived + 1) .. total : arrived' = n
    /\ UNCHANGED <<remote, reader, socket>>

\* 'end' comes after everything was read; the socket ends.
StreamEnds ==
    /\ mode = "idle" /\ fin /\ taken = total
    /\ ended' = TRUE
    /\ UNCHANGED <<remote, arrived, reader, handled>>

\* A stream error, Server.end, or a packet the socket refuses.
SocketEnds ==
    /\ mode = "idle"
    /\ ended' = TRUE
    /\ UNCHANGED <<remote, arrived, reader, handled>>

(***************************************************************************)
(* _tryRead.                                                               *)
(***************************************************************************)
Readable ==
    /\ mode = "idle" /\ arrived > taken
    /\ mode' = "outer"
    /\ UNCHANGED <<remote, arrived, taken, at, inBody, packet, immediate, socket>>

Immediate ==
    /\ mode = "idle" /\ immediate
    /\ immediate' = FALSE /\ mode' = "outer"
    /\ UNCHANGED <<remote, arrived, taken, at, inBody, packet, socket>>

\* _appendChunk: read() returns all that is buffered, or null.
AppendChunk ==
    /\ mode = "outer"
    /\ taken' = arrived
    /\ mode' = IF arrived > taken THEN "inner" ELSE "idle"
    /\ UNCHANGED <<remote, arrived, at, inBody, packet, immediate, socket>>

Buffered == taken - at

FaultyHasHeader == Buffered > HeaderLen
HasHeader == Buffered >= HeaderLen
HasBody == Buffered >= packet.len

\* _consume leaves null for an empty buffer.
Stuck == Buffered = 0 \/ (IF inBody THEN ~HasBody ELSE ~HasHeader)

InnerEnds ==
    /\ mode = "inner" /\ Stuck
    /\ mode' = "outer"
    /\ UNCHANGED <<remote, arrived, taken, at, inBody, packet, immediate, socket>>

\* Socket._handle returns at once when the socket has ended.
FaultyHandle(h) == handled' = Append(handled, h.index)
Handle(h) == handled' = IF ended THEN handled ELSE Append(handled, h.index)

\* 'error' ends the socket; _tryRead returns.
EmitError == ended' = TRUE /\ mode' = "idle" /\ UNCHANGED handled

FaultyHasNoBody(h) == FALSE
HasNoBody(h) == h.len = 0

FaultyGoodMagic(h) == TRUE
GoodMagic(h) == h.magic

ReadHeader ==
    /\ mode = "inner" /\ ~inBody /\ ~Stuck
    /\ at' = at + HeaderLen
    /\ \E h \in HeadersHere :
          /\ packet' = h
          /\ \/ /\ ~GoodMagic(h)
                /\ EmitError /\ UNCHANGED inBody
             \/ /\ GoodMagic(h) /\ HasNoBody(h)
                /\ Handle(h) /\ UNCHANGED <<inBody, mode, ended>>
             \/ /\ GoodMagic(h) /\ ~HasNoBody(h)
                /\ inBody' = TRUE /\ UNCHANGED <<mode, ended, handled>>
    /\ UNCHANGED <<remote, arrived, taken, immediate>>

\* inBody stays set after a checksum error: the next bytes are tried as another
\* body of this packet, and may fit its checksum.
Consumed == packet.len

ReadBody ==
    /\ mode = "inner" /\ inBody /\ ~Stuck
    /\ at' = at + Consumed
    /\ \/ /\ ~packet.sum
          /\ EmitError /\ UNCHANGED inBody
          /\ \E fits \in BOOLEAN : packet' = [packet EXCEPT !.index = 0, !.sum = fits]
       \/ /\ packet.sum
          /\ Handle(packet)
          /\ inBody' = FALSE /\ UNCHANGED <<mode, ended, packet>>
    /\ UNCHANGED <<remote, arrived, taken, immediate>>

TryRead == AppendChunk \/ InnerEnds \/ ReadHeader \/ ReadBody

Next ==
    \/ RemoteSends \/ RemoteEnds \/ Arrive \/ StreamEnds \/ SocketEnds
    \/ Readable \/ Immediate \/ TryRead

Spec == Init /\ [][Next]_vars

(***************************************************************************)
(* The network delivers, and the event loop runs what is due.              *)
(***************************************************************************)
Fairness == WF_vars(Arrive) /\ WF_vars(Readable) /\ WF_vars(TryRead)

FairSpec == Spec /\ Fairness

------------------------------------------------------------------------------
(***************************************************************************)
(* The variables of the reader, the stream and the socket keep their       *)
(* types, and no byte is taken or consumed before it came.                 *)
(***************************************************************************)
TypeOK ==
    /\ sent \in Seq(Packet) /\ total \in Nat /\ fin \in BOOLEAN
    /\ arrived \in 0 .. total /\ taken \in 0 .. arrived /\ at \in 0 .. taken
    /\ inBody \in BOOLEAN /\ packet \in Header
    /\ mode \in {"idle", "outer", "inner"} /\ immediate \in BOOLEAN
    /\ ended \in BOOLEAN /\ handled \in Seq(Nat)

(***************************************************************************)
(* _tryRead: whatever the chunks, the socket handles the first packets of  *)
(* the stream in order, and none from the first damaged one on.            *)
(***************************************************************************)
PacketsIntact ==
    /\ Len(handled) <= Len(sent)
    /\ \A i \in DOMAIN handled : handled[i] = i /\ Sound(sent[i])

(***************************************************************************)
(* _tryRead: when it returns, no complete packet is left in its buffer,    *)
(* since the next 'readable' may never come.                               *)
(***************************************************************************)
NothingHeldBack ==
    mode = "idle" /\ ~ended
      => \A i \in DOMAIN sent : EndOf(sent[i]) <= taken => i <= Len(handled)

(***************************************************************************)
(* Reader and socket together implement PacketChannel.                     *)
(***************************************************************************)
Channel == INSTANCE PacketChannel WITH
    sent <- [i \in DOMAIN sent |-> Sound(sent[i])],
    over <- ended

ImplementsPacketChannel == Channel!Spec

(***************************************************************************)
(* A packet that follows sound packets only and is sound itself is handled *)
(* in the end, unless the socket ends.                                     *)
(***************************************************************************)
PacketsHandled ==
    \A n \in 1 .. MaxPackets :
        (Len(sent) >= n /\ \A i \in 1 .. n : Sound(sent[i]))
          ~> (Len(handled) >= n \/ ended)
==============================================================================
